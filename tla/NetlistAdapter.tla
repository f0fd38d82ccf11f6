--------------------------- MODULE NetlistAdapter ---------------------------
(***************************************************************************)
(* NetlistAdapter::elaborate of src/frontend/netlist/netlist_adapter.cpp,  *)
(* one step per pass: the written netlist is parsed and flattened, drawn   *)
(* as a graph, its registers renamed, marked and regrouped, their clocks   *)
(* resolved; then the graph is tested for truncation, compacted and        *)
(* validated.                                                              *)
(***************************************************************************)
EXTENDS WrittenNetlist, Compact

CONSTANT Designs     (* written netlists with the options they are read with *)

VARIABLES
  design,
  flat,              (* the module that is drawn                            *)
  b,                 (* the builder; b.g is result.graph                    *)
  before,            (* b as it was before registers were regrouped         *)
  stage,             (* the pass to come                                    *)
  ok                 (* result.ok                                           *)

vars == <<design, flat, b, before, stage, ok>>

NoBuilder == NewBuilder(EmptyModule(""), 0, 0)

Init ==
  /\ design \in Designs
  /\ flat = EmptyModule("")
  /\ b = NoBuilder /\ before = NoBuilder
  /\ stage = "parse"
  /\ ok = FALSE

Parse ==
  LET Flattened(m) ==
        IF m.ok THEN flat' = m /\ stage' = "build" ELSE flat' = flat /\ stage' = "end"
      Parsed(p) ==
        IF p.ok THEN Flattened(FlattenHierarchy(p.module, p.modules))
        ELSE flat' = flat /\ stage' = "end" IN
  /\ stage = "parse"
  /\ Parsed(ParseNetlist(design.modules, design.top))
  /\ UNCHANGED <<design, b, before, ok>>

BuildGraph ==
  /\ stage = "build"
  /\ b' = Build(flat, design.lib, design.max_nodes, design.max_edges)
  /\ stage' = "rename"
  /\ UNCHANGED <<design, flat, before, ok>>

RenameRegisters ==
  /\ stage = "rename"
  /\ b' = ApplyNameMap(b, design.entries)
  /\ stage' = "gray"
  /\ UNCHANGED <<design, flat, before, ok>>

MarkGray ==
  /\ stage = "gray"
  /\ b' = AnnotateGrayRegisters(b)
  /\ before' = b'
  /\ stage' = "regroup"
  /\ UNCHANGED <<design, flat, ok>>

Regrouped ==
  /\ stage = "regroup"
  /\ b' = RegroupBuses(b)
  /\ stage' = "resolve"
  /\ UNCHANGED <<design, flat, before, ok>>

Resolve ==
  /\ stage = "resolve"
  /\ b' = ResolveClocks(b)
  /\ stage' = "check"
  /\ UNCHANGED <<design, flat, before, ok>>

CheckTruncated ==
  /\ stage = "check"
  /\ stage' = IF b.g.truncated THEN "end" ELSE "compact"
  /\ UNCHANGED <<design, flat, b, before, ok>>

Compacted ==
  /\ stage = "compact"
  /\ stage' = "validate"
  /\ b' = [b EXCEPT !.g = CompactGraph(@)]
  /\ UNCHANGED <<design, flat, before, ok>>

Validated ==
  /\ stage = "validate"
  /\ stage' = "end"
  /\ ok' = Validate(b.g)
  /\ UNCHANGED <<design, flat, b, before>>

Next ==
  \/ Parse \/ BuildGraph \/ RenameRegisters \/ MarkGray \/ Regrouped \/ Resolve
  \/ CheckTruncated \/ Compacted \/ Validated

Spec == Init /\ [][Next]_vars

-----------------------------------------------------------------------------
(* The wiring as it is written. *)
DataLinks == Links(design, Top(design), <<>>, FALSE)
ClockLinks == Links(design, Top(design), <<>>, TRUE)
WrittenRegisters == RegistersOf(design, Top(design), <<>>)

(* The links that lead both ways. *)
Joins(links) == links \cap Backward(links)

(* A bit that is assigned has no second driver. *)
AssignedAlone(links) ==
  LET joins == Joins(links)
      assigns == {l \in links \ joins : l[1][1] = "wire" /\ l[2][1] = "wire"} IN
  \A l \in assigns :
    Cardinality({k \in links \ joins : k[2] \in Over(joins, {}, {l[2]})}) = 1

(* The graph connects no registers that the written netlist does not       *)
(* connect, over the hierarchy, aliases, ports and cells, and all that it  *)
(* does as long as no cell has a second output: of a flop GraphBuilder     *)
(* draws the first output alone, of a gate it takes the second for an      *)
(* input, and the paths from there are lost without a mark.  Vectors are   *)
(* named bit by bit and an assigned net has no other driver; what is lost  *)
(* with a register that has no clock is marked.                            *)
ConnectivityExact ==
  (stage = "rename" /\ ~b.g.truncated /\ ~b.suspected /\ BitByBit(design)) =>
    LET links == DataLinks
        clocked == {r \in WrittenRegisters : r.clock # {} /\ HasName(b.g, r.point[2])}
        points == {r.point : r \in clocked} IN
    AssignedAlone(links) =>
      \A p \in points :
        LET written == {q[2] : q \in DrivenBy(links, points, p)}
            drawn == {FindNode(b.g, s).hier_name :
                        s \in ToSet(RegisterSuccessors(b.g, FindByName(b.g, p[2]).id, TRUE))} IN
        drawn \subseteq written /\ (OneOutput(design) => written \subseteq drawn)

(* The register that stands for one from before regrouping. *)
Image(id) ==
  IF HasNode(b.g, id) THEN id
  ELSE FindByName(b.g, Whole(FindNode(before.g, id).hier_name)).id

(* Regrouping and compaction keep what the crossing search sees: a         *)
(* register reaches the registers its bits reached, buffer loops included. *)
ReachabilityKept ==
  (stage \in {"compact", "validate"} \/ ok) =>
    \A id \in Registers(b.g) :
      LET bits == {m \in Registers(before.g) : Image(m) = id}
          Of(walk(_)) == {Image(s) : s \in UNION {ToSet(walk(m)) : m \in bits}} \ {id} IN
      /\ ToSet(RegisterSuccessors(b.g, id, TRUE))
           = Of(LAMBDA m : RegisterSuccessors(before.g, m, TRUE))
      /\ ToSet(RegisterPredecessors(b.g, id, TRUE))
           = Of(LAMBDA m : RegisterPredecessors(before.g, m, TRUE))

(* A wide register stands for bits of one name that one clock wire and one *)
(* reset serve, it is marked as gray-coded when they are, and bits that    *)
(* agree in all of it do not stay apart unless their name is in use.       *)
MergedAlike ==
  (stage = "resolve" /\ ~b.g.truncated) =>
    LET Node0(id) == FindNode(before.g, id)
        links == Joins(ClockLinks)
        WiresOf(id) ==
          Over(links, {}, UNION {r.clock : r \in
                            {s \in WrittenRegisters : s.point[2] = Node0(id).hier_name}})
        Same(x, y) ==
          /\ Whole(Node0(x).hier_name) = Whole(Node0(y).hier_name)
          /\ Node0(x).clock_domain = Node0(y).clock_domain
          /\ Node0(x).reset_signal = Node0(y).reset_signal
          /\ At(before, x).is_latch = At(before, y).is_latch
    IN \A x, y \in {id \in Registers(before.g) : HasBit(Node0(id).hier_name)} :
         LET base == Whole(Node0(x).hier_name) IN
         /\ Image(x) = Image(y) =>
              /\ Same(x, y)
              /\ design.entries = <<>> => (x = y \/ WiresOf(x) \cap WiresOf(y) # {})
              /\ At(b, Image(x)).is_gray_coded = At(before, x).is_gray_coded
         /\ (Same(x, y) /\ x # y /\ Image(x) # Image(y)) =>
              \/ HasName(before.g, base)
              \/ \E z \in Registers(before.g) : Image(z) \notin {x, y} /\ HasName(b.g, base)

(* A graph the adapter reports as ok lost no node or edge to a limit: the  *)
(* truncated flag is tested before compaction, whose own add_edge calls    *)
(* meet the limit afterwards.  And no cell that is a register, or is named *)
(* like one, is missing without a mark, as long as its pins are connected  *)
(* by names: one connected by position is skipped with a warning alone,    *)
(* though docs/netlist.md:271 lists positional connections as accepted.    *)
Accounted(r) ==
  \/ b.suspected
  \/ \E n \in ToSet(before.g.nodes) :
       /\ n.kind = "Register"
       /\ n.hier_name \in {r.point[2], Renamed(design.entries, r.point[2])}

OkMeansComplete ==
  ok => /\ ~b.g.truncated
        /\ \A r \in WrittenRegisters : r.named => Accounted(r)

(* Nodes upstream of some, through nodes of every kind but `ends'. *)
RECURSIVE Upstream(_, _, _)
Upstream(h, ends, from) ==
  LET Goes(id) == KindOf(h, id) \notin ends
      next == from \cup UNION {ToSet(Predecessors(h, id)) : id \in {i \in from : Goes(i)}} IN
  IF next = from THEN from ELSE Upstream(h, ends, next)

(* What is upstream of a clock or reset was left where it was, registers   *)
(* aside, which may have been regrouped before.                            *)
Untouched(cone) ==
  \A id \in cone \ Registers(before.g) :
    /\ HasNode(b.g, id)
    /\ ToSet(Predecessors(b.g, id)) = {Image(p) : p \in ToSet(Predecessors(before.g, id))}

NamedIn(h, names) == {n.id : n \in {m \in ToSet(h.nodes) : m.hier_name \in names}}

(* What leads to the clock or reset of a register, back to the next port,  *)
(* is kept with its edges (compute_protected does not go on from a port,   *)
(* whatever drives it, though compact.h:25 has no such exception).  The    *)
(* root clock of a register is upstream of a net with the name of its      *)
(* clock, and of its own clock net when it alone has that name: the        *)
(* resolver takes a net of a child for the one of the top that has its     *)
(* last name (trace_clock).                                                *)
ClockStructureKept ==
  stage = "validate" \/ ok =>
    LET ports == {id \in NodeIds(before.g) : KindOf(before.g, id) = "Port"}
        nets == Anchors(before.g) \ ports IN
    /\ Untouched(Upstream(before.g, {"Register", "Port"}, nets) \ ports)
    /\ \A id \in Registers(b.g) :
         LET clock == FindNode(b.g, id).clock_domain
             root == NamedIn(b.g, {At(b, id).root_clock})
             matching == {n.id : n \in {m \in ToSet(before.g.nodes) : Matches(m, clock)}}
             UpTo(h, from) == root \subseteq Upstream(h, {"Register"}, from) IN
         At(b, id).root_clock # NoClock =>
           /\ UpTo(before.g, matching \cup NamedIn(before.g, {clock}))
           /\ Cardinality(matching) <= 1 => UpTo(b.g, NamedIn(b.g, {clock}))

(* "Two registers are in the same domain if they share the same root      *)
(* clock": registers the resolved clocks put in one domain have a clock    *)
(* wire in common, going up through the clock pins of gates, the inputs of *)
(* muxes and buffers.                                                      *)
DomainsAreClocks ==
  (stage = "check" /\ ~b.g.truncated /\ design.entries = <<>>) =>
    LET domain(r) ==
          LET id == FindByName(b.g, r.point[2]).id IN
          IF At(b, id).root_clock # NoClock THEN At(b, id).root_clock
          ELSE FindNode(b.g, id).clock_domain
        up == Backward(ClockLinks)
        clocked == {r \in WrittenRegisters : r.clock # {} /\ HasName(b.g, r.point[2])}
    IN \A r, s \in clocked :
         domain(r) = domain(s) => Over(up, {}, r.clock) \cap Over(up, {}, s.clock) # {}
=============================================================================
