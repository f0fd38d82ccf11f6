---------------------------- MODULE AnalysisRun ----------------------------
(***************************************************************************)
(* The structural part of Analyzer::run_on_graph (src/analysis/            *)
(* analyzer.cpp) on every graph a frontend can draw over the nodes of a    *)
(* sketch: edges are added one by one, in any order, then the crossings,   *)
(* the propagation of uncertainty, reconvergence, CDC006, the reset        *)
(* domains and the isolation cells are analysed on the finished graph.     *)
(*                                                                         *)
(* A sketch gives the nodes (kind and clock), their attributes, the edges  *)
(* there are, the wires more may be added for, up to how many in all, and  *)
(* the policy: what the user constrains.                                   *)
(***************************************************************************)
EXTENDS DomainRules

CONSTANTS
  Sketches,    (* what a run starts from                                   *)
  PathLimits   (* max_paths arguments the path search is tried with        *)

PolicyFields ==
  {"false_paths", "multicycle", "suppress", "proven", "min_stages", "require_reset",
   "check_same_clock", "detect_synchronizer", "suppress_resets", "max_hops"}

(* Nodes are given in the order they are added, edges and wires by the     *)
(* places of their ends; no frontend marks a node uncertain.               *)
ASSUME AnalysisRunAssumption ==
  /\ \A s \in Sketches :
       /\ DOMAIN s.nodes = 1..Len(s.nodes) /\ Len(s.nodes) \in Nat
       /\ \A i \in DOMAIN s.nodes :
            s.nodes[i].kind \in {"Register", "Port", "Net", "Combinational"}
       /\ s.drawn \in Seq(Nat \X Nat)
       /\ s.wires \in SUBSET (Nat \X Nat)
       /\ DOMAIN s.at = DOMAIN s.nodes
       /\ \A i \in DOMAIN s.at :
            /\ DOMAIN s.at[i] = AttributeFields
            /\ s.at[i].uncertain = "no" /\ s.at[i].width \in Nat
       /\ DOMAIN s.policy = PolicyFields /\ s.policy.max_hops \in Nat
  /\ PathLimits \in SUBSET Nat /\ MaxDescendants \in Nat /\ MaxPairsPerSource \in Nat

VARIABLES
  sketch,
  g,           (* AnalysisResult.graph                                     *)
  stage,       (* "elaborate" or "done"                                    *)
  findings

vars == <<sketch, g, stage, findings>>

Design ==
  [field \in {"g", "at"} \cup DOMAIN sketch.policy |->
     CASE field = "g" -> g
       [] field = "at" -> sketch.at
       [] OTHER -> sketch.policy[field]]

Init ==
  /\ sketch \in Sketches
  /\ g = Connected(Placed(sketch.nodes), sketch.drawn)
  /\ stage = "elaborate"
  /\ findings = {}

add_edge(from, to) ==
  /\ stage = "elaborate"
  /\ Len(g.edges) < sketch.max_edges
  /\ g' = AddEdge(g, from, to)
  /\ UNCHANGED <<sketch, stage, findings>>

analyse ==
  /\ stage = "elaborate"
  /\ stage' = "done"
  /\ findings' = StructuralFindings(Design)
  /\ UNCHANGED <<sketch, g>>

Next ==
  \/ \E wire \in sketch.wires : add_edge(wire[1], wire[2])
  \/ analyse

Spec == Init /\ [][Next]_vars

-----------------------------------------------------------------------------
(* The walks everything is built on.                                       *)

(* register_successors lists each register that a walk through data nodes  *)
(* reaches exactly once, cycles and reconvergent branches included, and    *)
(* never its own start; and one register sees another downstream exactly   *)
(* when that one sees it upstream, for either value of                     *)
(* traverse_combinational: the matcher mixes the two directions            *)
(* (register_predecessors of a register_successor).                        *)
WalksExact ==
  stage = "elaborate" =>
    \A id \in Registers(g), comb \in BOOLEAN :
      LET found == RegisterSuccessors(g, id, comb) IN
      /\ ToSet(found) = RegistersReached(g, comb, id)
      /\ IsInjective(found)
      /\ \A b \in Registers(g) :
           b \in ToSet(found) <=> id \in ToSet(RegisterPredecessors(g, b, comb))

(* A search that does not report truncation has found every simple path,   *)
(* each once, with the right has_combinational: no crossing is missed      *)
(* silently (find_register_paths, the source of the CDC findings).         *)
UntruncatedMeansComplete ==
  stage = "elaborate" =>
    \A src \in Registers(g) :
      LET all == SimplePaths(g, src) IN
      \A limit \in PathLimits :
      LET r == FindRegisterPaths(g, src, limit) IN
      ~r.truncated =>
        /\ {p.path : p \in ToSet(r.paths)} = all
        /\ Len(r.paths) = Cardinality(all)
        /\ \A p \in ToSet(r.paths) :
             p.comb <=> \E id \in ToSet(p.path) : KindOf(g, id) = "Combinational"

-----------------------------------------------------------------------------
(* The findings.                                                           *)

Rule(id) == {f \in findings : f.rule = id}
Ended == stage = "done"

(* Every pair of registers of different domains with a path between them   *)
(* has exactly one CDC001, suppressed or not, or the search from its       *)
(* source says it was truncated; and no other pair has one (CrossingAnaly- *)
(* zer::analyze, whose `seen' set drops the paths after the first).        *)
CrossingsExact ==
  Ended =>
    \A src \in Registers(g) :
      LET ends == {Last(p) : p \in SimplePaths(g, src)} IN
      \A dst \in Registers(g) :
      LET connected == Crosses(Design, src, dst) /\ dst \in ends
          about == {f \in Rule("CDC001") : f.src = src /\ f.dst = dst} IN
      /\ about # {} => connected /\ Cardinality(about) = 1
      /\ connected => about # {} \/ \E f \in Rule("CDC010") : f.src = src

(* A strict pattern on a scalar register stands for that many distinct     *)
(* registers of its clock, each driven, within the clock and directly, by  *)
(* the one before it and by nothing else (find_pattern_for_dest): what the *)
(* four loops with their different tests have to agree on.                 *)
PatternIsChain ==
  stage = "elaborate" =>
    \A d \in Registers(g) :
      LET pattern == FindPatternForDest(Design, d, TRUE)
          chain == Chain(Design, d, TRUE, TRUE) IN
      pattern # "None" /\ sketch.at[d].width = 1 =>
        /\ IsInjective(chain) /\ PatternFromDepth(Len(chain)) = pattern
        /\ \A i \in DOMAIN chain :
             LET own == {r \in Registers(g) : Clock(Design, r) = Clock(Design, d) /\
                           chain[i] \in RegistersReached(g, FALSE, r)} IN
             own = IF i = 1 THEN {} ELSE {chain[i - 1]}

(* A crossing called safe because of a chain has, on every chain of its    *)
(* clock that starts at the destination and follows only drivers, at most  *)
(* one way to go on and resets that agree: has_chain_warnings walks a      *)
(* chain of its own, without the test that find_pattern_for_dest has.      *)
SafeChainIsClean ==
  Ended =>
    \A f \in findings :
      f.why = "chain" /\ f.status = "VerifiedSafe" =>
        LET chain == Chain(Design, f.dst, TRUE, TRUE) IN
        \A i \in 1..(Len(chain) - 1) :
          LET a == sketch.at[chain[i]]
              b == sketch.at[chain[i + 1]] IN
          /\ {r \in Registers(g) : Clock(Design, r) = Clock(Design, f.dst) /\
                r \in RegistersReached(g, FALSE, chain[i])} = {chain[i + 1]}
          /\ b.async => a.async
          /\ a.reset # NoReset /\ b.reset # NoReset =>
               /\ (a.async <=> b.async) /\ a.pol = b.pol
               /\ a.async => a.reset = b.reset

(* A register that an unsynchronized crossing reaches over direct          *)
(* connections of its clock, in fewer steps than the limit, is named by a  *)
(* finding (propagate_uncertainty, which skips what is already reported).  *)
UncertaintyIsReported ==
  Ended =>
    \A f \in Rule("CDC001") :
      LET clock == Clock(Design, f.dst)
          own == {e \in Registers(g) \X Registers(g) :
                   /\ Clock(Design, e[1]) = clock /\ Clock(Design, e[2]) = clock
                   /\ e[2] \in RegistersReached(g, FALSE, e[1])} IN
      f.status = "VerifiedUnsafe" /\ f.why = "unsynchronized"
        /\ Cardinality(own) < MAX_PATH_DEPTH =>
          \A r \in Reached(own, Registers(g), {f.dst}) :
            \E h \in findings : r \in {h.src, h.dst}

(* What can be reached in so many steps. *)
WithinHops(next, hops, id) ==
  LET within[k \in 0..hops] ==
        IF k = 0 THEN {id}
        ELSE LET nearer == within[k - 1] IN nearer \cup UNION {next[r] : r \in nearer}
  IN within[hops]

(* The destinations of the crossings of src. *)
Crossed(src) == {f.dst : f \in {f \in Rule("CDC001") : f.src = src}}

(* Two crossings of one source, to another clock name at least one of      *)
(* them, whose destinations lead, within the limit of hops, to one         *)
(* register behind both are reported unless the source is a single bit and *)
(* both destinations are synchronized; and nothing else is (Reconvergence- *)
(* Analyzer: a search by levels that stops when it has enough and skips    *)
(* what it saw).  The crossings themselves may be waived, isolated, safe   *)
(* or cut by false paths, though docs/rule-semantics.md:41 speaks of paths *)
(* that are not false only.  Of a source with more pairs of destinations   *)
(* than the limit, only that what is reported is right: the code is silent *)
(* about the pairs it did not come to.                                     *)
ReconvergenceExact ==
  Ended =>
    LET next == [id \in Registers(g) |-> RegistersReached(g, TRUE, id)]
        Behind(id) == WithinHops(next, sketch.policy.max_hops, id) \ {id} IN
    \A a, b \in Rule("CDC001") :
      a.src = b.src /\ a.dst # b.dst =>
        LET leaves == \E f \in {a, b} : Clock(Design, f.dst) # Clock(Design, a.src)
            hazard == sketch.at[a.src].width > 1 \/
                      \E f \in {a, b} : FindPatternForDest(Design, f.dst, FALSE) = "None"
            meet == Behind(a.dst) \cap Behind(b.dst) # {}
            all == \A f \in {a, b} : Cardinality(Behind(f.dst)) <= MaxDescendants
            few == Cardinality(kSubset(2, Crossed(a.src))) <= MaxPairsPerSource
            reported == \E f \in Rule("CDC003") :
                          f.src = a.src /\ ToSet(f.path) = {a.dst, b.dst} IN
        /\ reported => hazard /\ meet
        /\ leaves /\ hazard /\ meet /\ all /\ few => reported

(* A path leads from src to dst, of another clock and another reset, by    *)
(* the signal and the polarity: what the code and both documents call a    *)
(* crossing of resets.                                                     *)
ResetsMeet(src, dst) ==
  LET a == sketch.at[src]
      b == sketch.at[dst] IN
  /\ Crosses(Design, src, dst)
  /\ NoReset \notin {a.reset, b.reset}
  /\ <<a.reset, a.pol>> # <<b.reset, b.pol>>
  /\ \E p \in SimplePaths(g, src) : Last(p) = dst

(* Two registers with the reset of dst, of any clocks, in line before it. *)
LineOfReset(dst) ==
  LET Feeds(p, q) == /\ q \in RegistersReached(g, FALSE, p)
                     /\ sketch.at[p].reset = sketch.at[dst].reset IN
  \E p, q \in Registers(g) : Feeds(q, p) /\ Feeds(p, dst)

(* A register that a register of another clock and another reset reaches   *)
(* over any path is reported, or has a line of two registers of its own    *)
(* reset before it (check_reset_crossings and has_reset_synchronizer,      *)
(* which walk the graph in opposite directions, one through logic and one  *)
(* not).  The report is an error when both resets are asynchronous and not *)
(* when neither is.  Of a crossing with one asynchronous end the code makes*)
(* an error, docs/rules.md:180 a warning; the clocks of the line are no    *)
(* matter to the code, docs/what-we-can-prove.md:57 wants the clock of the *)
(* destination; and resets that differ in kind alone are not compared,     *)
(* which docs/rules.md:180 says they are.                                  *)
ResetCrossingsReported ==
  Ended =>
    \A src, dst \in Registers(g) :
      ResetsMeet(src, dst) /\ ~sketch.policy.suppress_resets =>
        \/ sketch.policy.detect_synchronizer /\ LineOfReset(dst)
        \/ \E f \in Rule("CDC009") :
             /\ f.src = src /\ f.dst = dst
             /\ sketch.at[src].async /\ sketch.at[dst].async => f.severity = "error"
             /\ f.severity = "error" => sketch.at[src].async \/ sketch.at[dst].async

(* An isolation cell is not a synchronizer: taking all of them away makes  *)
(* errors of the CDC001 over them and changes no other finding, those of   *)
(* the same crossings included (step 11b of run_on_graph).                 *)
IsolationIsNarrow ==
  Ended /\ (\E id \in DOMAIN sketch.at : sketch.at[id].isolation) =>
    LET Isolated(f) == f.rule = "CDC001" /\ f.why = "isolation"
        Narrow(bare) ==
          /\ {f \in findings : ~Isolated(f)} \subseteq bare
          /\ \A f \in bare \ findings :
               /\ f.rule = "CDC001" /\ f.severity = "error"
               /\ \E id \in ToSet(f.path) : sketch.at[id].isolation IN
    Narrow(StructuralFindings(
             [Design EXCEPT !.at = [id \in DOMAIN @ |-> [@[id] EXCEPT !.isolation = FALSE]]]))

-----------------------------------------------------------------------------
(* What the documentation says and the code does not do.                   *)

(* docs/what-we-can-prove.md:24 calls the detection complete for register- *)
(* to-register paths; a constraint or black box on the first path found    *)
(* answers for every other path between the two registers.                 *)
EveryPathJudged ==
  Ended =>
    \A f \in Rule("CDC001") :
      f.why \in {"false_path", "blackbox"} =>
        \A path \in SimplePaths(g, f.src) :
          Last(path) = f.dst =>
            \/ IsFalsePath(Design, f.src, f.dst, path)
            \/ IsPathThroughSafeBlackbox(Design, path)
=============================================================================
