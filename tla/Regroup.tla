------------------------------ MODULE Regroup ------------------------------
(***************************************************************************)
(* src/frontend/netlist/regroup.cpp: single-bit registers `base[i]' that   *)
(* are clocked and reset alike become one wide register; before that the   *)
(* groups whose bits are driven as x ^ (x >> 1) are marked as gray-coded.  *)
(*                                                                         *)
(* The maps that order groups are ordered by strings; the model takes the  *)
(* groups in an order of its own.                                          *)
(***************************************************************************)
EXTENDS NameMap

CONSTANT kGrayWalkDepth

(* Mutant: bits of one base are one group. *)
GroupKey_BaseOnly(b, node) == <<Whole(node.hier_name)>>

(* group_key: base, clock, reset and the flags. *)
GroupKey(b, node) ==
  <<Whole(node.hier_name), node.clock_domain, node.reset_signal,
    At(b, node.id).reset, At(b, node.id).is_latch, At(b, node.id).is_isolation_cell>>

IsBit(b, node) ==
  node.kind = "Register" /\ At(b, node.id).width = 1 /\ HasBit(node.hier_name)

(* The groups of two bits or more, each as its nodes in the order of bits. *)
Groups(b) ==
  LET bits == {n \in ToSet(b.g.nodes) : IsBit(b, n)}
      ByBit(m, n) == m.hier_name.bit < n.hier_name.bit
      alike == {{n \in bits : GroupKey(b, n) = key} : key \in {GroupKey(b, n) : n \in bits}}
  IN {SetToSortSeq(group, ByBit) : group \in {s \in alike : Cardinality(s) >= 2}}

-----------------------------------------------------------------------------
(* Gray recovery.                                                          *)
NotGray == [valid |-> FALSE, is_xor |-> FALSE, bases |-> {}]

(* A gate of two inputs that are bits of one name, one apart when both     *)
(* have a bit.                                                             *)
XorDrive(g, node) ==
  LET name(i) == FindNode(g, node.logic_inputs[i]).hier_name
      apart == name(1).bit - name(2).bit IN
  IF \/ node.logic_type # "Xor" \/ Len(node.logic_inputs) # 2
     \/ Whole(name(1)) # Whole(name(2))
     \/ HasBit(name(1)) /\ HasBit(name(2)) /\ apart \notin {1, -1}
  THEN NotGray
  ELSE [valid |-> TRUE, is_xor |-> TRUE, bases |-> {Whole(name(1))}]

(* The walk up through nets of one driver and buffers of one input. *)
RECURSIVE DriveFrom(_, _, _)
DriveFrom(g, id, depth) ==
  LET node == FindNode(g, id)
      drivers == Predecessors(g, id)
      Up(from) == IF Len(from) # 1 THEN NotGray ELSE DriveFrom(g, from[1], depth + 1) IN
  IF depth > kGrayWalkDepth THEN NotGray
  ELSE CASE node.kind = "Register" -> [valid |-> TRUE, is_xor |-> FALSE, bases |-> {}]
         [] node.kind = "Port" ->
              [valid |-> TRUE, is_xor |-> FALSE, bases |-> {Whole(node.hier_name)}]
         [] node.kind = "Net" -> Up(drivers)
         [] OTHER -> IF node.logic_type = "Buf" THEN Up(node.logic_inputs)
                     ELSE XorDrive(g, node)

ClassifyBitDrive(g, id) ==
  LET drivers == Predecessors(g, id) IN
  IF Len(drivers) # 1 THEN NotGray ELSE DriveFrom(g, drivers[1], 0)

IsGray(b, group) ==
  LET drives == [i \in DOMAIN group |-> ClassifyBitDrive(b.g, group[i].id)]
      xors == Cardinality({i \in DOMAIN drives : drives[i].is_xor}) IN
  /\ \A i \in DOMAIN drives : drives[i].valid
  /\ xors >= 1 /\ xors >= Len(group) - 1
  /\ Cardinality(UNION {drives[i].bases : i \in DOMAIN drives}) = 1

AnnotateGrayRegisters(b) ==
  LET Mark(acc, node) ==
        Update(acc, node.id, [At(acc, node.id) EXCEPT !.is_gray_coded = TRUE])
      MarkAll(acc, group) == IF IsGray(b, group) THEN FoldLeft(Mark, acc, group) ELSE acc
  IN FoldLeft(MarkAll, b, SetToSeq(Groups(b)))

-----------------------------------------------------------------------------
(* Regrouping.                                                             *)

(* The edges of a bit become edges of the wide register. *)
MoveEdges(b, id, members, to) ==
  LET In(acc, p) == IF p \in members THEN acc ELSE AddWire(acc, p, to)
      Out(acc, s) == IF s \in members THEN acc ELSE AddWire(acc, to, s)
  IN FoldLeft(Out, FoldLeft(In, b, Predecessors(b.g, id)), Successors(b.g, id))

(* apply_group: nothing happens when the name is in use (as the index of   *)
(* names has it) or the graph is full.                                     *)
ApplyGroup(acc, group) ==
  LET b == acc.b
      base == Whole(group[1].hier_name)
      members == {node.id : node \in ToSet(group)}
      wide == Got(b, AddRegister(b.g, base, group[1].clock_domain))
      attributes == [At(b, group[1].id) EXCEPT
        !.width = group[Len(group)].hier_name.bit + 1,
        !.is_gray_coded = \E id \in members : At(b, id).is_gray_coded]
      reset == [Update(wide.b, wide.id, attributes) EXCEPT
        !.g.nodes[wide.b.g.id_to_idx[wide.id]].reset_signal = group[1].reset_signal]
      Move(c, node) == MoveEdges(c, node.id, members, wide.id)
  IN IF HasName(b.g, base) THEN acc
     ELSE IF wide.id = 0 THEN [acc EXCEPT !.b = wide.b]
     ELSE [b |-> FoldLeft(Move, reset, group), dead |-> acc.dead \cup members]

RegroupBuses(b) ==
  LET r == FoldLeft(ApplyGroup, [b |-> b, dead |-> {}], SetToSeq(Groups(b))) IN
  [r.b EXCEPT !.g = RemoveNodes(@, r.dead)]
=============================================================================
