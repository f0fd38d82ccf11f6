------------------------------ MODULE NameMap ------------------------------
(***************************************************************************)
(* apply_name_map of src/frontend/netlist/name_map.cpp: registers get the  *)
(* names they had before synthesis, bit by bit.  Only the nodes are        *)
(* renamed; the graph's index of names keeps the old ones.                 *)
(***************************************************************************)
EXTENDS GraphBuilder

(* The names an entry may take: the first entry of a netlist name counts.  *)
RtlName(entries, netlist) ==
  LET i == SelectInSeq(entries, LAMBDA e : e.netlist = netlist) IN
  IF i = 0 THEN netlist ELSE entries[i].rtl

Renamed(entries, name) == [RtlName(entries, Whole(name)) EXCEPT !.bit = name.bit]

(* One register, unless another node has the name. *)
Rename(entries, acc, i) ==
  LET node == acc.g.nodes[i]
      target == Renamed(entries, node.hier_name)
      renames == node.kind = "Register" /\ target # node.hier_name
                 /\ target \notin acc.taken
  IN IF ~renames THEN acc
     ELSE [acc EXCEPT !.g.nodes[i].hier_name = target,
                      !.taken = (@ \ {node.hier_name}) \cup {target}]

ApplyNameMap(b, entries) ==
  LET Visit(acc, i) == Rename(entries, acc, i)
      begun == [g |-> b.g, taken |-> {n.hier_name : n \in ToSet(b.g.nodes)}]
      renamed == FoldLeft(Visit, begun, [i \in DOMAIN b.g.nodes |-> i])
  IN IF entries = <<>> THEN b ELSE [b EXCEPT !.g = renamed.g]
=============================================================================
