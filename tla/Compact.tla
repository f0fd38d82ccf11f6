------------------------------ MODULE Compact ------------------------------
(***************************************************************************)
(* compact_graph of src/ir/compact.cpp: identity buffers and pass-through  *)
(* nets are removed from a netlist graph and replaced by direct edges.     *)
(***************************************************************************)
EXTENDS Traversal

(* Nodes named by some register's clock_domain or reset_signal. *)
Anchors(g) ==
  {FindByName(g, name).id :
     name \in UNION {{n.clock_domain, n.reset_signal} : n \in ToSet(g.nodes)}
                \cap DOMAIN g.name_to_idx}

KeptByKind(g) == {id \in NodeIds(g) : KindOf(g, id) \in {"Port", "Register"}}

(* The walk stops at nodes already protected, ports and registers among    *)
(* them.                                                                   *)
RECURSIVE ProtectBack(_, _, _)
ProtectBack(g, prot, stack) ==
  LET new == UNION {ToSet(Predecessors(g, id)) : id \in stack} \ prot IN
  IF stack = {} THEN prot ELSE ProtectBack(g, prot \cup new, new)

(* Mutant: the anchors are protected, what drives them is not. *)
Protected_AnchorsOnly(g) == KeptByKind(g) \cup Anchors(g)

Protected(g) ==
  LET kept == KeptByKind(g)
      seeds == Anchors(g) \ kept IN
  ProtectBack(g, kept \cup seeds, seeds)

PassThrough(g, id) ==
  /\ KindOf(g, id) = "Net"
  /\ Len(Predecessors(g, id)) = 1 /\ Len(Successors(g, id)) = 1

Dead(g) ==
  {id \in NodeIds(g) \ Protected(g) :
     \/ KindOf(g, id) = "Combinational" /\ FindNode(g, id).logic_type = "Buf"
     \/ PassThrough(g, id)}

Dedup(s) ==
  LET Add(acc, x) == IF x \in ToSet(acc) THEN acc ELSE Append(acc, x) IN
  FoldLeft(Add, <<>>, s)

(* Mutant: a chain is followed for one node only. *)
AliveFwd_OneHop(g, dead, start, memo, inprog) ==
  LET Alive(s) == s \notin dead IN
  [out |-> SelectSeq(Successors(g, start), Alive), memo |-> memo]

(* alive_fwd: the live nodes behind a dead one, and the memo as it leaves it *)
RECURSIVE AliveFwd(_, _, _, _, _)
AliveFwd(g, dead, start, memo, inprog) ==
  LET Visit(acc, s) ==
        IF s \notin dead THEN [acc EXCEPT !.out = Append(@, s)]
        ELSE LET sub == AliveFwd(g, dead, s, acc.memo, inprog \cup {start})
             IN [out |-> acc.out \o sub.out, memo |-> sub.memo]
      walked == FoldLeft(Visit, [out |-> <<>>, memo |-> memo], Successors(g, start))
      out == Dedup(walked.out)
  IN IF start \in DOMAIN memo THEN [out |-> memo[start], memo |-> memo]
     ELSE IF start \in inprog THEN [out |-> <<>>, memo |-> memo]
     ELSE [out |-> out, memo |-> walked.memo @@ (start :> out)]

(* The direct edges to add, in the order they are gathered. *)
Bypass(g, dead) ==
  LET FromDead(from, acc, s) ==
        LET r == AliveFwd(g, dead, s, acc.memo, {})
            NotSelf(w) == w # from
            to == SelectSeq(r.out, NotSelf)
        IN [pairs |-> acc.pairs \o [i \in DOMAIN to |-> <<from, to[i]>>],
            memo |-> r.memo]
      FromNode(acc, n) ==
        LET IsDead(s) == s \in dead
            Visit(a, s) == FromDead(n.id, a, s)
        IN IF n.id \in dead THEN acc
           ELSE FoldLeft(Visit, acc, SelectSeq(Successors(g, n.id), IsDead))
  IN FoldLeft(FromNode, [pairs |-> <<>>, memo |-> <<>>], g.nodes).pairs

AddPair(g, pair) == AddEdge(g, pair[1], pair[2])

(* Mutant: the bypass edges are added before the dead nodes go. *)
CompactGraph_AddFirst(g) ==
  LET dead == Dead(g) IN
  IF dead = {} THEN g
  ELSE RemoveNodes(FoldLeft(AddPair, g, Bypass(g, dead)), dead)

CompactGraph(g) ==
  LET dead == Dead(g) IN
  IF dead = {} THEN g
  ELSE FoldLeft(AddPair, RemoveNodes(g, dead), Bypass(g, dead))
=============================================================================
