---------------------------- MODULE DomainRules ----------------------------
(***************************************************************************)
(* The rules that look at more than one crossing, on a design D as in      *)
(* Crossing: reset domains (src/cdc/reset_domain.cpp), reconvergence       *)
(* (src/cdc/reconvergence.cpp), and what the analyzer does to a crossing   *)
(* over an isolation cell.  D has besides                                  *)
(*   check_same_clock, detect_synchronizer    the reset policy             *)
(*   suppress_resets                          suppress_reset_crossings     *)
(*   max_hops                                 reconvergence_depth          *)
(*   at[id].isolation                         a low-power isolation cell   *)
(***************************************************************************)
EXTENDS Crossing

CONSTANTS
  MaxDescendants,     (* registers a search for a common one looks at (16)     *)
  MaxPairsPerSource   (* pairs of destinations one source is tried with (10000) *)

(* The attributes a node of D has. *)
AttributeFields ==
  {"width", "packed", "reset", "async", "pol", "root", "gated", "muxed", "safe_box",
   "isolation", "uncertain"}

-----------------------------------------------------------------------------
(* CDC009.                                                                 *)

(* The reset domains of two registers; the kind of reset makes domains of  *)
(* its own, and is not compared.                                           *)
SameReset(D, a, b) ==
  D.at[a].reset = D.at[b].reset /\ D.at[a].pol = D.at[b].pol

(* Two stages before id, of any clock, that have its reset signal. *)
HasResetSynchronizer(D, id) ==
  LET Same(p) == D.at[p].reset = D.at[id].reset IN
  \E p \in ToSet(DirectBack(D, id)) :
    Same(p) /\ \E q \in ToSet(DirectBack(D, p)) : Same(q)

(* Mutant: only direct connections are followed. *)
ResetCrosses_DirectOnly(D, src, dst) ==
  /\ dst \in ToSet(Direct(D, src))
  /\ HasReset(D, src) /\ HasReset(D, dst) /\ ~SameReset(D, src, dst)
  /\ HasDomain(D, src) /\ HasDomain(D, dst)
  /\ Domain(D, src) = Domain(D, dst) => D.check_same_clock
  /\ D.detect_synchronizer => ~HasResetSynchronizer(D, dst)

ResetCrosses(D, src, dst) ==
  /\ dst \in ToSet(RegisterSuccessors(D.g, src, TRUE))
  /\ HasReset(D, src) /\ HasReset(D, dst) /\ ~SameReset(D, src, dst)
  /\ HasDomain(D, src) /\ HasDomain(D, dst)
  /\ Domain(D, src) = Domain(D, dst) => D.check_same_clock
  /\ D.detect_synchronizer => ~HasResetSynchronizer(D, dst)

CheckResetCrossings(D) ==
  {LET async == D.at[e[1]].async \/ D.at[e[2]].async IN
   Finding("CDC009", IF async THEN "error" ELSE "warning", e[1], e[2],
           <<e[1], e[2]>>, "VerifiedUnsafe") :
     e \in {e \in Registers(D.g) \X Registers(D.g) : ResetCrosses(D, e[1], e[2])}}

-----------------------------------------------------------------------------
(* CDC003.                                                                 *)

FindFanoutSources(D) ==
  {src \in Registers(D.g) :
     LET succs == RegisterSuccessors(D.g, src, TRUE) IN
     /\ Len(succs) >= 2
     /\ \E s \in ToSet(succs) : Clock(D, s) # Clock(D, src)}

(* Breadth first, from register to register: queue holds <<register,       *)
(* depth>>, found the registers behind the start that came off it.         *)
BreadthStates == [queue : Seq(Nat \X Nat), visited : SUBSET Nat, found : Seq(Nat)]

(* The registers right behind the head of the queue that are new. *)
Unseen(g, max_hops, s) ==
  IF Head(s.queue)[2] >= max_hops THEN <<>>
  ELSE Without(RegisterSuccessors(g, Head(s.queue)[1], TRUE), s.visited)

BreadthStep(g, max_hops, s) ==
  LET id == Head(s.queue)[1]
      depth == Head(s.queue)[2]
      next == Unseen(g, max_hops, s) IN
  [queue |-> Tail(s.queue) \o [i \in DOMAIN next |-> <<next[i], depth + 1>>],
   visited |-> s.visited \cup ToSet(next),
   found |-> IF depth > 0 THEN Append(s.found, id) ELSE s.found]

Breadth(g, max_hops, start) ==
  LET search[s \in BreadthStates] ==
        IF s.queue = <<>> \/ Len(s.found) >= MaxDescendants THEN ToSet(s.found)
        ELSE search[BreadthStep(g, max_hops, s)]
  IN search[[queue |-> <<<<start, 0>>>>, visited |-> {start}, found |-> <<>>]]

(* Mutant: the start counts as its own descendant and uses up a hop. *)
Descendants_OneHopLess(D, start) == Breadth(D.g, D.max_hops - 1, start)

Descendants(D, start) == Breadth(D.g, D.max_hops, start)

HasSyncChain(D, dst) == FindPatternForDest(D, dst, FALSE) # "None"

(* The pairs that are looked at.  Destinations come in the order in which  *)
(* the search from src met them, pairs in the order of their first and     *)
(* then of their second one; the rest of a source's pairs is skipped       *)
(* without a word.                                                         *)
Compared(g, src, dsts) ==
  LET paths == FindRegisterPaths(g, src, MaxPaths).paths
      Met(a, b) == \E i \in DOMAIN paths :
                     /\ Last(paths[i].path) = a
                     /\ \A j \in 1..i : Last(paths[j].path) # b
      Before(p, q) == \E a \in p \ q : \A b \in q \ p : Met(a, b)
      pairs == kSubset(2, dsts) IN
  {pair \in pairs : Cardinality({p \in pairs : Before(p, pair)}) < MaxPairsPerSource}

(* The pairs of crossings of src that meet again behind their destinations *)
(* and are not both synchronized, or carry a bus.                          *)
CheckPairs(D, crossings, src) ==
  LET dsts == {f.dst : f \in {f \in crossings : f.rule = "CDC001" /\ f.src = src}}
      Synced(pair) == \A dst \in pair : HasSyncChain(D, dst) IN
  {pair \in Compared(D.g, src, dsts) :
     /\ ~(D.at[src].width <= 1 /\ Synced(pair))
     /\ \E a, b \in pair : a # b /\ Descendants(D, a) \cap Descendants(D, b) # {}}

(* One finding for each such pair; the pair tells the findings apart. *)
Reconvergence(D, crossings) ==
  UNION {{Finding("CDC003", "warning", src, NoId, SetToSeq(pair), "Unknown") :
            pair \in CheckPairs(D, crossings, src)} : src \in FindFanoutSources(D)}

-----------------------------------------------------------------------------
(* Isolation cells: an error CDC001 whose path goes through one is taken   *)
(* for safe; the other rules of the crossing stay.                         *)

(* Mutant: every rule of the crossing is lowered. *)
Isolate_EveryRule(D, findings) ==
  {IF f.severity = "error" /\ \E id \in ToSet(f.path) : D.at[id].isolation
   THEN Because([f EXCEPT !.severity = "info", !.status = "VerifiedSafe"], "isolation")
   ELSE f : f \in findings}

Isolate(D, findings) ==
  {IF /\ f.rule = "CDC001" /\ f.severity = "error"
      /\ \E id \in ToSet(f.path) : D.at[id].isolation
   THEN Because([f EXCEPT !.severity = "info", !.status = "VerifiedSafe"], "isolation")
   ELSE f : f \in findings}

-----------------------------------------------------------------------------
(* Everything the analyzer finds in a design whose crossings are known,    *)
(* before rules and waivers.                                               *)
FindingsFrom(D, crossings) ==
  LET resets == IF D.suppress_resets THEN {} ELSE CheckResetCrossings(D) IN
  Isolate(D, PropagateUncertainty(D, crossings) \cup Reconvergence(D, crossings)
             \cup Cdc006(D) \cup resets)

StructuralFindings(D) == FindingsFrom(D, Analyze(D))
=============================================================================
