------------------------------ MODULE MapCall ------------------------------
(***************************************************************************)
(* What util::parallel_map promises its caller, whatever the number of     *)
(* threads: one call either returns the image of every item, in the order  *)
(* of the items, or throws an exception that func threw for one of them.   *)
(* The caller sees nothing in between.                                     *)
(***************************************************************************)
EXTENDS Integers

CONSTANTS
  N,          (* items.size()                                              *)
  NoResult    (* the default-constructed Result / the null exception_ptr   *)

Idx == 0..N-1

VARIABLES
  fails,      (* the items for which func throws; an input of the call     *)
  outcome,    (* "pending", "returned" or "thrown"                         *)
  value       (* the vector returned, or the item whose exception is thrown *)

callVars == <<fails, outcome, value>>

CallInit ==
  /\ fails \in SUBSET Idx
  /\ outcome = "pending"
  /\ value = NoResult

(* The vector of a normal return: entry i is func's result for item i. *)
Image == [i \in Idx |-> i]

Return ==
  /\ outcome = "pending"
  /\ fails = {}
  /\ outcome' = "returned"
  /\ value' = Image
  /\ UNCHANGED fails

Throw ==
  /\ outcome = "pending"
  /\ outcome' = "thrown"
  /\ \E e \in fails : value' = e
  /\ UNCHANGED fails

CallNext == Return \/ Throw

CallSpec == CallInit /\ [][CallNext]_callVars /\ WF_callVars(CallNext)
=============================================================================
