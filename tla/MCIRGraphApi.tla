---------------------------- MODULE MCIRGraphApi ----------------------------
EXTENDS IRGraphApi

(* Names are only compared for equality. *)
NameSymmetry == Permutations(Names)
=============================================================================
