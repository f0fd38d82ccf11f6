---------------------------- MODULE CellLibrary ----------------------------
(***************************************************************************)
(* src/cell/cell_library.cpp: which definition a cell of a netlist has.    *)
(* What a glob matches is part of the definition; `size' is the length of  *)
(* its pattern, `logic' what a Liberty function or the name of the pattern *)
(* says the cell computes.                                                 *)
(***************************************************************************)
EXTENDS Naturals, Sequences, SequencesExt

NoPins == [clock |-> "", data |-> "", output |-> "", enable |-> "", reset |-> ""]
CellDef(matches, size, kind, logic, pins) ==
  [matches |-> matches, size |-> size, kind |-> kind, logic |-> logic, pins |-> pins,
   reset_active_low |-> FALSE, reset_async |-> FALSE]

(* lookup gives nullptr *)
NoDef == CellDef({}, 0, "Unknown", "Unknown", NoPins)

(* elaborate: the built-in definitions, those of a Liberty file, those of  *)
(* the user's cell map.                                                    *)
Library(defaults, liberty, cell_map) == defaults \o liberty \o cell_map

(* The longest pattern wins, among equals the one added first. *)
Lookup(lib, cell_type) ==
  LET Better(best, def) ==
        IF cell_type \in def.matches /\ def.size > best.size THEN def ELSE best
  IN FoldLeft(Better, NoDef, lib)

SequentialKinds == {"Dff", "DffReset", "DffEnable", "DffSetReset", "Latch", "Retention"}
=============================================================================
