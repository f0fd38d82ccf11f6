------------------------------ MODULE Baseline ------------------------------
(***************************************************************************)
(* Baselines: src/analysis/trend.cpp.  A finding is what the waiver engine *)
(* sees of it (rule, names and domains, in any record); a file is          *)
(*   there     whether it is on the disk                                   *)
(*   findings  the findings that were written, in order                    *)
(*   ended     whether the line that ends the list was                     *)
(***************************************************************************)
EXTENDS Integers, Sequences, FiniteSets, SequencesExt

Absent == [there |-> FALSE, findings |-> <<>>, ended |-> FALSE]
Empty == [Absent EXCEPT !.there = TRUE]
Whole(findings) == [there |-> TRUE, findings |-> findings, ended |-> TRUE]

(* What tells two findings apart: neither severity nor path nor waiver. *)
Key(f) ==
  [rule |-> f.rule, src |-> f.src, dst |-> f.dst,
   src_domain |-> f.src_domain, dst_domain |-> f.dst_domain]

(* Mutant: findings with one key are one finding. *)
BuildFindingMap_Collapsed(findings) ==
  {<<Key(findings[i]), 0>> : i \in DOMAIN findings}

(* build_finding_map: findings with one key are numbered in their order.   *)
BuildFindingMap(findings) ==
  {<<Key(findings[i]), Cardinality({j \in 1..(i - 1) : Key(findings[j]) = Key(findings[i])})>> :
     i \in DOMAIN findings}

(* The loader takes what is there: it looks neither for the end of the     *)
(* list nor at the number of findings that the head of the file gives.     *)
LoadBaseline(file) == file.findings

Compare(baseline, current) ==
  LET old == BuildFindingMap(baseline)
      new == BuildFindingMap(current) IN
  [added |-> Cardinality(new \ old), fixed |-> Cardinality(old \ new),
   persistent |-> Cardinality(new \cap old)]

Regressed(report) == report.added > report.fixed
=============================================================================
