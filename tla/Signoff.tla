------------------------------ MODULE Signoff ------------------------------
(***************************************************************************)
(* The counts and the verdict a run ends with: src/analysis/coverage.cpp   *)
(* and src/analysis/signoff.cpp.  A finding has, besides the fields of     *)
(* Crossing, by (the number of the waiver that waived it, 0 if none).      *)
(***************************************************************************)
EXTENDS Crossing

Waived(f) == f.by # 0

Count(findings, Test(_)) == Cardinality({f \in findings : Test(f)})

(* CoverageEngine::compute, the counts of the findings. *)
Compute(findings) ==
  LET IsError(f) == f.severity = "error"
      IsTruncation(f) == f.rule = "CDC010"
      IsSuppressed(f) == ~Waived(f) /\ f.why = "false_path"
      IsUnwaivedError(f) == ~Waived(f) /\ IsError(f) IN
  [total |-> Cardinality(findings),
   errors |-> Count(findings, IsError),
   truncated |-> Count(findings, IsTruncation),
   waived |-> Count(findings, Waived),
   unwaived_errors |-> Count(findings, IsUnwaivedError),
   suppressed |-> Count(findings, IsSuppressed)]

(* Mutant: every path counts, not the first to each destination. *)
CrossingCoverage_PerPath(D, counts) ==
  LET reached(src) == FindRegisterPaths(D.g, src, MaxPaths).paths
      pairs == UNION {{<<src, i>> : i \in DOMAIN reached(src)} : src \in Registers(D.g)}
      Ends(p) == reached(p[1])[p[2]].path
      from == {p \in pairs : HasDomain(D, p[1])} IN
  [total |-> Cardinality(from),
   analyzed |-> Cardinality({p \in from : Crosses(D, p[1], Last(Ends(p)))}),
   same_domain |-> Cardinality({p \in from : HasDomain(D, Last(Ends(p))) /\
                                  Domain(D, p[1]) = Domain(D, Last(Ends(p)))}),
   truncated |-> counts.truncated]

(* compute_crossing_coverage: it searches the paths again, and adds the    *)
(* searches that are cut short to the counter compute has set from the     *)
(* CDC010 findings.                                                        *)
CrossingCoverage(D, counts) ==
  LET search(src) == FindRegisterPaths(D.g, src, MaxPaths)
      classified == {src \in Registers(D.g) : HasDomain(D, src)}
      pairs == UNION {{<<src, Last(p.path)>> : p \in ToSet(search(src).paths)} :
                        src \in classified}
      Same(p) == HasDomain(D, p[2]) /\ Domain(D, p[1]) = Domain(D, p[2]) IN
  [total |-> Cardinality(pairs),
   analyzed |-> Cardinality({p \in pairs : Crosses(D, p[1], p[2])}),
   same_domain |-> Cardinality({p \in pairs : Same(p)}),
   truncated |-> counts.truncated +
                   Cardinality({src \in classified : search(src).truncated})]

StrictMethodologies == {"asic_signoff", "strict"}
CriticalRules == {"CDC001", "CDC002", "CDC004", "CDC005", "CDC007"}

WarningsAsErrors(findings, methodology) ==
  IF methodology \notin StrictMethodologies THEN {}
  ELSE {f \in findings : /\ f.severity = "warning" /\ ~Waived(f)
                         /\ f.status # "VerifiedSafe"
                         /\ f.rule \in CriticalRules}

(* SignoffEngine::evaluate. *)
Evaluate(findings, status, methodology) ==
  IF status = "failed" THEN "ERROR"
  ELSE IF status = "incomplete" THEN "INCOMPLETE"
  ELSE IF Compute(findings).unwaived_errors > 0 \/ WarningsAsErrors(findings, methodology) # {}
  THEN "FAIL"
  ELSE IF Compute(findings).waived > 0 THEN "PASS_WITH_WAIVERS" ELSE "PASS"
=============================================================================
