------------------------------ MODULE Crossing ------------------------------
(***************************************************************************)
(* The crossing analysis of src/cdc/crossing.cpp and src/cdc/cdc006.cpp on *)
(* a design D, with the clock domains of src/clock/domain.cpp.  Besides    *)
(* the graph and its attributes (Synchronizer), D has what the user says:  *)
(*   false_paths   records [clocks, ends, through]: the set of pairs of    *)
(*                 domains and the set of pairs of registers the from/to   *)
(*                 selectors match, each a sequence of at most one, and    *)
(*                 for each `through' pattern the set of nodes it matches  *)
(*   multicycle    the pairs of domains a multicycle path matches          *)
(*   suppress      whether the policy suppresses CDC001 on those           *)
(*   proven        the pairs the pattern recognizer calls safe for a bus   *)
(*   min_stages, require_reset                                             *)
(***************************************************************************)
EXTENDS Synchronizer

CONSTANT MaxPaths     (* max_paths of find_register_paths (10000 in the code) *)

ASSUME CrossingAssumption == MaxPaths \in Nat \ {0}

MaxLine == 8    (* the literal bound on a daisy chain                      *)

-----------------------------------------------------------------------------
(* Clock domains.                                                          *)

Domain(D, id) == IF D.at[id].root # NoClock THEN D.at[id].root ELSE Clock(D, id)
HasDomain(D, id) == Domain(D, id) \notin {NoClock, "unknown"}
Crosses(D, a, b) ==
  HasDomain(D, a) /\ HasDomain(D, b) /\ Domain(D, a) # Domain(D, b)

-----------------------------------------------------------------------------
(* Findings.                                                               *)

Finding(rule, severity, src, dst, path, status) ==
  [rule |-> rule, severity |-> severity, src |-> src, dst |-> dst,
   path |-> path, status |-> status, why |-> "none"]

Because(f, why) == [f EXCEPT !.why = why]
NoId == 0

IsFalsePath(D, src, dst, path) ==
  \E fp \in D.false_paths :
    /\ \A pairs \in ToSet(fp.clocks) : <<Domain(D, src), Domain(D, dst)>> \in pairs
    /\ \A pairs \in ToSet(fp.ends) : <<src, dst>> \in pairs
    /\ \A pattern \in fp.through : pattern \cap ToSet(path) # {}

IsPathThroughSafeBlackbox(D, path) == \E id \in ToSet(path) : D.at[id].safe_box

(* Mutant: one crossing for each pair of domains. *)
CrossingPaths_PerDomain(D, src, paths) ==
  LET Leaves(p) == Crosses(D, src, Last(p.path))
      cross == SelectSeq(paths, Leaves) IN
  {cross[i].path : i \in {i \in DOMAIN cross : \A j \in 1..(i - 1) :
      Domain(D, Last(cross[j].path)) # Domain(D, Last(cross[i].path))}}

(* The paths from src that are looked at: to another domain, and the first *)
(* of their destination, whatever is then said of it.                      *)
CrossingPaths(D, src, paths) ==
  LET end(i) == Last(paths[i].path)
      leaving == {i \in 1..MaxPaths : i \in DOMAIN paths /\ Crosses(D, src, end(i))}
      first == {i \in leaving : \A j \in leaving : end(j) = end(i) => i <= j} IN
  {paths[i].path : i \in first}

(* The CDC001 of a path that no constraint and no black box answers for. *)
Judged(D, src, dst, path) ==
  LET F(severity, status) == Finding("CDC001", severity, src, dst, path, status) IN
  IF FindPatternForDest(D, dst, TRUE) = "None" THEN Because(F("error", "VerifiedUnsafe"), "unsynchronized")
  ELSE IF BelowMinStages(D, dst, D.min_stages)
  THEN Because(F("error", "VerifiedUnsafe"), "short")
  ELSE IF HasChainWarnings(D, dst, TRUE)
  THEN Because(F("warning", "Ambiguous"), "warnings")
  ELSE Because(F("info", "VerifiedSafe"), "chain")

(* The rules that fire on top of CDC001. *)
Companions(D, src, dst, path) ==
  LET F(rule, severity) == Finding(rule, severity, src, dst, path, "Unknown")
      ends == {src, dst}
      bare == {id \in ends : ~HasReset(D, id)} IN
  (IF D.at[src].width > 1 /\ <<src, dst>> \notin D.proven
   THEN {F("CDC002", "error")} ELSE {})
  \cup
  {F("CDC004", "warning") : id \in {e \in ends : D.at[e].gated}}
  \cup
  {F("CDC005", "warning") : id \in {e \in bare : D.at[e].muxed}}
  \cup
  {F("CDC007", IF D.require_reset /\ bare = ends THEN "warning" ELSE "info") : id \in bare}

ProcessPath(D, src, path) ==
  LET dst == Last(path)
      F(why, status) == Because(Finding("CDC001", "info", src, dst, path, status), why)
      Report(f) ==
        IF <<Domain(D, src), Domain(D, dst)>> \in D.multicycle /\ D.suppress
        THEN {[f EXCEPT !.severity = "info", !.status = "Ambiguous"]}
        ELSE {f} \cup Companions(D, src, dst, path)
  IN IF IsFalsePath(D, src, dst, path) THEN {F("false_path", "Ambiguous")}
     ELSE IF IsPathThroughSafeBlackbox(D, path) THEN {F("blackbox", "VerifiedSafe")}
     ELSE Report(Judged(D, src, dst, path))

ProcessRegister(D, src) ==
  LET found == FindRegisterPaths(D.g, src, MaxPaths)
      truncated == Finding("CDC010", "warning", src, NoId, <<>>, "Ambiguous") IN
  IF ~HasDomain(D, src) THEN {}
  ELSE (UNION {ProcessPath(D, src, path) : path \in CrossingPaths(D, src, found.paths)})
       \cup (IF found.truncated THEN {truncated} ELSE {})

-----------------------------------------------------------------------------
(* CDC008: lines of registers over three domains or more, from their start. *)

IsLineStart(D, id) ==
  HasDomain(D, id) /\ \A p \in ToSet(DirectBack(D, id)) : ~Crosses(D, p, id)

LineSteps(D) ==
  [id \in Registers(D.g) |->
     {s \in ToSet(RegisterSuccessors(D.g, id, TRUE)) : HasDomain(D, s)}]

Lines(next, src) ==
  LET lines[line \in Seq(Nat) \ {<<>>}] ==
        {line} \cup
        IF Len(line) >= MaxLine THEN {}
        ELSE UNION {lines[Append(line, s)] : s \in next[Last(line)] \ ToSet(line)}
  IN lines[<<src>>]

DaisyChains(D) ==
  LET next == LineSteps(D)
      domain == [id \in Registers(D.g) |-> Domain(D, id)]
      Long(src) == \E line \in Lines(next, src) :
                     Cardinality({domain[id] : id \in ToSet(line)}) >= 3 IN
  {Finding("CDC008", "warning", src, NoId, <<>>, "Candidate") :
     src \in {src \in Registers(D.g) : IsLineStart(D, src) /\ Long(src)}}

Analyze(D) ==
  (UNION {ProcessRegister(D, src) : src \in Registers(D.g)}) \cup DaisyChains(D)

-----------------------------------------------------------------------------
(* propagate_uncertainty: from the destinations of unsynchronized          *)
(* crossings, along edges and direct register connections of one clock.    *)

Uncertain(findings) ==
  {f.dst : f \in {f \in findings : f.rule = "CDC001" /\ f.why = "unsynchronized"}}

(* Mutant: only the edges are followed, not the connections over nets. *)
Downstream_EdgesOnly(D, id) ==
  {s \in ToSet(Successors(D.g, id)) : Clock(D, s) = Clock(D, id)}

Downstream(D, id) ==
  {s \in ToSet(Successors(D.g, id)) \cup ToSet(Direct(D, id)) :
     Clock(D, s) = Clock(D, id)}

(* What is marked after so many hops; a hop from what was marked before    *)
(* the last one finds nothing new.                                         *)
Spread(D, from) ==
  LET hops[n \in 0..MAX_PATH_DEPTH] ==
        IF n = 0 THEN from
        ELSE LET marked == hops[n - 1] IN
             marked \cup UNION {Downstream(D, id) : id \in marked}
  IN hops[MAX_PATH_DEPTH]

(* What the nodes are marked with afterwards: the marks stay in the graph, *)
(* and those a graph has from an earlier analysis spread like new ones.    *)
Marks(D, findings) ==
  LET direct == Uncertain(findings)
      from == direct \cup {id \in DOMAIN D.at : D.at[id].uncertain # "no"}
      marked == Spread(D, from) IN
  [id \in DOMAIN D.at |->
     IF D.at[id].uncertain # "no" THEN D.at[id].uncertain
     ELSE IF id \in direct THEN "crossing"
     ELSE IF id \in marked THEN "propagated" ELSE "no"]

PropagateUncertainty(D, findings) ==
  LET marks == Marks(D, findings)
      named == UNION {{f.src, f.dst} : f \in findings} IN
  findings \cup
  {Finding("CDC013", "warning", id, NoId, <<id>>, "Candidate") :
     id \in {r \in Registers(D.g) \ named : marks[r] = "propagated"}}

-----------------------------------------------------------------------------
(* CDC006: the first stage of each chain that logic drives.  The source it *)
(* names is the first driver of another clock the entry has.               *)
Cdc006(D) ==
  LET Logic(s) == \E p \in ToSet(Predecessors(D.g, s)) :
                    KindOf(D.g, p) = "Combinational"
      Sources(stages, stage) ==
        LET Other(p) == Clock(D, p) # Clock(D, stage) IN
        SelectSeq(RegisterPredecessors(D.g, stages[1], TRUE), Other)
      FirstDriven(stages) ==
        {i \in 1..(MaxStages + 1) :
           /\ i \in DOMAIN stages /\ Logic(stages[i])
           /\ \A j \in 1..(i - 1) : ~Logic(stages[j])}
      Found(stages) ==
        {Finding("CDC006", "error", Head(Sources(stages, stages[i])), stages[i],
                 <<>>, "VerifiedUnsafe") : i \in FirstDriven(stages)}
  IN UNION {Found(c.stages) : c \in Match(D)}
=============================================================================
