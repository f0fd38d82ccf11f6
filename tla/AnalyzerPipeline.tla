-------------------------- MODULE AnalyzerPipeline --------------------------
(***************************************************************************)
(* Analyzer::run and Analyzer::run_incremental of src/analysis/analyzer.   *)
(* cpp, one action per stage, composed of the modules of the stages.  The  *)
(* waiver engine reads the clock of the day for every finding and waiver,  *)
(* so days may pass between the steps.                                     *)
(*                                                                         *)
(* A request is a record                                                   *)
(*   design        what the frontend makes of the input files: ok, input   *)
(*                 type, unknown (cells that look sequential but are not   *)
(*                 in the library), nodes, edges, at (attributes as in     *)
(*                 Synchronizer, and name and module), proven              *)
(*   config        "none", "inline" or "file"; inline, config_file         *)
(*   profile, constraints and waiver_file (sequences of at most one file), *)
(*   false_paths, disable (rules), severities (records [rule, severity])   *)
(* A result is [ok, status, findings, signoff, coverage, g, at].           *)
(***************************************************************************)
EXTENDS DomainRules, Signoff, Constraints, BlackBox

CONSTANTS
  Requests,
  ClockNames,       (* the name of each clock, as a sequence of words      *)
  Edits,            (* edges a caller adds to the graph of a result        *)
  HasNetlistFrontend,
  LastDay,          (* bound: the days that are looked at                  *)
  MaxCalls          (* bound: the calls of one behaviour                   *)

VARIABLES
  today,
  pc,               (* the stage that is next, "idle" between calls        *)
  mode,             (* "run" or "incremental"                              *)
  request,
  work,             (* the locals of the call; and began, the day it began,*)
                    (* and seen, the constraint files of all calls so far  *)
  result,           (* what the last call returned                         *)
  held,             (* the result the caller keeps for run_incremental     *)
  calls

vars == <<today, pc, mode, request, work, result, held, calls>>

NoCoverage == [total |-> 0, analyzed |-> 0, same_domain |-> 0, truncated |-> 0]

Failed(g, at) ==
  [ok |-> FALSE, status |-> "failed", findings |-> {}, signoff |-> "ERROR",
   coverage |-> NoCoverage, g |-> g, at |-> at]

NoWork ==
  [config |-> DefaultConfig, constraints |-> NoConstraints, false_paths |-> {},
   engine |-> NewEngine, g |-> EmptyGraph, at |-> <<>>, proven |-> {},
   unknown |-> FALSE, findings |-> {}, todo |-> <<>>, waivers |-> <<>>,
   warnings |-> <<>>, began |-> 0, seen |-> {}]

Methodology == IF request.profile = "" THEN "default" ELSE request.profile

-----------------------------------------------------------------------------
(* What a request makes of its files.                                      *)

ConfigOf(r) ==
  CASE r.config = "inline" -> Parsed(r.inline, "")
    [] r.config = "file" -> ParseFile(r.config_file)
    [] OTHER -> Parsed(DefaultConfig, "")

WaiversOf(config, waiver_file) ==
  LET configured == SelectSeq(config.waivers, Accepts) IN
  IF waiver_file = <<>> THEN [waivers |-> configured, ok |-> TRUE]
  ELSE LoadFromFile(configured, waiver_file[1])

(* A frontend makes nodes of four kinds with attributes, and edges between *)
(* ids; nodes, edges and overrides are sequences, a configuration has      *)
(* rules and the date of a waiver is a day.                                *)
WellFormed(r) ==
  LET config == ConfigOf(r).config
      waivers == WaiversOf(ApplyProfile(config, r.profile), r.waiver_file).waivers IN
  /\ Len(r.design.nodes) \in Nat /\ DOMAIN r.design.nodes = 1..Len(r.design.nodes)
  /\ \A i \in DOMAIN r.design.nodes :
       r.design.nodes[i].kind \in {"Register", "Port", "Net", "Combinational"}
  /\ DOMAIN r.design.at = DOMAIN r.design.nodes
  /\ \A id \in DOMAIN r.design.at :
       /\ DOMAIN r.design.at[id] = AttributeFields \cup {"name", "module"}
       /\ r.design.at[id].packed \in Nat
  /\ Len(r.design.edges) \in Nat /\ r.design.edges \in Seq(Nat \X Nat)
  /\ Len(waivers) \in Nat /\ DOMAIN waivers = 1..Len(waivers)
  /\ \A i \in DOMAIN waivers : waivers[i].expiry \in Nat
  /\ "rules" \in DOMAIN config
  /\ \A overrides \in {r.disable, r.severities} :
       Len(overrides) \in Nat /\ DOMAIN overrides = 1..Len(overrides)

ASSUME AnalyzerPipelineAssumption ==
  /\ LastDay \in Nat /\ LastDay < Never
  /\ MaxCalls \in Nat
  /\ \A r \in Requests : WellFormed(r)

-----------------------------------------------------------------------------
(* Helpers.                                                                *)

(* The findings as a sequence: which order they are in does not matter. *)
Pick(findings) == CHOOSE f \in findings : TRUE

InSomeOrder(findings) ==
  LET n == Cardinality(findings)
      left[i \in 0..n] == IF i = 0 THEN findings
                          ELSE LET rest == left[i - 1] IN rest \ {Pick(rest)}
  IN [i \in 1..n |-> Pick(left[i - 1])]

ClockNamed(name) == CHOOSE c \in DOMAIN ClockNames : ClockNames[c] = name

(* The generated clocks of a constraint file give registers a root. *)
WithRoots(g, at, constraints) ==
  LET def(id) == GetClock(constraints, ClockNames[FindNode(g, id).clock_domain])
      Remapped(id) == /\ IsRegister(g, id) /\ FindNode(g, id).clock_domain # NoClock
                      /\ def(id) # <<>> /\ def(id)[1].generated
                      /\ def(id)[1].master # <<>> IN
  [id \in DOMAIN at |-> IF Remapped(id)
                        THEN [at[id] EXCEPT !.root = ClockNamed(def(id)[1].master)]
                        ELSE at[id]]

RegAndClock(reg, clock) == [NoEnd EXCEPT !.reg = reg, !.clock = clock]

OfConfig(fp) ==
  LET name(clock) == IF clock = "" THEN <<>> ELSE ClockNames[clock] IN
  FalsePath(RegAndClock(fp.src, name(fp.src_clock)),
            RegAndClock(fp.dst, name(fp.dst_clock)), <<>>)

(* add_exclusive_fps for each exclusive group: both ways between any two   *)
(* clocks of its list, unless a false path with these clocks was added     *)
(* before.  paths is [fps, keys].                                          *)
AddExclusive(paths, groups) ==
  LET Both(clocks) == UNION {{<<clocks[i], clocks[j]>> : j \in (DOMAIN clocks) \ {i}} :
                               i \in DOMAIN clocks}
      pairs == UNION {Both(g.clocks) : g \in {g \in ToSet(groups) : g.exclusive}}
      Between(p) == FalsePath(RegAndClock(<<>>, p[1]), RegAndClock(<<>>, p[2]), <<>>) IN
  [fps |-> paths.fps \cup {Between(p) : p \in pairs \ paths.keys},
   keys |-> paths.keys \cup pairs]

(* The false paths of constraint file, configuration and request, and what *)
(* exclusive groups stand for.                                             *)
AllFalsePaths(config, constraints, requested) ==
  LET given == ToSet(constraints.false_paths) \cup
               {OfConfig(fp) : fp \in ToSet(config.false_paths)}
      asked == {FalsePath(RegAndClock(p[1], <<>>), RegAndClock(p[2], <<>>), <<>>) :
                  p \in ToSet(requested)}
      keys == {<<fp.from.clock, fp.to.clock>> : fp \in given}
      Clocks(g) == [i \in DOMAIN g.clocks |-> ClockNames[g.clocks[i]]]
      groups == [i \in DOMAIN config.clock_groups |->
                   [clocks |-> Clocks(config.clock_groups[i]),
                    exclusive |-> config.clock_groups[i].exclusive]]
      paths == AddExclusive([fps |-> given, keys |-> keys], groups)
  IN asked \cup AddExclusive(paths, constraints.groups).fps

(* The rule table: the configuration's entries, then the request's. *)
WithOverrides(config, disable, severities) ==
  LET rules == InSomeOrder(DOMAIN config.rules)
      configured ==
        AddOverrides(NewEngine, [i \in DOMAIN rules |->
          Override(rules[i], config.rules[rules[i]].enabled, config.rules[rules[i]].severity)])
      allowed ==
        AddOverrides(configured, [i \in DOMAIN disable |-> Override(disable[i], FALSE, NotGiven)])
  IN AddOverrides(allowed, [i \in DOMAIN severities |->
                     Override(severities[i].rule, TRUE, severities[i].severity)])

BadOverride(config, disable, severities) ==
  \/ ~(DOMAIN config.rules \subseteq RuleIds)
  \/ ~(ToSet(disable) \subseteq RuleIds)
  \/ \E s \in ToSet(severities) : s.rule \notin RuleIds \/ s.severity \notin Severities

(* The design the crossing analysis is given. *)
Design(w) ==
  LET ids == DOMAIN w.at
      regs == Registers(w.g)
      D == [g |-> w.g, at |-> w.at]
      domains == {Domain(D, id) : id \in {id \in regs : HasDomain(D, id)}}
      EndOf(id) == End(ClockNames[Domain(D, id)], w.at[id].name)
      known == {id \in regs : HasDomain(D, id)}
      Cut(fp) ==
        [clocks |-> <<>>,
         ends |-> <<{p \in known \X known : EndsMatch(fp, EndOf(p[1]), EndOf(p[2]))}>>,
         through |-> {{id \in ids : PatternMatches(pattern, w.at[id].name)} :
                        pattern \in ToSet(fp.through)}] IN
  [g |-> w.g,
   at |-> [id \in ids |->
             [w.at[id] EXCEPT !.safe_box = InSafeBox(w.config, w.at[id].module)]],
   false_paths |-> {Cut(fp) : fp \in {fp \in w.false_paths : Selective(fp)}},
   multicycle |-> {p \in domains \X domains :
                     \E mcp \in ToSet(w.constraints.multicycle) :
                       MulticycleMatches(mcp, ClockNames[p[1]], ClockNames[p[2]])},
   suppress |-> w.config.suppress_multicycle /\ "CDC001" \in w.config.suppress_rules,
   proven |-> w.proven,
   min_stages |-> w.config.min_sync_stages,
   require_reset |-> w.config.require_reset,
   check_same_clock |-> w.config.check_same_clock,
   detect_synchronizer |-> w.config.detect_synchronizer,
   suppress_resets |-> w.config.suppress_reset_crossings,
   max_hops |-> w.config.reconvergence_depth]

(* A finding as the waiver engine sees it; two rules name the clock of the *)
(* register and not its domain.                                            *)
AsNamed(w, f) ==
  LET D == [g |-> w.g, at |-> w.at]
      clock(id) == IF f.rule \in {"CDC006", "CDC013"} THEN Clock(D, id) ELSE Domain(D, id)
      name(id) == IF id = NoId THEN <<>> ELSE w.at[id].name
      domain(id) == IF id = NoId \/ clock(id) \notin DOMAIN ClockNames THEN <<>>
                    ELSE ClockNames[clock(id)] IN
  [rule |-> f.rule, src |-> name(f.src), dst |-> name(f.dst),
   src_domain |-> domain(f.src), dst_domain |-> domain(f.dst), of |-> f]

-----------------------------------------------------------------------------
(* The stages.                                                             *)

InitFor(requests) ==
  /\ today = 1
  /\ pc = "idle"
  /\ mode = "run"
  /\ request \in requests
  /\ work = NoWork
  /\ result = Failed(EmptyGraph, <<>>)
  /\ held = result
  /\ calls = 0

Init == InitFor(Requests)

day_passes ==
  /\ today < LastDay
  /\ today' = today + 1
  /\ UNCHANGED <<pc, mode, request, work, result, held, calls>>

(* A call ends early: what it returns is a failure. *)
Fail(g, at) ==
  /\ pc' = "idle"
  /\ result' = Failed(g, at)
  /\ held' = IF mode = "run" THEN Failed(g, at) ELSE held
  /\ UNCHANGED work

(* A run reads nothing of the calls before it: it is the first call. *)
run ==
  /\ pc = "idle"
  /\ calls = 0
  /\ calls' = calls + 1
  /\ mode' = "run"
  /\ work' = [NoWork EXCEPT !.began = today, !.seen = {request.constraints}]
  /\ pc' = "configure"
  /\ UNCHANGED <<today, request, result, held>>

(* Without a change the old result is returned, as a success. *)
run_incremental(r) ==
  /\ pc = "idle"
  /\ calls \in 1..(MaxCalls - 1)
  /\ r.design = request.design
  /\ request' = r
  /\ calls' = calls + 1
  /\ mode' = "incremental"
  /\ IF held.g.dirty
     THEN /\ work' = [NoWork EXCEPT !.began = today, !.proven = work.proven,
                                  !.seen = work.seen \cup {r.constraints}]
          /\ pc' = "configure"
          /\ UNCHANGED result
     ELSE /\ result' = [held EXCEPT !.ok = TRUE, !.status = "no_changes"]
          /\ UNCHANGED <<pc, work>>
  /\ UNCHANGED <<today, held>>

(* The caller changes the graph of the result it holds. *)
edit(from, to) ==
  /\ pc = "idle" /\ held.ok
  /\ {from, to} \subseteq NodeIds(held.g)
  /\ ~EdgeListed(held.g, from, to)
  /\ held' = [held EXCEPT !.g = AddEdge(@, from, to)]
  /\ UNCHANGED <<today, pc, mode, request, work, result, calls>>

clear_dirty ==
  /\ pc = "idle" /\ held.g.dirty
  /\ held' = [held EXCEPT !.g.dirty = FALSE]
  /\ UNCHANGED <<today, pc, mode, request, work, result, calls>>

ReadConfig == ConfigOf(request)

configure ==
  LET Take(read) ==
        IF read.error # "" THEN Fail(EmptyGraph, <<>>)
        ELSE /\ work' = [work EXCEPT !.config = ApplyProfile(read.config, request.profile),
                                     !.g = IF mode = "run" THEN @ ELSE held.g,
                                     !.at = IF mode = "run" THEN @ ELSE held.at]
             /\ pc' = IF mode = "run" THEN "elaborate" ELSE "constrain"
             /\ UNCHANGED <<result, held>> IN
  /\ pc = "configure"
  /\ Take(ReadConfig)
  /\ UNCHANGED <<today, mode, request, calls>>

elaborate ==
  LET design == request.design
      g == Connected(Placed(design.nodes), design.edges) IN
  /\ pc = "elaborate"
  /\ IF ~design.ok \/ (design.input = "netlist" /\ ~HasNetlistFrontend)
     THEN Fail(EmptyGraph, <<>>)
     ELSE /\ work' = [work EXCEPT !.g = g, !.at = design.at, !.proven = design.proven,
                                  !.unknown = design.unknown]
          /\ pc' = "constrain"
          /\ UNCHANGED <<result, held>>
  /\ UNCHANGED <<today, mode, request, calls>>

(* The constraint file of the request. *)
ReadConstraints ==
  IF request.constraints = <<>> THEN [constraints |-> NoConstraints, error |-> ""]
  ELSE ParseConstraints(request.constraints[1])

Constrain(read) ==
  /\ pc = "constrain"
  /\ IF read.error # "" THEN Fail(work.g, work.at)
     ELSE /\ work' = [work EXCEPT !.constraints = read.constraints,
                                  !.at = WithRoots(work.g, @, read.constraints)]
          /\ pc' = "set_rules"
          /\ UNCHANGED <<result, held>>
  /\ UNCHANGED <<today, mode, request, calls>>

(* Mutant: a call on the held graph does not read the constraint file. *)
constrain_RunOnly ==
  Constrain(IF mode = "run" THEN ReadConstraints
            ELSE [constraints |-> NoConstraints, error |-> ""])

constrain == Constrain(ReadConstraints)

set_rules ==
  /\ pc = "set_rules"
  /\ IF BadOverride(work.config, request.disable, request.severities)
     THEN Fail(work.g, work.at)
     ELSE /\ work' = [work EXCEPT
               !.engine = WithOverrides(work.config, request.disable, request.severities),
               !.false_paths = AllFalsePaths(work.config, work.constraints,
                                             request.false_paths)]
          /\ pc' = "analyse"
          /\ UNCHANGED <<result, held>>
  /\ UNCHANGED <<today, mode, request, calls>>

analyse ==
  LET Unwaived(f) == Put(f, "by", 0)
      WithMarks(at, marks) == [id \in DOMAIN at |-> [at[id] EXCEPT !.uncertain = marks[id]]]
      Found(D, crossings) ==
        [work EXCEPT
           !.findings = {Unwaived(f) : f \in Filter(work.engine,
                                                     FindingsFrom(D, crossings))},
           !.at = WithMarks(@, Marks(D, crossings))]
      Analysed(D) == Found(D, Analyze(D)) IN
  /\ pc = "analyse"
  /\ work' = Analysed(Design(work))
  /\ pc' = "load_waivers"
  /\ UNCHANGED <<today, mode, request, result, held, calls>>

load_waivers ==
  LET Load(read) ==
        IF ~read.ok THEN Fail(work.g, work.at)
        ELSE /\ work' = [work EXCEPT !.waivers = read.waivers,
                                     !.todo = InSomeOrder(work.findings)]
             /\ pc' = IF read.waivers = <<>> THEN "judge" ELSE "waive"
             /\ UNCHANGED <<result, held>> IN
  /\ pc = "load_waivers"
  /\ Load(WaiversOf(work.config, request.waiver_file))
  /\ UNCHANGED <<today, mode, request, calls>>

(* WaiverEngine::apply, one finding at a time. *)
waive ==
  /\ pc = "waive"
  /\ IF work.todo = <<>> THEN pc' = "check_unused" /\ UNCHANGED work
     ELSE LET f == Head(work.todo)
              by == WaivedBy(work.waivers, AsNamed(work, f), today) IN
          /\ work' = [work EXCEPT !.findings = (@ \ {f}) \cup {[f EXCEPT !.by = by]},
                                  !.todo = Tail(@)]
          /\ UNCHANGED pc
  /\ UNCHANGED <<today, mode, request, result, held, calls>>

(* WaiverEngine::check_unused, one waiver at a time. *)
check_unused ==
  /\ pc = "check_unused"
  /\ IF Len(work.warnings) = Len(work.waivers) THEN pc' = "judge" /\ UNCHANGED work
     ELSE LET w == work.waivers[Len(work.warnings) + 1]
              named == {AsNamed(work, f) : f \in work.findings} IN
          /\ work' = [work EXCEPT !.warnings = Append(@, CheckUnused(w, named, today))]
          /\ UNCHANGED pc
  /\ UNCHANGED <<today, mode, request, result, held, calls>>

Status(findings) ==
  IF \E f \in findings : f.rule = "CDC010" THEN "incomplete" ELSE "complete"

(* run() takes the frontend's unknown cells into account after the rest. *)
FinalStatus(w, findings) ==
  IF mode = "run" /\ w.unknown THEN "incomplete" ELSE Status(findings)

judge ==
  LET status == FinalStatus(work, work.findings) IN
  /\ pc = "judge"
  /\ result' = [ok |-> TRUE, status |-> status, findings |-> work.findings,
                signoff |-> Evaluate(work.findings, status, Methodology),
                coverage |-> CrossingCoverage([g |-> work.g, at |-> work.at],
                                              Compute(work.findings)),
                g |-> work.g, at |-> work.at]
  /\ held' = result'
  /\ pc' = "idle"
  /\ UNCHANGED <<today, mode, request, work, calls>>

(* The steps of the call that is running, and what its caller may do       *)
(* between two calls.                                                      *)
CallStep ==
  \/ day_passes
  \/ run
  \/ configure
  \/ elaborate
  \/ constrain
  \/ set_rules
  \/ analyse
  \/ load_waivers
  \/ waive
  \/ check_unused
  \/ judge

Next ==
  \/ CallStep
  \/ \E r \in Requests : run_incremental(r)
  \/ \E e \in Edits : edit(e[1], e[2])
  \/ clear_dirty

Spec == Init /\ [][Next]_vars

-----------------------------------------------------------------------------
(* What a result stands for.                                               *)

Finished == pc = "idle" /\ result.status \in {"complete", "incomplete"}
Passed == result.ok /\ result.signoff \in {"PASS", "PASS_WITH_WAIVERS"}
Bare == [g |-> work.g, at |-> work.at]
NameOf(id) == work.at[id].name
ClockOf(id) == ClockNames[Domain(Bare, id)]
Said001(src, dst) ==
  {f \in result.findings : f.rule = "CDC001" /\ f.src = src /\ f.dst = dst}

(* What the user wrote about a pair of registers, read off the request,    *)
(* and read generously: a -through list does not narrow a false path, and  *)
(* two clocks of one -group of an exclusive set count as told apart.       *)
ToldFalse(src, dst) ==
  LET Open(pattern, name) == pattern = <<>> \/ PatternMatches(pattern, name)
      clock(c) == IF c = "" THEN <<>> ELSE ClockNames[c]
      InGroup(clocks) == \E i, j \in DOMAIN clocks :
                           i # j /\ Open(clocks[i], ClockOf(src)) /\ Open(clocks[j], ClockOf(dst)) IN
  \/ \E fp \in ToSet(work.config.false_paths) :
       /\ Open(fp.src, NameOf(src)) /\ Open(clock(fp.src_clock), ClockOf(src))
       /\ Open(fp.dst, NameOf(dst)) /\ Open(clock(fp.dst_clock), ClockOf(dst))
  \/ \E p \in ToSet(request.false_paths) :
       Open(p[1], NameOf(src)) /\ Open(p[2], NameOf(dst))
  \/ \E fp \in ToSet(work.constraints.false_paths) :
       /\ Open(fp.from.clock, ClockOf(src)) /\ Open(fp.to.clock, ClockOf(dst))
       /\ \A k \in EndKinds \ {"clock"} : Open(fp.from[k], NameOf(src)) /\
                                           Open(fp.to[k], NameOf(dst))
  \/ \E g \in ToSet(work.config.clock_groups) :
       g.exclusive /\ InGroup([i \in DOMAIN g.clocks |-> ClockNames[g.clocks[i]]])
  \/ \E g \in ToSet(work.constraints.groups) : g.exclusive /\ InGroup(g.clocks)
  \/ \E mcp \in ToSet(work.constraints.multicycle) :
       Open(mcp.from, ClockOf(src)) /\ Open(mcp.to, ClockOf(dst))

(* A verdict that passes leaves no path between two domains that nobody    *)
(* answers for: if no register of its clock follows the destination, the   *)
(* user said that the pair is not to be looked at, or put a safe cell on a *)
(* path of it, or a waiver that had not expired when the call began covers *)
(* it, or CDC001 is not an error or the search was cut short and CDC010 is *)
(* off (run_on_graph, from the frontend's graph to the sign-off).          *)
PassIsAuthorised ==
  LET follower(id) == {s \in ToSet(Direct(Bare, id)) : Clock(Bare, s) = Clock(Bare, id)}
      bare(src, dst) == /\ Crosses(Bare, src, dst)
                        /\ follower(dst) = {} /\ work.at[dst].packed < 2
      between(src, dst) == {p \in SimplePaths(work.g, src) : Last(p) = dst}
      Isolated(id) == work.at[id].isolation \/ InSafeBox(work.config, work.at[id].module) IN
  Finished /\ Passed /\ work.engine["CDC001"] = RuleEntry(<<>>)
           /\ work.engine["CDC010"].enabled =>
    \A src, dst \in Registers(work.g) :
      bare(src, dst) /\ between(src, dst) # {} =>
        \/ ToldFalse(src, dst)
        \/ \E p \in between(src, dst) : \E id \in ToSet(p) : Isolated(id)
        \/ \E f \in Said001(src, dst), w \in ToSet(work.waivers) :
             Covers(w, AsNamed(work, f)) /\ work.began <= w.expiry

(* A finding is waived by a waiver that covers it and was valid on a day   *)
(* of the call; and what is left has no waiver but expired ones, though    *)
(* the day may change between two findings (WaiverEngine::apply).  To      *)
(* cover is what the code's matching says: a substring has to stand        *)
(* between its delimiters, which "_" is not, although docs/waivers.md:67   *)
(* says that "src" matches "mod.src_ff".                                   *)
WaivedUnderAuthority ==
  Finished =>
    \A f \in result.findings :
      LET covering == {i \in DOMAIN work.waivers :
                         Covers(work.waivers[i], AsNamed(work, f))} IN
      IF f.by # 0
      THEN f.by \in covering /\ work.began <= work.waivers[f.by].expiry
      ELSE \A i \in covering : work.waivers[i].expiry < today

(* A waiver that is reported as matching nothing has waived nothing and    *)
(* covers no finding, even if the day changed between the two passes over  *)
(* the waivers (check_unused after apply): to delete it is safe.           *)
UnusedMeansUnused ==
  Finished =>
    \A i \in DOMAIN work.warnings :
      work.warnings[i] = "unused" =>
        \A f \in result.findings : f.by # i /\ ~Covers(work.waivers[i], AsNamed(work, f))

(* The crossings that are counted are those that are reported, and each    *)
(* search that a CDC010 reports as cut short is counted in both            *)
(* enumerations: from its finding and by the second search of the paths,   *)
(* so that the reported number is twice that of the searches               *)
(* (CoverageEngine::compute and compute_crossing_coverage, which have to   *)
(* agree on paths, domains and limits; the comment at coverage.cpp:118     *)
(* takes it for the number of the findings).                               *)
CoverageMatchesFindings ==
  LET reported(rule) == {f \in result.findings : f.rule = rule} IN
  Finished =>
    /\ work.engine["CDC001"].enabled =>
         result.coverage.analyzed = Cardinality(reported("CDC001"))
    /\ work.engine["CDC010"].enabled =>
         result.coverage.truncated = 2 * Cardinality(reported("CDC010"))

(* The request overrides the profile and the profile the configuration: a  *)
(* rule switched off anywhere stays off, and a severity comes from the     *)
(* outermost layer that gives one (apply_profile, then the overrides in    *)
(* order).                                                                 *)
LayersRespected ==
  LET Respects(f, rules) ==
      /\ f.rule \notin ToSet(request.disable) \cup ProfileDisables(request.profile)
      /\ f.rule \in DOMAIN rules => rules[f.rule].enabled
      /\ IF \E s \in ToSet(request.severities) : s.rule = f.rule
         THEN \E s \in ToSet(request.severities) : s.rule = f.rule /\ s.severity = f.severity
         ELSE IF f.rule \in ProfileErrors(request.profile) THEN f.severity = "error"
         ELSE f.rule \in DOMAIN rules /\ rules[f.rule].severity # NotGiven =>
                f.severity = rules[f.rule].severity
      AllRespect(rules) == \A f \in result.findings : Respects(f, rules) IN
  Finished => AllRespect(ReadConfig.config.rules)

(* What a run on the held graph from nothing would find. *)
Fresh ==
  LET Asked(config, constraints) ==
        [NoWork EXCEPT
           !.config = config, !.constraints = constraints,
           !.engine = WithOverrides(config, request.disable, request.severities),
           !.false_paths = AllFalsePaths(config, constraints, request.false_paths),
           !.g = result.g, !.proven = request.design.proven,
           !.at = WithRoots(result.g, request.design.at, constraints)]
      Findings(w) == Filter(w.engine, StructuralFindings(Design(w))) IN
  Findings(Asked(ApplyProfile(ReadConfig.config, request.profile),
                 ReadConstraints.constraints))

(* A call on a changed graph finds what a run on that graph would find, if *)
(* all calls had one constraint file: of what the graph keeps of the calls *)
(* before only the marks of uncertain values show, in CDC013.  Every mark  *)
(* is one that a run would set, or keeps a register uncertain behind a     *)
(* crossing of now: so nothing is missing of what a run reports, unless    *)
(* searches were cut short and the crossing itself was not found           *)
(* (run_incremental).                                                      *)
IncrementalAgreesWithRun ==
  LET Unwaived(f) == [k \in DOMAIN f \ {"by"} |-> f[k]]
      found == {Unwaived(f) : f \in result.findings}
      Except013(findings) == {f \in findings : f.rule # "CDC013"}
      uncut == result.status = "complete" /\ work.engine["CDC010"].enabled
      Agrees(fresh) == /\ Except013(found) = Except013(fresh)
                       /\ uncut => fresh \subseteq found IN
  Finished /\ mode = "incremental" /\ Cardinality(work.seen) = 1 => Agrees(Fresh)

-----------------------------------------------------------------------------
(* What the code says and does not do.                                     *)

(* analyzer.cpp:98 says of a design with cells that are not modelled that  *)
(* the analysis cannot claim to be complete; run_incremental does not know *)
(* of them any more.                                                       *)
IncompleteStaysIncomplete ==
  pc = "idle" /\ calls > 0 /\ request.design.unknown => ~Passed
=============================================================================
