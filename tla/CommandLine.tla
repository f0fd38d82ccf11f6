---------------------------- MODULE CommandLine ----------------------------
(***************************************************************************)
(* The check command: main of src/main.cpp around one call of the          *)
(* analyzer, with the baseline and the report it writes.  Both files are   *)
(* written under a temporary name and renamed; a write, a flush or a       *)
(* rename may fail and the process may be killed between any two steps.    *)
(*                                                                         *)
(* A command is a record                                                   *)
(*   compare, save    a baseline to compare with, to write                 *)
(*   out              a report file is asked for; without, it goes to the  *)
(*                    terminal                                             *)
(*   format           "json" or another format, "html" goes elsewhere      *)
(*   signoff          the verdict decides the exit code                    *)
(* A caller that uses the analyzer as a library has no command.            *)
(***************************************************************************)
EXTENDS AnalyzerPipeline, Baseline

CONSTANTS
  Commands,
  CommandRequests,  (* the requests main is asked for                      *)
  Earlier           (* what may lie on the disk as the baseline at first   *)

ASSUME CommandLineAssumption ==
  /\ Absent \in Earlier
  /\ \A old \in Earlier : /\ Len(old.findings) \in Nat
                          /\ DOMAIN old.findings = 1..Len(old.findings)
  /\ \A r \in CommandRequests : WellFormed(r)

VARIABLES
  command,
  stage,    (* "library", or where main is                                *)
  disk,     (* baseline and report, and their temporary files             *)
  bad,      (* a write to the open file has failed                        *)
  exit      (* the exit code, "none" while the process runs               *)

main_vars == <<command, stage, disk, bad, exit>>
all_vars == <<vars, main_vars>>

Artifacts == {"baseline", "report"}
Temporary == [baseline |-> "baseline_tmp", report |-> "report_tmp"]
Library == [compare |-> FALSE, save |-> FALSE, out |-> FALSE, format |-> "json",
            signoff |-> FALSE]

(* The findings in the order of the report. *)
Reported ==
  LET findings == InSomeOrder(result.findings) IN
  [i \in DOMAIN findings |-> Key(AsNamed(result, findings[i]))]

(* Reporter::has_unsuppressed_errors. *)
HasUnsuppressedErrors(findings) ==
  \E f \in findings : /\ ~Waived(f) /\ f.why \notin {"false_path", "multicycle"}
                      /\ f.severity = "error"

-----------------------------------------------------------------------------
MainInit ==
  /\ InitFor(Requests \cup CommandRequests)
  /\ \/ request \in Requests /\ command = Library /\ stage = "library"
     \/ request \in CommandRequests /\ command \in Commands /\ stage = "options"
  /\ \E old \in IF stage = "library" THEN {Absent} ELSE Earlier :
       disk = [baseline |-> old, report |-> Absent, baseline_tmp |-> Absent,
               report_tmp |-> Absent]
  /\ bad = FALSE
  /\ exit = "none"

Exit(code) ==
  /\ stage' = "done"
  /\ exit' = code

library ==
  /\ stage = "library"
  /\ Next
  /\ UNCHANGED main_vars

(* The options are looked at, and the configuration is read a first time. *)
read_options ==
  LET unreadable == request.config = "file" /\ ParseFile(request.config_file).error # "" IN
  /\ stage = "options"
  /\ IF command.format \notin Formats \/ unreadable \/ ~IsValidProfile(request.profile)
     THEN Exit("INPUT_ERROR")
     ELSE stage' = "analysis" /\ UNCHANGED exit
  /\ UNCHANGED <<vars, command, disk, bad>>

analysis ==
  /\ stage = "analysis"
  /\ CallStep
  /\ UNCHANGED main_vars

(* A comparison reports and ends; nothing is saved then. *)
after_analysis ==
  LET report == Compare(LoadBaseline(disk.baseline), Reported) IN
  /\ stage = "analysis"
  /\ pc = "idle" /\ calls = 1
  /\ \/ /\ ~result.ok \/ (command.compare /\ disk.baseline = Absent)
        /\ Exit("INPUT_ERROR")
     \/ /\ result.ok /\ command.compare /\ disk.baseline # Absent
        /\ Exit(IF Regressed(report) THEN "FINDINGS" ELSE "OK")
     \/ /\ result.ok /\ ~command.compare
        /\ stage' = IF command.save THEN "baseline" ELSE "report"
        /\ UNCHANGED exit
  /\ UNCHANGED <<vars, command, disk, bad>>

(* save_baseline warns and goes on; a report that cannot be written is an  *)
(* error.                                                                  *)
Abandon(file) ==
  /\ disk' = [disk EXCEPT ![Temporary[file]] = Absent]
  /\ IF file = "baseline" THEN stage' = "report" /\ UNCHANGED exit
     ELSE Exit("INPUT_ERROR")

open(file) ==
  /\ stage = file
  /\ file = "report" => (command.out /\ command.format # "html")
  /\ \/ /\ disk' = [disk EXCEPT ![Temporary[file]] = Empty]
        /\ stage' = Temporary[file]
        /\ UNCHANGED exit
     \/ /\ IF file = "baseline" THEN stage' = "report" /\ UNCHANGED exit
           ELSE Exit("INPUT_ERROR")
        /\ UNCHANGED disk
  /\ bad' = FALSE
  /\ UNCHANGED <<vars, command>>

(* A finding is written; after a write has failed nothing more is.         *)
write(file) ==
  LET tmp == Temporary[file]
      written == disk[tmp].findings IN
  /\ stage = tmp
  /\ ~disk[tmp].ended /\ ~bad
  /\ \/ /\ written = Reported
        /\ disk' = [disk EXCEPT ![tmp].ended = TRUE]
        /\ UNCHANGED bad
     \/ /\ written # Reported
        /\ disk' = [disk EXCEPT ![tmp].findings = Append(@, Reported[Len(written) + 1])]
        /\ UNCHANGED bad
     \/ bad' = TRUE /\ UNCHANGED disk
  /\ UNCHANGED <<vars, command, stage, exit>>

(* Mutant: the state of the stream is not looked at. *)
publish_Unchecked(file) ==
  LET tmp == Temporary[file] IN
  /\ stage = tmp
  /\ disk[tmp].ended \/ bad
  /\ disk' = [disk EXCEPT ![file] = disk[tmp], ![tmp] = Absent]
  /\ stage' = IF file = "baseline" THEN "report" ELSE "exit"
  /\ UNCHANGED <<vars, command, bad, exit>>

(* Mutant: a report that cannot be renamed ends as one that was. *)
publish_Ignored(file) ==
  LET tmp == Temporary[file] IN
  /\ stage = tmp
  /\ disk[tmp].ended \/ bad
  /\ disk' \in {[disk EXCEPT ![tmp] = Absent]} \cup
               (IF bad THEN {} ELSE {[disk EXCEPT ![file] = disk[tmp], ![tmp] = Absent]})
  /\ stage' = IF file = "baseline" THEN "report" ELSE "exit"
  /\ UNCHANGED <<vars, command, bad, exit>>

(* Flush, look at the stream, close and rename. *)
publish(file) ==
  LET tmp == Temporary[file] IN
  /\ stage = tmp
  /\ disk[tmp].ended \/ bad
  /\ \/ Abandon(file)
     \/ /\ ~bad
        /\ disk' = [disk EXCEPT ![file] = disk[tmp], ![tmp] = Absent]
        /\ stage' = IF file = "baseline" THEN "report" ELSE "exit"
        /\ UNCHANGED exit
  /\ UNCHANGED <<vars, command, bad>>

(* A report that does not go to a file; the pages of html may not be       *)
(* writable.                                                               *)
print ==
  /\ stage = "report"
  /\ ~command.out \/ command.format = "html"
  /\ \/ stage' = "exit" /\ UNCHANGED exit
     \/ command.format = "html" /\ Exit("INPUT_ERROR")
  /\ UNCHANGED <<vars, command, disk, bad>>

finish ==
  /\ stage = "exit"
  /\ Exit(IF command.signoff
          THEN IF result.signoff \in {"PASS", "PASS_WITH_WAIVERS"} THEN "OK" ELSE "FINDINGS"
          ELSE IF HasUnsuppressedErrors(result.findings) THEN "FINDINGS" ELSE "OK")
  /\ UNCHANGED <<vars, command, disk, bad>>

killed ==
  /\ stage \notin {"library", "done"}
  /\ Exit("killed")
  /\ UNCHANGED <<vars, command, disk, bad>>

MainNext ==
  \/ library
  \/ read_options
  \/ analysis
  \/ after_analysis
  \/ \E file \in Artifacts : open(file) \/ write(file) \/ publish(file)
  \/ print
  \/ finish
  \/ killed

MainSpec == MainInit /\ [][MainNext]_all_vars

-----------------------------------------------------------------------------
(* A baseline or a report that can be read is what lay there before the    *)
(* command or the whole of what this run found, after failed writes and a  *)
(* process killed at any step (trend.cpp:166, main.cpp "never leaves a     *)
(* truncated --out artifact behind").                                      *)
ArtifactsWhole ==
  \A file \in Artifacts :
    disk[file] \in (IF file = "baseline" THEN Earlier ELSE {Absent}) \cup {Whole(Reported)}

(* Exit code OK says that what was asked for was done: the report is there *)
(* as a whole, no error is left but waived or suppressed ones, and with    *)
(* --signoff the analysis was complete, too (main and the sign-off agree). *)
OkMeansDone ==
  exit = "OK" /\ ~command.compare =>
    /\ command.out /\ command.format # "html" => disk.report = Whole(Reported)
    /\ \A f \in result.findings :
         f.severity = "error" /\ f.by = 0 => f.why \in {"false_path", "multicycle"}
    /\ command.signoff => result.status = "complete"

(* A comparison tells by their number alone whether things got worse, even *)
(* if several findings have one key: the occurrences are counted (build_   *)
(* finding_map), so one that is fixed pays for one that is new.            *)
ComparisonOnlyCounts ==
  exit \in {"OK", "FINDINGS"} /\ command.compare =>
    (exit = "FINDINGS") = (Len(Reported) > Len(LoadBaseline(disk.baseline)))
=============================================================================
