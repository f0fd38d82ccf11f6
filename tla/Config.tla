------------------------------- MODULE Config -------------------------------
(***************************************************************************)
(* What a configuration file becomes: src/config/config.cpp, the profiles  *)
(* of src/config/profile.cpp laid over it, and the rule table of           *)
(* src/rules/rule.cpp that the analyzer builds from it.                    *)
(*                                                                         *)
(* A file is a record: access ("ok" or what is wrong with it), text        *)
(* ("yaml", or "malformed" if the YAML library rejects it), unknown        *)
(* (whether it has a top-level key nobody knows) and sections, a function  *)
(* from the names of its sections to records                               *)
(*   form    "nested" as YAML is written, "compact" one item a line        *)
(*   wrong   "no"; "bad", a value the parser refuses; "odd", a node of     *)
(*           another shape than expected, on which the YAML library throws *)
(*   v       the entries that are well formed.  An entry is a record with  *)
(*           the keys that are given and no others.                        *)
(***************************************************************************)
EXTENDS Waiver

DefaultConfig ==
  [rules |-> <<>>, waivers |-> <<>>, false_paths |-> <<>>, clock_groups |-> <<>>,
   blackboxes |-> <<>>, format |-> "", require_reset |-> FALSE,
   check_same_clock |-> FALSE, detect_synchronizer |-> TRUE,
   suppress_multicycle |-> TRUE, suppress_rules |-> {"CDC001"},
   suppress_reset_crossings |-> FALSE, reconvergence_depth |-> 8,
   min_sync_stages |-> 2, require_structural_proof |-> FALSE,
   allow_user_annotation |-> TRUE, input_type |-> "auto", max_nodes |-> 0,
   max_edges |-> 0]

SectionOrder ==
  <<"rules", "waivers", "output", "false_paths", "clock_groups", "reset_policy",
    "multicycle_path_policy", "blackboxes", "input", "reconvergence_depth",
    "min_sync_stages", "require_structural_proof", "allow_user_annotation",
    "suppress_reset_crossings">>

Formats == {"", "json", "text", "html", "sarif"}

-----------------------------------------------------------------------------
(* The entries of the sections that are lists or maps.                     *)

NotGiven == ""

(* A key that is given stands, one that is not has its default. *)
Over(given, defaults) ==
  [k \in DOMAIN given \cup DOMAIN defaults |->
     IF k \in DOMAIN given THEN given[k] ELSE defaults[k]]

RuleEntry(given) == Over(given, [enabled |-> TRUE, severity |-> NotGiven])

WaiverEntry(given) ==
  Over(given, [rule |-> "", type |-> "Substring", src |-> <<>>, dst |-> <<>>,
               src_domain |-> <<>>, dst_domain |-> <<>>, expiry |-> Never,
               unsafe |-> FALSE])

FalsePathEntry(given) ==
  Over(given, [src |-> <<>>, dst |-> <<>>, src_clock |-> "", dst_clock |-> ""])

(* A false path counts if both registers are named or both clocks. *)
FalsePathGiven(fp) ==
  \/ fp.src # <<>> /\ fp.dst # <<>>
  \/ fp.src_clock # "" /\ fp.dst_clock # ""

(* A group is exclusive unless it says otherwise or says asynchronous. *)
GroupEntry(given) ==
  LET g == Over(given, [clocks |-> <<>>, exclusive |-> TRUE, asynchronous |-> FALSE]) IN
  [g EXCEPT !.exclusive = @ /\ ~g.asynchronous]

BlackBoxEntry(given) ==
  Over(given, [module_name |-> "", is_safe_crossing |-> TRUE])

-----------------------------------------------------------------------------
(* parse_yaml_content.                                                     *)

Merge(config, name, v) ==
  LET Named(w) == w.rule # ""
      Module(b) == b.module_name # "" IN
  CASE name = "rules" ->
         [config EXCEPT !.rules = [r \in DOMAIN v |-> RuleEntry(v[r])]]
    [] name = "waivers" ->
         [config EXCEPT !.waivers =
            SelectSeq([i \in DOMAIN v |-> WaiverEntry(v[i])], Named)]
    [] name = "false_paths" ->
         [config EXCEPT !.false_paths =
            SelectSeq([i \in DOMAIN v |-> FalsePathEntry(v[i])], FalsePathGiven)]
    [] name = "clock_groups" ->
         [config EXCEPT !.clock_groups = [i \in DOMAIN v |-> GroupEntry(v[i])]]
    [] name = "blackboxes" ->
         [config EXCEPT !.blackboxes =
            SelectSeq([i \in DOMAIN v |-> BlackBoxEntry(v[i])], Module)]
    [] OTHER -> Over(v, config)

(* Everything the file says, in the order in which it is read. *)
Said(file) ==
  LET Read(config, name) ==
        IF name \in DOMAIN file.sections
        THEN Merge(config, name, file.sections[name].v) ELSE config IN
  FoldLeft(Read, DefaultConfig, SectionOrder)

InRange(name, v) ==
  /\ name = "reconvergence_depth" => v.reconvergence_depth \in 1..32
  /\ name = "min_sync_stages" => v.min_sync_stages \in 2..5

Wrong(file, name) ==
  IF name \notin DOMAIN file.sections THEN "no"
  ELSE IF ~InRange(name, file.sections[name].v) THEN "bad"
  ELSE file.sections[name].wrong

Parsed(config, error) == [config |-> config, error |-> error]
Refused(error) == Parsed(DefaultConfig, error)

-----------------------------------------------------------------------------
(* parse_legacy, on the text as it was written.  It knows five sections;   *)
(* of a nested item it sees the first line only.                           *)

LegacyWaiver(given) ==
  WaiverEntry([rule |-> IF "rule" \in DOMAIN given THEN given.rule ELSE ""])

(* Of a group the list of clocks is read if it is not in brackets; what    *)
(* says asynchronous is not known.                                         *)
LegacyGroup(given, compact) ==
  [GroupEntry(given) EXCEPT
     !.clocks = IF compact THEN @ ELSE <<>>,
     !.asynchronous = FALSE,
     !.exclusive = "exclusive" \in DOMAIN given => given.exclusive]

LegacyMerge(config, name, section) ==
  LET v == section.v
      compact == section.form = "compact"
      Named(w) == w.rule # "" IN
  CASE name = "waivers" /\ ~compact ->
         [config EXCEPT !.waivers =
            SelectSeq([i \in DOMAIN v |-> LegacyWaiver(v[i])], Named)]
    [] name = "false_paths" /\ ~compact -> config
    [] name = "clock_groups" ->
         [config EXCEPT !.clock_groups =
            [i \in DOMAIN v |-> LegacyGroup(v[i], compact)]]
    [] OTHER -> Merge(config, name, v)

ParseLegacy(file) ==
  LET Read(config, name) ==
        IF name \in DOMAIN file.sections
        THEN LegacyMerge(config, name, file.sections[name]) ELSE config IN
  Parsed(FoldLeft(Read, DefaultConfig,
                  <<"rules", "waivers", "output", "false_paths", "clock_groups">>), "")

(* The first section with something wrong decides: what the parser refuses *)
(* is an error, what makes the library throw goes to the legacy parser.    *)
ParseString(file) ==
  LET Troubled(name) == Wrong(file, name) # "no"
      troubled == SelectSeq(SectionOrder, Troubled) IN
  IF file.text = "malformed" THEN ParseLegacy(file)
  ELSE IF file.unknown THEN Refused("Unknown config key")
  ELSE IF troubled # <<>> /\ Wrong(file, Head(troubled)) = "odd" THEN ParseLegacy(file)
  ELSE IF troubled # <<>> THEN Refused("Invalid value")
  ELSE IF Said(file).format \notin Formats THEN Refused("Invalid output format")
  ELSE Parsed(Said(file), "")

ParseFile(file) ==
  IF file.access # "ok" THEN Refused(file.access) ELSE ParseString(file)

-----------------------------------------------------------------------------
(* Profiles.                                                               *)

ProfileDefault ==
  [require_reset |-> FALSE, detect_synchronizer |-> FALSE, check_same_clock |-> FALSE,
   allow_user_annotation |-> TRUE, require_structural_proof |-> FALSE,
   min_sync_stages |-> 2, reconvergence_depth |-> 8,
   suppress_reset_crossings |-> FALSE, suppress_multicycle |-> TRUE,
   suppress_rules |-> {"CDC001"}]

ProfileStrict ==
  Over([require_reset |-> TRUE, detect_synchronizer |-> TRUE, check_same_clock |-> TRUE,
        allow_user_annotation |-> FALSE, require_structural_proof |-> TRUE,
        min_sync_stages |-> 3, reconvergence_depth |-> 12,
        suppress_multicycle |-> FALSE], ProfileDefault)

ProfileSettings(name) ==
  CASE name = "strict" -> ProfileStrict
    [] name = "asic_signoff" -> [ProfileStrict EXCEPT !.reconvergence_depth = 16]
    [] name = "fpga" -> [ProfileDefault EXCEPT !.suppress_reset_crossings = TRUE,
                                               !.suppress_rules = {"CDC001", "CDC002"}]
    [] name = "ip_development" ->
         [ProfileDefault EXCEPT !.suppress_reset_crossings = TRUE]
    [] name = "soc_integration" -> [ProfileDefault EXCEPT !.reconvergence_depth = 10]
    [] OTHER -> ProfileDefault

IsValidProfile(name) ==
  name \in {"", "default", "strict", "asic_signoff", "fpga", "ip_development",
            "soc_integration"}

ProfileErrors(name) ==
  CASE name = "strict" -> {"CDC007"}
    [] name = "asic_signoff" -> {"CDC003", "CDC007"}
    [] OTHER -> {}

ProfileDisables(name) ==
  CASE name = "fpga" -> {"CDC009"}
    [] name = "ip_development" -> {"CDC007", "CDC009"}
    [] OTHER -> {}

(* Mutant: the rules of the profile replace those of the file. *)
ApplyProfile_ForgetsRules(config, name) ==
  IF name = NotGiven THEN config
  ELSE [Over(ProfileSettings(name), config) EXCEPT
          !.rules = [r \in ProfileErrors(name) |-> RuleEntry([severity |-> "error"])]]

(* Of a rule the profile names it sets the severity, or that it is off. *)
ApplyProfile(config, name) ==
  LET old(r) == IF r \in DOMAIN config.rules THEN config.rules[r] ELSE RuleEntry(<<>>)
      errors == ProfileErrors(name)
      disables == ProfileDisables(name)
      set(r) == [enabled |-> r \notin disables /\ old(r).enabled,
                 severity |-> IF r \in errors THEN "error" ELSE old(r).severity] IN
  IF name = NotGiven THEN config
  ELSE [Over(ProfileSettings(name), config) EXCEPT
          !.rules = Over([r \in errors \cup disables |-> set(r)], config.rules)]

-----------------------------------------------------------------------------
(* The rule engine: for each rule whether it is enabled, and the severity  *)
(* that overrides a finding's own, if there is one.                        *)

RuleIds == {"CDC001", "CDC002", "CDC003", "CDC004", "CDC005", "CDC006", "CDC007",
            "CDC008", "CDC009", "CDC010", "CDC011", "CDC012", "CDC013"}
Severities == {"error", "warning", "info"}

NewEngine == [r \in RuleIds |-> RuleEntry(<<>>)]

(* An override switches its rule off if it says so, and sets the severity *)
(* it gives, if it gives one.                                              *)
Override(rule, enabled, severity) ==
  [rule |-> rule, enabled |-> enabled, severity |-> severity]

AddOverride(engine, o) ==
  [engine EXCEPT ![o.rule] =
     [enabled |-> @.enabled /\ o.enabled,
      severity |-> IF o.severity = NotGiven THEN @.severity ELSE o.severity]]

(* One override after the other. *)
AddOverrides(engine, overrides) ==
  LET after[n \in 0..Len(overrides)] ==
        IF n = 0 THEN engine ELSE AddOverride(after[n - 1], overrides[n])
  IN after[Len(overrides)]

(* A finding of a rule nobody knows is kept, one of a disabled rule goes. *)
Filter(engine, findings) ==
  {IF f.rule \in RuleIds /\ engine[f.rule].severity # NotGiven
   THEN [f EXCEPT !.severity = engine[f.rule].severity] ELSE f :
     f \in {f \in findings : f.rule \in RuleIds => engine[f.rule].enabled}}
=============================================================================
