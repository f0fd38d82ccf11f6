------------------------------- MODULE Waiver -------------------------------
(***************************************************************************)
(* The waiver engine of src/cdc/waiver.cpp.  A name is the sequence of its *)
(* words and of the signs between them (".", "/", ":", " ", "[", "_"), all *)
(* but "_" delimiters of a substring; the empty name is <<>>.  A waiver is *)
(* a record                                                                *)
(*   rule, type       the rule id, and how names are matched               *)
(*   src, dst         patterns: words, "*" and "?" for Wildcard; for Regex *)
(*                    the sequence of the names the expression accepts     *)
(*   src_domain, dst_domain                                                *)
(*   expiry           the number of a day, Never or Garbled                *)
(*   unsafe           whether the regular expression is refused            *)
(* and what is matched is a record [rule, src, dst, src_domain,            *)
(* dst_domain].  A domain is a name too.                                   *)
(***************************************************************************)
EXTENDS Integers, Sequences, FiniteSets, SequencesExt, TLC

Delimiters == {".", "/", ":", " "}
BroadMatch == 10        (* matches from which a waiver is called broad      *)
Fields == 4             (* names and domains of a line of a waiver file     *)
Never == 1000           (* no expiry date; later than any day               *)
Garbled == 0            (* an expiry that is no date; days count from 1     *)

-----------------------------------------------------------------------------
(* Matching.                                                               *)

(* The pattern stands in the name between delimiters or at its ends. *)
SubstringMatch(pattern, name) ==
  \/ pattern \in {<<>>, <<"*">>}
  \/ \E i \in DOMAIN name :
       LET end == i + Len(pattern) IN
       /\ end - 1 <= Len(name)
       /\ SubSeq(name, i, end - 1) = pattern
       /\ i = 1 \/ name[i - 1] \in Delimiters
       /\ end > Len(name) \/ name[end] \in Delimiters \cup {"["}

Glob(pattern, name) ==
  LET glob[p \in Seq(STRING), s \in Seq(STRING)] ==
        IF p = <<>> THEN s = <<>>
        ELSE IF Head(p) = "*"
        THEN \E n \in 0..Len(s) : glob[Tail(p), SubSeq(s, n + 1, Len(s))]
        ELSE /\ s # <<>>
             /\ Head(p) \in {"?", Head(s)}
             /\ glob[Tail(p), Tail(s)]
  IN glob[pattern, name]

WildcardMatch(pattern, name) == pattern = <<>> \/ (name # <<>> /\ Glob(pattern, name))

RegexMatch(accepted, name) == accepted = <<>> \/ name \in ToSet(accepted)

NameMatch(type, pattern, name) ==
  CASE type = "Substring" -> SubstringMatch(pattern, name)
    [] type = "Wildcard" -> WildcardMatch(pattern, name)
    [] type = "Regex" -> RegexMatch(pattern, name)

FieldsMatch(field, value) ==
  field \in {<<>>, <<"*">>} \/ (value # <<>> /\ field = value)

(* Valid through the whole of its last day; a date nobody can read is past. *)
IsExpired(expiry, today) ==
  expiry # Never /\ (expiry = Garbled \/ today > expiry)

(* Everything but the date. *)
Covers(w, f) ==
  /\ w.rule # ""
  /\ w.rule \in {"*", f.rule}
  /\ NameMatch(w.type, w.src, f.src)
  /\ NameMatch(w.type, w.dst, f.dst)
  /\ FieldsMatch(w.src_domain, f.src_domain)
  /\ FieldsMatch(w.dst_domain, f.dst_domain)

(* Mutant: the date is not looked at. *)
Matches_Forever(w, f, today) == Covers(w, f)

Matches(w, f, today) == Covers(w, f) /\ ~IsExpired(w.expiry, today)

-----------------------------------------------------------------------------
(* The list of waivers.                                                    *)

IsValidRuleId(rule) == rule \notin {"", "junk"}

Accepts(w) == IsValidRuleId(w.rule) /\ (w.type = "Regex" => ~w.unsafe)

AddWaiver(waivers, w) == IF Accepts(w) THEN Append(waivers, w) ELSE waivers

(* A line of a waiver file: its shape ("item", or too long, a comment or   *)
(* blank), the rule and the type, the names and domains that are written   *)
(* (fields), the words of the quoted justification (quote) and of owner    *)
(* and ticket (tail), and the date.  The reader takes the first four words *)
(* for names and domains whatever they are: a line that leaves columns out *)
(* gives the justification's words to the domains, and what is left of it  *)
(* is no date.                                                             *)
ReadLine(line) ==
  LET date == IF line.expiry = Never THEN <<>> ELSE <<<<"date">>>>
      words == line.fields \o line.quote \o line.tail \o date
      field(i) == IF i <= Len(words) THEN words[i] ELSE <<>>
      eaten == Fields - Len(line.fields) IN
  [rule |-> line.rule, type |-> line.type, src |-> field(1), dst |-> field(2),
   src_domain |-> field(3), dst_domain |-> field(4), unsafe |-> line.unsafe,
   expiry |-> IF Len(words) <= Fields THEN Never
              ELSE IF eaten \in 1..(Len(line.quote) - 1) THEN Garbled
              ELSE line.expiry]

IsItem(line) == line.shape = "item"

(* load_from_file: the waivers there are afterwards, and whether it worked. *)
LoadFromFile(waivers, file) ==
  LET items == SelectSeq(file.lines, IsItem)
      read == [i \in DOMAIN items |-> ReadLine(items[i])]
      loaded == SelectSeq(read, Accepts) IN
  IF ~file.open THEN [waivers |-> waivers, ok |-> FALSE]
  ELSE [waivers |-> waivers \o loaded, ok |-> loaded # <<>>]

(* apply, on one finding: the first waiver that matches, 0 if none does. *)
WaivedBy(waivers, f, today) ==
  LET matching == {i \in DOMAIN waivers : Matches(waivers[i], f, today)} IN
  IF matching = {} THEN 0 ELSE CHOOSE i \in matching : \A j \in matching : i <= j

(* Mutant: a waiver that expired since it was applied is called unused. *)
CheckUnused_UnusedFirst(w, findings, today) ==
  LET matched == {f \in findings : Matches(w, f, today)} IN
  IF matched = {} THEN "unused"
  ELSE IF IsExpired(w.expiry, today) THEN "expired"
  ELSE IF Cardinality(matched) >= BroadMatch THEN "broad" ELSE "none"

(* check_unused, on one waiver. *)
CheckUnused(w, findings, today) ==
  LET matched == {f \in findings : Matches(w, f, today)} IN
  IF IsExpired(w.expiry, today) THEN "expired"
  ELSE IF matched = {} THEN "unused"
  ELSE IF Cardinality(matched) >= BroadMatch THEN "broad" ELSE "none"
=============================================================================
