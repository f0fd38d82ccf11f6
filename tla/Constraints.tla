---------------------------- MODULE Constraints ----------------------------
(***************************************************************************)
(* Constraint files, SDC and YAML, and the questions the analysis asks of  *)
(* them: src/clock/constraints.cpp.  Names are sequences of words and      *)
(* delimiters as in Waiver; upper and lower case are not told apart.       *)
(*                                                                         *)
(* A file is [access, syntax, commands, sections]: commands of an SDC file *)
(* (syntax "sdc"), sections of a YAML file ("yaml", "malformed" when the   *)
(* YAML library rejects it).  An argument of a command is [kind, names,    *)
(* braces]: kind "clocks", "cells" or "pins" for [get_clocks ...] and so   *)
(* on, "list" for another bracket, "bare" for a word; and whether the      *)
(* names stand in braces.  NoArg is an option that is not given.           *)
(***************************************************************************)
EXTENDS Waiver

Boundaries == {".", "/", "_", "-", ":", " ", "["}
Digits == {"0", "1", "2"}
Wildcards == {"*", "?"}
EndKinds == {"clock", "reg", "cell", "pin"}
NoArg == [kind |-> "none", names |-> <<>>, braces |-> FALSE]

-----------------------------------------------------------------------------
(* Patterns.                                                               *)

(* The pieces of a name between delimiters. *)
Segments(name, delimiters) ==
  LET Starts(i) == i = 1 \/ name[i - 1] \in delimiters
      Ends(i) == {j \in (i - 1)..Len(name) :
                    /\ j = Len(name) \/ name[j + 1] \in delimiters
                    /\ \A k \in i..j : name[k] \notin delimiters} IN
  UNION {{SubSeq(name, i, j) : j \in Ends(i)} :
           i \in {i \in 1..(Len(name) + 1) : Starts(i)}}

PatternMatches(pattern, value) ==
  LET StandsAt(i) ==
        LET end == i + Len(pattern) IN
        /\ end - 1 <= Len(value)
        /\ SubSeq(value, i, end - 1) = pattern
        /\ i = 1 \/ value[i - 1] \in Boundaries
        /\ end > Len(value) \/ value[end] \in Boundaries \cup Digits IN
  /\ pattern # <<>> /\ value # <<>>
  /\ IF ToSet(pattern) \cap Wildcards = {}
     THEN \E i \in DOMAIN value : StandsAt(i)
     ELSE \E s \in {value} \cup Segments(value, {"."}) \cup Segments(value, {".", "_"}) :
            Glob(pattern, s)

(* What the selectors of a false path are compared with: for each kind of  *)
(* end the names of the two ends, and the names along the path.  All ends  *)
(* but the clock are the register's own hierarchical name.                 *)
End(clock, reg) == [k \in EndKinds |-> IF k = "clock" THEN clock ELSE reg]
NoEnd == End(<<>>, <<>>)

FalsePath(from, to, through) == [from |-> from, to |-> to, through |-> through]

Selective(fp) == fp.from # NoEnd \/ fp.to # NoEnd \/ fp.through # <<>>

(* Mutant: one selector that matches is enough. *)
EndsMatch_AnySelector(fp, source, dest) ==
  \/ fp.through # <<>>
  \/ \E k \in EndKinds : PatternMatches(fp.from[k], source[k]) \/
                         PatternMatches(fp.to[k], dest[k])

(* Every selector that is given matches. *)
EndsMatch(fp, source, dest) ==
  \A k \in EndKinds :
    /\ fp.from[k] # <<>> => PatternMatches(fp.from[k], source[k])
    /\ fp.to[k] # <<>> => PatternMatches(fp.to[k], dest[k])

(* A multicycle path with one side left open holds for every clock there. *)
MulticycleMatches(mcp, source, dest) ==
  /\ mcp.from # <<>> \/ mcp.to # <<>>
  /\ mcp.from = <<>> \/ PatternMatches(mcp.from, source)
  /\ mcp.to = <<>> \/ PatternMatches(mcp.to, dest)

-----------------------------------------------------------------------------
(* What a file says.                                                       *)

NoConstraints ==
  [clocks |-> <<>>, false_paths |-> <<>>, multicycle |-> <<>>, groups |-> <<>>]

NewClock(name) == [name |-> name, generated |-> FALSE, master |-> <<>>, period |-> "none"]

Group(clocks, asynchronous, exclusive, set_id) ==
  [clocks |-> clocks, asynchronous |-> asynchronous, exclusive |-> exclusive,
   set_id |-> set_id]

(* get_clock: the last definition of the name, else the first whose name   *)
(* is a pattern for it; <<>> if there is none.                             *)
GetClock(constraints, name) ==
  LET clocks == constraints.clocks
      Exact(c) == c.name = name
      Covering(c) == ToSet(c.name) \cap Wildcards # {} /\ PatternMatches(c.name, name)
      named == SelectSeq(clocks, Exact)
      covering == SelectSeq(clocks, Covering) IN
  IF named # <<>> THEN <<Last(named)>>
  ELSE IF covering # <<>> THEN <<Head(covering)>>
  ELSE <<>>

(* is_asynchronous: two entries of one group, or groups of one set. *)
IsAsynchronous(constraints, a, b) ==
  LET groups == constraints.groups
      async == {i \in DOMAIN groups : groups[i].asynchronous}
      entry(g, clk) == {i \in DOMAIN g.clocks : PatternMatches(g.clocks[i], clk)}
      first(s) == CHOOSE i \in s : \A j \in s : i <= j IN
  \/ a # b /\ \E i \in async :
       LET ea == entry(groups[i], a)
           eb == entry(groups[i], b) IN
       ea # {} /\ eb # {} /\ first(ea) # first(eb)
  \/ \E i \in async, j \in DOMAIN groups :
       /\ i # j /\ groups[i].set_id = groups[j].set_id
       /\ entry(groups[i], a) # {} /\ entry(groups[j], b) # {}

-----------------------------------------------------------------------------
(* SDC.                                                                    *)

(* A bracket of an unknown command is taken word for word, for a name. *)
Verbatim(arg) == <<"[", "list", " ">> \o FlattenSeq(arg.names) \o <<"]">>

(* A list in braces that no command reads is split into words, the braces  *)
(* included.                                                               *)
Split(names) ==
  [i \in DOMAIN names |->
     (IF i = 1 THEN <<"{">> ELSE <<>>) \o names[i] \o
     (IF i = Len(names) THEN <<"}">> ELSE <<>>)]

Words(arg) == IF arg.kind = "bare" /\ arg.braces THEN Split(arg.names) ELSE arg.names

(* The names an option reads from its argument. *)
Named(arg) ==
  CASE arg.kind = "list" /\ ~arg.braces -> <<Verbatim(arg)>>
    [] arg.kind = "bare" -> <<Head(Words(arg))>>
    [] OTHER -> arg.names

Joined(names) ==
  FoldLeft(LAMBDA a, b : IF a = <<>> THEN b ELSE a \o <<" ">> \o b, <<>>, names)

(* The name is the option's, or the last part of the first word that may   *)
(* be a port: one with a slash, or one without digits.                     *)
ReadCreateClock(constraints, c) ==
  LET Port(w) == "/" \in ToSet(w) \/ ToSet(w) \cap Digits = {}
      word(i) == Head(Named(c.ports[i]))
      ports == SelectSeq([i \in DOMAIN c.ports |-> word(i)], Port)
      slashes(w) == {i \in DOMAIN w : w[i] = "/"}
      tail(w) == SubSeq(w, 1 + (IF slashes(w) = {} THEN 0
                                ELSE CHOOSE i \in slashes(w) : \A j \in slashes(w) : j <= i),
                        Len(w))
      name == IF c.name # <<>> THEN c.name
              ELSE IF ports # <<>> THEN tail(Head(ports)) ELSE <<>>
      period == IF c.period \in {"good", "tiny"} THEN c.period ELSE "none" IN
  IF name = <<>> THEN constraints
  ELSE [constraints EXCEPT !.clocks = Append(@, [NewClock(name) EXCEPT !.period = period])]

ReadGeneratedClock(constraints, c) ==
  IF c.name = <<>> THEN constraints
  ELSE [constraints EXCEPT !.clocks =
          Append(@, [NewClock(c.name) EXCEPT !.generated = TRUE, !.master = c.master])]

(* The end a -from or -to selects: the first name of its list. *)
Selected(arg) ==
  LET kind == CASE arg.kind = "clocks" -> "clock"
                [] arg.kind = "cells" -> "cell"
                [] arg.kind = "pins" -> "pin"
                [] OTHER -> "reg" IN
  IF arg = NoArg THEN NoEnd ELSE [NoEnd EXCEPT ![kind] = Head(Named(arg))]

ReadFalsePath(constraints, c) ==
  LET through == [i \in DOMAIN c.through |-> Named(c.through[i])] IN
  [constraints EXCEPT !.false_paths =
     Append(@, FalsePath(Selected(c.from), Selected(c.to), FlattenSeq(through)))]

(* Every pair of its two lists, if one of them lists clocks; what is not   *)
(* understood as a list is taken for a clock's name.                       *)
ReadMulticyclePath(constraints, c) ==
  LET IsClock(arg) == arg.kind \in {"clocks", "bare"} \/ (arg.kind = "list" /\ ~arg.braces)
      side(arg) == IF arg = NoArg THEN <<<<>>>> ELSE Named(arg)
      Pairs(a) == [j \in DOMAIN side(c.to) |->
                     [from |-> a, to |-> side(c.to)[j],
                      cycles |-> IF c.cycles >= 1 THEN c.cycles ELSE 1]]
      all == [i \in DOMAIN side(c.from) |-> Pairs(side(c.from)[i])] IN
  IF ~IsClock(c.from) /\ ~IsClock(c.to) THEN constraints
  ELSE [constraints EXCEPT !.multicycle = @ \o FlattenSeq(all)]

(* Each -group is a group, the groups of a command are a set. *)
ReadClockGroups(constraints, c) ==
  LET Listed(arg) == IF arg.kind = "clocks" /\ ~arg.braces THEN <<Joined(arg.names)>>
                     ELSE Words(arg)
      clocks(g) == FlattenSeq([i \in DOMAIN g |-> Listed(g[i])])
      Some(g) == clocks(g) # <<>>
      groups == SelectSeq(c.groups, Some)
      set_id == Len(constraints.groups) IN
  [constraints EXCEPT !.groups = @ \o
     [i \in DOMAIN groups |-> Group(clocks(groups[i]), c.asynchronous, c.exclusive, set_id)]]

ReadCommand(constraints, c) ==
  CASE c.command = "create_clock" -> ReadCreateClock(constraints, c)
    [] c.command = "create_generated_clock" -> ReadGeneratedClock(constraints, c)
    [] c.command = "set_false_path" -> ReadFalsePath(constraints, c)
    [] c.command = "set_multicycle_path" -> ReadMulticyclePath(constraints, c)
    [] c.command = "set_clock_groups" -> ReadClockGroups(constraints, c)
    [] OTHER -> constraints

ParseSdcContent(commands) == FoldLeft(ReadCommand, NoConstraints, commands)

-----------------------------------------------------------------------------
(* YAML.  An item is a record with the keys that are given.                *)

YamlClock(given) ==
  LET c == given @@ [name |-> <<>>, master |-> <<>>, period |-> "none"] IN
  [NewClock(c.name) EXCEPT !.master = c.master, !.generated = "master" \in DOMAIN given,
                           !.period = IF c.period \in {"good", "tiny"} THEN @ ELSE "none"]

(* source_clock and source win over from_clock and from_reg. *)
YamlFalsePath(given) ==
  LET f == given @@ [source_clock |-> IF "from_clock" \in DOMAIN given
                                      THEN given.from_clock ELSE <<>>,
                     dest_clock |-> IF "to_clock" \in DOMAIN given
                                    THEN given.to_clock ELSE <<>>,
                     source |-> IF "from_reg" \in DOMAIN given
                                THEN given.from_reg ELSE <<>>,
                     dest |-> IF "to_reg" \in DOMAIN given THEN given.to_reg ELSE <<>>,
                     through |-> <<>>] IN
  FalsePath([NoEnd EXCEPT !.clock = f.source_clock, !.reg = f.source],
            [NoEnd EXCEPT !.clock = f.dest_clock, !.reg = f.dest], f.through)

YamlMulticycle(given) == given @@ [from |-> <<>>, to |-> <<>>, cycles |-> 1]

YamlGroup(given, set_id) ==
  LET g == given @@ [clocks |-> <<>>, asynchronous |-> FALSE, exclusive |-> FALSE] IN
  Group(g.clocks, g.asynchronous, g.exclusive, set_id)

ParseYamlFromNode(s) ==
  [clocks |-> [i \in DOMAIN s.clocks |-> YamlClock(s.clocks[i])],
   false_paths |-> [i \in DOMAIN s.false_paths |-> YamlFalsePath(s.false_paths[i])],
   multicycle |-> [i \in DOMAIN s.multicycle |-> YamlMulticycle(s.multicycle[i])],
   groups |-> [i \in DOMAIN s.groups |-> YamlGroup(s.groups[i], i - 1)]]

(* The legacy parser reads the same items off single lines; all the groups *)
(* are of one set, and an item spread over lines keeps its first key only, *)
(* which s.first is: the section with each item cut down to that key.      *)
ParseYamlLegacy(s) ==
  LET c == ParseYamlFromNode([s EXCEPT !.false_paths = s.first.false_paths,
                                       !.multicycle = s.first.multicycle]) IN
  [c EXCEPT !.groups = [i \in DOMAIN @ |-> [@[i] EXCEPT !.set_id = -1]]]

ParseYaml(file) ==
  IF file.syntax = "malformed" THEN ParseYamlLegacy(file.sections)
  ELSE ParseYamlFromNode(file.sections)

IsBlank(file) ==
  IF file.syntax = "sdc" THEN file.commands = <<>> ELSE file.sections = <<>>

(* What is wrong with a file in which c was read, "" if nothing is. *)
ConstraintsError(file, c) ==
  IF file.access # "ok" THEN file.access
  ELSE IF ~IsBlank(file) /\ c = NoConstraints THEN "No recognized constraints"
  ELSE IF \E clk \in ToSet(c.clocks) : clk.name = <<>> \/ clk.period = "tiny"
  THEN "Invalid clock definition"
  ELSE IF \E p \in ToSet(c.multicycle) : p.cycles < 1 \/ (p.from = <<>> /\ p.to = <<>>)
  THEN "Invalid multicycle path"
  ELSE ""

(* parse_file: [constraints, error]. *)
ParseConstraints(file) ==
  LET Unless(error, c) ==
        [constraints |-> IF error = "" THEN c ELSE NoConstraints, error |-> error]
      Checked(c) == Unless(ConstraintsError(file, c), c) IN
  Checked(IF IsBlank(file) THEN NoConstraints
          ELSE IF file.syntax = "sdc" THEN ParseSdcContent(file.commands)
          ELSE ParseYaml(file))
=============================================================================
