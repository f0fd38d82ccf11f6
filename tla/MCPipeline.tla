----------------------------- MODULE MCPipeline -----------------------------
(***************************************************************************)
(* Small designs, and requests that exercise each layer a request has.     *)
(***************************************************************************)
EXTENDS CommandLine

Reg(clock) == [kind |-> "Register", clock |-> clock]
Data(kind) == [kind |-> kind, clock |-> NoClock]

MCClockNames ==
  [ca |-> <<"clk", "_", "a">>, cb |-> <<"clk", "_", "b">>, cc |-> <<"core">>,
   any |-> <<"clk", "_", "*">>]

Attributes(name) ==
  [width |-> 1, packed |-> 0, reset |-> "rst", async |-> FALSE, pol |-> "high",
   root |-> NoClock, gated |-> FALSE, muxed |-> FALSE, safe_box |-> FALSE,
   isolation |-> FALSE, uncertain |-> "no", name |-> name,
   module |-> [type |-> "", path |-> <<"top">>]]

Names == <<<<"top", ".", "a">>, <<"top", ".", "b", "_", "0">>, <<"top", ".", "b", "_", "1">>,
           <<"top", ".", "box">>, <<"top", ".", "z">>, <<"top", ".", "q">>,
           <<"top", ".", "r">>, <<"top", ".", "n">>>>

MadeOf(nodes, edges) ==
  [ok |-> TRUE, input |-> "rtl", unknown |-> FALSE, nodes |-> nodes, edges |-> edges,
   at |-> [id \in DOMAIN nodes |-> Attributes(Names[id])], proven |-> {}]

(* One source, two destinations in two domains; one of them over a box. *)
Fork == MadeOf(<<Reg("ca"), Reg("cb"), Reg("cc"), Data("Combinational")>>,
               <<<<1, 2>>, <<1, 4>>, <<4, 3>>>>)
(* A synchronizer of two stages. *)
Sync == MadeOf(<<Reg("ca"), Reg("cb"), Reg("cb"), Data("Net")>>, <<<<1, 2>>, <<2, 3>>>>)
(* A crossing into a loop of registers, and a register behind it. *)
Spreads == MadeOf(<<Reg("ca"), Reg("cb"), Reg("cb"), Reg("cb")>>,
                  <<<<1, 2>>, <<2, 3>>, <<3, 2>>, <<3, 4>>>>)
(* Two domains that meet in a third; two paths to one register. *)
Join == MadeOf(<<Reg("ca"), Reg("cb"), Reg("cc"), Data("Net")>>,
               <<<<1, 3>>, <<2, 4>>, <<4, 3>>, <<2, 3>>>>)
(* A register that another crossing reaches as well, and a net that drives *)
(* more than one search follows: after <<1, 5>> the crossing from 1 is not *)
(* found any more.                                                         *)
Crowd == MadeOf(<<Reg("ca"), Reg("cb"), Reg("cb"), Reg("ca"), Data("Net"), Reg("ca"), Reg("ca"),
                  Data("Net")>>,
                <<<<1, 8>>, <<8, 2>>, <<4, 3>>, <<3, 2>>, <<2, 3>>, <<5, 6>>, <<5, 7>>, <<5, 4>>>>)
(* A single crossing. *)
Pair == MadeOf(<<Reg("ca"), Reg("cb")>>, <<<<1, 2>>>>)

Ask(design) ==
  [design |-> design, config |-> "none", inline |-> DefaultConfig, config_file |-> <<>>,
   profile |-> "", constraints |-> <<>>, waiver_file |-> <<>>, false_paths |-> <<>>,
   disable |-> <<>>, severities |-> <<>>]

-----------------------------------------------------------------------------
(* Files.                                                                  *)

Section(v) == [form |-> "nested", wrong |-> "no", v |-> v]
Yaml(sections) == [access |-> "ok", text |-> "yaml", unknown |-> FALSE, sections |-> sections]
WithFile(r, file) == [r EXCEPT !.config = "file", !.config_file = file]
WithConfig(r, sections) == WithFile(r, Yaml(sections))

Waiver(rule, src, dst, expiry) ==
  WaiverEntry([rule |-> rule, src |-> src, dst |-> dst, expiry |-> expiry])

Line(fields, quote, expiry) ==
  [shape |-> "item", rule |-> "CDC001", type |-> "Substring", fields |-> fields,
   quote |-> quote, tail |-> <<>>, expiry |-> expiry, unsafe |-> FALSE]

WaiverFile(lines) == [open |-> TRUE, lines |-> lines]
FullLine(dst, expiry) ==
  Line(<<Names[1], dst, MCClockNames.ca, <<"*">>>>, <<<<"reviewed">>, <<"ok">>>>, expiry)

Sdc(commands) == [access |-> "ok", syntax |-> "sdc", commands |-> commands, sections |-> <<>>]
Yml(sections) == [access |-> "ok", syntax |-> "yaml", commands |-> <<>>, sections |-> sections]
NoSections == [clocks |-> <<>>, false_paths |-> <<>>, multicycle |-> <<>>, groups |-> <<>>,
               first |-> [false_paths |-> <<>>, multicycle |-> <<>>]]
Clocks(names) == [kind |-> "clocks", names |-> names, braces |-> TRUE]
Bare1(name) == [kind |-> "bare", names |-> <<name>>, braces |-> FALSE]
CreateClock(name) == [command |-> "create_clock", name |-> name, ports |-> <<>>, period |-> "good"]
Generated(name, master) ==
  [command |-> "create_generated_clock", name |-> name, master |-> master]
SetFalsePath(from, to, through) ==
  [command |-> "set_false_path", from |-> from, to |-> to, through |-> through]
Groups(exclusive, groups) ==
  [command |-> "set_clock_groups", exclusive |-> exclusive, asynchronous |-> ~exclusive,
   groups |-> groups]

-----------------------------------------------------------------------------
(* The requests of the passing run.                                        *)

Layered ==
  {WithConfig(Ask(Pair), [rules |-> Section(rules)]) :
     rules \in {[CDC001 |-> [severity |-> "warning"]], [CDC007 |-> [enabled |-> FALSE]],
                [CDC099 |-> [enabled |-> FALSE]]}}
  \cup {[WithConfig(Ask(Pair), [rules |-> Section([CDC001 |-> [severity |-> "warning"]])])
           EXCEPT !.profile = p] : p \in {"strict", "fpga"}}
  \cup {[Ask(Pair) EXCEPT !.severities = <<[rule |-> "CDC001", severity |-> s]>>] :
          s \in {"warning", "fatal"}}
  \cup {[WithConfig(Ask(Fork), [rules |-> Section([CDC001 |-> [enabled |-> FALSE]])])
           EXCEPT !.disable = <<"CDC007">>, !.profile = "asic_signoff"]}
  \cup {[Ask(Pair) EXCEPT !.disable = <<r>>] : r \in {"CDC001", "CDC0001"}}

Silenced ==
  {WithConfig(Ask(Fork), [false_paths |-> Section(<<fp>>)]) :
     fp \in {[src |-> <<"a">>, dst |-> <<"b">>], [src_clock |-> "any", dst_clock |-> "cb"],
             [src |-> <<"a">>]}}
  \cup {[Ask(Fork) EXCEPT !.false_paths = <<<<<<"a">>, <<"b", "_", "0">>>>,
                                            <<<<"a">>, <<"b", "_", "?">>>>>>]}
  \cup {[Ask(Join) EXCEPT !.constraints = <<Sdc(cs)>>] :
          cs \in {<<SetFalsePath(Clocks(<<<<"core">>, <<"clk", "_", "a">>>>), NoArg, <<>>)>>,
                  <<SetFalsePath(NoArg, Clocks(<<<<"core">>>>), <<Bare1(<<"box">>)>>)>>,
                  <<Groups(TRUE, <<<<Clocks(<<<<"clk", "_", "*">>, <<"core">>>>)>>>>)>>,
                  <<Generated(<<"clk", "_", "b">>, <<"core">>)>>}}
  \cup {[WithConfig(Ask(Fork), [clock_groups |-> Section(<<[clocks |-> <<"any", "cc">>]>>)])
           EXCEPT !.constraints =
             <<Yml([NoSections EXCEPT !.groups =
                      <<[clocks |-> <<<<"clk", "_", "a">>, <<"clk", "_", "b">>>>,
                         exclusive |-> TRUE]>>])>>]}
  \cup {WithConfig([Ask(Fork) EXCEPT !.design.at[4].module.type = "ip"],
          [blackboxes |-> Section(<<[module_name |-> "ip"]>>),
           false_paths |-> Section(<<[src_clock |-> "ca", dst_clock |-> "cb"]>>)])}

Waiving ==
  {[Ask(Fork) EXCEPT !.waiver_file = <<WaiverFile(lines)>>] :
     lines \in {<<FullLine(<<"b">>, 1), FullLine(<<"b", "_", "0">>, Never)>>,
                <<FullLine(<<"b", "_", "0">>, 2), FullLine(<<"b", "_", "1">>, 1)>>,
                <<Line(<<<<"a">>>>, <<<<"reviewed">>>>, 2)>>,
                <<>>}}
  \cup {WithConfig([Ask(Fork) EXCEPT !.waiver_file = <<WaiverFile(<<FullLine(<<"c">>, 2)>>)>>],
          [waivers |-> Section(<<[rule |-> "*", dst |-> <<"b", "_", "0">>, expiry |-> 1],
                                 [rule |-> "junk"]>>)])}

Broken ==
  {[Ask(Pair) EXCEPT !.design.ok = FALSE], [Ask(Pair) EXCEPT !.design.input = "netlist"],
   WithFile(Ask(Pair), [Yaml(<<>>) EXCEPT !.access = "missing"]),
   [Ask(Pair) EXCEPT !.constraints = <<[Sdc(<<>>) EXCEPT !.access = "too large"]>>],
   [Ask(Pair) EXCEPT !.constraints = <<Sdc(<<[command |-> "comment"]>>)>>]}

(* Graphs that change between two calls. *)
Changing ==
  {Ask(Sync), [Ask(Sync) EXCEPT !.profile = "strict"],
   [Ask(Sync) EXCEPT !.constraints = <<Sdc(<<Generated(<<"clk", "_", "b">>, <<"core">>)>>)>>],
   Ask(Crowd), Ask(Spreads), [Ask(Spreads) EXCEPT !.false_paths = <<<<<<"a">>, <<"b", "_", "0">>>>>>]}

(* Exclusive clocks, in one group or in two. *)
ExclusiveGroups ==
  {[Ask(Fork) EXCEPT !.constraints = <<Sdc(<<Groups(TRUE, g)>>)>>] :
     g \in {<<<<Clocks(<<<<"clk", "_", "a">>, <<"clk", "_", "b">>>>)>>>>,
            <<<<Clocks(<<<<"clk", "_", "a">>>>)>>, <<Clocks(<<<<"clk", "_", "b">>>>)>>>>}}

PassingRequests ==
  Layered \cup Silenced \cup Waiving \cup Broken \cup Changing \cup ExclusiveGroups

-----------------------------------------------------------------------------
(* The requests of the run that shows a disagreement.                      *)

UnknownCells == {[Ask(Sync) EXCEPT !.design.unknown = TRUE]}

-----------------------------------------------------------------------------
(* Commands.                                                               *)

(* Three destinations that meet again: findings with one key. *)
Meet == MadeOf(<<Reg("ca"), Reg("cb"), Reg("cb"), Reg("cb"), Reg("cb")>>,
               <<<<1, 2>>, <<1, 3>>, <<1, 4>>, <<2, 5>>, <<3, 5>>, <<4, 5>>>>)

Asked ==
  {Ask(Meet), [Ask(Pair) EXCEPT !.waiver_file = <<WaiverFile(<<FullLine(<<"b">>, 2)>>)>>],
   [Ask(Pair) EXCEPT !.profile = "sloppy"], [Ask(Sync) EXCEPT !.design.unknown = TRUE],
   [Ask(Pair) EXCEPT !.false_paths = <<<<<<"a">>, <<"b">>>>>>,
                     !.severities = <<[rule |-> "CDC001", severity |-> "error"]>>],
   WithConfig(Ask(Pair), [min_sync_stages |-> Section([min_sync_stages |-> 9])])}

MCCommands ==
  {[Library EXCEPT !.compare = TRUE], [Library EXCEPT !.format = "pdf"],
   [Library EXCEPT !.out = TRUE, !.format = "html"],
   [Library EXCEPT !.save = TRUE, !.out = TRUE, !.signoff = TRUE],
   [Library EXCEPT !.out = TRUE]}

(* Baselines of findings of the largest design, some of them fixed since,  *)
(* some of them twice.                                                     *)
Old(rule, dst) ==
  [rule |-> rule, src |-> Names[1], dst |-> dst, src_domain |-> MCClockNames.ca,
   dst_domain |-> IF dst = <<>> THEN <<>> ELSE MCClockNames.cb]
Of003 == Old("CDC003", <<>>)
Of001 == Old("CDC001", Names[2])
MCEarlier ==
  {Absent} \cup {Whole(fs) : fs \in {<<>>, <<Of003, Of001>>, <<Of003, Of003, Of003, Of001>>,
                                    <<Of001, Of003, Of001, Of003, Of001, Of001, Of001, Of001,
                                      Of001, Of001, Of001, Of001>>}}

MCEdits == {<<1, 3>>, <<3, 2>>, <<1, 5>>}
=============================================================================
