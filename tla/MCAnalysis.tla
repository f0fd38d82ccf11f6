----------------------------- MODULE MCAnalysis -----------------------------
(***************************************************************************)
(* Kinds of sketches, one for each shape the analysis can get wrong.       *)
(***************************************************************************)
EXTENDS AnalysisRun

Reg(clock) == [kind |-> "Register", clock |-> clock]
Data(kind) == [kind |-> kind, clock |-> NoClock]

PlainBit == [width |-> 1, packed |-> 0, reset |-> "rst", async |-> FALSE,
             pol |-> "high", root |-> NoClock, gated |-> FALSE, muxed |-> FALSE,
             safe_box |-> FALSE, isolation |-> FALSE, uncertain |-> "no"]

Plain == [false_paths |-> {}, multicycle |-> {}, suppress |-> FALSE, proven |-> {},
          min_stages |-> 2, require_reset |-> FALSE, check_same_clock |-> FALSE,
          detect_synchronizer |-> TRUE, suppress_resets |-> FALSE, max_hops |-> 2]

Sketch(nodes, wires, max_edges) ==
  [nodes |-> nodes, drawn |-> <<>>, wires |-> wires, max_edges |-> max_edges,
   at |-> [id \in DOMAIN nodes |-> PlainBit], policy |-> Plain]

(* Loops and branches of nets and logic between two registers. *)
Walks ==
  {Sketch(<<Reg("A"), Reg("B"), Data("Combinational"), Data("Net"), Data("Net")>>,
          {<<1, 3>>, <<1, 4>>, <<3, 4>>, <<4, 5>>, <<5, 4>>, <<4, 2>>, <<5, 2>>,
           <<3, 2>>, <<2, 4>>, <<1, 2>>}, 4)}

(* Registers only: chains, loops of stages, stages with two drivers. *)
ChainWires ==
  {<<1, 2>>, <<2, 3>>, <<3, 4>>, <<5, 3>>, <<5, 4>>, <<4, 3>>, <<2, 4>>, <<1, 5>>}

ChainSketch ==
  Sketch(<<Reg("A"), Reg("B"), Reg("B"), Reg("B"), Reg("B")>>, ChainWires, 5)

Chains ==
  {[ChainSketch EXCEPT !.policy.min_stages = n, !.max_edges = n + 2] : n \in {2, 3}} \cup
  {[ChainSketch EXCEPT !.max_edges = 3, !.at[i].reset = NoReset] : i \in {2, 4}} \cup
  {[ChainSketch EXCEPT !.max_edges = 3,
                       !.at[i].reset = r, !.at[i].async = a, !.at[i].pol = p] :
     i \in {2, 4}, r \in {"rst", "rst2"}, a \in BOOLEAN, p \in {"high", "low"}}

(* Two sources, one of them over logic and a net, and a chain.  The user   *)
(* cuts paths through a node, between two domains or two registers, or     *)
(* declares a multicycle path; or the net belongs to a safe black box.     *)
MixedSketch ==
  Sketch(<<Reg("A"), Reg("A"), Data("Combinational"), Data("Net"), Reg("B"), Reg("B")>>,
         {<<1, 5>>, <<2, 3>>, <<2, 4>>, <<3, 4>>, <<4, 5>>, <<3, 5>>, <<5, 6>>}, 5)

Cuts ==
  {[clocks |-> <<>>, ends |-> <<>>, through |-> {{3}}],
   [clocks |-> <<{<<"A", "B">>}>>, ends |-> <<>>, through |-> {}],
   [clocks |-> <<>>, ends |-> <<{<<2, 5>>}>>, through |-> {{4}, {3, 5}}]}

Mixed ==
  {MixedSketch, [MixedSketch EXCEPT !.at[4].safe_box = TRUE],
   [MixedSketch EXCEPT !.max_edges = 4, !.policy.multicycle = {<<"A", "B">>},
                       !.policy.suppress = TRUE]} \cup
  {[MixedSketch EXCEPT !.max_edges = 4, !.policy.false_paths = {cut}] : cut \in Cuts}

(* Three domains, one of them gated with a root of its own, wide and       *)
(* packed registers, and what the companion rules look at.                 *)
DomainSketch ==
  Sketch(<<Reg("A"), Reg("B"), Reg("C"), Reg("gB"), Data("Net")>>,
         {<<1, 2>>, <<2, 3>>, <<3, 1>>, <<2, 4>>, <<4, 3>>, <<2, 5>>, <<5, 4>>,
          <<3, 4>>}, 4)

Domains ==
  {[DomainSketch EXCEPT !.at[4].root = "B", !.at[4].gated = TRUE],
   [DomainSketch EXCEPT !.at[2].width = 2, !.at[2].packed = 2, !.at[3].muxed = TRUE,
                        !.at[3].reset = NoReset, !.at[2].reset = NoReset,
                        !.policy.require_reset = TRUE, !.policy.proven = {<<2, 4>>}],
   [DomainSketch EXCEPT !.nodes[3].clock = "unknown", !.at[3].width = 2]}

(* An unsynchronized register with a line of registers behind it. *)
Spreading ==
  {[Sketch(<<Reg("A"), Reg("B"), Data("Net"), Reg("B"), Reg("B"), Data("Combinational")>>,
           {<<2, 3>>, <<3, 4>>, <<4, 5>>, <<2, 5>>, <<5, 2>>, <<5, 4>>}, 6)
    EXCEPT !.drawn = <<<<1, 6>>, <<6, 2>>>>]}

(* One source of two bits or one, two destinations that meet again behind  *)
(* one or two registers, one of the ways over an isolation cell.           *)
BranchSketch ==
  [Sketch(<<Reg("A"), Reg("B"), Reg("B"), Reg("B"), Reg("B"), Data("Combinational")>>,
          {<<2, 4>>, <<3, 4>>, <<3, 5>>, <<5, 4>>, <<4, 5>>, <<5, 3>>, <<2, 3>>, <<4, 2>>}, 7)
   EXCEPT !.drawn = <<<<1, 2>>, <<1, 6>>, <<6, 3>>>>]

Branches ==
  {[BranchSketch EXCEPT !.at[1].width = w, !.at[6].isolation = TRUE, !.policy.max_hops = n,
                        !.at[1].reset = "rst2", !.at[1].async = (w = 2)] :
     w \in {1, 2}, n \in {1, 2}}

(* Three destinations of one source, which make three pairs, meet in one   *)
(* register; the two ways to the clock B may be cut.                       *)
Fans ==
  {Sketch(<<Reg("A"), Reg("B"), Reg("B"), Reg("C"), Reg("B")>>,
          {<<1, 2>>, <<1, 3>>, <<1, 4>>, <<2, 5>>, <<3, 5>>, <<4, 5>>}, 6)} \cup
  {[BranchSketch EXCEPT !.policy.false_paths =
      {[clocks |-> <<{<<"A", "B">>}>>, ends |-> <<>>, through |-> {}]}]}

(* A crossing of resets, or of kinds of one reset, and a line of another   *)
(* clock with the reset of the destination.                                *)
Resets ==
  {[Sketch(<<Reg("A"), Reg("C"), Reg("C"), Reg("B")>>,
           {<<1, 4>>, <<2, 3>>, <<3, 4>>, <<2, 4>>}, 4)
    EXCEPT !.at[1].reset = r, !.at[1].async = a, !.at[4].async = b] :
     r \in {"rst", "rst2"}, a \in BOOLEAN, b \in BOOLEAN}

MCSketches ==
  UNION {Walks, Chains, Mixed, Domains, Spreading, Branches, Fans, Resets}
=============================================================================
