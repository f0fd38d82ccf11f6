------------------------- MODULE AnalysisRunProofs -------------------------
(***************************************************************************)
(* Proofs about the structural analysis, for every sketch: the graph a     *)
(* frontend draws is sound, and what the walks and the searches over it    *)
(* return is what the graph says.                                          *)
(***************************************************************************)
EXTENDS AnalysisRun, GraphLemmas

-----------------------------------------------------------------------------
(* The graph.                                                              *)

(* The graph stays sound, and the findings wait for it. *)
GraphInv ==
  /\ sketch \in Sketches
  /\ g \in SoundGraphs(Drawn(sketch)) /\ NodeIds(g) \subseteq DOMAIN sketch.at
  /\ stage \in {"elaborate", "done"}
  /\ stage = "elaborate" => findings = {}
  /\ stage = "done" => findings = StructuralFindings(Design)

LEMMA GraphInit == Init => GraphInv
<1> SUFFICES ASSUME Init PROVE GraphInv
  OBVIOUS
<1> DEFINE V == Drawn(sketch)
<1>1. /\ sketch \in Sketches /\ g = Connected(Placed(sketch.nodes), sketch.drawn)
      /\ stage = "elaborate" /\ findings = {}
  BY DEF Init
<1>2. /\ Len(sketch.nodes) \in Nat /\ DOMAIN sketch.nodes = 1..Len(sketch.nodes)
      /\ \A i \in DOMAIN sketch.nodes : sketch.nodes[i].kind \in Kinds
      /\ sketch.drawn \in Seq(Nat \X Nat)
  BY <1>1, AnalysisRunAssumption DEF Kinds
<1>3. V.names = Nat /\ "Unknown" \in V.logics
      /\ \A i \in DOMAIN sketch.nodes : sketch.nodes[i].clock \in V.clocks
  BY DEF Drawn
<1> HIDE DEF V
<1>4. Placed(sketch.nodes) \in SoundGraphs(V)
      /\ NodeIds(Placed(sketch.nodes)) \subseteq DOMAIN sketch.nodes
  <2> DEFINE nodes == sketch.nodes
  <2>1. Len(nodes) \in Nat /\ DOMAIN nodes = 1..Len(nodes)
        /\ \A i \in DOMAIN nodes : nodes[i].kind \in Kinds /\ nodes[i].clock \in V.clocks
    BY <1>2, <1>3
  <2> HIDE DEF nodes
  <2>2. Placed(nodes) \in SoundGraphs(V) /\ NodeIds(Placed(nodes)) \subseteq DOMAIN nodes
    BY <1>3, <2>1, PlacedSound
  <2> QED
    BY <2>2 DEF nodes
<1>5. g \in SoundGraphs(V) /\ NodeIds(g) \subseteq DOMAIN sketch.nodes
  BY <1>1, <1>2, <1>4, ConnectedSound
<1>6. DOMAIN sketch.at = DOMAIN sketch.nodes
  BY <1>1, AnalysisRunAssumption
<1> QED
  BY <1>1, <1>5, <1>6 DEF GraphInv, V

LEMMA GraphStep == GraphInv /\ [Next]_vars => GraphInv'
<1> SUFFICES ASSUME GraphInv, [Next]_vars PROVE GraphInv'
  OBVIOUS
<1>1. ASSUME NEW wire \in sketch.wires, add_edge(wire[1], wire[2]) PROVE GraphInv'
  <2>1. wire[1] \in Nat /\ wire[2] \in Nat
    <3>1. sketch.wires \in SUBSET (Nat \X Nat)
      BY AnalysisRunAssumption DEF GraphInv
    <3> QED
      BY <3>1
  <2>2. /\ AddEdge(g, wire[1], wire[2]) \in SoundGraphs(Drawn(sketch))
        /\ NodeIds(AddEdge(g, wire[1], wire[2])) = NodeIds(g)
    <3>1. /\ AddEdge(g, wire[1], wire[2]) \in SoundGraphs(Drawn(sketch))
          /\ Wired(g, AddEdge(g, wire[1], wire[2]))
      BY <2>1, AddEdgeSound DEF GraphInv
    <3> QED
      BY <3>1 DEF Wired, NodeIds
  <2> QED
    BY <1>1, <2>2 DEF add_edge, GraphInv
<1>2. CASE analyse
  <2>1. Design' = Design
    BY <1>2 DEF analyse, Design
  <2> QED
    BY <1>2, <2>1 DEF analyse, GraphInv
<1>3. CASE UNCHANGED vars
  <2>1. Design' = Design
    BY <1>3 DEF vars, Design
  <2> QED
    BY <1>3, <2>1 DEF vars, GraphInv
<1> QED
  BY <1>1, <1>2, <1>3 DEF Next

(* What add_node and add_edge keep of a graph: ids below the counter, maps *)
(* onto the vector, both sides of each edge (ir/graph.cpp), at any time.   *)
THEOREM GraphStaysSound == Spec => []GraphInv
<1> QED
  BY GraphInit, GraphStep, PTL DEF Spec

-----------------------------------------------------------------------------
(* The walks.                                                              *)

LEMMA WalksOfSound == GraphInv => WalksExact
<1> SUFFICES ASSUME GraphInv, NEW id \in Registers(g), NEW comb \in BOOLEAN
             PROVE  LET found == RegisterSuccessors(g, id, comb) IN
                    /\ ToSet(found) = RegistersReached(g, comb, id)
                    /\ IsInjective(found)
                    /\ \A b \in Registers(g) :
                         b \in ToSet(found) <=> id \in ToSet(RegisterPredecessors(g, b, comb))
  BY DEF WalksExact
<1> DEFINE V == Drawn(sketch)
<1>1. g \in SoundGraphs(V)
  BY DEF GraphInv
<1> HIDE DEF V
<1>2. /\ IsInjective(RegisterSuccessors(g, id, comb))
      /\ ToSet(RegisterSuccessors(g, id, comb)) = RegistersReached(g, comb, id)
  BY <1>1, SuccessorsExact
<1>3. ASSUME NEW b \in Registers(g)
      PROVE  b \in ToSet(RegisterSuccessors(g, id, comb)) <=>
               id \in ToSet(RegisterPredecessors(g, b, comb))
  BY <1>1, WalksAgree
<1> QED
  BY <1>2, <1>3

(* Both walks, through any loops, in any sketch's graph at any time.       *)
THEOREM WalksAreExact == Spec => []WalksExact
<1> QED
  BY GraphStaysSound, WalksOfSound, PTL

-----------------------------------------------------------------------------
(* The path search.                                                        *)

LEMMA SearchOfSound == GraphInv => UntruncatedMeansComplete
<1> SUFFICES ASSUME GraphInv, NEW src \in Registers(g), NEW limit \in PathLimits,
                    ~FindRegisterPaths(g, src, limit).truncated
             PROVE  LET all == SimplePaths(g, src)
                        r == FindRegisterPaths(g, src, limit) IN
                    /\ {p.path : p \in ToSet(r.paths)} = all
                    /\ Len(r.paths) = Cardinality(all)
                    /\ \A p \in ToSet(r.paths) :
                         p.comb <=> \E id \in ToSet(p.path) : KindOf(g, id) = "Combinational"
  BY DEF UntruncatedMeansComplete
<1> DEFINE V == Drawn(sketch)
           all == SimplePaths(g, src)
           r == FindRegisterPaths(g, src, limit)
<1>1. g \in SoundGraphs(V) /\ limit \in Nat
  BY AnalysisRunAssumption DEF GraphInv
<1> HIDE DEF V
<1>2. Answers(g, src, r)
  BY <1>1, SearchExact
<1> HIDE DEF r
<1>3. /\ r.paths \in Seq(Frames) /\ Scattered(r.paths)
      /\ \A p \in ToSet(r.paths) : GoodFrame(g, p) /\ p.path \in all
      /\ \A q \in all : \E p \in ToSet(r.paths) : p.path = q
  BY <1>2 DEF Answers, Results, r
<1> HIDE DEF all
<1>4. {p.path : p \in ToSet(r.paths)} = all
  BY <1>3
<1>5. Len(r.paths) = Cardinality(all)
  BY <1>3, <1>4, PathsCounted
<1>6. \A p \in ToSet(r.paths) :
         p.comb <=> \E id \in ToSet(p.path) : KindOf(g, id) = "Combinational"
  BY <1>3 DEF GoodFrame, Combined
<1> QED
  BY <1>4, <1>5, <1>6 DEF all, r

(* No simple path is missed by a search that does not say so, for every    *)
(* limit on the number of paths (find_register_paths).                     *)
THEOREM UntruncatedSearchesAreComplete == Spec => []UntruncatedMeansComplete
<1> QED
  BY GraphStaysSound, SearchOfSound, PTL

-----------------------------------------------------------------------------
(* The crossings.                                                          *)

LEMMA DesignFields ==
  /\ Design.g = g /\ Design.at = sketch.at
  /\ \A f \in DOMAIN sketch.policy \ {"g", "at"} : Design[f] = sketch.policy[f]
BY DEF Design

LEMMA CrossingsOfSound == GraphInv => CrossingsExact
<1> SUFFICES ASSUME GraphInv, Ended, NEW src \in Registers(g), NEW dst \in Registers(g)
             PROVE  LET ends == {Last(p) : p \in SimplePaths(g, src)}
                        connected == Crosses(Design, src, dst) /\ dst \in ends
                        about == {f \in Rule("CDC001") : f.src = src /\ f.dst = dst} IN
                    /\ about # {} => connected /\ Cardinality(about) = 1
                    /\ connected => about # {} \/ \E f \in Rule("CDC010") : f.src = src
  BY DEF CrossingsExact
<1> DEFINE V == Drawn(sketch)
           D == Design
           connected == Crosses(D, src, dst) /\ \E p \in SimplePaths(g, src) : Last(p) = dst
           about == {f \in Rule("CDC001") : f.src = src /\ f.dst = dst}
<1>1. D.g = g /\ g \in SoundGraphs(V) /\ findings = StructuralFindings(D)
  BY DesignFields DEF GraphInv, Ended
<1> HIDE DEF V, D
<1>2. Tells(D, findings)
  BY <1>1, StructuralTells
<1>3. /\ <<src, dst>> \in CrossedPairs(D) => connected
      /\ connected => <<src, dst>> \in CrossedPairs(D) \/ src \in CutShort(D)
  <2>1. D.g \in SoundGraphs(V) /\ src \in Registers(D.g) /\ dst \in Registers(D.g)
    BY <1>1
  <2>2. /\ <<src, dst>> \in CrossedPairs(D) =>
             Crosses(D, src, dst) /\ \E p \in SimplePaths(D.g, src) : Last(p) = dst
        /\ Crosses(D, src, dst) /\ (\E p \in SimplePaths(D.g, src) : Last(p) = dst) =>
             <<src, dst>> \in CrossedPairs(D) \/ src \in CutShort(D)
    BY <2>1, CrossedExact
  <2> QED
    BY <1>1, <2>2
<1> HIDE DEF connected
<1>4. ASSUME NEW f \in about PROVE about = {f} /\ connected
  <2>1. \A e \in about : e = f
    BY <1>2, <1>4 DEF Tells, Rule
  <2>2. <<src, dst>> \in CrossedPairs(D)
    BY <1>2, <1>4 DEF Tells, Rule
  <2> QED
    BY <1>3, <1>4, <2>1, <2>2
<1>5. <<src, dst>> \in CrossedPairs(D) => about # {}
  <2> SUFFICES ASSUME <<src, dst>> \in CrossedPairs(D) PROVE about # {}
    OBVIOUS
  <2> DEFINE p == <<src, dst>>
  <2>1. p[1] = src /\ p[2] = dst
    OBVIOUS
  <2> HIDE DEF p
  <2>2. p \in CrossedPairs(D)
    BY DEF p
  <2>3. \E f \in findings : f.rule = "CDC001" /\ f.src = p[1] /\ f.dst = p[2]
    BY <1>2, <2>2 DEF Tells
  <2> QED
    BY <2>1, <2>3 DEF Rule
<1>6. src \in CutShort(D) => \E f \in Rule("CDC010") : f.src = src
  BY <1>2 DEF Tells, Rule
<1> HIDE DEF about
<1>7. about # {} => connected /\ Cardinality(about) = 1
  BY <1>4, FS_Singleton
<1>8. connected => about # {} \/ \E f \in Rule("CDC010") : f.src = src
  BY <1>3, <1>5, <1>6
<1> QED
  BY <1>7, <1>8 DEF about, connected, D

(* Each crossing is reported once, and none is missed silently, over any   *)
(* graph (CrossingAnalyzer::analyze).                                      *)
THEOREM CrossingsAreExact == Spec => []CrossingsExact
<1> QED
  BY GraphStaysSound, CrossingsOfSound, PTL

(* A CDC009 is found for each pair of registers whose resets cross, an     *)
(* error if one of them is asynchronous; isolation does not change it.     *)
LEMMA ResetCrossingsFound ==
  ASSUME NEW D, ~D.suppress_resets,
         NEW src \in Registers(D.g), NEW dst \in Registers(D.g), ResetCrosses(D, src, dst)
  PROVE  \E f \in StructuralFindings(D) :
           /\ f.rule = "CDC009" /\ f.src = src /\ f.dst = dst
           /\ (f.severity = "error") <=> (D.at[src].async \/ D.at[dst].async)
<1> DEFINE G(severity, a, b) == Finding("CDC009", severity, a, b, <<a, b>>, "VerifiedUnsafe")
           severity == IF D.at[src].async \/ D.at[dst].async THEN "error" ELSE "warning"
           f == G(severity, src, dst)
<1>1. /\ f.rule = "CDC009" /\ f.src = src /\ f.dst = dst /\ f.severity = severity
  BY FindingFields DEF IsAbout
<1>2. f \in CheckResetCrossings(D)
  <2> DEFINE S == {e \in Registers(D.g) \X Registers(D.g) : ResetCrosses(D, e[1], e[2])}
             p == <<src, dst>>
  <2>1. p \in S /\ p[1] = src /\ p[2] = dst
    OBVIOUS
  <2> HIDE DEF S, p, G
  <2>2. CheckResetCrossings(D) =
          {G(IF D.at[e[1]].async \/ D.at[e[2]].async THEN "error" ELSE "warning", e[1], e[2]) :
             e \in S}
    BY DEF CheckResetCrossings, G, S
  <2>3. G(IF D.at[p[1]].async \/ D.at[p[2]].async THEN "error" ELSE "warning", p[1], p[2])
          \in CheckResetCrossings(D)
    BY <2>1, <2>2
  <2> QED
    BY <2>1, <2>3
<1> HIDE DEF f
<1>3. Lowered(D, f) \in StructuralFindings(D)
  <2>1. StructuralFindings(D) = FindingsFrom(D, Analyze(D))
    BY DEF StructuralFindings
  <2> DEFINE F == Analyze(D)
  <2> HIDE DEF F
  <2>2. FindingsFrom(D, F) = {Lowered(D, e) : e \in PropagateUncertainty(D, F)
             \cup Reconvergence(D, F) \cup Cdc006(D) \cup CheckResetCrossings(D)}
    BY DEF FindingsFrom, Isolate, Lowered
  <2>3. Lowered(D, f) \in FindingsFrom(D, F)
    BY <1>2, <2>2
  <2> QED
    BY <2>1, <2>3 DEF F
<1>4. Lowered(D, f) = f
  BY <1>1 DEF Lowered
<1> QED
  BY <1>1, <1>3, <1>4

LEMMA ResetsOfSound == GraphInv => ResetCrossingsReported
<1> SUFFICES ASSUME GraphInv, Ended, NEW src \in Registers(g), NEW dst \in Registers(g),
                    ResetsMeet(src, dst), ~sketch.policy.suppress_resets,
                    ~(sketch.policy.detect_synchronizer /\ LineOfReset(dst))
             PROVE  \E f \in Rule("CDC009") :
                      /\ f.src = src /\ f.dst = dst
                      /\ sketch.at[src].async /\ sketch.at[dst].async => f.severity = "error"
                      /\ f.severity = "error" => sketch.at[src].async \/ sketch.at[dst].async
  BY DEF ResetCrossingsReported
<1>0. /\ Crosses(Design, src, dst)
      /\ NoReset \notin {sketch.at[src].reset, sketch.at[dst].reset}
      /\ <<sketch.at[src].reset, sketch.at[src].pol>> #
           <<sketch.at[dst].reset, sketch.at[dst].pol>>
      /\ \E p \in SimplePaths(g, src) : Last(p) = dst
  BY DEF ResetsMeet
<1>a. ASSUME sketch.policy.detect_synchronizer, NEW p \in Registers(g), NEW q \in Registers(g),
             p \in RegistersReached(g, FALSE, q), sketch.at[q].reset = sketch.at[dst].reset,
             dst \in RegistersReached(g, FALSE, p), sketch.at[p].reset = sketch.at[dst].reset
      PROVE  FALSE
  BY <1>a DEF LineOfReset
<1> PICK path \in SimplePaths(g, src) : Last(path) = dst
  BY <1>0
<1> DEFINE D == Design
           V == Drawn(sketch)
           T == TRUE
           N == FALSE
<1>1. /\ D.g = g /\ D.at = sketch.at /\ g \in SoundGraphs(V) /\ findings = StructuralFindings(D)
      /\ D.suppress_resets = sketch.policy.suppress_resets
      /\ D.detect_synchronizer = sketch.policy.detect_synchronizer
  <2>1. {"suppress_resets", "detect_synchronizer"} \subseteq DOMAIN sketch.policy \ {"g", "at"}
    BY AnalysisRunAssumption DEF GraphInv, PolicyFields
  <2> QED
    BY <2>1, DesignFields DEF GraphInv, Ended
<1>2. T \in BOOLEAN /\ N \in BOOLEAN
  OBVIOUS
<1> HIDE DEF V, D
<1>3. Crosses(D, src, dst)
  BY <1>0 DEF D
<1>4. HasDomain(D, src) /\ HasDomain(D, dst) /\ Domain(D, src) # Domain(D, dst) /\ src # dst
  BY <1>3 DEF Crosses
<1>5. dst \in ToSet(RegisterSuccessors(g, src, TRUE))
  <2> HIDE DEF T, N
  <2>1. Last(path) \in Ahead(g, TRUE, TRUE, src)
    BY <1>1, PathsGoAhead
  <2>2. dst \in ToSet(RegisterSuccessors(g, src, T)) <=>
          dst \in Registers(g) /\ dst # src /\ dst \in Ahead(g, TRUE, T, src)
    BY <1>1, <1>2, WalkSets
  <2> QED
    BY <1>4, <2>1, <2>2 DEF T
<1>6. ASSUME NEW a \in Registers(g), NEW b \in ToSet(DirectBack(D, a))
      PROVE  b \in Registers(g) /\ a \in RegistersReached(g, FALSE, b)
  <2> HIDE DEF N
  <2>1. b \in ToSet(RegisterPredecessors(g, a, N))
    BY <1>1, <1>6 DEF DirectBack, N
  <2>2. b \in ToSet(RegisterPredecessors(g, a, N)) <=>
          b \in Registers(g) /\ b # a /\ b \in Ahead(g, FALSE, N, a)
    BY <1>1, <1>2, WalkSets
  <2>3. a \in ToSet(RegisterSuccessors(g, b, N)) <=> b \in ToSet(RegisterPredecessors(g, a, N))
    BY <1>1, <1>2, <2>1, <2>2, WalksAgree
  <2>4. ToSet(RegisterSuccessors(g, b, N)) = RegistersReached(g, N, b)
    BY <1>1, <1>2, <2>1, <2>2, SuccessorsExact
  <2> QED
    BY <2>1, <2>2, <2>3, <2>4 DEF N
<1>7. D.detect_synchronizer => ~HasResetSynchronizer(D, dst)
  <2> SUFFICES ASSUME D.detect_synchronizer, HasResetSynchronizer(D, dst) PROVE FALSE
    OBVIOUS
  <2>1. PICK p \in ToSet(DirectBack(D, dst)) :
          /\ D.at[p].reset = D.at[dst].reset
          /\ \E q \in ToSet(DirectBack(D, p)) : D.at[q].reset = D.at[dst].reset
    BY DEF HasResetSynchronizer
  <2>2. PICK q \in ToSet(DirectBack(D, p)) : D.at[q].reset = D.at[dst].reset
    BY <2>1
  <2>3. p \in Registers(g) /\ dst \in RegistersReached(g, FALSE, p)
    BY <1>6
  <2>4. q \in Registers(g) /\ p \in RegistersReached(g, FALSE, q)
    BY <1>6, <2>3
  <2> QED
    BY <1>1, <1>a, <2>1, <2>2, <2>3, <2>4
<1>8. ResetCrosses(D, src, dst)
  BY <1>0, <1>1, <1>4, <1>5, <1>7 DEF ResetCrosses, HasReset, SameReset
<1>9. \E f \in StructuralFindings(D) :
        /\ f.rule = "CDC009" /\ f.src = src /\ f.dst = dst
        /\ (f.severity = "error") <=> (D.at[src].async \/ D.at[dst].async)
  BY <1>1, <1>8, ResetCrossingsFound
<1> QED
  BY <1>1, <1>9 DEF Rule

(* Each crossing of resets over any path is reported, with the right       *)
(* severity, unless a reset synchronizer guards it (reset_domain.cpp).     *)
THEOREM ResetsAreReported == Spec => []ResetCrossingsReported
<1> QED
  BY GraphStaysSound, ResetsOfSound, PTL

(* A strict chain with a first stage that no register of its clock drives  *)
(* has every stage once, and each is driven by the one before alone.       *)
SoleLine(D, dest, c) ==
  /\ IsInjective(c)
  /\ \A i \in DOMAIN c : /\ c[i] \in Registers(D.g) /\ Clock(D, c[i]) = Clock(D, dest)
                         /\ OwnDrivers(D, c[i]) = IF i = 1 THEN {} ELSE {c[i - 1]}

LEMMA StrictChain ==
  ASSUME NEW V, NEW D, D.g \in SoundGraphs(V), NEW dest \in Registers(D.g),
         OwnPreds(D, dest) = {}, NEW strict, NEW guarded, guarded
  PROVE  SoleLine(D, dest, Chain(D, dest, guarded, strict))
<1> DEFINE c == Chain(D, dest, guarded, strict)
           R == Registers(D.g)
<1>1. dest \in Nat
  <2>1. Registers(D.g) \in SUBSET NodeIds(D.g) /\ NodeIds(D.g) \in SUBSET Nat
    <3> DEFINE B == TRUE
    <3>1. B \in BOOLEAN
      OBVIOUS
    <3> HIDE DEF B
    <3> QED
      BY <3>1, EndsFacts, InnerFacts
  <2> QED
    BY <2>1
<1>2. StageWalk(D, dest, c, guarded, strict)
  BY <1>1, ChainIs DEF WholeChain
<1> HIDE DEF c
<1>3. Linked(D, dest, c, guarded, strict)
  BY <1>2, StagesLinked
<1>4. /\ c \in Seq(Nat) /\ Len(c) \in Nat /\ Len(c) >= 1 /\ c[1] = dest /\ DOMAIN c = 1..Len(c)
  BY <1>2, LenProperties DEF StageWalk, MaxStages
<1>5. \A i \in 1..Len(c) : c[i] \in R /\ Clock(D, c[i]) = Clock(D, dest)
  BY <1>3 DEF Linked
<1>6. \A a \in R : OwnPreds(D, a) = OwnDrivers(D, a) /\ IsFiniteSet(OwnDrivers(D, a))
  BY OwnFacts
<1>7. OwnDrivers(D, c[1]) = {}
  BY <1>4, <1>6
<1>8. ASSUME NEW i \in 1..Len(c), i # 1 PROVE OwnDrivers(D, c[i]) = {c[i - 1]}
  <2>1. i - 1 \in 1..(Len(c) - 1) /\ (i - 1) + 1 = i
    BY <1>4, <1>8
  <2>2. c[i - 1] \in OwnDrivers(D, c[i]) /\ Fits(D, dest, c[i - 1], c[i], guarded, strict)
    BY <1>3, <2>1 DEF Linked
  <2>3. Cardinality(OwnDrivers(D, c[i])) <= 1
    BY <1>5, <1>6, <2>2 DEF Fits
  <2> QED
    BY <1>5, <1>6, <2>2, <2>3, AtMostOne
<1> DEFINE Good == {n \in Nat : n + 1 <= Len(c) =>
                      \A j \in 1..Len(c) : c[j] = c[n + 1] => j = n + 1}
<1>9. 0 \in Good
  <2>1. ASSUME NEW j \in 1..Len(c), c[j] = c[1], j # 1 PROVE FALSE
    <3>1. OwnDrivers(D, c[j]) = {c[j - 1]}
      BY <1>8, <2>1
    <3> QED
      BY <1>7, <2>1, <3>1
  <2> QED
    BY <2>1
<1>10. ASSUME NEW n \in Nat, n \in Good PROVE n + 1 \in Good
  <2> SUFFICES ASSUME n + 1 + 1 <= Len(c), NEW j \in 1..Len(c), c[j] = c[n + 1 + 1]
               PROVE  j = n + 1 + 1
    OBVIOUS
  <2>1. n + 1 + 1 \in 1..Len(c) /\ n + 1 + 1 # 1 /\ (n + 1 + 1) - 1 = n + 1 /\ n + 1 <= Len(c)
    BY <1>4
  <2>2. OwnDrivers(D, c[j]) = {c[n + 1]}
    BY <1>8, <2>1
  <2>3. j # 1
    BY <1>7, <2>2
  <2>4. c[j - 1] = c[n + 1] /\ j - 1 \in 1..Len(c)
    <3>1. OwnDrivers(D, c[j]) = {c[j - 1]}
      BY <1>8, <2>3
    <3>2. c[j - 1] = c[n + 1]
      BY <2>2, <3>1
    <3>3. j - 1 \in 1..Len(c)
      BY <1>4, <2>3
    <3> QED
      BY <3>2, <3>3
  <2>5. j - 1 = n + 1
    BY <1>10, <2>1, <2>4
  <2> QED
    BY <1>4, <2>5
<1>11. Nat \subseteq Good
  <2> HIDE DEF Good
  <2> QED
    BY <1>9, <1>10, NatInd
<1>12. \A i, j \in 1..Len(c) : c[i] = c[j] => i = j
  <2> SUFFICES ASSUME NEW i \in 1..Len(c), NEW j \in 1..Len(c), c[i] = c[j] PROVE i = j
    OBVIOUS
  <2>1. i - 1 \in Nat /\ (i - 1) + 1 = i /\ i <= Len(c)
    BY <1>4
  <2>2. i - 1 \in Good
    BY <1>11, <2>1
  <2> QED
    BY <2>1, <2>2
<1>13. IsInjective(c)
  BY <1>4, <1>12 DEF IsInjective
<1> QED
  BY <1>4, <1>5, <1>7, <1>8, <1>13 DEF c, SoleLine

LEMMA PatternsOfSound == GraphInv => PatternIsChain
<1> SUFFICES ASSUME GraphInv, stage = "elaborate", NEW d \in Registers(g),
                    FindPatternForDest(Design, d, TRUE) # "None", sketch.at[d].width = 1
             PROVE  LET pattern == FindPatternForDest(Design, d, TRUE)
                        chain == Chain(Design, d, TRUE, TRUE) IN
                    /\ IsInjective(chain) /\ PatternFromDepth(Len(chain)) = pattern
                    /\ \A i \in DOMAIN chain :
                         LET own == {r \in Registers(g) : Clock(Design, r) = Clock(Design, d) /\
                                       chain[i] \in RegistersReached(g, FALSE, r)} IN
                         own = IF i = 1 THEN {} ELSE {chain[i - 1]}
  BY DEF PatternIsChain
<1> DEFINE D == Design
           V == Drawn(sketch)
           T == TRUE
           c == Chain(D, d, T, T)
<1>1. D.g = g /\ D.at = sketch.at /\ g \in SoundGraphs(V)
  BY DesignFields DEF GraphInv
<1> HIDE DEF V, D
<1>2. FindPatternForDest(D, d, T) # "None" /\ D.at[d].width = 1
  BY <1>1 DEF D
<1>3. OwnPreds(D, d) = {} /\ FindPatternForDest(D, d, T) = PatternFromDepth(Len(c))
  BY <1>2 DEF FindPatternForDest
<1>4. T
  OBVIOUS
<1> HIDE DEF T
<1>5. /\ IsInjective(c)
      /\ \A i \in DOMAIN c : /\ c[i] \in Registers(g) /\ Clock(D, c[i]) = Clock(D, d)
                             /\ OwnDrivers(D, c[i]) = IF i = 1 THEN {} ELSE {c[i - 1]}
  <2>1. D.g \in SoundGraphs(V) /\ d \in Registers(D.g)
    BY <1>1
  <2>2. SoleLine(D, d, c)
    BY <1>3, <1>4, <2>1, StrictChain
  <2> HIDE DEF c
  <2> QED
    BY <1>1, <2>2 DEF SoleLine
<1> HIDE DEF c
<1>6. ASSUME NEW i \in DOMAIN c
      PROVE  {r \in Registers(g) : Clock(D, r) = Clock(D, d) /\ c[i] \in RegistersReached(g, FALSE, r)}
               = IF i = 1 THEN {} ELSE {c[i - 1]}
  BY <1>1, <1>5 DEF OwnDrivers
<1> QED
  BY <1>3, <1>5, <1>6 DEF D, c, T

(* What is called a synchronizer of so many stages is a line of as many    *)
(* distinct registers that nothing else of the clock drives, over any      *)
(* graph (find_pattern_for_dest).                                          *)
THEOREM PatternsAreChains == Spec => []PatternIsChain
<1> QED
  BY GraphStaysSound, PatternsOfSound, PTL

-----------------------------------------------------------------------------
(* Safe crossings.                                                         *)

(* What the reset of a stage and of the one before have to agree on. *)
Agree(a, b) ==
  /\ b.async => a.async
  /\ a.reset # NoReset /\ b.reset # NoReset =>
       /\ (a.async <=> b.async) /\ a.pol = b.pol
       /\ a.async => a.reset = b.reset

LEMMA SafeChainsOfSound == GraphInv => SafeChainIsClean
<1> SUFFICES ASSUME GraphInv, Ended, NEW f \in findings,
                    f.why = "chain", f.status = "VerifiedSafe"
             PROVE  LET chain == Chain(Design, f.dst, TRUE, TRUE) IN
                    \A i \in 1..(Len(chain) - 1) :
                      LET a == sketch.at[chain[i]]
                          b == sketch.at[chain[i + 1]] IN
                      /\ {r \in Registers(g) : Clock(Design, r) = Clock(Design, f.dst) /\
                            r \in RegistersReached(g, FALSE, chain[i])} = {chain[i + 1]}
                      /\ b.async => a.async
                      /\ a.reset # NoReset /\ b.reset # NoReset =>
                           /\ (a.async <=> b.async) /\ a.pol = b.pol
                           /\ a.async => a.reset = b.reset
  BY DEF SafeChainIsClean
<1> DEFINE D == Design
           V == Drawn(sketch)
           T == TRUE
           dst == f.dst
           c == Chain(D, dst, T, T)
           w == Chain(D, dst, FALSE, T)
<1>1. D.g = g /\ D.at = sketch.at /\ g \in SoundGraphs(V) /\ findings = StructuralFindings(D)
  BY DesignFields DEF GraphInv, Ended
<1> HIDE DEF V, D
<1>2. PICK e \in Analyze(D) : e.rule = "CDC001" /\ CrossingSays(D, e) /\ f = Lowered(D, e)
  BY <1>1, StructuralSays
<1>3. IsFinding(e) /\ f.dst = e.dst
  <2>1. Findings(Analyze(D))
    BY <1>1, AnalyzeTells
  <2>2. IsFinding(e)
    BY <2>1 DEF Findings
  <2> QED
    BY <1>2, <2>2, LoweredFields DEF IsAbout
<1>4. e.why = "chain"
  <2> DEFINE k == [e EXCEPT !.severity = "info", !.status = "VerifiedSafe"]
  <2>1. IsFinding(k)
    BY <1>3, BecauseIsOne
  <2> HIDE DEF k
  <2>2. Because(k, "isolation").why = "isolation"
    BY <2>1, BecauseSays
  <2>3. f = e \/ f = Because(k, "isolation")
    BY <1>2 DEF Lowered, k
  <2> QED
    BY <2>2, <2>3
<1>5. Judged(D, e.src, dst, e.path).why = "chain"
  BY <1>2, <1>3, <1>4 DEF CrossingSays, Judges
<1>6. ~HasChainWarnings(D, dst, T)
  <2> DEFINE F(severity, status) == Finding("CDC001", severity, e.src, dst, e.path, status)
             E1 == Because(F("error", "VerifiedUnsafe"), "unsynchronized")
             E2 == Because(F("error", "VerifiedUnsafe"), "short")
             E3 == Because(F("warning", "Ambiguous"), "warnings")
  <2>1. \A severity, status : IsFinding(F(severity, status))
    BY FindingIsOne
  <2> HIDE DEF F, dst
  <2>2. E1.why = "unsynchronized" /\ E2.why = "short" /\ E3.why = "warnings"
    BY <2>1, BecauseSays
  <2> HIDE DEF E1, E2, E3
  <2>3. \/ Judged(D, e.src, dst, e.path) \in {E1, E2, E3}
        \/ ~HasChainWarnings(D, dst, T)
    BY DEF Judged, E1, E2, E3, F, T
  <2> QED
    BY <1>5, <2>2, <2>3
<1>7. D.g \in SoundGraphs(V) /\ dst \in Registers(D.g) /\ dst \in Nat
  <2> DEFINE B == TRUE
  <2>1. B \in BOOLEAN
    OBVIOUS
  <2> HIDE DEF B
  <2>2. Registers(D.g) \in SUBSET NodeIds(D.g) /\ NodeIds(D.g) \in SUBSET Nat
    BY <1>1, <2>1, EndsFacts, InnerFacts
  <2> QED
    BY <1>1, <1>2, <1>3, <2>2 DEF CrossingSays
<1>8. ~WarnsOn(D, w)
  BY <1>6 DEF HasChainWarnings
<1> HIDE DEF dst, T
<1>9. /\ StageWalk(D, dst, c, TRUE, T) /\ Linked(D, dst, c, TRUE, T)
      /\ WholeChain(D, dst, w, FALSE, T)
  <2>1. T = TRUE
    BY DEF T
  <2>2. WholeChain(D, dst, Chain(D, dst, TRUE, T), TRUE, T)
    BY <1>7, ChainIs
  <2>3. WholeChain(D, dst, w, FALSE, T)
    BY <1>7, ChainIs
  <2>4. StageWalk(D, dst, c, TRUE, T)
    BY <2>1, <2>2 DEF WholeChain
  <2> QED
    BY <1>7, <2>3, <2>4, StagesLinked
<1> HIDE DEF c, w
<1>10. Begins(c, w)
  <2> DEFINE Y == TRUE
             N == FALSE
  <2>1. Y /\ ~N
    OBVIOUS
  <2>2. StageWalk(D, dst, c, Y, T) /\ WholeChain(D, dst, w, N, T)
    BY <1>9
  <2> HIDE DEF Y, N
  <2> QED
    BY <1>7, <1>8, <2>1, <2>2, CleanStart
<1>11. ASSUME NEW i \in 1..(Len(c) - 1)
       PROVE  /\ {r \in Registers(g) : Clock(D, r) = Clock(D, dst) /\
                    r \in RegistersReached(g, FALSE, c[i])} = {c[i + 1]}
              /\ Agree(sketch.at[c[i]], sketch.at[c[i + 1]])
  <2>1. Len(c) \in Nat /\ Len(w) \in Nat
    BY <1>9, LenProperties DEF StageWalk, WholeChain
  <2>2. i \in 1..Len(c) /\ i + 1 \in 1..Len(c)
    BY <2>1
  <2>3. i \in 1..(Len(w) - 1) /\ c[i] = w[i] /\ c[i + 1] = w[i + 1]
    BY <1>10, <2>1, <2>2 DEF Begins
  <2>4. ~ValidateStageReset(D, c[i + 1], c[i]) /\ ValidateStageFanout(D, c[i])
    BY <1>8, <2>3 DEF WarnsOn
  <2>5. /\ c[i] \in Registers(D.g) /\ c[i + 1] \in Registers(D.g)
        /\ Clock(D, c[i]) = Clock(D, dst) /\ c[i] \in OwnDrivers(D, c[i + 1])
    BY <1>9, <2>2 DEF Linked
  <2>6. OwnDriven(D, c[i]) = {c[i + 1]}
    <3>1. {s \in ToSet(Direct(D, c[i])) : Clock(D, s) = Clock(D, c[i])} = OwnDriven(D, c[i])
          /\ IsFiniteSet(OwnDriven(D, c[i]))
      BY <1>7, <2>5, OwnFacts
    <3>2. Cardinality(OwnDriven(D, c[i])) <= 1
      BY <2>4, <3>1 DEF ValidateStageFanout
    <3>3. c[i + 1] \in OwnDriven(D, c[i])
      BY <1>7, <2>5, OwnFacts
    <3> QED
      BY <3>1, <3>2, <3>3, AtMostOne
  <2>7. {r \in Registers(g) : Clock(D, r) = Clock(D, dst) /\
           r \in RegistersReached(g, FALSE, c[i])} = {c[i + 1]}
    BY <1>1, <2>5, <2>6 DEF OwnDriven
  <2>8. Agree(sketch.at[c[i]], sketch.at[c[i + 1]])
    <3> DEFINE s == sketch.at[c[i + 1]]
               p == sketch.at[c[i]]
    <3>1. /\ ~(s.async /\ ~p.async)
          /\ ~(s.async /\ p.async /\ s.reset # NoReset /\ p.reset # NoReset /\ s.reset # p.reset)
          /\ ~(~s.async /\ p.async /\ s.reset # NoReset /\ p.reset # NoReset)
          /\ ~(s.reset # NoReset /\ p.reset # NoReset /\ s.pol # p.pol)
      BY <1>1, <2>4 DEF ValidateStageReset, HasReset
    <3> HIDE DEF s, p
    <3>2. Agree(p, s)
      BY <3>1 DEF Agree
    <3> QED
      BY <3>2 DEF s, p
  <2> QED
    BY <2>7, <2>8
<1> QED
  BY <1>11 DEF c, D, T, dst, Agree

(* A crossing is only called safe for a chain whose resets agree and whose *)
(* stages drive one another and nothing else, over any graph               *)
(* (CrossingAnalyzer::process_path).                                       *)
THEOREM SafeChainsAreClean == Spec => []SafeChainIsClean
<1> QED
  BY GraphStaysSound, SafeChainsOfSound, PTL

-----------------------------------------------------------------------------
(* Isolation cells.                                                        *)

LEMMA IsolationOfSound == GraphInv => IsolationIsNarrow
<1> DEFINE E == [Design EXCEPT !.at = [id \in DOMAIN @ |-> [@[id] EXCEPT !.isolation = FALSE]]]
           D == Design
           V == Drawn(sketch)
<1> SUFFICES ASSUME GraphInv, Ended
             PROVE  LET Isolated(f) == f.rule = "CDC001" /\ f.why = "isolation"
                        Narrow(bare) ==
                          /\ {f \in findings : ~Isolated(f)} \subseteq bare
                          /\ \A f \in bare \ findings :
                               /\ f.rule = "CDC001" /\ f.severity = "error"
                               /\ \E id \in ToSet(f.path) : sketch.at[id].isolation IN
                    Narrow(StructuralFindings(E))
  BY DEF IsolationIsNarrow
<1>1. /\ D.g = g /\ D.at = sketch.at /\ g \in SoundGraphs(V)
      /\ NodeIds(g) \subseteq DOMAIN sketch.at /\ findings = StructuralFindings(D)
  BY DesignFields DEF GraphInv, Ended
<1>2. /\ E.at = [id \in DOMAIN sketch.at |-> [sketch.at[id] EXCEPT !.isolation = FALSE]]
      /\ \A field \in PolicyFields \cup {"g"} : E[field] = D[field]
  <2>1. DOMAIN sketch.policy = PolicyFields
    BY AnalysisRunAssumption DEF GraphInv
  <2>2. D = [field \in {"g", "at"} \cup DOMAIN sketch.policy |-> D[field]]
    BY DEF Design
  <2> HIDE DEF D
  <2>3. E = [D EXCEPT !.at = [id \in DOMAIN sketch.at |-> [sketch.at[id] EXCEPT !.isolation = FALSE]]]
    BY <1>1 DEF D
  <2> HIDE DEF E
  <2>4. "at" \notin PolicyFields
    BY DEF PolicyFields
  <2> QED
    BY <2>1, <2>2, <2>3, <2>4
<1> HIDE DEF E, D, V
<1>3. /\ DOMAIN E.at = DOMAIN D.at
      /\ \A id \in DOMAIN D.at :
           /\ AlikeAt(E.at[id], D.at[id]) /\ E.at[id].uncertain = D.at[id].uncertain
           /\ E.at[id].isolation = FALSE
  <2>1. \A id \in DOMAIN sketch.at : DOMAIN sketch.at[id] = AttributeFields
    BY AnalysisRunAssumption DEF GraphInv
  <2> QED
    BY <1>1, <1>2, <2>1 DEF AlikeAt, AttributeFields
<1>4. Alike(D, E) /\ SameMarks(D, E) /\ E.suppress_resets = D.suppress_resets
  <2>1. E.g = D.g /\ \A id \in NodeIds(D.g) : AlikeAt(E.at[id], D.at[id])
    BY <1>1, <1>2, <1>3
  <2>2. /\ E.false_paths = D.false_paths /\ E.multicycle = D.multicycle
        /\ E.suppress = D.suppress /\ E.proven = D.proven
        /\ E.min_stages = D.min_stages /\ E.require_reset = D.require_reset
        /\ E.check_same_clock = D.check_same_clock
        /\ E.detect_synchronizer = D.detect_synchronizer
        /\ E.max_hops = D.max_hops /\ E.suppress_resets = D.suppress_resets
    BY <1>2 DEF PolicyFields
  <2>3. SameMarks(D, E)
    BY <1>3 DEF SameMarks
  <2> QED
    BY <2>1, <2>2, <2>3 DEF Alike
<1> DEFINE F == Analyze(D)
           bare == BeforeIsolation(D, F)
<1>5. D.g \in SoundGraphs(V) /\ Lands(D.g, F) /\ Findings(F) /\ Analyze(E) = F
  <2>1. D.g \in SoundGraphs(V)
    BY <1>1
  <2>2. Analyze(E) = F
    BY <1>4, <2>1, AlikeAnalyze
  <2>3. Findings(F)
    BY <2>1, AnalyzeTells
  <2> QED
    BY <2>1, <2>2, <2>3, AnalyzeLands
<1>6. \A f \in F : f.rule = "CDC001" => Arrives(D.g, f.path)
  BY <1>5, CrossingsArrive
<1> HIDE DEF F
<1>7. BeforeIsolation(E, F) = bare
  BY <1>4, <1>5, AlikeBefore
<1>8. \A f \in bare : f.rule = "CDC001" => f \in F
  BY BeforeCrossings DEF Others
<1> HIDE DEF bare
<1>9. findings = {Lowered(D, f) : f \in bare}
  BY <1>1, AllLowered DEF StructuralFindings, F, bare
<1>10. StructuralFindings(E) = bare
  <2>1. StructuralFindings(E) = {Lowered(E, f) : f \in bare}
    BY <1>5, <1>7, AllLowered DEF StructuralFindings
  <2>2. ASSUME NEW f \in bare PROVE Lowered(E, f) = f
    <3>1. f.rule = "CDC001" => \A id \in ToSet(f.path) : E.at[id].isolation = FALSE
      BY <1>1, <1>3, <1>6, <1>8 DEF Arrives
    <3> QED
      BY <3>1 DEF Lowered
  <2> QED
    BY <2>1, <2>2
<1>11. ASSUME NEW f \in bare, Lowered(D, f) # f
       PROVE  /\ f.rule = "CDC001" /\ f.severity = "error"
              /\ \E id \in ToSet(f.path) : sketch.at[id].isolation
              /\ Lowered(D, f).rule = "CDC001" /\ Lowered(D, f).why = "isolation"
  <2> DEFINE l == [f EXCEPT !.severity = "info", !.status = "VerifiedSafe"]
  <2>1. /\ f.rule = "CDC001" /\ f.severity = "error"
        /\ \E id \in ToSet(f.path) : D.at[id].isolation
        /\ Lowered(D, f) = Because(l, "isolation")
    BY <1>11 DEF Lowered
  <2>2. IsFinding(f)
    BY <1>5, <1>8, <2>1 DEF Findings
  <2>3. IsFinding(l)
    BY <2>2, BecauseIsOne
  <2>4. Lowered(D, f).rule = "CDC001"
    BY <2>1, <2>2, LoweredFields DEF IsAbout
  <2> HIDE DEF l
  <2>5. Because(l, "isolation").why = "isolation"
    BY <2>3, BecauseSays
  <2> QED
    BY <1>1, <2>1, <2>4, <2>5
<1>12. ASSUME NEW f \in findings, ~(f.rule = "CDC001" /\ f.why = "isolation")
       PROVE  f \in bare
  BY <1>9, <1>11, <1>12
<1>13. ASSUME NEW f \in bare \ findings
       PROVE  /\ f.rule = "CDC001" /\ f.severity = "error"
              /\ \E id \in ToSet(f.path) : sketch.at[id].isolation
  BY <1>9, <1>11, <1>13
<1> QED
  BY <1>10, <1>12, <1>13

(* What isolation cells lower is exactly errors of CDC001 over one of      *)
(* them, and no other finding comes, goes or changes for them, over any    *)
(* graph (run_on_graph, step 11b).                                         *)
THEOREM IsolationStaysNarrow == Spec => []IsolationIsNarrow
<1> QED
  BY GraphStaysSound, IsolationOfSound, PTL

-----------------------------------------------------------------------------
(* Uncertainty.                                                            *)

(* Edges that every hop follows are followed to their ends in as many hops *)
(* as there are edges: until then each hop comes to the end of another.    *)
Hopping(h, m, own, I) ==
  \A n \in 1..m : /\ h[n - 1] \subseteq h[n]
                  /\ \A e \in own : e[1] \in h[n - 1] /\ e[1] \in I => e[2] \in h[n]

LEMMA HopsCover ==
  ASSUME NEW own \in SUBSET Edge, IsFiniteSet(own), NEW I, NEW first \in SUBSET Nat,
         NEW m \in Nat, Cardinality(own) < m,
         NEW h \in [0..m -> SUBSET Nat], first \subseteq h[0], Hopping(h, m, own, I)
  PROVE  Reached(own, I, first) \subseteq h[m]
<1> DEFINE all == Least(own, I, {}, first)
           Missed(n) == {e \in own : e[2] \notin h[n]}
           Good == {n \in Nat : n <= m => \/ all \subseteq h[n]
                                          \/ Cardinality(Missed(n)) + n <= Cardinality(own)}
<1>1. Reached(own, I, first) = all
  BY ReachedIsLeast
<1>2. Cardinality(own) \in Nat
  BY FS_CardinalityType
<1>3. \A n \in 0..m : IsFiniteSet(Missed(n)) /\ Cardinality(Missed(n)) \in Nat
                      /\ Cardinality(Missed(n)) <= Cardinality(own)
  BY FS_Subset, FS_CardinalityType
<1>4. 0 \in Good
  <2> HIDE DEF Missed, all
  <2> QED
    BY <1>2, <1>3
<1>5. \A n \in 0..m : first \subseteq h[n]
  <2> DEFINE Has == {n \in Nat : n <= m => first \subseteq h[n]}
  <2>1. 0 \in Has
    OBVIOUS
  <2>2. ASSUME NEW n \in Nat, n \in Has PROVE n + 1 \in Has
    <3>1. n + 1 <= m => n + 1 \in 1..m /\ (n + 1) - 1 = n /\ n <= m
      OBVIOUS
    <3> QED
      BY <2>2, <3>1 DEF Hopping
  <2> HIDE DEF Has
  <2>3. Nat \subseteq Has
    BY <2>1, <2>2, NatInd
  <2> QED
    BY <2>3 DEF Has
<1>6. ASSUME NEW n \in Nat, n \in Good PROVE n + 1 \in Good
  <2> SUFFICES ASSUME n + 1 <= m, ~(all \subseteq h[n + 1])
               PROVE  Cardinality(Missed(n + 1)) + (n + 1) <= Cardinality(own)
    BY DEF Good
  <2>1. n + 1 \in 1..m /\ (n + 1) - 1 = n /\ n \in 0..m /\ n + 1 \in 0..m
    OBVIOUS
  <2>2. /\ h[n] \subseteq h[n + 1]
        /\ \A e \in own : e[1] \in h[n] /\ e[1] \in I => e[2] \in h[n + 1]
    BY <2>1 DEF Hopping
  <2>3. ~(all \subseteq h[n])
    BY <2>2
  <2>4. Cardinality(Missed(n)) + n <= Cardinality(own)
    <3> HIDE DEF Missed, all
    <3> QED
      BY <1>6, <2>1, <2>3 DEF Good
  <2>5. h[n] \notin Enclosures(own, I, {}, first)
    BY <2>3, LeastBelow
  <2>6. PICK e \in own : e[1] \in h[n] /\ e[1] \in I /\ e[2] \notin h[n]
    <3>1. first \subseteq h[n] /\ h[n] \in SUBSET Nat
      BY <1>5, <2>1
    <3> QED
      BY <2>5, <3>1 DEF Enclosures, Closed
  <2>7. Missed(n + 1) \subseteq Missed(n) /\ e \in Missed(n) /\ e \notin Missed(n + 1)
    BY <2>2, <2>6
  <2> HIDE DEF Missed, all
  <2>8. IsFiniteSet(Missed(n)) /\ IsFiniteSet(Missed(n + 1))
    BY <1>3, <2>1
  <2>10. Cardinality(Missed(n)) \in Nat /\ Cardinality(Missed(n + 1)) \in Nat
    BY <1>3, <2>1
  <2>9. Cardinality(Missed(n + 1)) < Cardinality(Missed(n))
    <3>1. /\ Cardinality(Missed(n + 1)) <= Cardinality(Missed(n))
          /\ Cardinality(Missed(n)) = Cardinality(Missed(n + 1)) => Missed(n) = Missed(n + 1)
      BY <2>7, <2>8, FS_Subset
    <3>2. Missed(n) # Missed(n + 1)
      BY <2>7
    <3> QED
      BY <2>10, <3>1, <3>2
  <2> QED
    BY <1>2, <2>4, <2>9, <2>10
<1> HIDE DEF Good
<1>7. Nat \subseteq Good
  BY <1>4, <1>6, NatInd
<1>8. \/ all \subseteq h[m]
      \/ Cardinality(Missed(m)) + m <= Cardinality(own)
  <2> HIDE DEF Missed, all
  <2> QED
    BY <1>7 DEF Good
<1> HIDE DEF Missed
<1>9. Cardinality(Missed(m)) \in Nat
  BY <1>3
<1> QED
  BY <1>1, <1>2, <1>8, <1>9

(* What an uncertain register's edges of its clock lead to, in fewer steps *)
(* than the limit, is marked.                                              *)
LEMMA SpreadCovers ==
  ASSUME NEW V, NEW D, D.g \in SoundGraphs(V), NEW from \in SUBSET Nat, NEW dst \in from,
         NEW own \in SUBSET (Registers(D.g) \X Registers(D.g)),
         \A e \in own : /\ Clock(D, e[1]) = Clock(D, e[2])
                        /\ e[2] \in RegistersReached(D.g, FALSE, e[1]),
         Cardinality(own) < MAX_PATH_DEPTH
  PROVE  Reached(own, Registers(D.g), {dst}) \subseteq Spread(D, from)
<1> DEFINE G == D.g
           R == Registers(G)
           M == MAX_PATH_DEPTH
           F == FALSE
<1>1. G \in SoundGraphs(V) /\ M \in Nat /\ F \in BOOLEAN
  BY TraversalAssumption
<1>2. R \subseteq Nat /\ IsFiniteSet(R)
  <2>1. Sized(G)
    BY <1>1, GraphFields DEF SoundGraphs, Sized, GraphType
  <2> QED
    BY <1>1, <2>1, RegistersAreNodes, SizedIsFinite
<1>3. own \in SUBSET Edge /\ IsFiniteSet(own)
  <2>1. IsFiniteSet(R \X R)
    BY <1>2, FS_Product
  <2> QED
    BY <1>2, <2>1, FS_Subset DEF Edge
<1>3a. PICK h \in [0..M -> SUBSET Nat] : HopsOf(D, from, h)
  BY SpreadHops
<1>4. /\ h[0] = from /\ Spread(D, from) = h[M]
      /\ \A n \in 1..M : h[n] = h[n - 1] \cup UNION {Downstream(D, id) : id \in h[n - 1]}
  BY <1>3a DEF HopsOf
<1>5. ASSUME NEW e \in own PROVE e[2] \in Downstream(D, e[1])
  <2>1. e[1] \in R
    OBVIOUS
  <2>2. ToSet(RegisterSuccessors(G, e[1], F)) = RegistersReached(G, F, e[1])
    <3> HIDE DEF F, G
    <3> QED
      BY <1>1, <2>1, SuccessorsExact DEF R
  <2> QED
    BY <2>2 DEF Downstream, Direct
<1>6. Hopping(h, M, own, R)
  BY <1>4, <1>5 DEF Hopping
<1>7. {dst} \subseteq h[0] /\ {dst} \in SUBSET Nat
  BY <1>4
<1> HIDE DEF R, M
<1>8. Reached(own, R, {dst}) \subseteq h[M]
  BY <1>1, <1>3, <1>6, <1>7, HopsCover DEF M
<1> QED
  BY <1>4, <1>8 DEF R

(* A finding names the registers it is about.                              *)
Names(f, r) == r \in {f.src, f.dst}

(* A register that is marked after the propagation is named by a finding.  *)
LEMMA MarkedIsNamed ==
  ASSUME NEW V, NEW D, D.g \in SoundGraphs(V), NodeIds(D.g) \subseteq DOMAIN D.at,
         \A id \in DOMAIN D.at : D.at[id].uncertain = "no",
         NEW r \in Registers(D.g), r \in Spread(D, Uncertain(Analyze(D)))
  PROVE  \E h \in StructuralFindings(D) : Names(h, r)
<1> DEFINE F == Analyze(D)
           named == UNION {{f.src, f.dst} : f \in F}
           new(id) == Finding("CDC013", "warning", id, NoId, <<id>>, "Candidate")
           all == BeforeIsolation(D, F)
<1>1. Findings(F)
  BY AnalyzeTells
<1>2. StructuralFindings(D) = {Lowered(D, f) : f \in all}
  BY AllLowered DEF StructuralFindings
<1>3. r \in DOMAIN D.at
  BY RegistersAreNodes
<1>4. Uncertain(F) \cup {id \in DOMAIN D.at : D.at[id].uncertain # "no"} = Uncertain(F)
  OBVIOUS
<1>5. Marks(D, F)[r] = IF r \in Uncertain(F) THEN "crossing" ELSE "propagated"
  <2> HIDE DEF F
  <2>1. r \in Spread(D, Uncertain(F))
    BY DEF F
  <2>2. Marks(D, F) =
          [id \in DOMAIN D.at |->
             IF D.at[id].uncertain # "no" THEN D.at[id].uncertain
             ELSE IF id \in Uncertain(F) THEN "crossing"
             ELSE IF id \in Spread(D, Uncertain(F)) THEN "propagated" ELSE "no"]
    BY <1>4 DEF Marks
  <2> QED
    BY <1>3, <2>1, <2>2
<1>6. F \subseteq all
  BY DEF BeforeIsolation, PropagateUncertainty
<1>7. ASSUME NEW f \in all, IsFinding(f), Names(f, r)
      PROVE  \E h \in StructuralFindings(D) : Names(h, r)
  <2>1. Lowered(D, f) \in StructuralFindings(D)
    BY <1>2
  <2>2. Lowered(D, f).src = f.src /\ Lowered(D, f).dst = f.dst
    BY <1>7, LoweredFields DEF IsAbout
  <2> QED
    BY <1>7, <2>1, <2>2 DEF Names
<1>8. CASE \E f \in F : Names(f, r)
  BY <1>1, <1>6, <1>7, <1>8 DEF Findings
<1>9. CASE ~\E f \in F : Names(f, r)
  <2>1. r \notin named
    BY <1>9 DEF Names
  <2>2. r \notin Uncertain(F)
    BY <1>9 DEF Names, Uncertain
  <2>3. Marks(D, F)[r] = "propagated"
    BY <1>5, <2>2
  <2> HIDE DEF F
  <2>4. new(r) \in PropagateUncertainty(D, F)
    BY <2>1, <2>3 DEF PropagateUncertainty
  <2>5. new(r) \in all
    BY <2>4 DEF BeforeIsolation
  <2>6. IsAbout(new(r), "CDC013", r, NoId, <<r>>)
    BY FindingFields
  <2> HIDE DEF new, all
  <2>7. IsFinding(new(r)) /\ Names(new(r), r)
    BY <2>6 DEF IsAbout, Names
  <2> QED
    BY <1>7, <2>5, <2>7
<1> QED
  BY <1>8, <1>9

LEMMA UncertaintyOfSound == GraphInv => UncertaintyIsReported
<1> DEFINE D == Design
           V == Drawn(sketch)
           R == Registers(g)
           Own(dst) == {e \in R \X R :
                          /\ Clock(D, e[1]) = Clock(D, dst) /\ Clock(D, e[2]) = Clock(D, dst)
                          /\ e[2] \in RegistersReached(g, FALSE, e[1])}
<1> SUFFICES ASSUME GraphInv, Ended, NEW f \in Rule("CDC001"),
                    f.why = "unsynchronized", Cardinality(Own(f.dst)) < MAX_PATH_DEPTH,
                    NEW r \in Reached(Own(f.dst), R, {f.dst})
             PROVE  \E h \in findings : r \in {h.src, h.dst}
  BY DEF UncertaintyIsReported
<1> DEFINE own == Own(f.dst)
<1>1. /\ D.g = g /\ D.at = sketch.at /\ g \in SoundGraphs(V)
      /\ NodeIds(g) \subseteq DOMAIN sketch.at /\ findings = StructuralFindings(D)
  BY DesignFields DEF GraphInv, Ended
<1>2. \A id \in DOMAIN sketch.at : sketch.at[id].uncertain = "no"
  BY AnalysisRunAssumption DEF GraphInv
<1> HIDE DEF D, V
<1>3. f \in StructuralFindings(D) /\ f.rule = "CDC001"
  BY <1>1 DEF Rule
<1>4. PICK e \in Analyze(D) : e.rule = "CDC001" /\ CrossingSays(D, e) /\ f = Lowered(D, e)
  BY <1>1, <1>3, StructuralSays
<1>5. IsFinding(e)
  BY <1>1, <1>4, AnalyzeTells DEF Findings
<1>6. f = e
  <2> DEFINE l == [e EXCEPT !.severity = "info", !.status = "VerifiedSafe"]
  <2>1. IsFinding(l)
    BY <1>5, BecauseIsOne
  <2>2. f = e \/ f = Because(l, "isolation")
    BY <1>4 DEF Lowered
  <2> HIDE DEF l
  <2>3. Because(l, "isolation").why = "isolation"
    BY <2>1, BecauseSays
  <2> QED
    BY <2>2, <2>3
<1>7. f.dst \in Uncertain(Analyze(D)) /\ f.dst \in R
  BY <1>1, <1>3, <1>4, <1>6 DEF Uncertain, CrossingSays
<1>8. Uncertain(Analyze(D)) \subseteq R /\ R \subseteq Nat
  <2>1. Lands(g, Analyze(D))
    BY <1>1, AnalyzeLands
  <2> QED
    BY <1>1, <2>1, RegistersAreNodes DEF Lands, Uncertain
<1>9. Reached(own, R, {f.dst}) \subseteq Spread(D, Uncertain(Analyze(D)))
  <2>1. own \in SUBSET (R \X R)
    OBVIOUS
  <2>2. \A x \in own : /\ Clock(D, x[1]) = Clock(D, x[2])
                       /\ x[2] \in RegistersReached(D.g, FALSE, x[1])
    BY <1>1
  <2> HIDE DEF own, Own
  <2> QED
    BY <1>1, <1>7, <1>8, <2>1, <2>2, SpreadCovers DEF own
<1>10. r \in R
  <2>1. own \in SUBSET Edge /\ IsFiniteSet(own) /\ \A x \in own : x[2] \in R
    <3>1. Sized(g)
      BY <1>1, GraphFields DEF SoundGraphs, Sized, GraphType
    <3>2. IsFiniteSet(R)
      BY <3>1, SizedIsFinite
    <3>3. IsFiniteSet(R \X R)
      BY <3>2, FS_Product
    <3> HIDE DEF R
    <3>4. own \in SUBSET (R \X R)
      OBVIOUS
    <3> QED
      BY <1>8, <3>3, <3>4, FS_Subset DEF Edge
  <2> HIDE DEF own, R
  <2>2. Reached(own, R, {f.dst}) = Least(own, R, {}, {f.dst})
    BY <1>7, <1>8, <2>1, ReachedIsLeast
  <2>3. R \in Enclosures(own, R, {}, {f.dst})
    BY <1>7, <1>8, <2>1 DEF Enclosures, Closed
  <2> QED
    BY <2>2, <2>3, LeastBelow DEF own
<1> HIDE DEF R
<1>11. \E h \in StructuralFindings(D) : Names(h, r)
  BY <1>1, <1>2, <1>9, <1>10, MarkedIsNamed DEF R
<1> QED
  BY <1>1, <1>11 DEF Names

(* Whatever an unsynchronized crossing reaches over direct connections of  *)
(* its clock, in fewer steps than the limit, is named by a finding, on any *)
(* graph (propagate_uncertainty).                                          *)
THEOREM UncertaintyStaysReported == Spec => []UncertaintyIsReported
<1> QED
  BY GraphStaysSound, UncertaintyOfSound, PTL

-----------------------------------------------------------------------------
(* The search by levels for the descendants of a crossing.                 *)

(* The registers right behind a node, wherever the search asks. *)
RightBehind(h, id) == RegisterSuccessors(h, id, TRUE)

LEMMA RightBehindIs ==
  ASSUME NEW V, NEW h \in SoundGraphs(V), NEW id \in Nat
  PROVE  /\ RightBehind(h, id) \in Seq(Nat) /\ IsInjective(RightBehind(h, id))
         /\ ToSet(RightBehind(h, id)) \subseteq Registers(h)
<1> DEFINE T == TRUE
           s == Step(h, T, id)
<1>1. T \in BOOLEAN
  OBVIOUS
<1>2. RightBehind(h, id) = RegisterWalk(h, T, T, s, {id})
  BY DEF RightBehind, RegisterSuccessors, Step
<1> HIDE DEF T
<1>3. s \in Seq(Nat) /\ \A n : n \in ToSet(s) <=> <<id, n>> \in Ends(h, T)
  BY <1>1, StepFacts
<1>4. \A e \in Ends(h, T) : e[2] \in NodeIds(h)
  BY <1>1, EndsFacts
<1> HIDE DEF s
<1>5. ToSet(s) \subseteq NodeIds(h)
  <2> SUFFICES ASSUME NEW n \in ToSet(s) PROVE n \in NodeIds(h)
    OBVIOUS
  <2>1. <<id, n>> \in Ends(h, T) /\ <<id, n>>[2] = n
    BY <1>3
  <2> QED
    BY <1>4, <2>1
<1>6. /\ RegisterWalk(h, T, T, s, {id}) \in Seq(Nat)
      /\ IsInjective(RegisterWalk(h, T, T, s, {id}))
      /\ ToSet(RegisterWalk(h, T, T, s, {id})) =
           Registers(h) \cap Least(Ends(h, T), Inner(h, T), {id}, ToSet(s))
  BY <1>1, <1>3, <1>5, WalkFinds
<1> QED
  BY <1>2, <1>6

(* One turn: what it takes from the queue and what it adds. *)
Turned(h, max_hops, s, k, id, depth, new) ==
  /\ s.queue[1] = <<id, depth>> /\ id \in Nat /\ depth \in Nat
  /\ new \in Seq(Nat) /\ IsInjective(new)
  /\ \A n : n \in ToSet(new) <=>
       depth < max_hops /\ n \in ToSet(RightBehind(h, id)) /\ n \notin s.visited
  /\ k.visited = s.visited \cup ToSet(new)
  /\ k.found = IF depth > 0 THEN Append(s.found, id) ELSE s.found
  /\ Len(k.queue) = Len(s.queue) - 1 + Len(new)
  /\ \A i \in 1..(Len(s.queue) - 1) : k.queue[i] = s.queue[i + 1]
  /\ \A i \in 1..Len(new) : k.queue[Len(s.queue) - 1 + i] = <<new[i], depth + 1>>

LEMMA BreadthTurned ==
  ASSUME NEW V, NEW h \in SoundGraphs(V), NEW max_hops \in Nat,
         NEW s \in BreadthStates, s.queue # <<>>
  PROVE  /\ BreadthStep(h, max_hops, s) \in BreadthStates
         /\ \E id, depth, new : Turned(h, max_hops, s, BreadthStep(h, max_hops, s), id, depth, new)
<1> DEFINE k == BreadthStep(h, max_hops, s)
           id == Head(s.queue)[1]
           depth == Head(s.queue)[2]
           new == Unseen(h, max_hops, s)
           more == [i \in DOMAIN new |-> <<new[i], depth + 1>>]
           rest == Tail(s.queue)
           Q == Nat \X Nat
<1>1. s.queue \in Seq(Q) /\ s.visited \in SUBSET Nat /\ s.found \in Seq(Nat)
  BY DEF BreadthStates
<1>2. /\ Head(s.queue) \in Q /\ Head(s.queue) = s.queue[1]
      /\ rest \in Seq(Q) /\ Len(rest) = Len(s.queue) - 1
      /\ \A i \in 1..(Len(s.queue) - 1) : rest[i] = s.queue[i + 1]
  <2>1. /\ Head(s.queue) \in Q /\ rest \in Seq(Q) /\ Len(rest) = Len(s.queue) - 1
        /\ \A i \in 1..Len(rest) : rest[i] = s.queue[i + 1]
    BY <1>1, HeadTailProperties
  <2>2. Head(s.queue) = s.queue[1]
    BY <1>1
  <2> QED
    BY <2>1, <2>2
<1>3. id \in Nat /\ depth \in Nat /\ s.queue[1] = <<id, depth>>
  BY <1>2
<1>4. k = [queue |-> rest \o more, visited |-> s.visited \cup ToSet(new),
           found |-> IF depth > 0 THEN Append(s.found, id) ELSE s.found]
  BY DEF BreadthStep
<1>5. new = IF depth >= max_hops THEN <<>> ELSE Without(RightBehind(h, id), s.visited)
  BY DEF Unseen, RightBehind
<1> HIDE DEF k, id, depth, new, rest
<1>6. /\ new \in Seq(Nat) /\ IsInjective(new)
      /\ \A n : n \in ToSet(new) <=>
           depth < max_hops /\ n \in ToSet(RightBehind(h, id)) /\ n \notin s.visited
  <2>1. CASE depth >= max_hops
    <3>1. <<>> \in Seq(Nat) /\ IsInjective(<<>>) /\ ToSet(<<>>) = {}
      BY EmptySeq, SetOfNone DEF IsInjective
    <3> QED
      BY <1>3, <1>5, <2>1, <3>1
  <2>2. CASE depth < max_hops
    <3>1. new = Without(RightBehind(h, id), s.visited)
      BY <1>3, <1>5, <2>2
    <3>2. RightBehind(h, id) \in Seq(Nat) /\ IsInjective(RightBehind(h, id))
      BY <1>3, RightBehindIs
    <3> DEFINE o == RightBehind(h, id)
    <3> HIDE DEF o
    <3>3. o \in Seq(Nat) /\ IsInjective(o)
      BY <3>2 DEF o
    <3>4. /\ Without(o, s.visited) \in Seq(Nat)
          /\ \A x : x \in ToSet(Without(o, s.visited)) <=> x \in ToSet(o) /\ x \notin s.visited
          /\ IsInjective(o) => IsInjective(Without(o, s.visited))
      BY <3>3, WithoutFacts
    <3> QED
      BY <2>2, <3>1, <3>3, <3>4 DEF o
  <2> QED
    BY <1>3, <2>1, <2>2
<1>7. /\ DOMAIN new = 1..Len(new) /\ Len(new) \in Nat /\ ToSet(new) \in SUBSET Nat
      /\ \A i \in 1..Len(new) : new[i] \in Nat
  BY <1>6, SetOfSeq
<1>8. more \in Seq(Q) /\ Len(more) = Len(new) /\ \A i \in 1..Len(new) : more[i] = <<new[i], depth + 1>>
  <2>1. depth + 1 \in Nat
    BY <1>3
  <2>2. more \in [1..Len(new) -> Q]
    BY <1>7, <2>1
  <2>3. \A i \in 1..Len(new) : more[i] = <<new[i], depth + 1>>
    BY <1>7
  <2> HIDE DEF more
  <2>4. more \in Seq(Q) /\ Len(more) = Len(new)
    BY <1>7, <2>2, SeqDef
  <2> QED
    BY <2>3, <2>4
<1> HIDE DEF more
<1>9. /\ rest \o more \in Seq(Q) /\ Len(rest \o more) = Len(rest) + Len(more)
      /\ \A i \in 1..(Len(rest) + Len(more)) :
            (rest \o more)[i] = IF i <= Len(rest) THEN rest[i] ELSE more[i - Len(rest)]
  <2> HIDE DEF Q
  <2>1. rest \in Seq(Q) /\ more \in Seq(Q)
    BY <1>2, <1>8
  <2> QED
    BY <2>1, ConcatProperties
<1>10. Len(rest) \in Nat /\ Len(s.queue) \in Nat
  BY <1>1, <1>2, LenProperties
<1>11. k \in BreadthStates
  <2>1. (IF depth > 0 THEN Append(s.found, id) ELSE s.found) \in Seq(Nat)
    BY <1>1, <1>3, AppendProperties
  <2>2. s.visited \cup ToSet(new) \in SUBSET Nat
    <3> DEFINE v == s.visited
               N == ToSet(new)
    <3>1. v \in SUBSET Nat /\ N \in SUBSET Nat
      BY <1>1, <1>7
    <3> HIDE DEF v, N
    <3>2. v \cup N \in SUBSET Nat
      BY <3>1
    <3> QED
      BY <3>2 DEF v, N
  <2> QED
    BY <1>4, <1>9, <2>1, <2>2 DEF BreadthStates
<1>12. \A i \in 1..(Len(s.queue) - 1) : (rest \o more)[i] = s.queue[i + 1]
  BY <1>2, <1>7, <1>8, <1>9, <1>10
<1>13. \A i \in 1..Len(new) : (rest \o more)[Len(s.queue) - 1 + i] = <<new[i], depth + 1>>
  <2> TAKE i \in 1..Len(new)
  <2>1. Len(rest) + i \in 1..(Len(rest) + Len(more)) /\ ~(Len(rest) + i <= Len(rest))
        /\ (Len(rest) + i) - Len(rest) = i
    BY <1>7, <1>8, <1>10
  <2> QED
    BY <1>2, <1>8, <1>9, <2>1
<1>14. /\ k.queue = rest \o more /\ k.visited = s.visited \cup ToSet(new)
       /\ k.found = IF depth > 0 THEN Append(s.found, id) ELSE s.found
  BY <1>4
<1>15. Len(k.queue) = Len(s.queue) - 1 + Len(new)
  BY <1>2, <1>8, <1>9, <1>14
<1>16. Turned(h, max_hops, s, k, id, depth, new)
  BY <1>3, <1>6, <1>12, <1>13, <1>14, <1>15 DEF Turned
<1> QED
  BY <1>11, <1>16 DEF k

(* A turn takes one from the queue; what it adds leaves the unvisited.     *)
BreadthRank(h) ==
  [s \in BreadthStates |-> 2 * Cardinality(Registers(h) \ s.visited) + Len(s.queue)]

LEMMA BreadthShrinks ==
  ASSUME NEW V, NEW h \in SoundGraphs(V), NEW max_hops \in Nat
  PROVE  /\ BreadthRank(h) \in [BreadthStates -> Nat]
         /\ \A s \in BreadthStates : s.queue # <<>> =>
              BreadthRank(h)[BreadthStep(h, max_hops, s)] < BreadthRank(h)[s]
<1>1. IsFiniteSet(Registers(h))
  <2>1. IsFiniteSet(NodeIds(h))
    <3> DEFINE T == TRUE
    <3>1. T \in BOOLEAN
      OBVIOUS
    <3> HIDE DEF T
    <3> QED
      BY <3>1, EndsFacts
  <2>2. Registers(h) \in SUBSET NodeIds(h)
    BY DEF Registers
  <2> QED
    BY <2>1, <2>2, FS_Subset
<1> DEFINE R == Registers(h)
           Left(s) == R \ s.visited
<1>2. \A s \in BreadthStates : Cardinality(Left(s)) \in Nat /\ IsFiniteSet(Left(s))
  <2> TAKE s \in BreadthStates
  <2> DEFINE L == Left(s)
  <2>1. L \in SUBSET R /\ IsFiniteSet(R)
    BY <1>1
  <2> HIDE DEF L, R
  <2>2. IsFiniteSet(L)
    BY <2>1, FS_Subset
  <2>3. Cardinality(L) \in Nat
    BY <2>2, FS_CardinalityType
  <2> QED
    BY <2>2, <2>3 DEF L
<1>3. \A s \in BreadthStates : Len(s.queue) \in Nat
  <2> TAKE s \in BreadthStates
  <2>1. s.queue \in Seq(Nat \X Nat)
    BY DEF BreadthStates
  <2> QED
    BY <2>1, LenProperties
<1>4. \A s \in BreadthStates : BreadthRank(h)[s] = 2 * Cardinality(Left(s)) + Len(s.queue)
  BY DEF BreadthRank
<1>5. \A s \in BreadthStates : 2 * Cardinality(Left(s)) + Len(s.queue) \in Nat
  <2> TAKE s \in BreadthStates
  <2>1. Cardinality(Left(s)) \in Nat /\ Len(s.queue) \in Nat
    BY <1>2, <1>3
  <2> HIDE DEF Left
  <2> QED
    BY <2>1
<1>6. BreadthRank(h) \in [BreadthStates -> Nat]
  BY <1>5 DEF BreadthRank
<1>7. ASSUME NEW s \in BreadthStates, s.queue # <<>>
      PROVE  BreadthRank(h)[BreadthStep(h, max_hops, s)] < BreadthRank(h)[s]
  <2> DEFINE k == BreadthStep(h, max_hops, s)
  <2>1. k \in BreadthStates /\ \E id, depth, new : Turned(h, max_hops, s, k, id, depth, new)
    BY <1>7, BreadthTurned
  <2> HIDE DEF k
  <2>2. PICK id, depth, new : Turned(h, max_hops, s, k, id, depth, new)
    BY <2>1
  <2>3. /\ id \in Nat /\ new \in Seq(Nat) /\ IsInjective(new)
        /\ k.visited = s.visited \cup ToSet(new) /\ Len(k.queue) = Len(s.queue) - 1 + Len(new)
        /\ \A n \in ToSet(new) : n \in ToSet(RightBehind(h, id)) /\ n \notin s.visited
    BY <2>2 DEF Turned
  <2>4. ToSet(new) \in SUBSET Left(s)
    BY <2>3, RightBehindIs
  <2> DEFINE L == Left(s)
             M == Left(k)
             N == ToSet(new)
  <2>5. M = L \ N /\ N \in SUBSET L
    BY <2>3, <2>4
  <2>6. IsFiniteSet(L) /\ Cardinality(L) \in Nat /\ Cardinality(M) \in Nat
    BY <1>2, <2>1
  <2>7. Cardinality(N) = Len(new) /\ Len(new) \in Nat
    BY <2>3, CardinalityOfSeq, LenProperties
  <2>8. BreadthRank(h)[k] = 2 * Cardinality(M) + Len(k.queue)
        /\ BreadthRank(h)[s] = 2 * Cardinality(L) + Len(s.queue)
    BY <1>4, <2>1
  <2>9. Len(s.queue) \in Nat
    BY <1>3
  <2> HIDE DEF L, M, N
  <2>10. L \cap N = N
    BY <2>5
  <2>11. Cardinality(L \ N) = Cardinality(L) - Cardinality(L \cap N)
    BY <2>6, FS_Difference
  <2>12. Cardinality(M) = Cardinality(L) - Len(new)
    BY <2>5, <2>7, <2>10, <2>11
  <2> DEFINE c == Cardinality(L)
             d == Cardinality(M)
             n == Len(new)
             q == Len(s.queue)
             p == Len(k.queue)
  <2>13. c \in Nat /\ d \in Nat /\ n \in Nat /\ q \in Nat /\ d = c - n /\ p = q - 1 + n
    BY <2>3, <2>6, <2>7, <2>9, <2>12
  <2>14. BreadthRank(h)[k] = 2 * d + p /\ BreadthRank(h)[s] = 2 * c + q
    BY <2>8
  <2> HIDE DEF c, d, n, q, p
  <2>15. 2 * d + p < 2 * c + q
    BY <2>13
  <2> QED
    BY <2>14, <2>15 DEF k
<1> QED
  BY <1>6, <1>7

(* The registers at most so many steps away. *)
Levels(h, W, start, max_hops) ==
  /\ W \in [0..max_hops -> SUBSET Registers(h)]
  /\ W[0] = {start}
  /\ \A k \in 0..(max_hops - 1) :
       W[k + 1] = W[k] \cup UNION {ToSet(RightBehind(h, r)) : r \in W[k]}

LEMMA LevelsGrow ==
  ASSUME NEW h, NEW W, NEW start, NEW max_hops \in Nat, Levels(h, W, start, max_hops),
         NEW j \in 0..max_hops, NEW k \in 0..max_hops, j <= k
  PROVE  W[j] \subseteq W[k]
<1> DEFINE P == {n \in Nat : j + n \in 0..max_hops => W[j] \subseteq W[j + n]}
<1>1. 0 \in P
  OBVIOUS
<1>2. ASSUME NEW n \in Nat, n \in P PROVE n + 1 \in P
  <2> SUFFICES ASSUME j + (n + 1) \in 0..max_hops PROVE W[j] \subseteq W[j + (n + 1)]
    OBVIOUS
  <2>1. j + n \in 0..(max_hops - 1) /\ j + n \in 0..max_hops /\ (j + n) + 1 = j + (n + 1)
    OBVIOUS
  <2>2. W[j] \subseteq W[j + n]
    BY <1>2, <2>1
  <2>3. W[j + n] \subseteq W[(j + n) + 1]
    BY <2>1 DEF Levels
  <2> QED
    BY <2>1, <2>2, <2>3
<1>3. Nat \subseteq P
  <2> HIDE DEF P
  <2> QED
    BY <1>1, <1>2, NatInd
<1>4. k - j \in Nat /\ j + (k - j) = k
  OBVIOUS
<1> QED
  BY <1>3, <1>4

(* The search by levels: the queue has the registers of one level and then *)
(* of the next, each at its distance; what left it has been expanded.      *)
AtLevel(W, max_hops, s) ==
  \A i \in 1..Len(s.queue) :
    /\ s.queue[i][2] \in 0..max_hops
    /\ s.queue[i][1] \in s.visited /\ s.queue[i][1] \in W[s.queue[i][2]]
    /\ \A k \in 0..(s.queue[i][2] - 1) : s.queue[i][1] \notin W[k]

InOrder(s) ==
  \A i, j \in 1..Len(s.queue) :
    i <= j => s.queue[i][2] <= s.queue[j][2] /\ s.queue[j][2] <= s.queue[i][2] + 1

Once(s) == \A i, j \in 1..Len(s.queue) : s.queue[i][1] = s.queue[j][1] => i = j

Waiting(s, id) == \E i \in 1..Len(s.queue) : s.queue[i][1] = id

LevelSeen(W, s) == s.queue # <<>> => W[s.queue[1][2]] \subseteq s.visited

Expanded(h, W, max_hops, s) ==
  \A v \in s.visited :
    \/ Waiting(s, v)
    \/ ToSet(RightBehind(h, v)) \subseteq s.visited
    \/ \A k \in 0..(max_hops - 1) : v \notin W[k]

Collected(start, s) ==
  /\ IsInjective(s.found)
  /\ \A v : v \in ToSet(s.found) <=> v \in s.visited /\ v # start /\ ~Waiting(s, v)

BreadthGood(h, W, start, max_hops, s) ==
  /\ start \in s.visited /\ s.visited \subseteq W[max_hops]
  /\ AtLevel(W, max_hops, s) /\ InOrder(s) /\ Once(s)
  /\ LevelSeen(W, s) /\ Expanded(h, W, max_hops, s) /\ Collected(start, s)

LEMMA BreadthTurn ==
  ASSUME NEW V, NEW h \in SoundGraphs(V), NEW max_hops \in Nat, NEW start, NEW W,
         Levels(h, W, start, max_hops),
         NEW s \in BreadthStates, s.queue # <<>>, BreadthGood(h, W, start, max_hops, s)
  PROVE  BreadthGood(h, W, start, max_hops, BreadthStep(h, max_hops, s))
<1> DEFINE k == BreadthStep(h, max_hops, s)
           q == s.queue
           r == k.queue
           v == s.visited
           L == Len(q)
<1>1. k \in BreadthStates /\ \E id, depth, new : Turned(h, max_hops, s, k, id, depth, new)
  BY BreadthTurned
<1> HIDE DEF k
<1>2. PICK p, d, new : Turned(h, max_hops, s, k, p, d, new)
  BY <1>1
<1> DEFINE N == ToSet(new)
           u == k.visited
           m == Len(new)
<1>3. /\ q[1] = <<p, d>> /\ p \in Nat /\ d \in Nat
      /\ new \in Seq(Nat) /\ IsInjective(new)
      /\ \A n : n \in N <=> d < max_hops /\ n \in ToSet(RightBehind(h, p)) /\ n \notin v
      /\ u = v \cup N
      /\ k.found = IF d > 0 THEN Append(s.found, p) ELSE s.found
      /\ Len(r) = L - 1 + m
      /\ \A i \in 1..(L - 1) : r[i] = q[i + 1]
      /\ \A i \in 1..m : r[L - 1 + i] = <<new[i], d + 1>>
  BY <1>2 DEF Turned
<1>4. L \in Nat /\ L >= 1 /\ 1 \in 1..L
  <2>1. q \in Seq(Nat \X Nat) /\ q # <<>>
    BY DEF BreadthStates
  <2> HIDE DEF q
  <2>2. Len(q) \in Nat /\ Len(q) # 0
    BY <2>1, LenProperties, EmptySeq
  <2> QED
    BY <2>2
<1>5. /\ DOMAIN new = 1..m /\ m \in Nat
      /\ \A i \in 1..m : new[i] \in N
      /\ \A x : x \in N <=> \E i \in 1..m : new[i] = x
      /\ \A i, j \in 1..m : new[i] = new[j] => i = j
  <2>1. /\ DOMAIN new = 1..m /\ m \in Nat
        /\ \A i \in 1..m : new[i] \in N
        /\ \A x : x \in N <=> \E i \in 1..m : new[i] = x
    BY <1>3, SetOfSeq
  <2> QED
    BY <1>3, <2>1 DEF IsInjective
<1>6. /\ start \in v /\ v \subseteq W[max_hops] /\ AtLevel(W, max_hops, s) /\ InOrder(s)
      /\ Once(s) /\ LevelSeen(W, s) /\ Expanded(h, W, max_hops, s) /\ Collected(start, s)
  BY DEF BreadthGood
<1>7. /\ d \in 0..max_hops /\ p \in v /\ p \in W[d] /\ W[d] \subseteq v
      /\ \A j \in 0..(d - 1) : p \notin W[j]
  <2>1. q[1][1] = p /\ q[1][2] = d
    BY <1>3
  <2> QED
    BY <1>4, <1>6, <2>1 DEF AtLevel, LevelSeen
<1>8. \A n \in N : /\ d < max_hops /\ d + 1 \in 0..max_hops /\ n \notin v
                   /\ n \in W[d + 1] /\ \A j \in 0..d : n \notin W[j]
  <2> SUFFICES ASSUME NEW n \in N
               PROVE  /\ d < max_hops /\ d + 1 \in 0..max_hops /\ n \notin v
                      /\ n \in W[d + 1] /\ \A j \in 0..d : n \notin W[j]
    OBVIOUS
  <2>1. d < max_hops /\ n \in ToSet(RightBehind(h, p)) /\ n \notin v
    BY <1>3
  <2>2. d + 1 \in 0..max_hops /\ d \in 0..(max_hops - 1)
    BY <1>7, <2>1
  <2>3. n \in W[d + 1]
    BY <1>7, <2>1, <2>2 DEF Levels
  <2>4. \A j \in 0..d : W[j] \subseteq W[d]
    BY <1>7, LevelsGrow
  <2> QED
    BY <1>7, <2>1, <2>2, <2>3, <2>4
<1> DEFINE Old(i) == i \in 1..(L - 1) /\ i + 1 \in 1..L /\ r[i] = q[i + 1]
           Added1(i) == \E j \in 1..m : i = L - 1 + j /\ r[i] = <<new[j], d + 1>>
<1> HIDE DEF q, r, v, L, N, u, m
<1>9. \A i \in 1..Len(r) : Old(i) \/ Added1(i)
  <2> TAKE i \in 1..Len(r)
  <2>1. CASE i <= L - 1
    <3>1. i \in 1..(L - 1) /\ i + 1 \in 1..L
      BY <1>3, <1>4, <1>5, <2>1
    <3> QED
      BY <1>3, <3>1
  <2>2. CASE i > L - 1
    <3> DEFINE j == i - (L - 1)
    <3>1. j \in 1..m /\ L - 1 + j = i
      BY <1>3, <1>4, <1>5, <2>2
    <3> HIDE DEF j
    <3>2. r[i] = <<new[j], d + 1>>
      BY <1>3, <3>1
    <3>3. \E a \in 1..m : i = L - 1 + a /\ r[i] = <<new[a], d + 1>>
      BY <3>1, <3>2
    <3> QED
      BY <3>3
  <2>3. i <= L - 1 \/ i > L - 1
    BY <1>3, <1>4, <1>5
  <2> HIDE DEF Old, Added1
  <2> QED
    BY <2>1, <2>2, <2>3
<1>10. /\ \A i \in 1..m : L - 1 + i \in 1..Len(r) /\ r[L - 1 + i][1] = new[i]
       /\ \A i \in 1..L : i # 1 => i - 1 \in 1..Len(r) /\ r[i - 1] = q[i]
  <2>1. \A i \in 1..m : L - 1 + i \in 1..Len(r)
    <3> DEFINE z == Len(r)
    <3>1. L \in Nat /\ L >= 1 /\ m \in Nat /\ z = L - 1 + m
      BY <1>3, <1>4, <1>5
    <3> HIDE DEF z
    <3>2. \A i \in 1..m : L - 1 + i \in 1..z
      BY <3>1
    <3> QED
      BY <3>2 DEF z
  <2>2. \A i \in 1..L : i # 1 => i - 1 \in 1..Len(r) /\ i - 1 \in 1..(L - 1) /\ (i - 1) + 1 = i
    BY <1>3, <1>4, <1>5
  <2>3. \A i \in 1..m : r[L - 1 + i] = <<new[i], d + 1>>
    BY <1>3
  <2>4. \A i \in 1..m : r[L - 1 + i][1] = new[i]
    BY <2>3
  <2>5. \A i \in 1..(L - 1) : r[i] = q[i + 1]
    BY <1>3
  <2>6. ASSUME NEW i \in 1..L, i # 1 PROVE r[i - 1] = q[i]
    <3>1. i - 1 \in 1..(L - 1) /\ (i - 1) + 1 = i
      BY <2>2, <2>6
    <3> DEFINE j == i - 1
    <3> HIDE DEF j
    <3>2. j \in 1..(L - 1) /\ j + 1 = i
      BY <3>1 DEF j
    <3>3. r[j] = q[i]
      BY <2>5, <3>2
    <3> QED
      BY <3>3 DEF j
  <2> QED
    BY <2>1, <2>2, <2>4, <2>6
<1>11. \A i \in 1..L : /\ q[i][2] \in 0..max_hops /\ q[i][1] \in v /\ q[i][1] \in W[q[i][2]]
                       /\ \A j \in 0..(q[i][2] - 1) : q[i][1] \notin W[j]
  BY <1>6 DEF AtLevel, q, L, v
<1>12. \A i \in 1..L : q[i][2] \in {d, d + 1}
  <2> TAKE i \in 1..L
  <2>1. d <= q[i][2] /\ q[i][2] <= d + 1 /\ q[i][2] \in Nat
    <3>1. 1 <= i /\ q[1][2] = d /\ q[i][2] \in 0..max_hops
      BY <1>3, <1>4, <1>11
    <3> QED
      BY <1>4, <1>6, <3>1 DEF InOrder, q, L
  <2> QED
    BY <1>3, <2>1
<1>13. AtLevel(W, max_hops, k)
  <2> SUFFICES ASSUME NEW i \in 1..Len(r)
               PROVE  /\ r[i][2] \in 0..max_hops /\ r[i][1] \in u /\ r[i][1] \in W[r[i][2]]
                      /\ \A j \in 0..(r[i][2] - 1) : r[i][1] \notin W[j]
    BY DEF AtLevel, r, u
  <2>1. CASE Old(i)
    BY <1>3, <1>11, <2>1
  <2>2. CASE Added1(i)
    <3>1. PICK j \in 1..m : r[i] = <<new[j], d + 1>>
      BY <2>2
    <3>2. r[i][1] = new[j] /\ r[i][2] = d + 1 /\ new[j] \in N /\ (d + 1) - 1 = d
      BY <1>3, <1>5, <3>1
    <3> QED
      BY <1>3, <1>8, <3>2
  <2> QED
    BY <1>9, <2>1, <2>2
<1>14. \A i \in 1..Len(r) : r[i][2] \in {d, d + 1}
  <2> TAKE i \in 1..Len(r)
  <2>1. CASE Old(i)
    BY <1>12, <2>1
  <2>2. CASE Added1(i)
    BY <2>2
  <2> QED
    BY <1>9, <2>1, <2>2
<1>15. InOrder(k)
  <2> SUFFICES ASSUME NEW i \in 1..Len(r), NEW j \in 1..Len(r), i <= j
               PROVE  r[i][2] <= r[j][2] /\ r[j][2] <= r[i][2] + 1
    BY DEF InOrder, r
  <2>1. CASE Old(i) /\ Old(j)
    <3>1. i + 1 <= j + 1 /\ i + 1 \in 1..L /\ j + 1 \in 1..L
      BY <2>1
    <3>2. q[i + 1][2] <= q[j + 1][2] /\ q[j + 1][2] <= q[i + 1][2] + 1
      BY <1>6, <3>1 DEF InOrder, q, L
    <3> QED
      BY <2>1, <3>2
  <2>2. CASE Added1(j)
    <3>1. r[j][2] = d + 1 /\ r[i][2] \in {d, d + 1}
      BY <1>14, <2>2
    <3> QED
      BY <1>3, <3>1
  <2>3. CASE Added1(i) /\ Old(j)
    <3>1. i > L - 1 /\ j <= L - 1
      BY <1>4, <1>5, <2>3
    <3> QED
      BY <1>4, <1>5, <3>1
  <2> QED
    BY <1>9, <2>1, <2>2, <2>3
<1>16. Once(k)
  <2> SUFFICES ASSUME NEW i \in 1..Len(r), NEW j \in 1..Len(r), r[i][1] = r[j][1] PROVE i = j
    BY DEF Once, r
  <2>1. CASE Old(i) /\ Old(j)
    <3>1. q[i + 1][1] = q[j + 1][1] /\ i + 1 \in 1..L /\ j + 1 \in 1..L
      BY <2>1
    <3>2. i + 1 = j + 1
      BY <1>6, <3>1 DEF Once, q, L
    <3> QED
      BY <2>1, <3>2
  <2>2. ASSUME NEW a \in 1..Len(r), NEW b \in 1..Len(r), Old(a), Added1(b) PROVE r[a][1] # r[b][1]
    <3>1. r[a][1] \in v
      BY <1>11, <2>2
    <3>2. r[b][1] \in N
      BY <1>5, <2>2
    <3> QED
      BY <1>8, <3>1, <3>2
  <2>3. CASE Added1(i) /\ Added1(j)
    <3>1. PICK a \in 1..m : i = L - 1 + a /\ r[i] = <<new[a], d + 1>>
      BY <2>3
    <3>2. PICK b \in 1..m : j = L - 1 + b /\ r[j] = <<new[b], d + 1>>
      BY <2>3
    <3>3. new[a] = new[b]
      BY <3>1, <3>2
    <3> QED
      BY <1>5, <3>1, <3>2, <3>3
  <2> QED
    BY <1>9, <2>1, <2>2, <2>3
<1> HIDE DEF Old, Added1
<1>17. start \in u /\ u \subseteq W[max_hops]
  <2>1. \A n \in N : n \in W[max_hops]
    <3> TAKE n \in N
    <3>1. d + 1 \in 0..max_hops /\ n \in W[d + 1] /\ max_hops \in 0..max_hops /\ d + 1 <= max_hops
      BY <1>8
    <3>2. W[d + 1] \subseteq W[max_hops]
      BY <3>1, LevelsGrow
    <3> QED
      BY <3>1, <3>2
  <2> QED
    BY <1>3, <1>6, <2>1 DEF v
<1>18. \A x : Waiting(k, x) <=> x \in N \/ (\E i \in 1..L : i # 1 /\ q[i][1] = x)
  <2> TAKE x
  <2>1. ASSUME Waiting(k, x) PROVE x \in N \/ (\E i \in 1..L : i # 1 /\ q[i][1] = x)
    <3>1. PICK i \in 1..Len(r) : r[i][1] = x
      BY <2>1 DEF Waiting, r
    <3>2. CASE Old(i)
      <4>1. i + 1 \in 1..L /\ i + 1 # 1 /\ r[i] = q[i + 1]
        BY <1>4, <3>2 DEF Old
      <4> QED
        BY <3>1, <4>1
    <3>3. CASE Added1(i)
      BY <1>5, <3>1, <3>3 DEF Added1
    <3> QED
      BY <1>9, <3>2, <3>3
  <2>2. ASSUME x \in N PROVE Waiting(k, x)
    BY <1>5, <1>10, <2>2 DEF Waiting, r
  <2>3. ASSUME NEW i \in 1..L, i # 1, q[i][1] = x PROVE Waiting(k, x)
    BY <1>10, <2>3 DEF Waiting, r
  <2> QED
    BY <2>1, <2>2, <2>3
<1>19. \A x : Waiting(s, x) <=> x = p \/ (\E i \in 1..L : i # 1 /\ q[i][1] = x)
  <2>1. q[1][1] = p
    BY <1>3
  <2> QED
    BY <1>4, <2>1 DEF Waiting, q, L
<1>20. Expanded(h, W, max_hops, k)
  <2> SUFFICES ASSUME NEW x \in u
               PROVE  \/ Waiting(k, x)
                      \/ ToSet(RightBehind(h, x)) \subseteq u
                      \/ \A j \in 0..(max_hops - 1) : x \notin W[j]
    BY DEF Expanded, u
  <2>1. CASE x \in N
    BY <1>18, <2>1
  <2>2. CASE x = p
    <3>1. CASE d < max_hops
      BY <1>3, <2>2, <3>1
    <3>2. CASE ~(d < max_hops)
      <4>1. d = max_hops
        BY <1>7, <3>2
      <4> QED
        BY <1>7, <2>2, <4>1
    <3> QED
      BY <3>1, <3>2
  <2>3. CASE x \in v /\ x # p
    <3>1. \/ Waiting(s, x)
          \/ ToSet(RightBehind(h, x)) \subseteq v
          \/ \A j \in 0..(max_hops - 1) : x \notin W[j]
      BY <1>6, <2>3 DEF Expanded, v
    <3> QED
      BY <1>3, <1>18, <1>19, <2>3, <3>1
  <2> QED
    BY <1>3, <2>1, <2>2, <2>3
<1>21. LevelSeen(W, k)
  <2> SUFFICES ASSUME r # <<>> PROVE W[r[1][2]] \subseteq u
    BY DEF LevelSeen, r, u
  <2>1. 1 \in 1..Len(r) /\ Len(r) \in Nat
    <3>1. r \in Seq(Nat \X Nat)
      BY <1>1 DEF BreadthStates, r
    <3>2. Len(r) \in Nat /\ Len(r) # 0
      BY <3>1, LenProperties, EmptySeq
    <3> QED
      BY <3>2
  <2>2. CASE r[1][2] = d
    BY <1>3, <1>7, <2>2
  <2>3. CASE r[1][2] = d + 1
    <3>1. d + 1 \in 0..max_hops /\ d \in 0..(max_hops - 1)
      <4>1. r[1][2] \in 0..max_hops
        BY <1>13, <2>1 DEF AtLevel, r
      <4> QED
        BY <1>3, <2>3, <4>1
    <3>2. \A i \in 1..Len(r) : r[i][1] \notin W[d]
      <4> TAKE i \in 1..Len(r)
      <4>1. r[1][2] <= r[i][2]
        BY <1>15, <2>1 DEF InOrder, r
      <4>2. r[i][2] = d + 1
        BY <1>3, <1>14, <2>3, <4>1
      <4>3. d \in 0..(r[i][2] - 1)
        BY <1>3, <4>2
      <4> QED
        BY <1>13, <4>3 DEF AtLevel, r
    <3>3. \A y \in W[d] : ToSet(RightBehind(h, y)) \subseteq u
      <4> TAKE y \in W[d]
      <4>1. y \in u /\ ~Waiting(k, y)
        BY <1>3, <1>7, <3>2 DEF Waiting, r
      <4> QED
        BY <1>20, <3>1, <4>1 DEF Expanded, u
    <3>4. W[d + 1] = W[d] \cup UNION {ToSet(RightBehind(h, y)) : y \in W[d]}
      BY <3>1 DEF Levels
    <3>5. W[d] \subseteq u
      BY <1>3, <1>7
    <3> QED
      BY <2>3, <3>3, <3>4, <3>5
  <2> QED
    BY <1>14, <2>1, <2>2, <2>3
<1>22. Collected(start, k)
  <2>1. s.found \in Seq(Nat) /\ IsInjective(s.found)
        /\ \A x : x \in ToSet(s.found) <=> x \in v /\ x # start /\ ~Waiting(s, x)
    BY <1>6 DEF Collected, BreadthStates, v
  <2>2. d > 0 <=> p # start
    <3>1. W[0] = {start}
      BY DEF Levels
    <3>2. CASE d > 0
      <4>1. 0 \in 0..(d - 1)
        BY <1>3, <3>2
      <4> QED
        BY <1>7, <3>1, <3>2, <4>1
    <3>3. CASE d = 0
      BY <1>7, <3>1, <3>3
    <3> QED
      BY <1>3, <3>2, <3>3
  <2>3. ~Waiting(k, p) /\ Waiting(s, p)
    <3>1. \A i \in 1..L : i # 1 => q[i][1] # p
      <4> TAKE i \in 1..L
      <4>1. q[1][1] = p
        BY <1>3
      <4> QED
        BY <1>4, <1>6, <4>1 DEF Once, q, L
    <3> QED
      BY <1>7, <1>8, <1>18, <1>19, <3>1
  <2>4. \A x : x \in u /\ x # start /\ ~Waiting(k, x) <=>
                 \/ x \in v /\ x # start /\ ~Waiting(s, x)
                 \/ x = p /\ p # start
    BY <1>3, <1>7, <1>18, <1>19, <2>3
  <2>5. p \notin ToSet(s.found)
    BY <2>1, <2>3
  <2>6. CASE d > 0
    <3>1. k.found = Append(s.found, p)
      BY <1>3, <2>6
    <3>2. /\ ToSet(Append(s.found, p)) = ToSet(s.found) \cup {p}
          /\ IsInjective(Append(s.found, p))
      BY <1>3, <2>1, <2>5, SetOfAppend
    <3>3. \A x : x \in ToSet(k.found) <=> x \in u /\ x # start /\ ~Waiting(k, x)
      BY <2>1, <2>2, <2>4, <2>6, <3>1, <3>2
    <3> QED
      BY <3>1, <3>2, <3>3 DEF Collected, u
  <2>7. CASE ~(d > 0)
    <3>1. k.found = s.found
      BY <1>3, <2>7
    <3>2. \A x : x \in ToSet(k.found) <=> x \in u /\ x # start /\ ~Waiting(k, x)
      BY <2>1, <2>2, <2>4, <2>7, <3>1
    <3> QED
      BY <2>1, <3>1, <3>2 DEF Collected, u
  <2> QED
    BY <2>6, <2>7
<1> QED
  BY <1>13, <1>15, <1>16, <1>17, <1>20, <1>21, <1>22 DEF BreadthGood, k, u

BreadthEnd == {s \in BreadthStates : s.queue = <<>> \/ Len(s.found) >= MaxDescendants}

BreadthNext(h, max_hops) ==
  [s \in BreadthStates |-> IF s.queue = <<>> THEN s ELSE BreadthStep(h, max_hops, s)]

LEMMA BreadthLoop ==
  ASSUME NEW V, NEW h \in SoundGraphs(V), NEW max_hops \in Nat
  PROVE  /\ BreadthNext(h, max_hops) \in [BreadthStates -> BreadthStates]
         /\ BreadthRank(h) \in [BreadthStates -> Nat]
         /\ \A s \in BreadthStates \ BreadthEnd :
              s.queue # <<>> /\ BreadthNext(h, max_hops)[s] = BreadthStep(h, max_hops, s)
         /\ Shrinks(BreadthRank(h), BreadthStates, BreadthEnd, BreadthNext(h, max_hops))
<1>1. \A s \in BreadthStates : s.queue # <<>> =>
        /\ BreadthStep(h, max_hops, s) \in BreadthStates
        /\ BreadthRank(h)[BreadthStep(h, max_hops, s)] < BreadthRank(h)[s]
  BY BreadthTurned, BreadthShrinks
<1>2. \A s \in BreadthStates \ BreadthEnd :
        s.queue # <<>> /\ BreadthNext(h, max_hops)[s] = BreadthStep(h, max_hops, s)
  BY DEF BreadthNext, BreadthEnd
<1>3. BreadthNext(h, max_hops) \in [BreadthStates -> BreadthStates]
  BY <1>1 DEF BreadthNext
<1>4. \A s \in BreadthStates \ BreadthEnd :
         BreadthRank(h)[BreadthNext(h, max_hops)[s]] < BreadthRank(h)[s]
  BY <1>1, <1>2
<1>5. BreadthRank(h) \in [BreadthStates -> Nat]
  BY BreadthShrinks
<1> QED
  BY <1>2, <1>3, <1>4, <1>5 DEF Shrinks

BreadthStart(start) == [queue |-> <<<<start, 0>>>>, visited |-> {start}, found |-> <<>>]

(* The function that Breadth chooses does what its equation says. *)
LEMMA BreadthDef ==
  ASSUME NEW V, NEW h \in SoundGraphs(V), NEW max_hops \in Nat, NEW start \in Nat
  PROVE  \E search :
           /\ \A s \in BreadthEnd : search[s] = ToSet(s.found)
           /\ \A s \in BreadthStates \ BreadthEnd :
                search[s] = search[BreadthStep(h, max_hops, s)]
           /\ Breadth(h, max_hops, start) = search[BreadthStart(start)]
<1> DEFINE Turn(f, s) == IF s.queue = <<>> \/ Len(s.found) >= MaxDescendants THEN ToSet(s.found)
                         ELSE f[BreadthStep(h, max_hops, s)]
           Solves(f) == f = [s \in BreadthStates |-> Turn(f, s)]
           out == [s \in BreadthStates |-> ToSet(s.found)]
           next == BreadthNext(h, max_hops)
           S == SUBSET Nat
<1>1. out \in [BreadthStates -> S] /\ S # {}
  <2>1. \A s \in BreadthStates : ToSet(s.found) \in S
    BY SetOfSeq DEF BreadthStates
  <2> QED
    BY <2>1
<1>2. /\ next \in [BreadthStates -> BreadthStates]
      /\ Shrinks(BreadthRank(h), BreadthStates, BreadthEnd, next)
      /\ BreadthRank(h) \in [BreadthStates -> Nat]
      /\ \A s \in BreadthStates \ BreadthEnd : next[s] = BreadthStep(h, max_hops, s)
  BY BreadthLoop
<1>3. \A s \in BreadthStates : out[s] = ToSet(s.found)
  OBVIOUS
<1>4. \A s \in BreadthStates : s \in BreadthEnd <=> s.queue = <<>> \/ Len(s.found) >= MaxDescendants
  BY DEF BreadthEnd
<1> HIDE DEF next, out, S
<1>5. PICK f \in [BreadthStates -> S] : Returns(f, BreadthStates, BreadthEnd, out, next)
  BY <1>1, <1>2, LoopRec
<1>6. \A s \in BreadthStates : f[s] = Turn(f, s)
  BY <1>2, <1>3, <1>4, <1>5 DEF Returns
<1>7. Solves(f)
  <2> HIDE DEF Turn
  <2> QED
    BY <1>6
<1> DEFINE search == CHOOSE x : Solves(x)
<1>8. Solves(search)
  BY <1>7
<1>9. Breadth(h, max_hops, start) = search[BreadthStart(start)]
  BY DEF Breadth, BreadthStart
<1> HIDE DEF search
<1>10. \A s \in BreadthStates : search[s] = Turn(search, s)
  <2> HIDE DEF Turn
  <2> QED
    BY <1>8
<1>11. \A s \in BreadthEnd : search[s] = ToSet(s.found)
  <2>1. \A s \in BreadthEnd : s \in BreadthStates
    BY DEF BreadthEnd
  <2> QED
    BY <1>4, <1>10, <2>1
<1>12. \A s \in BreadthStates \ BreadthEnd : search[s] = search[BreadthStep(h, max_hops, s)]
  BY <1>4, <1>10
<1> QED
  BY <1>9, <1>11, <1>12

(* What stops has everything within reach, or as much as it may have. *)
Descended(W, start, max_hops, F) ==
  /\ F \subseteq W[max_hops] \ {start}
  /\ Cardinality(W[max_hops] \ {start}) <= MaxDescendants => F = W[max_hops] \ {start}

LEMMA BreadthStops ==
  ASSUME NEW V, NEW h \in SoundGraphs(V), NEW max_hops \in Nat, MaxDescendants \in Nat,
         NEW start, NEW W, Levels(h, W, start, max_hops),
         NEW s \in BreadthEnd, BreadthGood(h, W, start, max_hops, s)
  PROVE  Descended(W, start, max_hops, ToSet(s.found))
<1> DEFINE F == ToSet(s.found)
           G == W[max_hops] \ {start}
<1>1. /\ s.found \in Seq(Nat) /\ IsInjective(s.found)
      /\ \A v : v \in F <=> v \in s.visited /\ v # start /\ ~Waiting(s, v)
      /\ start \in s.visited /\ s.visited \subseteq W[max_hops]
      /\ Expanded(h, W, max_hops, s)
      /\ s.queue = <<>> \/ Len(s.found) >= MaxDescendants
  BY DEF BreadthEnd, BreadthStates, BreadthGood, Collected
<1>2. F \subseteq G
  BY <1>1
<1>3. CASE s.queue = <<>>
  <2>1. \A v : ~Waiting(s, v)
    BY <1>3, EmptySeq DEF Waiting
  <2> DEFINE P == {k \in Nat : k \in 0..max_hops => W[k] \subseteq s.visited}
  <2>2. 0 \in P
    BY <1>1 DEF Levels
  <2>3. ASSUME NEW k \in Nat, k \in P PROVE k + 1 \in P
    <3> SUFFICES ASSUME k + 1 \in 0..max_hops PROVE W[k + 1] \subseteq s.visited
      OBVIOUS
    <3>1. k \in 0..(max_hops - 1) /\ k \in 0..max_hops
      OBVIOUS
    <3>2. W[k] \subseteq s.visited
      BY <2>3, <3>1
    <3>3. \A y \in W[k] : ToSet(RightBehind(h, y)) \subseteq s.visited
      BY <1>1, <2>1, <3>1, <3>2 DEF Expanded
    <3>4. W[k + 1] = W[k] \cup UNION {ToSet(RightBehind(h, y)) : y \in W[k]}
      BY <3>1 DEF Levels
    <3> QED
      BY <3>2, <3>3, <3>4
  <2>4. Nat \subseteq P
    <3> HIDE DEF P
    <3> QED
      BY <2>2, <2>3, NatInd
  <2>5. W[max_hops] \subseteq s.visited
    BY <2>4
  <2>6. F = G
    BY <1>1, <2>1, <2>5
  <2> QED
    BY <2>6 DEF Descended
<1>4. CASE Len(s.found) >= MaxDescendants
  <2>1. IsFiniteSet(G)
    <3>1. IsFiniteSet(NodeIds(h))
      <4> DEFINE T == TRUE
      <4>1. T \in BOOLEAN
        OBVIOUS
      <4> HIDE DEF T
      <4> QED
        BY <4>1, EndsFacts
    <3>2. W[max_hops] \in SUBSET Registers(h)
      BY DEF Levels
    <3>3. G \in SUBSET NodeIds(h)
      BY <3>2 DEF Registers
    <3> HIDE DEF G
    <3> QED
      BY <3>1, <3>3, FS_Subset
  <2>2. Cardinality(F) = Len(s.found) /\ Len(s.found) \in Nat
    BY <1>1, CardinalityOfSeq, LenProperties
  <2> HIDE DEF F, G
  <2>3. Cardinality(F) <= Cardinality(G) /\ (Cardinality(G) = Cardinality(F) => G = F)
    BY <1>2, <2>1, FS_Subset
  <2>4. Cardinality(G) \in Nat
    BY <2>1, FS_CardinalityType
  <2>5. Cardinality(G) <= MaxDescendants => F = G
    BY <1>4, <2>2, <2>3, <2>4
  <2> QED
    BY <1>2, <2>5 DEF Descended, F, G
<1> QED
  BY <1>1, <1>3, <1>4

LEMMA BreadthStarts ==
  ASSUME NEW h, NEW max_hops \in Nat, NEW start \in Nat, NEW W, Levels(h, W, start, max_hops)
  PROVE  /\ BreadthStart(start) \in BreadthStates
         /\ BreadthGood(h, W, start, max_hops, BreadthStart(start))
<1> DEFINE s == BreadthStart(start)
           q == <<<<start, 0>>>>
<1>1. s.queue = q /\ s.visited = {start} /\ s.found = <<>>
  BY DEF BreadthStart
<1>2. Len(q) = 1 /\ q[1] = <<start, 0>> /\ q \in Seq(Nat \X Nat) /\ q # <<>>
  OBVIOUS
<1>3. <<>> \in Seq(Nat) /\ ToSet(<<>>) = {} /\ IsInjective(<<>>)
  BY EmptySeq, SetOfNone DEF IsInjective
<1>4. s \in BreadthStates
  BY <1>2, <1>3 DEF BreadthStart, BreadthStates
<1> HIDE DEF q, s
<1>5. Len(s.queue) = 1 /\ s.queue[1][1] = start /\ s.queue[1][2] = 0
      /\ \A i \in 1..Len(s.queue) : i = 1
  BY <1>1, <1>2
<1>6. W[0] = {start} /\ 0 \in 0..max_hops /\ max_hops \in 0..max_hops
  BY DEF Levels
<1>7. AtLevel(W, max_hops, s)
  <2>1. 0..(0 - 1) = {}
    OBVIOUS
  <2> QED
    BY <1>1, <1>5, <1>6, <2>1 DEF AtLevel
<1>8. InOrder(s) /\ Once(s)
  BY <1>5 DEF InOrder, Once
<1>9. LevelSeen(W, s)
  BY <1>1, <1>5, <1>6 DEF LevelSeen
<1>10. Waiting(s, start)
  BY <1>5 DEF Waiting
<1>11. Expanded(h, W, max_hops, s)
  BY <1>1, <1>10 DEF Expanded
<1>12. Collected(start, s)
  BY <1>1, <1>3, <1>10 DEF Collected
<1>13. start \in s.visited /\ s.visited \subseteq W[max_hops]
  <2>1. W[0] \subseteq W[max_hops]
    BY <1>6, LevelsGrow
  <2> QED
    BY <1>1, <1>6, <2>1
<1> QED
  BY <1>4, <1>7, <1>8, <1>9, <1>11, <1>12, <1>13 DEF BreadthGood, s

(* The search finds what is within reach, all of it unless it is too much. *)
LEMMA BreadthFinds ==
  ASSUME NEW V, NEW h \in SoundGraphs(V), NEW max_hops \in Nat, MaxDescendants \in Nat,
         NEW start \in Nat, NEW W, Levels(h, W, start, max_hops)
  PROVE  Descended(W, start, max_hops, Breadth(h, max_hops, start))
<1> DEFINE next == BreadthNext(h, max_hops)
           s0 == BreadthStart(start)
<1>1. PICK search :
        /\ \A s \in BreadthEnd : search[s] = ToSet(s.found)
        /\ \A s \in BreadthStates \ BreadthEnd : search[s] = search[BreadthStep(h, max_hops, s)]
        /\ Breadth(h, max_hops, start) = search[s0]
  BY BreadthDef
<1>2. /\ next \in [BreadthStates -> BreadthStates]
      /\ BreadthRank(h) \in [BreadthStates -> Nat]
      /\ \A s \in BreadthStates \ BreadthEnd :
           s.queue # <<>> /\ next[s] = BreadthStep(h, max_hops, s)
      /\ Shrinks(BreadthRank(h), BreadthStates, BreadthEnd, next)
  BY BreadthLoop
<1> DEFINE Right(s) == Descended(W, start, max_hops, search[s])
           P == {s \in BreadthStates : BreadthGood(h, W, start, max_hops, s) => Right(s)}
<1>3. BreadthStates \cap BreadthEnd \subseteq P
  <2> SUFFICES ASSUME NEW s \in BreadthStates, s \in BreadthEnd,
                      BreadthGood(h, W, start, max_hops, s)
               PROVE  Right(s)
    OBVIOUS
  <2>1. Descended(W, start, max_hops, ToSet(s.found))
    BY BreadthStops
  <2> QED
    BY <1>1, <2>1
<1>4. ASSUME NEW s \in BreadthStates \ BreadthEnd, next[s] \in P PROVE s \in P
  <2> SUFFICES ASSUME BreadthGood(h, W, start, max_hops, s) PROVE Right(s)
    OBVIOUS
  <2>1. s.queue # <<>> /\ next[s] = BreadthStep(h, max_hops, s) /\ search[s] = search[next[s]]
    BY <1>1, <1>2
  <2>2. BreadthGood(h, W, start, max_hops, next[s])
    BY <2>1, BreadthTurn
  <2>3. Right(next[s])
    BY <1>4, <2>2
  <2> QED
    BY <2>1, <2>3
<1>5. BreadthStates \subseteq P
  <2>1. Precedes(next, BreadthStates, BreadthEnd, P)
    BY <1>4 DEF Precedes
  <2> HIDE DEF P, next
  <2> QED
    BY <1>2, <1>3, <2>1, LoopInd
<1>6. s0 \in BreadthStates /\ BreadthGood(h, W, start, max_hops, s0)
  BY BreadthStarts
<1>7. Right(s0)
  BY <1>5, <1>6
<1> QED
  BY <1>1, <1>7

(* The definition by hops comes to the same levels. *)
LEMMA HopsAreLevels ==
  ASSUME NEW V, NEW h \in SoundGraphs(V), NEW hops \in Nat, NEW start \in Registers(h),
         NEW next, next = [id \in Registers(h) |-> RegistersReached(h, TRUE, id)]
  PROVE  \E W : Levels(h, W, start, hops) /\ WithinHops(next, hops, start) = W[hops]
<1> DEFINE R == Registers(h)
           S == SUBSET R
           More(X) == X \cup UNION {next[r] : r \in X}
           step == [p \in S \X (1..hops) |-> More(p[1])]
<1>1. \A r \in R : next[r] = ToSet(RightBehind(h, r)) /\ next[r] \in SUBSET R
  <2> TAKE r \in R
  <2> DEFINE T == TRUE
  <2>1. T \in BOOLEAN /\ r \in Nat
    <3>1. NodeIds(h) \in SUBSET Nat
      <4>1. T \in BOOLEAN
        OBVIOUS
      <4> HIDE DEF T
      <4> QED
        BY <4>1, EndsFacts
    <3> QED
      BY <3>1 DEF Registers
  <2>2. RightBehind(h, r) = RegisterSuccessors(h, r, T) /\ next[r] = RegistersReached(h, T, r)
    BY DEF RightBehind
  <2> HIDE DEF T
  <2>3. ToSet(RegisterSuccessors(h, r, T)) = RegistersReached(h, T, r)
    BY <2>1, SuccessorsExact
  <2>4. ToSet(RightBehind(h, r)) \subseteq R
    BY <2>1, RightBehindIs
  <2> QED
    BY <2>2, <2>3, <2>4
<1>2. \A X \in S : More(X) \in S /\ More(X) = X \cup UNION {ToSet(RightBehind(h, r)) : r \in X}
  <2> TAKE X \in S
  <2>1. {next[r] : r \in X} = {ToSet(RightBehind(h, r)) : r \in X}
    BY <1>1
  <2>2. UNION {next[r] : r \in X} \subseteq R
    BY <1>1
  <2> QED
    BY <2>1, <2>2
<1>3. {start} \in S
  OBVIOUS
<1> HIDE DEF R, S
<1>4. step \in [S \X (1..hops) -> S] /\ \A X \in S, k \in 1..hops : step[<<X, k>>] = More(X)
  BY <1>2
<1> HIDE DEF step
<1>5. PICK w \in [0..hops -> S] : Recursion(w, {start}, step, hops)
  BY <1>3, <1>4, RecFcn
<1>6. w[0] = {start} /\ \A k \in 1..hops : w[k] = More(w[k - 1])
  <2> SUFFICES ASSUME NEW k \in 1..hops PROVE w[0] = {start} /\ w[k] = More(w[k - 1])
    BY <1>5 DEF Recursion
  <2>1. w[k - 1] \in S
    BY <1>5
  <2> QED
    BY <1>4, <1>5, <2>1 DEF Recursion
<1> DEFINE Turn(f, k) == IF k = 0 THEN {start}
                         ELSE LET nearer == f[k - 1] IN nearer \cup UNION {next[r] : r \in nearer}
           Solves(f) == f = [k \in 0..hops |-> Turn(f, k)]
           within == CHOOSE f : Solves(f)
<1>7. Solves(w)
  <2>1. ASSUME NEW k \in 0..hops PROVE w[k] = Turn(w, k)
    <3>1. CASE k = 0
      BY <1>6, <3>1
    <3>2. CASE k # 0
      <4>1. k \in 1..hops
        BY <3>2
      <4> QED
        BY <1>6, <3>2, <4>1
    <3> QED
      BY <3>1, <3>2
  <2> HIDE DEF Turn
  <2> QED
    BY <1>5, <2>1
<1>8. Solves(within)
  BY <1>7
<1>9. WithinHops(next, hops, start) = within[hops]
  BY DEF WithinHops
<1> HIDE DEF within
<1>10. \A k \in 0..hops : within[k] = Turn(within, k)
  <2> HIDE DEF Turn
  <2> QED
    BY <1>8
<1> DEFINE P == {k \in Nat : k \in 0..hops => within[k] = w[k]}
<1>11. 0 \in P
  BY <1>6, <1>10
<1>12. ASSUME NEW k \in Nat, k \in P PROVE k + 1 \in P
  <2> SUFFICES ASSUME k + 1 \in 0..hops PROVE within[k + 1] = w[k + 1]
    OBVIOUS
  <2>1. k \in 0..hops /\ k + 1 \in 1..hops /\ k + 1 # 0 /\ (k + 1) - 1 = k
    OBVIOUS
  <2>2. within[k] = w[k]
    BY <1>12, <2>1
  <2>3. within[k + 1] = More(within[k])
    BY <1>10, <2>1
  <2>4. w[k + 1] = More(w[k])
    BY <1>6, <2>1
  <2> QED
    BY <2>2, <2>3, <2>4
<1>13. Nat \subseteq P
  <2> HIDE DEF P
  <2> QED
    BY <1>11, <1>12, NatInd
<1>14. within[hops] = w[hops]
  BY <1>13
<1>15. Levels(h, w, start, hops)
  <2>1. \A k \in 0..(hops - 1) : w[k + 1] = w[k] \cup UNION {ToSet(RightBehind(h, r)) : r \in w[k]}
    <3> TAKE k \in 0..(hops - 1)
    <3>1. k + 1 \in 1..hops /\ (k + 1) - 1 = k /\ k \in 0..hops
      OBVIOUS
    <3>2. w[k + 1] = More(w[k]) /\ w[k] \in S
      BY <1>5, <1>6, <3>1
    <3> QED
      BY <1>2, <3>2
  <2> QED
    BY <1>5, <1>6, <2>1 DEF Levels, S, R
<1> QED
  BY <1>9, <1>14, <1>15

(* The path of a CDC003 names the pair it is about.                        *)
LEMMA PairIsTwo ==
  ASSUME NEW a, NEW b, a # b
  PROVE  /\ IsFiniteSet({a, b}) /\ Cardinality({a, b}) = 2
         /\ ToSet(SetToSeq({a, b})) = {a, b}
<1> DEFINE S == {a, b}
<1>1. IsFiniteSet(S) /\ Cardinality(S) = 2
  <2>1. IsFiniteSet({a}) /\ Cardinality({a}) = 1
    BY FS_Singleton
  <2>2. IsFiniteSet({a} \cup {b}) /\ Cardinality({a} \cup {b}) = Cardinality({a}) + 1
    BY <2>1, FS_AddElement
  <2>3. {a} \cup {b} = S
    OBVIOUS
  <2> QED
    BY <2>1, <2>2, <2>3
<1> DEFINE w == [i \in 1..2 |-> IF i = 1 THEN a ELSE b]
           s == SetToSeq(S)
<1>2. w \in [1..2 -> S] /\ IsInjective(w)
  BY DEF IsInjective
<1>3. s \in [1..2 -> S] /\ IsInjective(s)
  <2> HIDE DEF w, S
  <2> QED
    BY <1>1, <1>2 DEF SetToSeq
<1> HIDE DEF s
<1>4. s[1] \in S /\ s[2] \in S /\ s[1] # s[2] /\ DOMAIN s = 1..2
  BY <1>3 DEF IsInjective
<1>5. ToSet(s) = {s[1], s[2]}
  BY <1>4 DEF ToSet
<1> QED
  BY <1>1, <1>4, <1>5 DEF s

LEMMA PairOf ==
  ASSUME NEW pair, IsFiniteSet(pair), Cardinality(pair) = 2,
         NEW a \in pair, NEW b \in pair, a # b
  PROVE  pair = {a, b}
<1> DEFINE S == {a, b}
<1>1. Cardinality(S) = 2
  BY PairIsTwo
<1>2. S \in SUBSET pair
  OBVIOUS
<1> HIDE DEF S
<1>3. S = pair
  BY <1>1, <1>2, FS_Subset
<1> QED
  BY <1>3 DEF S

(* The crossing analysis writes no CDC003.                                 *)
LEMMA AnalyzeRules ==
  ASSUME NEW D, NEW f \in Analyze(D)
  PROVE  f.rule # "CDC003"
<1>1. ASSUME NEW src, f \in ProcessRegister(D, src) PROVE f.rule # "CDC003"
  <2> DEFINE found == FindRegisterPaths(D.g, src, MaxPaths)
             C == CrossingPaths(D, src, found.paths)
             cut == Finding("CDC010", "warning", src, NoId, <<>>, "Ambiguous")
  <2>1. cut.rule = "CDC010"
    BY FindingFields DEF IsAbout
  <2> HIDE DEF cut
  <2>2. (\E p \in C : f \in ProcessPath(D, src, p)) \/ f = cut
    BY <1>1 DEF ProcessRegister, cut
  <2> HIDE DEF C
  <2>3. \A p : OneCrossing(ProcessPath(D, src, p), src, p)
    BY ProcessPathOne
  <2> QED
    BY <2>1, <2>2, <2>3 DEF OneCrossing, IsAbout
<1>2. ASSUME f \in DaisyChains(D) PROVE f.rule # "CDC003"
  <2> DEFINE G(src) == Finding("CDC008", "warning", src, NoId, <<>>, "Candidate")
  <2>1. \A src : G(src).rule = "CDC008"
    BY FindingFields DEF IsAbout
  <2>2. \E src : f = G(src)
    <3> HIDE DEF G
    <3> QED
      BY <1>2 DEF DaisyChains, G
  <2> QED
    BY <2>1, <2>2
<1>3. (\E src \in Registers(D.g) : f \in ProcessRegister(D, src)) \/ f \in DaisyChains(D)
  BY DEF Analyze
<1> QED
  BY <1>1, <1>2, <1>3

(* The CDC003 that are found are those of the reconvergence search.        *)
LEMMA ReconvergenceIs ==
  ASSUME NEW D, Findings(Analyze(D)), NEW f
  PROVE  f \in StructuralFindings(D) /\ f.rule = "CDC003" <=> f \in Reconvergence(D, Analyze(D))
<1> DEFINE F == Analyze(D)
           resets == IF D.suppress_resets THEN {} ELSE CheckResetCrossings(D)
           R == Reconvergence(D, F)
           P == PropagateUncertainty(D, F)
           C == Cdc006(D)
           all == P \cup R \cup C \cup resets
           G == StructuralFindings(D)
<1>1. G = {Lowered(D, e) : e \in all}
  <2>1. StructuralFindings(D) = FindingsFrom(D, Analyze(D))
    BY DEF StructuralFindings
  <2> HIDE DEF F
  <2>2. FindingsFrom(D, F) = {Lowered(D, e) : e \in P \cup R \cup C \cup resets}
    BY DEF FindingsFrom, Isolate, Lowered
  <2> QED
    BY <2>1, <2>2 DEF F
<1>2. \A e \in F : e.rule # "CDC003" /\ Lowered(D, e).rule = e.rule
  <2>1. \A e \in F : e.rule # "CDC003"
    BY AnalyzeRules
  <2>2. \A e \in F : Lowered(D, e).rule = e.rule
    BY LoweredFields DEF Findings, IsAbout
  <2> QED
    BY <2>1, <2>2
<1> HIDE DEF F
<1>3. \A e \in P \ F : e.rule = "CDC013"
  BY OtherRules
<1>4. \A e \in R : e.rule = "CDC003"
  BY OtherRules
<1>5. \A e \in C : e.rule = "CDC006"
  BY OtherRules
<1>6. \A e \in resets : e.rule = "CDC009"
  BY OtherRules
<1>7. \A e : e.rule # "CDC001" => Lowered(D, e) = e
  BY DEF Lowered
<1> HIDE DEF P, R, C, resets, G
<1>8. ASSUME f \in G, f.rule = "CDC003" PROVE f \in R
  <2>1. PICK e \in all : f = Lowered(D, e)
    BY <1>1, <1>8
  <2>2. e \notin F
    BY <1>2, <1>8, <2>1
  <2>3. e.rule # "CDC001" /\ (e \in R \/ e.rule # "CDC003")
    BY <1>3, <1>4, <1>5, <1>6, <2>2
  <2> QED
    BY <1>7, <1>8, <2>1, <2>3
<1>9. ASSUME f \in R PROVE f \in G /\ f.rule = "CDC003"
  BY <1>1, <1>4, <1>7, <1>9
<1> QED
  BY <1>8, <1>9 DEF R, G, F

(* What is said of two crossings of one source: they are reported if the   *)
(* source is looked at, they meet again, and one of them is unguarded or   *)
(* carries a bus.                                                          *)
PairIsBad(D, src, c, d) ==
  /\ src \in FindFanoutSources(D)
  /\ ~(D.at[src].width <= 1 /\ HasSyncChain(D, c) /\ HasSyncChain(D, d))
  /\ Descendants(D, c) \cap Descendants(D, d) # {}

PairIsReported(D, src, c, d) ==
  \E f \in StructuralFindings(D) :
    f.rule = "CDC003" /\ f.src = src /\ ToSet(f.path) = {c, d}

HasCrossing(D, src, dst) ==
  \E f \in StructuralFindings(D) : f.rule = "CDC001" /\ f.src = src /\ f.dst = dst

(* A pair is compared when its source has no more of them than the limit.  *)
LEMMA FewAreCompared ==
  ASSUME NEW h, NEW src, NEW dsts, IsFiniteSet(dsts), NEW two \in kSubset(2, dsts),
         MaxPairsPerSource \in Nat, Cardinality(kSubset(2, dsts)) <= MaxPairsPerSource
  PROVE  two \in Compared(h, src, dsts)
<1> DEFINE paths == FindRegisterPaths(h, src, MaxPaths).paths
           Met(a, b) == \E i \in DOMAIN paths :
                          /\ Last(paths[i].path) = a
                          /\ \A j \in 1..i : Last(paths[j].path) # b
           Before(p, q) == \E a \in p \ q : \A b \in q \ p : Met(a, b)
           pairs == kSubset(2, dsts)
           earlier == {p \in pairs : Before(p, two)}
<1>1. IsFiniteSet(pairs)
  <2>1. pairs \in SUBSET SUBSET dsts
    BY DEF kSubset
  <2> HIDE DEF pairs
  <2> QED
    BY <2>1, FS_SUBSET, FS_Subset
<1>2. two \in Compared(h, src, dsts) <=> Cardinality(earlier) < MaxPairsPerSource
  <2>1. Compared(h, src, dsts) =
          {pair \in pairs : Cardinality({p \in pairs : Before(p, pair)}) < MaxPairsPerSource}
    BY DEF Compared
  <2> HIDE DEF Before
  <2> QED
    BY <2>1
<1>3. earlier \subseteq pairs \ {two}
  <2>1. ~Before(two, two)
    OBVIOUS
  <2> HIDE DEF Before
  <2> QED
    BY <2>1
<1>4. two \in pairs
  OBVIOUS
<1> HIDE DEF pairs, earlier
<1>5. IsFiniteSet(pairs \ {two}) /\ Cardinality(pairs \ {two}) = Cardinality(pairs) - 1
  BY <1>1, <1>4, FS_RemoveElement
<1>6. Cardinality(earlier) <= Cardinality(pairs \ {two}) /\ Cardinality(earlier) \in Nat
  BY <1>3, <1>5, FS_Subset, FS_CardinalityType
<1>7. Cardinality(pairs) \in Nat /\ Cardinality(pairs) <= MaxPairsPerSource
  BY <1>1, FS_CardinalityType DEF pairs
<1> QED
  BY <1>2, <1>5, <1>6, <1>7

(* The registers that the crossings of a source end at, and whether their  *)
(* pairs are few enough for all of them to be compared.                    *)
EndsOf(F, src) == {f.dst : f \in {f \in F : f.rule = "CDC001" /\ f.src = src}}

FewPairs(F, src) == Cardinality(kSubset(2, EndsOf(F, src))) <= MaxPairsPerSource

LEMMA PairHasTwo ==
  ASSUME NEW pair, Cardinality(pair) = 2
  PROVE  \E a, b \in pair : a # b
<1>1. Cardinality({}) = 0
  BY FS_EmptySet
<1>2. \A x : Cardinality({x}) = 1
  BY FS_Singleton
<1>3. pair # {}
  BY <1>1
<1>4. \A x : pair # {x}
  BY <1>2
<1>5. PICK a : a \in pair
  BY <1>3
<1>6. \E b \in pair : a # b
  BY <1>4, <1>5
<1> QED
  BY <1>5, <1>6

LEMMA PairReported ==
  ASSUME NEW V, NEW D, D.g \in SoundGraphs(V), NEW src, NEW c, NEW d, c # d,
         HasCrossing(D, src, c), HasCrossing(D, src, d), MaxPairsPerSource \in Nat
  PROVE  /\ PairIsReported(D, src, c, d) => PairIsBad(D, src, c, d)
         /\ PairIsBad(D, src, c, d) /\ FewPairs(StructuralFindings(D), src) =>
              PairIsReported(D, src, c, d)
<1> DEFINE F == Analyze(D)
           dsts == EndsOf(F, src)
           Synced(pair) == \A dst \in pair : HasSyncChain(D, dst)
           Meets(pair) == \E a, b \in pair : a # b /\ Descendants(D, a) \cap Descendants(D, b) # {}
           Bad(s, pair) == ~(D.at[s].width <= 1 /\ Synced(pair)) /\ Meets(pair)
           Told(s, pair) == Finding("CDC003", "warning", s, NoId, SetToSeq(pair), "Unknown")
           two == {c, d}
<1>1. Findings(F)
  BY AnalyzeTells
<1>2. dsts = EndsOf(StructuralFindings(D), src) /\ c \in dsts /\ d \in dsts
  <2> DEFINE S == StructuralFindings(D)
  <2>1. S = FindingsFrom(D, F)
    BY DEF StructuralFindings
  <2> HIDE DEF F, S
  <2>2. ASSUME NEW f \in S, f.rule = "CDC001", f.src = src
        PROVE  \E e \in F : e.rule = "CDC001" /\ e.src = src /\ e.dst = f.dst
    <3>1. PICK e \in F : f = Lowered(D, e) /\ e.rule = f.rule
      BY <1>1, <2>1, <2>2, StructuralAre DEF Others
    <3>2. f.src = e.src /\ f.dst = e.dst
      BY <1>1, <3>1, LoweredFields DEF Findings, IsAbout
    <3> QED
      BY <2>2, <3>1, <3>2
  <2>3. ASSUME NEW e \in F, e.rule = "CDC001", e.src = src
        PROVE  \E f \in S : f.rule = "CDC001" /\ f.src = src /\ f.dst = e.dst
    <3>1. Lowered(D, e) \in S
      BY <1>1, <2>1, StructuralAre
    <3>2. /\ Lowered(D, e).rule = e.rule /\ Lowered(D, e).src = e.src
          /\ Lowered(D, e).dst = e.dst
      BY <1>1, LoweredFields DEF Findings, IsAbout
    <3> QED
      BY <2>3, <3>1, <3>2
  <2>4. EndsOf(F, src) = EndsOf(S, src)
    BY <2>2, <2>3 DEF EndsOf
  <2>5. \A z : HasCrossing(D, src, z) => z \in EndsOf(S, src)
    BY DEF HasCrossing, EndsOf, S
  <2> QED
    BY <2>4, <2>5 DEF S
<1>3. /\ CheckPairs(D, F, src) = {pair \in Compared(D.g, src, dsts) : Bad(src, pair)}
      /\ IsFiniteSet(dsts)
      /\ \A s : \A pair \in CheckPairs(D, F, s) : IsFiniteSet(pair) /\ Cardinality(pair) = 2
  <2>1. IsFiniteSet(F)
    BY <1>1 DEF Findings
  <2>2. ASSUME NEW s, NEW pair \in CheckPairs(D, F, s)
        PROVE  IsFiniteSet(pair) /\ Cardinality(pair) = 2
    <3> DEFINE from == {f \in F : f.rule = "CDC001" /\ f.src = s}
               to == {f.dst : f \in from}
               dst == [f \in from |-> f.dst]
    <3>1. pair \in SUBSET to /\ Cardinality(pair) = 2
      <4> HIDE DEF F
      <4> QED
        BY <2>2 DEF CheckPairs, Compared, kSubset
    <3>2. IsFiniteSet(from)
      <4>1. from \in SUBSET F
        OBVIOUS
      <4> HIDE DEF from, F
      <4> QED
        BY <2>1, <4>1, FS_Subset
    <3>3. to = {dst[f] : f \in from}
      OBVIOUS
    <3> HIDE DEF from, dst
    <3>4. IsFiniteSet({dst[f] : f \in from})
      BY <3>2, FiniteImage
    <3> HIDE DEF to
    <3>5. IsFiniteSet(pair)
      BY <3>1, <3>3, <3>4, FS_Subset
    <3> QED
      BY <3>1, <3>5
  <2>3. CheckPairs(D, F, src) = {pair \in Compared(D.g, src, dsts) : Bad(src, pair)}
    <3> HIDE DEF F
    <3> QED
      BY DEF CheckPairs, EndsOf
  <2>4. IsFiniteSet(dsts)
    <3> DEFINE from == {f \in F : f.rule = "CDC001" /\ f.src = src}
               dst == [f \in from |-> f.dst]
    <3>1. from \in SUBSET F /\ dsts = {dst[f] : f \in from}
      BY DEF EndsOf
    <3> HIDE DEF from, dst, F, dsts
    <3>2. IsFiniteSet(from)
      BY <2>1, <3>1, FS_Subset
    <3> QED
      BY <3>1, <3>2, FiniteImage
  <2> QED
    BY <2>2, <2>3, <2>4
<1> HIDE DEF dsts
<1>4. \A s, pair : /\ Told(s, pair).rule = "CDC003" /\ Told(s, pair).src = s
                   /\ Told(s, pair).path = SetToSeq(pair)
  BY FindingFields DEF IsAbout
<1>5. \A f : f \in StructuralFindings(D) /\ f.rule = "CDC003" <=>
               \E s \in FindFanoutSources(D) : \E pair \in CheckPairs(D, F, s) : f = Told(s, pair)
  <2> TAKE f
  <2>1. f \in StructuralFindings(D) /\ f.rule = "CDC003" <=> f \in Reconvergence(D, F)
    BY <1>1, ReconvergenceIs
  <2> HIDE DEF F, Told
  <2>2. Reconvergence(D, F) =
          UNION {{Told(s, pair) : pair \in CheckPairs(D, F, s)} : s \in FindFanoutSources(D)}
    BY DEF Reconvergence, Told
  <2> QED
    BY <2>1, <2>2
<1>6. two \in kSubset(2, dsts) /\ ToSet(SetToSeq(two)) = two
  <2>1. Cardinality(two) = 2 /\ ToSet(SetToSeq(two)) = two
    BY PairIsTwo
  <2>2. two \in SUBSET dsts
    BY <1>2
  <2> HIDE DEF two
  <2> QED
    BY <2>1, <2>2 DEF kSubset
<1>7. Bad(src, two) <=> /\ ~(D.at[src].width <= 1 /\ HasSyncChain(D, c) /\ HasSyncChain(D, d))
                        /\ Descendants(D, c) \cap Descendants(D, d) # {}
  <2>1. Synced(two) <=> HasSyncChain(D, c) /\ HasSyncChain(D, d)
    OBVIOUS
  <2>2. Meets(two) <=> Descendants(D, c) \cap Descendants(D, d) # {}
    OBVIOUS
  <2> HIDE DEF Synced, Meets
  <2> QED
    BY <2>1, <2>2
<1>8. \A pair : IsFiniteSet(pair) /\ Cardinality(pair) = 2 => ToSet(SetToSeq(pair)) = pair
  <2> SUFFICES ASSUME NEW pair, IsFiniteSet(pair), Cardinality(pair) = 2
               PROVE  ToSet(SetToSeq(pair)) = pair
    OBVIOUS
  <2>1. PICK a, b \in pair : a # b
    BY PairHasTwo
  <2>2. pair = {a, b}
    BY <2>1, PairOf
  <2>3. ToSet(SetToSeq({a, b})) = {a, b}
    BY <2>1, PairIsTwo
  <2> QED
    BY <2>2, <2>3
<1> HIDE DEF F, Told, two, Bad
<1>9. ASSUME NEW f \in StructuralFindings(D), f.rule = "CDC003", f.src = src,
             ToSet(f.path) = two
      PROVE  src \in FindFanoutSources(D) /\ Bad(src, two)
  <2>1. PICK s \in FindFanoutSources(D) : \E pair \in CheckPairs(D, F, s) : f = Told(s, pair)
    BY <1>5, <1>9
  <2>2. PICK pair \in CheckPairs(D, F, s) : f = Told(s, pair)
    BY <2>1
  <2>3. s = src /\ f.path = SetToSeq(pair)
    BY <1>4, <1>9, <2>2
  <2>4. IsFiniteSet(pair) /\ Cardinality(pair) = 2
    BY <1>3
  <2>5. pair = two
    BY <1>8, <1>9, <2>3, <2>4
  <2> QED
    BY <1>3, <2>1, <2>2, <2>3, <2>5
<1>10. ASSUME src \in FindFanoutSources(D), Bad(src, two), FewPairs(StructuralFindings(D), src)
       PROVE  \E f \in StructuralFindings(D) :
                f.rule = "CDC003" /\ f.src = src /\ ToSet(f.path) = two
  <2>1. two \in Compared(D.g, src, dsts)
    <3>1. Cardinality(kSubset(2, dsts)) <= MaxPairsPerSource
      BY <1>2, <1>10 DEF FewPairs
    <3> QED
      BY <1>3, <1>6, <3>1, FewAreCompared
  <2>4. two \in CheckPairs(D, F, src)
    BY <1>3, <1>10, <2>1
  <2>2. Told(src, two) \in StructuralFindings(D)
    BY <1>5, <1>10, <2>4
  <2>3. ToSet(Told(src, two).path) = two
    BY <1>4, <1>6
  <2> QED
    BY <1>4, <2>2, <2>3
<1> QED
  BY <1>7, <1>9, <1>10 DEF two, PairIsReported, PairIsBad

(* A crossing leads from a register to another one ahead of it.            *)
LEMMA CrossingLeads ==
  ASSUME NEW V, NEW D, D.g \in SoundGraphs(V),
         NEW f \in StructuralFindings(D), f.rule = "CDC001"
  PROVE  /\ f.src \in Registers(D.g) /\ f.dst \in Registers(D.g)
         /\ f.dst \in ToSet(RegisterSuccessors(D.g, f.src, TRUE))
<1> DEFINE T == TRUE
           src == f.src
           dst == f.dst
           h == D.g
<1>1. <<src, dst>> \in CrossedPairs(D)
  BY StructuralTells DEF Tells
<1>2. src \in Registers(h) /\ dst \in Registers(h) /\ Crosses(D, src, dst)
  BY <1>1 DEF CrossedPairs
<1> HIDE DEF src, dst
<1>3. PICK p \in SimplePaths(h, src) : Last(p) = dst
  BY <1>1, <1>2, CrossedExact
<1>4. src # dst
  BY <1>2 DEF Crosses
<1>5. dst \in Ahead(h, TRUE, TRUE, src)
  BY <1>2, <1>3, PathsGoAhead
<1>6. T \in BOOLEAN
  OBVIOUS
<1>7. dst \in ToSet(RegisterSuccessors(h, src, T))
  <2> HIDE DEF T, h
  <2>1. dst \in ToSet(RegisterSuccessors(h, src, T)) <=>
          dst \in Registers(h) /\ dst # src /\ dst \in Ahead(h, TRUE, T, src)
    BY <1>2, <1>6, WalkSets DEF h
  <2> QED
    BY <1>2, <1>4, <1>5, <2>1 DEF T
<1> QED
  BY <1>2, <1>7 DEF src, dst

(* A source with two crossings to another clock name is looked at.         *)
LEMMA FanoutFound ==
  ASSUME NEW V, NEW D, D.g \in SoundGraphs(V),
         NEW a \in StructuralFindings(D), NEW b \in StructuralFindings(D),
         a.rule = "CDC001", b.rule = "CDC001", a.src = b.src, a.dst # b.dst,
         \E f \in {a, b} : Clock(D, f.dst) # Clock(D, a.src)
  PROVE  a.src \in FindFanoutSources(D)
<1> DEFINE T == TRUE
           s == RegisterSuccessors(D.g, a.src, T)
<1>1. a.src \in Registers(D.g) /\ a.dst \in ToSet(s) /\ b.dst \in ToSet(s)
  <2>1. a.src \in Registers(D.g) /\ a.dst \in ToSet(s)
    BY CrossingLeads
  <2>2. b.dst \in ToSet(RegisterSuccessors(D.g, b.src, TRUE))
    BY CrossingLeads
  <2> QED
    BY <2>1, <2>2
<1>2. T \in BOOLEAN
  OBVIOUS
<1>3. s \in Seq(Nat)
  <2> HIDE DEF T
  <2> QED
    BY <1>1, <1>2, WalkSets
<1>4. Len(s) >= 2
  <2> HIDE DEF s
  <2>1. Len(s) \in Nat /\ DOMAIN s = 1..Len(s)
    BY <1>3
  <2>2. PICK i \in DOMAIN s, j \in DOMAIN s : a.dst = s[i] /\ b.dst = s[j]
    BY <1>1 DEF ToSet
  <2>3. i # j
    BY <2>2
  <2> QED
    BY <2>1, <2>3
<1>5. \E r \in ToSet(s) : Clock(D, r) # Clock(D, a.src)
  <2>1. PICK f \in {a, b} : Clock(D, f.dst) # Clock(D, a.src)
    OBVIOUS
  <2> HIDE DEF s
  <2>2. f.dst \in ToSet(s)
    BY <1>1
  <2> QED
    BY <2>1, <2>2
<1> QED
  BY <1>1, <1>4, <1>5 DEF FindFanoutSources

(* The search for descendants, within the definition by hops.              *)
LEMMA DescendantsWithin ==
  ASSUME NEW V, NEW D, D.g \in SoundGraphs(V), D.max_hops \in Nat, MaxDescendants \in Nat,
         NEW next, next = [id \in Registers(D.g) |-> RegistersReached(D.g, TRUE, id)],
         NEW start \in Registers(D.g)
  PROVE  LET behind == WithinHops(next, D.max_hops, start) \ {start} IN
         /\ Descendants(D, start) \subseteq behind
         /\ Cardinality(behind) <= MaxDescendants => Descendants(D, start) = behind
<1> DEFINE hops == D.max_hops
           h == D.g
<1>1. start \in Nat
  <2> DEFINE T == TRUE
  <2>1. T \in BOOLEAN
    OBVIOUS
  <2> HIDE DEF T
  <2>2. NodeIds(h) \in SUBSET Nat
    BY <2>1, EndsFacts
  <2> QED
    BY <2>2 DEF Registers
<1>2. PICK W : Levels(h, W, start, hops) /\ WithinHops(next, hops, start) = W[hops]
  BY HopsAreLevels
<1>3. Descended(W, start, hops, Breadth(h, hops, start))
  BY <1>1, <1>2, BreadthFinds
<1>4. Descendants(D, start) = Breadth(h, hops, start)
  BY GraphDecides
<1> QED
  BY <1>2, <1>3, <1>4 DEF Descended

LEMMA ReconvergenceOfSound == GraphInv => ReconvergenceExact
<1> DEFINE next == [id \in Registers(g) |-> RegistersReached(g, TRUE, id)]
           hops == sketch.policy.max_hops
           Behind(id) == WithinHops(next, hops, id) \ {id}
           leaves(a, b) == \E f \in {a, b} : Clock(Design, f.dst) # Clock(Design, a.src)
           hazard(a, b) == sketch.at[a.src].width > 1 \/
                      \E f \in {a, b} : FindPatternForDest(Design, f.dst, FALSE) = "None"
           meet(a, b) == Behind(a.dst) \cap Behind(b.dst) # {}
           all(a, b) == \A f \in {a, b} : Cardinality(Behind(f.dst)) <= MaxDescendants
           few(a, b) == Cardinality(kSubset(2, Crossed(a.src))) <= MaxPairsPerSource
           reported(a, b) == \E f \in Rule("CDC003") :
                          f.src = a.src /\ ToSet(f.path) = {a.dst, b.dst}
<1> SUFFICES ASSUME GraphInv, Ended, NEW a \in Rule("CDC001"), NEW b \in Rule("CDC001"),
                    a.src = b.src, a.dst # b.dst
             PROVE  /\ reported(a, b) => hazard(a, b) /\ meet(a, b)
                    /\ leaves(a, b) /\ hazard(a, b) /\ meet(a, b) /\ all(a, b) /\ few(a, b) =>
                         reported(a, b)
  BY DEF ReconvergenceExact
<1> DEFINE V == Drawn(sketch)
           D == Design
           src == a.src
           c == a.dst
           d == b.dst
<1>1. /\ D.g = g /\ D.at = sketch.at /\ g \in SoundGraphs(V) /\ findings = StructuralFindings(D)
      /\ D.max_hops = hops /\ NodeIds(g) \subseteq DOMAIN sketch.at /\ sketch \in Sketches
  <2>1. "max_hops" \in DOMAIN sketch.policy \ {"g", "at"}
    BY AnalysisRunAssumption DEF GraphInv, PolicyFields
  <2> QED
    BY <2>1, DesignFields DEF GraphInv, Ended
<1>2. hops \in Nat /\ MaxDescendants \in Nat /\ MaxPairsPerSource \in Nat
  BY <1>1, AnalysisRunAssumption
<1>3. /\ a \in StructuralFindings(D) /\ a.rule = "CDC001"
      /\ b \in StructuralFindings(D) /\ b.rule = "CDC001"
  BY <1>1 DEF Rule
<1> HIDE DEF V, D
<1>4. src \in Registers(g) /\ c \in Registers(g) /\ d \in Registers(g)
  <2>1. src \in Registers(D.g) /\ c \in Registers(D.g)
    BY <1>1, <1>3, CrossingLeads
  <2>2. d \in Registers(D.g)
    BY <1>1, <1>3, CrossingLeads
  <2> QED
    BY <1>1, <2>1, <2>2
<1>5. sketch.at[src].width \in Nat
  <2>1. src \in DOMAIN sketch.at
    BY <1>1, <1>4 DEF Registers
  <2> QED
    BY <1>1, <2>1, AnalysisRunAssumption
<1>6. /\ reported(a, b) => PairIsBad(D, src, c, d)
      /\ PairIsBad(D, src, c, d) /\ few(a, b) => reported(a, b)
  <2>1. HasCrossing(D, src, c)
    BY <1>3 DEF HasCrossing
  <2>2. HasCrossing(D, src, d)
    BY <1>3 DEF HasCrossing
  <2>3. D.g \in SoundGraphs(V) /\ c # d
    BY <1>1
  <2>4. reported(a, b) <=> PairIsReported(D, src, c, d)
    BY <1>1 DEF Rule, PairIsReported
  <2>5. few(a, b) <=> FewPairs(StructuralFindings(D), src)
    BY <1>1 DEF Rule, Crossed, FewPairs, EndsOf
  <2> HIDE DEF reported, few, src, c, d
  <2>6. /\ PairIsReported(D, src, c, d) => PairIsBad(D, src, c, d)
        /\ PairIsBad(D, src, c, d) /\ FewPairs(StructuralFindings(D), src) =>
             PairIsReported(D, src, c, d)
    BY <1>2, <2>1, <2>2, <2>3, PairReported
  <2> QED
    BY <2>4, <2>5, <2>6
<1>7. hazard(a, b) <=> ~(D.at[src].width <= 1 /\ HasSyncChain(D, c) /\ HasSyncChain(D, d))
  <2>1. sketch.at[src].width > 1 <=> ~(D.at[src].width <= 1)
    BY <1>1, <1>5
  <2> DEFINE P(id) == FindPatternForDest(D, id, FALSE)
  <2>2. \A id : HasSyncChain(D, id) <=> P(id) # "None"
    BY DEF HasSyncChain
  <2>3. (\E f \in {a, b} : FindPatternForDest(Design, f.dst, FALSE) = "None") <=>
          P(c) = "None" \/ P(d) = "None"
    BY DEF D
  <2> HIDE DEF P
  <2> QED
    BY <2>1, <2>2, <2>3
<1>8. leaves(a, b) => src \in FindFanoutSources(D)
  <2> SUFFICES ASSUME leaves(a, b) PROVE src \in FindFanoutSources(D)
    OBVIOUS
  <2>1. \E f \in {a, b} : Clock(D, f.dst) # Clock(D, a.src)
    BY DEF D
  <2> QED
    BY <1>1, <1>3, <2>1, FanoutFound
<1> HIDE DEF next, hops
<1>9. ASSUME NEW id \in Registers(g)
      PROVE  /\ Descendants(D, id) \subseteq Behind(id)
             /\ Cardinality(Behind(id)) <= MaxDescendants => Descendants(D, id) = Behind(id)
  <2>1. /\ D.g \in SoundGraphs(V) /\ D.max_hops \in Nat /\ id \in Registers(D.g)
        /\ next = [r \in Registers(D.g) |-> RegistersReached(D.g, TRUE, r)]
    BY <1>1, <1>2, <1>9 DEF next
  <2>2. LET behind == WithinHops(next, D.max_hops, id) \ {id} IN
        /\ Descendants(D, id) \subseteq behind
        /\ Cardinality(behind) <= MaxDescendants => Descendants(D, id) = behind
    BY <1>2, <2>1, DescendantsWithin
  <2> QED
    BY <1>1, <2>2
<1> HIDE DEF Behind
<1>10. Descendants(D, c) \cap Descendants(D, d) # {} => meet(a, b)
  BY <1>4, <1>9
<1>11. all(a, b) /\ meet(a, b) => Descendants(D, c) \cap Descendants(D, d) # {}
  BY <1>4, <1>9
<1> HIDE DEF reported, hazard, leaves, meet, all, src, c, d
<1> QED
  BY <1>6, <1>7, <1>8, <1>10, <1>11 DEF PairIsBad

(* Reconvergence is reported exactly where a search of any order would     *)
(* find it, up to the number of registers it looks at                      *)
(* (ReconvergenceAnalyzer, reconvergence.cpp).                             *)
THEOREM ReconvergencesAreExact == Spec => []ReconvergenceExact
<1> QED
  BY GraphStaysSound, ReconvergenceOfSound, PTL
=============================================================================
