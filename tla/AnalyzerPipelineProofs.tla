----------------------- MODULE AnalyzerPipelineProofs -----------------------
(***************************************************************************)
(* Proofs about AnalyzerPipeline: any requests, designs, waivers, limits   *)
(* and days. First that all the rules together give finitely many findings *)
(* of one shape and what the rule table lets through, then the types of a  *)
(* call stage by stage, then the waivers and the layers of the rules, what *)
(* the findings say of the source, that a call on a changed graph agrees   *)
(* with a run, and the command around the calls.                           *)
(***************************************************************************)
EXTENDS CommandLine, GraphLemmas

(* The list of a finite set holds its elements and nothing else. *)
LEMMA OrderIsComplete ==
  ASSUME NEW S, IsFiniteSet(S)
  PROVE  /\ Cardinality(S) \in Nat
         /\ DOMAIN InSomeOrder(S) = 1..Cardinality(S)
         /\ InSomeOrder(S) \in Seq(S)
         /\ ToSet(InSomeOrder(S)) = S
<1> DEFINE n == Cardinality(S)
           a == S
           step == [p \in (SUBSET S) \X (1..n) |-> p[1] \ {Pick(p[1])}]
           Left(h) == h = [i \in 0..n |-> IF i = 0 THEN S
                                          ELSE LET rest == h[i - 1] IN rest \ {Pick(rest)}]
           h == CHOOSE f : Left(f)
<1>1. n \in Nat
  BY FS_CardinalityType
<1>2. \E f : Left(f)
  <2>1. step \in [(SUBSET S) \X (1..n) -> SUBSET S]
    OBVIOUS
  <2>2. PICK f \in [0..n -> SUBSET S] : Recursion(f, a, step, n)
    <3> HIDE DEF step
    <3> QED
      BY <1>1, <2>1, RecFcn
  <2>3. \A k \in 1..n : <<f[k - 1], k>> \in (SUBSET S) \X (1..n)
    <3> HIDE DEF n
    <3>1. \A k \in 1..n : k - 1 \in 0..n
      BY <1>1
    <3> QED
      BY <2>2, <3>1
  <2>4. f[0] = S /\ \A k \in 1..n : f[k] = f[k - 1] \ {Pick(f[k - 1])}
    BY <2>2, <2>3 DEF Recursion
  <2>5. Left(f)
    BY <1>1, <2>2, <2>4
  <2> QED
    BY <2>5
<1>3. Left(h)
  BY <1>2
<1> HIDE DEF h
<1>4. DOMAIN h = 0..n /\ h[0] = S /\ \A k \in 1..n : h[k] = h[k - 1] \ {Pick(h[k - 1])}
  <2> HIDE DEF n
  <2>1. DOMAIN h = 0..n
    BY <1>3
  <2>2. \A k \in 1..n : k \in 0..n /\ k # 0
    BY <1>1
  <2>3. 0 \in 0..n
    BY <1>1
  <2> QED
    BY <1>3, <2>1, <2>2, <2>3
<1>5. InSomeOrder(S) = [i \in 1..n |-> Pick(h[i - 1])]
  BY DEF InSomeOrder, h
<1> HIDE DEF n
<1> DEFINE s == InSomeOrder(S)
           Good == {k \in Nat : k <= n => /\ h[k] \subseteq S /\ IsFiniteSet(h[k])
                                          /\ Cardinality(h[k]) = n - k
                                          /\ S = h[k] \cup {s[i] : i \in 1..k}}
<1>6. 0 \in Good
  BY <1>1, <1>4 DEF n
<1>7. ASSUME NEW k \in Nat, k \in Good, k + 1 <= n
      PROVE  /\ Pick(h[k]) \in h[k] /\ h[k + 1] = h[k] \ {Pick(h[k])}
             /\ s[k + 1] = Pick(h[k])
  <2>1. IsFiniteSet(h[k]) /\ Cardinality(h[k]) # 0
    BY <1>1, <1>7
  <2>2. h[k] # {}
    BY <2>1, FS_EmptySet
  <2>3. k + 1 \in 1..n /\ (k + 1) - 1 = k
    BY <1>1, <1>7
  <2> QED
    BY <1>4, <1>5, <2>2, <2>3 DEF Pick
<1>8. ASSUME NEW k \in Nat, k \in Good PROVE k + 1 \in Good
  <2> SUFFICES ASSUME k + 1 <= n
               PROVE  /\ h[k + 1] \subseteq S /\ IsFiniteSet(h[k + 1])
                      /\ Cardinality(h[k + 1]) = n - (k + 1)
                      /\ S = h[k + 1] \cup {s[i] : i \in 1..(k + 1)}
    OBVIOUS
  <2>1. /\ Pick(h[k]) \in h[k] /\ h[k + 1] = h[k] \ {Pick(h[k])}
        /\ s[k + 1] = Pick(h[k])
    BY <1>7, <1>8
  <2>2. /\ h[k] \subseteq S /\ IsFiniteSet(h[k]) /\ Cardinality(h[k]) = n - k
        /\ S = h[k] \cup {s[i] : i \in 1..k}
    BY <1>1, <1>8
  <2>3. IsFiniteSet(h[k + 1]) /\ Cardinality(h[k + 1]) = (n - k) - 1
    BY <2>1, <2>2, FS_RemoveElement
  <2>4. 1..(k + 1) = (1..k) \cup {k + 1}
    OBVIOUS
  <2>5. {s[i] : i \in 1..(k + 1)} = {s[i] : i \in 1..k} \cup {Pick(h[k])}
    BY <2>1, <2>4
  <2>6. (n - k) - 1 = n - (k + 1)
    BY <1>1
  <2>7. h[k + 1] \subseteq S /\ S = h[k + 1] \cup {s[i] : i \in 1..(k + 1)}
    <3> HIDE DEF s
    <3> QED
      BY <2>1, <2>2, <2>5
  <2> QED
    BY <2>3, <2>6, <2>7
<1>9. Nat \subseteq Good
  <2> HIDE DEF Good
  <2> QED
    BY <1>6, <1>8, NatInd
<1>10. h[n] = {} /\ S = {s[i] : i \in 1..n}
  <2>1. n \in Good
    BY <1>1, <1>9
  <2>2. IsFiniteSet(h[n]) /\ Cardinality(h[n]) = 0 /\ S = h[n] \cup {s[i] : i \in 1..n}
    BY <1>1, <2>1
  <2> QED
    BY <2>2, FS_EmptySet
<1>11. DOMAIN s = 1..n /\ \A i \in 1..n : s[i] \in S
  BY <1>1, <1>5, <1>10
<1>12. s \in Seq(S)
  <2>1. s \in [1..n -> S]
    BY <1>5, <1>11
  <2> QED
    BY <1>1, <2>1
<1>13. ToSet(s) = S
  BY <1>10, <1>11 DEF ToSet
<1> QED
  BY <1>1, <1>11, <1>12, <1>13 DEF n

-----------------------------------------------------------------------------
(* The graph of a call always has a sequence of nodes.                     *)

(* The graph of a call before elaboration.                                 *)
LEMMA EmptyGraphSized == Sized(EmptyGraph)
<1>1. EmptyGraph.nodes \in Seq({})
  BY DEF EmptyGraph
<1> QED
  BY <1>1 DEF Sized, EmptyGraph

(* add_edge leaves the nodes alone.                                        *)
LEMMA AddEdgeSized ==
  ASSUME NEW g, Sized(g), NEW from, NEW to
  PROVE  Sized(AddEdge(g, from, to))
<1> DEFINE h == AddEdge(g, from, to)
<1>1. "nodes" \in DOMAIN h /\ h.nodes = g.nodes
  BY DEF Sized, AddEdge
<1> QED
  BY <1>1 DEF Sized

(* A node that is new is appended.                                         *)
LEMMA InsertSized ==
  ASSUME NEW g, Sized(g), NEW name, NEW kind, NEW clock, NEW logic, NEW inputs
  PROVE  Sized(Insert(g, name, kind, clock, logic, inputs))
<1> DEFINE h == Insert(g, name, kind, clock, logic, inputs)
           node == Node(g.next_id, name, kind, clock, logic, inputs)
<1>1. "nodes" \in DOMAIN h /\ h.nodes = Append(g.nodes, node)
  <2> HIDE DEF node
  <2> QED
    BY DEF Sized, Insert, node
<1>2. PICK X : g.nodes \in Seq(X)
  BY DEF Sized
<1>3. Append(g.nodes, node) \in Seq(X \cup {node})
  <2> HIDE DEF node
  <2>1. g.nodes \in Seq(X \cup {node})
    BY <1>2
  <2> QED
    BY <2>1
<1> QED
  BY <1>1, <1>3 DEF Sized

(* A register that is declared again keeps its place.                      *)
LEMMA RedeclareSized ==
  ASSUME NEW g, Sized(g), NEW name, NEW clock
  PROVE  Sized(Redeclare(g, name, clock))
<1> DEFINE h == Redeclare(g, name, clock)
           k == g.name_to_idx[name]
           old == g.nodes[k]
           new == [old EXCEPT !.clock_domain = IF @ = NoClock THEN clock ELSE @]
<1>1. "nodes" \in DOMAIN h /\ h.nodes = [g.nodes EXCEPT ![k] = new]
  BY DEF Sized, Redeclare
<1>2. PICK X : g.nodes \in Seq(X)
  BY DEF Sized
<1>3. [g.nodes EXCEPT ![k] = new] \in Seq(X \cup {new})
  <2> DEFINE n == Len(g.nodes)
             after == [g.nodes EXCEPT ![k] = new]
  <2> HIDE DEF new, k, old
  <2>1. g.nodes \in [1..n -> X \cup {new}] /\ n \in Nat
    BY <1>2
  <2> HIDE DEF n
  <2>2. after \in [1..n -> X \cup {new}]
    BY <2>1
  <2> HIDE DEF after
  <2>3. after \in Seq(X \cup {new})
    BY <2>1, <2>2
  <2> QED
    BY <2>3 DEF after
<1> QED
  BY <1>1, <1>3 DEF Sized

(* A node without inputs gets no edges. *)
LEMMA AddNoInputs ==
  ASSUME NEW g, NEW id
  PROVE  AddInputs(g, <<>>, id) = g
<1> DEFINE Made(w) == w = [n \in 0..Len(<<>>) |->
                              IF n = 0 THEN g ELSE AddEdge(w[n - 1], <<>>[n], id)]
           w == CHOOSE x : Made(x)
<1>1. Made([n \in 0..0 |-> g])
  OBVIOUS
<1>2. Made(w)
  BY <1>1
<1>3. w[0] = g
  <2> HIDE DEF w
  <2> QED
    BY <1>2
<1> QED
  BY <1>3 DEF AddInputs

(* A node of a design is inserted, declared again or dropped.              *)
LEMMA AddNodeSized ==
  ASSUME NEW g, Sized(g), NEW node
  PROVE  Sized(AddNode(g, node))
<1> DEFINE name == Len(g.nodes) + 1
           full == [g EXCEPT !.truncated = TRUE]
<1>1. Sized(full)
  BY DEF Sized
<1>2. Sized(AddRegister(g, name, node.clock).graph)
  BY <1>1, InsertSized, RedeclareSized DEF AddRegister
<1>3. Sized(AddCombinational(g, name, "Unknown", <<>>).graph)
  <2> DEFINE inserted == Insert(g, name, "Combinational", NoClock, "Unknown", <<>>)
  <2>1. Sized(inserted)
    BY InsertSized
  <2>2. AddInputs(inserted, <<>>, g.next_id) = inserted
    BY AddNoInputs
  <2> QED
    BY <1>1, <2>1, <2>2 DEF AddCombinational
<1>4. Sized(AddPlain(g, name, node.kind).graph)
  BY <1>1, InsertSized DEF AddPlain
<1> QED
  BY <1>2, <1>3, <1>4 DEF AddNode

(* All nodes of a design, however many there are.                          *)
LEMMA PlacedSized ==
  ASSUME NEW nodes, Len(nodes) \in Nat
  PROVE  Sized(Placed(nodes))
<1> DEFINE N == Len(nodes)
           Upto(w, m) == w = [n \in 0..m |-> IF n = 0 THEN EmptyGraph
                                             ELSE AddNode(w[n - 1], nodes[n])]
           Good == {m \in Nat : \E u : Upto(u, m)}
           w == CHOOSE x : Upto(x, N)
<1> HIDE DEF N
<1>1. 0 \in Good
  <2> DEFINE w0 == [n \in 0..0 |-> EmptyGraph]
  <2>1. Upto(w0, 0)
    OBVIOUS
  <2> QED
    BY <2>1
<1>2. ASSUME NEW m \in Nat, m \in Good PROVE m + 1 \in Good
  <2>1. PICK u : Upto(u, m)
    BY <1>2
  <2> DEFINE next == AddNode(u[m], nodes[m + 1])
             v == [n \in 0..m + 1 |-> IF n = m + 1 THEN next ELSE u[n]]
  <2>2. v[m + 1] = next /\ v[m] = u[m]
    OBVIOUS
  <2>3. \A n \in 0..m + 1 : v[n] = IF n = 0 THEN EmptyGraph ELSE AddNode(v[n - 1], nodes[n])
    <3> SUFFICES ASSUME NEW n \in 0..m + 1
                 PROVE  v[n] = IF n = 0 THEN EmptyGraph ELSE AddNode(v[n - 1], nodes[n])
      OBVIOUS
    <3>1. CASE n = m + 1
      BY <2>2, <3>1
    <3>2. CASE n # m + 1
      <4>1. n \in 0..m /\ v[n] = u[n] /\ (n # 0 => v[n - 1] = u[n - 1])
        BY <3>2
      <4> QED
        BY <2>1, <4>1
    <3> QED
      BY <3>1, <3>2
  <2>4. Upto(v, m + 1)
    <3>1. DOMAIN v = 0..m + 1 /\ v = [n \in 0..m + 1 |-> v[n]]
      OBVIOUS
    <3> HIDE DEF v
    <3> QED
      BY <2>3, <3>1
  <2> HIDE DEF Upto, v
  <2> QED
    BY <2>4
<1>3. N \in Good
  <2>1. N \in Nat
    BY DEF N
  <2> HIDE DEF Good
  <2> QED
    BY <1>1, <1>2, <2>1, NatInd
<1>4. Upto(w, N)
  BY <1>3
<1> HIDE DEF w
<1> DEFINE Fine == {n \in Nat : n <= N => Sized(w[n])}
<1>5. 0 \in Fine
  BY <1>4, EmptyGraphSized
<1>6. ASSUME NEW n \in Nat, n \in Fine PROVE n + 1 \in Fine
  <2> SUFFICES ASSUME n + 1 <= N PROVE Sized(w[n + 1])
    OBVIOUS
  <2>1. N \in Nat
    BY DEF N
  <2>2. n + 1 \in 0..N /\ n + 1 # 0 /\ (n + 1) - 1 = n /\ Sized(w[n])
    BY <1>6, <2>1
  <2>3. w[n + 1] = AddNode(w[n], nodes[n + 1])
    BY <1>4, <2>2
  <2> QED
    BY <2>2, <2>3, AddNodeSized
<1>7. Sized(w[N])
  <2>1. N \in Nat
    BY DEF N
  <2>2. Nat \subseteq Fine
    <3> HIDE DEF Fine
    <3> QED
      BY <1>5, <1>6, NatInd
  <2> QED
    BY <2>1, <2>2
<1> QED
  BY <1>7 DEF Placed, N, w

(* All edges of a design, however many there are.                          *)
LEMMA ConnectedSized ==
  ASSUME NEW g, Sized(g), NEW edges, Len(edges) \in Nat
  PROVE  Sized(Connected(g, edges))
<1> DEFINE N == Len(edges)
           Upto(w, m) == w = [n \in 0..m |-> IF n = 0 THEN g
                                     ELSE AddEdge(w[n - 1], edges[n][1], edges[n][2])]
           Good == {m \in Nat : \E u : Upto(u, m)}
           w == CHOOSE x : Upto(x, N)
<1> HIDE DEF N
<1>1. 0 \in Good
  <2> DEFINE w0 == [n \in 0..0 |-> g]
  <2>1. Upto(w0, 0)
    OBVIOUS
  <2> QED
    BY <2>1
<1>2. ASSUME NEW m \in Nat, m \in Good PROVE m + 1 \in Good
  <2>1. PICK u : Upto(u, m)
    BY <1>2
  <2> DEFINE next == AddEdge(u[m], edges[m + 1][1], edges[m + 1][2])
             v == [n \in 0..m + 1 |-> IF n = m + 1 THEN next ELSE u[n]]
  <2>2. v[m + 1] = next /\ v[m] = u[m]
    OBVIOUS
  <2>3. \A n \in 0..m + 1 : v[n] = IF n = 0 THEN g
                                  ELSE AddEdge(v[n - 1], edges[n][1], edges[n][2])
    <3> SUFFICES ASSUME NEW n \in 0..m + 1
                 PROVE  v[n] = IF n = 0 THEN g
                               ELSE AddEdge(v[n - 1], edges[n][1], edges[n][2])
      OBVIOUS
    <3>1. CASE n = m + 1
      BY <2>2, <3>1
    <3>2. CASE n # m + 1
      <4>1. n \in 0..m /\ v[n] = u[n] /\ (n # 0 => v[n - 1] = u[n - 1])
        BY <3>2
      <4> QED
        BY <2>1, <4>1
    <3> QED
      BY <3>1, <3>2
  <2>4. Upto(v, m + 1)
    <3>1. DOMAIN v = 0..m + 1 /\ v = [n \in 0..m + 1 |-> v[n]]
      OBVIOUS
    <3> HIDE DEF v
    <3> QED
      BY <2>3, <3>1
  <2> HIDE DEF Upto, v
  <2> QED
    BY <2>4
<1>3. N \in Good
  <2>1. N \in Nat
    BY DEF N
  <2> HIDE DEF Good
  <2> QED
    BY <1>1, <1>2, <2>1, NatInd
<1>4. Upto(w, N)
  BY <1>3
<1> HIDE DEF w
<1> DEFINE Fine == {n \in Nat : n <= N => Sized(w[n])}
<1>5. 0 \in Fine
  BY <1>4
<1>6. ASSUME NEW n \in Nat, n \in Fine PROVE n + 1 \in Fine
  <2> SUFFICES ASSUME n + 1 <= N PROVE Sized(w[n + 1])
    OBVIOUS
  <2>1. N \in Nat
    BY DEF N
  <2>2. n + 1 \in 0..N /\ n + 1 # 0 /\ (n + 1) - 1 = n /\ Sized(w[n])
    BY <1>6, <2>1
  <2>3. w[n + 1] = AddEdge(w[n], edges[n + 1][1], edges[n + 1][2])
    BY <1>4, <2>2
  <2> QED
    BY <2>2, <2>3, AddEdgeSized
<1>7. Sized(w[N])
  <2>1. N \in Nat
    BY DEF N
  <2>2. Nat \subseteq Fine
    <3> HIDE DEF Fine
    <3> QED
      BY <1>5, <1>6, NatInd
  <2> QED
    BY <2>1, <2>2
<1> QED
  BY <1>7 DEF Connected, N, w

(* The rules engine drops findings and changes severities.                 *)
LEMMA FilterFew ==
  ASSUME NEW engine, NEW F, Findings(F)
  PROVE  Findings(Filter(engine, F))
<1> DEFINE kept == {f \in F : f.rule \in RuleIds => engine[f.rule].enabled}
           g == [f \in kept |-> IF f.rule \in RuleIds /\ engine[f.rule].severity # NotGiven
                                THEN [f EXCEPT !.severity = engine[f.rule].severity] ELSE f]
<1>1. \A f \in kept : IsFinding(g[f])
  <2> SUFFICES ASSUME NEW f \in kept PROVE IsFinding(g[f])
    OBVIOUS
  <2>1. IsFinding(f)
    BY DEF Findings
  <2>2. IsFinding([f EXCEPT !.severity = engine[f.rule].severity])
    BY <2>1, BecauseIsOne
  <2> QED
    BY <2>1, <2>2
<1>2. Filter(engine, F) = {g[f] : f \in kept}
  BY DEF Filter
<1>3. IsFiniteSet(kept)
  <2>1. kept \in SUBSET F /\ IsFiniteSet(F)
    BY DEF Findings
  <2> HIDE DEF kept
  <2> QED
    BY <2>1, FS_Subset
<1>4. Findings({g[f] : f \in kept})
  <2> HIDE DEF g, kept
  <2> QED
    BY <1>1, <1>3, FindingsImage
<1> QED
  BY <1>2, <1>4

-----------------------------------------------------------------------------
(* The rule table.                                                         *)

(* What the first m overrides made of the table: a rule is enabled only if *)
(* none of them switched it off, and its severity is one that one of them  *)
(* gives, or the old one if none gives any.                                *)
Overridden(engine, overrides, m, e) ==
  /\ DOMAIN e = RuleIds
  /\ \A r \in RuleIds :
       LET of == {i \in 1..m : overrides[i].rule = r} IN
       /\ e[r].enabled => engine[r].enabled /\ \A i \in of : overrides[i].enabled
       /\ IF \A i \in of : overrides[i].severity = NotGiven
          THEN e[r].severity = engine[r].severity
          ELSE \E i \in of : /\ overrides[i].severity # NotGiven
                             /\ e[r].severity = overrides[i].severity

(* One more override.                                                      *)
LEMMA OverriddenNext ==
  ASSUME NEW engine, NEW overrides, NEW m \in Nat, NEW e,
         Overridden(engine, overrides, m, e), overrides[m + 1].rule \in RuleIds
  PROVE  Overridden(engine, overrides, m + 1, AddOverride(e, overrides[m + 1]))
<1> DEFINE o == overrides[m + 1]
           n == AddOverride(e, o)
           Of(k, r) == {i \in 1..k : overrides[i].rule = r}
<1>1. /\ DOMAIN e = RuleIds
      /\ \A r \in RuleIds :
           /\ e[r].enabled => engine[r].enabled /\ \A i \in Of(m, r) : overrides[i].enabled
           /\ IF \A i \in Of(m, r) : overrides[i].severity = NotGiven
              THEN e[r].severity = engine[r].severity
              ELSE \E i \in Of(m, r) : /\ overrides[i].severity # NotGiven
                                       /\ e[r].severity = overrides[i].severity
  BY DEF Overridden
<1>2. /\ DOMAIN n = RuleIds
      /\ \A r \in RuleIds : r # o.rule => n[r] = e[r]
      /\ n[o.rule].enabled = (e[o.rule].enabled /\ o.enabled)
      /\ n[o.rule].severity = IF o.severity = NotGiven THEN e[o.rule].severity ELSE o.severity
  BY <1>1 DEF AddOverride
<1>3. \A r \in RuleIds : Of(m + 1, r) = IF o.rule = r THEN Of(m, r) \cup {m + 1} ELSE Of(m, r)
  OBVIOUS
<1> HIDE DEF Of, n
<1>4. ASSUME NEW r \in RuleIds, r # o.rule
      PROVE  /\ n[r].enabled => engine[r].enabled /\ \A i \in Of(m + 1, r) : overrides[i].enabled
             /\ IF \A i \in Of(m + 1, r) : overrides[i].severity = NotGiven
                THEN n[r].severity = engine[r].severity
                ELSE \E i \in Of(m + 1, r) : /\ overrides[i].severity # NotGiven
                                             /\ n[r].severity = overrides[i].severity
  <2>1. Of(m + 1, r) = Of(m, r) /\ n[r] = e[r]
    BY <1>2, <1>3, <1>4
  <2> QED
    BY <1>1, <2>1
<1>5. ASSUME NEW r \in RuleIds, r = o.rule
      PROVE  /\ n[r].enabled => engine[r].enabled /\ \A i \in Of(m + 1, r) : overrides[i].enabled
             /\ IF \A i \in Of(m + 1, r) : overrides[i].severity = NotGiven
                THEN n[r].severity = engine[r].severity
                ELSE \E i \in Of(m + 1, r) : /\ overrides[i].severity # NotGiven
                                             /\ n[r].severity = overrides[i].severity
  <2>1. Of(m + 1, r) = Of(m, r) \cup {m + 1}
    BY <1>3, <1>5
  <2>2. n[r].enabled => e[r].enabled /\ o.enabled
    BY <1>2, <1>5
  <2>3. n[r].enabled => engine[r].enabled /\ \A i \in Of(m + 1, r) : overrides[i].enabled
    BY <1>1, <2>1, <2>2
  <2>4. CASE o.severity = NotGiven
    <3>1. n[r].severity = e[r].severity
      BY <1>2, <1>5, <2>4
    <3>2. \A i \in Of(m + 1, r) : i \in Of(m, r) \/ overrides[i].severity = NotGiven
      BY <2>1, <2>4
    <3>3. Of(m, r) \subseteq Of(m + 1, r)
      BY <2>1
    <3> HIDE DEF o
    <3> QED
      BY <1>1, <2>3, <3>1, <3>2, <3>3
  <2>5. CASE o.severity # NotGiven
    BY <1>2, <1>5, <2>1, <2>3, <2>5
  <2> QED
    BY <2>4, <2>5
<1> QED
  BY <1>2, <1>4, <1>5 DEF Overridden, Of, n

(* All overrides, however many there are.                                  *)
LEMMA AddOverridesIsOverridden ==
  ASSUME NEW engine, DOMAIN engine = RuleIds, NEW overrides, Len(overrides) \in Nat,
         \A i \in 1..Len(overrides) : overrides[i].rule \in RuleIds
  PROVE  Overridden(engine, overrides, Len(overrides), AddOverrides(engine, overrides))
<1> DEFINE N == Len(overrides)
           Upto(w, m) == w = [n \in 0..m |-> IF n = 0 THEN engine
                                             ELSE AddOverride(w[n - 1], overrides[n])]
           Good == {m \in Nat : \E u : Upto(u, m)}
           w == CHOOSE x : Upto(x, N)
<1> HIDE DEF N
<1>1. 0 \in Good
  <2> DEFINE w0 == [n \in 0..0 |-> engine]
  <2>1. Upto(w0, 0)
    OBVIOUS
  <2> QED
    BY <2>1
<1>2. ASSUME NEW m \in Nat, m \in Good PROVE m + 1 \in Good
  <2>1. PICK u : Upto(u, m)
    BY <1>2
  <2> DEFINE next == AddOverride(u[m], overrides[m + 1])
             v == [n \in 0..m + 1 |-> IF n = m + 1 THEN next ELSE u[n]]
  <2>2. v[m + 1] = next /\ v[m] = u[m]
    OBVIOUS
  <2>3. \A n \in 0..m + 1 : v[n] = IF n = 0 THEN engine ELSE AddOverride(v[n - 1], overrides[n])
    <3> SUFFICES ASSUME NEW n \in 0..m + 1
                 PROVE  v[n] = IF n = 0 THEN engine ELSE AddOverride(v[n - 1], overrides[n])
      OBVIOUS
    <3>1. CASE n = m + 1
      BY <2>2, <3>1
    <3>2. CASE n # m + 1
      <4>1. n \in 0..m /\ v[n] = u[n] /\ (n # 0 => v[n - 1] = u[n - 1])
        BY <3>2
      <4> QED
        BY <2>1, <4>1
    <3> QED
      BY <3>1, <3>2
  <2>4. Upto(v, m + 1)
    <3>1. DOMAIN v = 0..m + 1 /\ v = [n \in 0..m + 1 |-> v[n]]
      OBVIOUS
    <3> HIDE DEF v
    <3> QED
      BY <2>3, <3>1
  <2> HIDE DEF Upto, v
  <2> QED
    BY <2>4
<1>3. N \in Good
  <2>1. N \in Nat
    BY DEF N
  <2> HIDE DEF Good
  <2> QED
    BY <1>1, <1>2, <2>1, NatInd
<1>4. Upto(w, N)
  BY <1>3
<1> HIDE DEF w
<1> DEFINE Fine == {n \in Nat : n <= N => Overridden(engine, overrides, n, w[n])}
<1>5. 0 \in Fine
  <2>1. w[0] = engine
    BY <1>4 DEF N
  <2>2. Overridden(engine, overrides, 0, engine)
    BY DEF Overridden
  <2> QED
    BY <2>1, <2>2
<1>6. ASSUME NEW n \in Nat, n \in Fine PROVE n + 1 \in Fine
  <2> SUFFICES ASSUME n + 1 <= N PROVE Overridden(engine, overrides, n + 1, w[n + 1])
    OBVIOUS
  <2>1. N \in Nat
    BY DEF N
  <2>2. n + 1 \in 0..N /\ n + 1 # 0 /\ (n + 1) - 1 = n
        /\ Overridden(engine, overrides, n, w[n])
    BY <1>6, <2>1
  <2>3. w[n + 1] = AddOverride(w[n], overrides[n + 1])
    BY <1>4, <2>2
  <2>4. overrides[n + 1].rule \in RuleIds
    BY <2>1 DEF N
  <2> QED
    BY <2>2, <2>3, <2>4, OverriddenNext
<1>7. Overridden(engine, overrides, N, w[N])
  <2>1. N \in Nat
    BY DEF N
  <2>2. Nat \subseteq Fine
    <3> HIDE DEF Fine
    <3> QED
      BY <1>5, <1>6, NatInd
  <2> QED
    BY <2>1, <2>2
<1> QED
  BY <1>7 DEF AddOverrides, N, w

(* What that says of one rule.                                             *)
LEMMA OverriddenRule ==
  ASSUME NEW engine, NEW overrides, NEW m, NEW e, Overridden(engine, overrides, m, e),
         NEW r \in RuleIds
  PROVE  /\ e[r].enabled => engine[r].enabled
         /\ e[r].enabled =>
              \A i \in 1..m : overrides[i].rule = r => overrides[i].enabled
         /\ (\A i \in 1..m : overrides[i].rule = r => overrides[i].severity = NotGiven) =>
              e[r].severity = engine[r].severity
<1> DEFINE of == {i \in 1..m : overrides[i].rule = r}
<1>1. /\ e[r].enabled => engine[r].enabled /\ \A i \in of : overrides[i].enabled
      /\ IF \A i \in of : overrides[i].severity = NotGiven
         THEN e[r].severity = engine[r].severity
         ELSE \E i \in of : /\ overrides[i].severity # NotGiven
                            /\ e[r].severity = overrides[i].severity
  BY DEF Overridden
<1> QED
  BY <1>1

(* A severity that one of them gives is not lost.                          *)
LEMMA OverriddenSeverity ==
  ASSUME NEW engine, NEW overrides, NEW m, NEW e, Overridden(engine, overrides, m, e),
         NEW r \in RuleIds, NEW k \in 1..m,
         overrides[k].rule = r, overrides[k].severity # NotGiven
  PROVE  \E i \in 1..m : overrides[i].rule = r /\ e[r].severity = overrides[i].severity
<1> DEFINE of == {i \in 1..m : overrides[i].rule = r}
<1>1. IF \A i \in of : overrides[i].severity = NotGiven
      THEN e[r].severity = engine[r].severity
      ELSE \E i \in of : /\ overrides[i].severity # NotGiven
                         /\ e[r].severity = overrides[i].severity
  BY DEF Overridden
<1>2. k \in of
  OBVIOUS
<1> QED
  BY <1>1, <1>2

(* There are thirteen rules.                                               *)
LEMMA RuleIdsFinite == IsFiniteSet(RuleIds)
<1>1. RuleIds = {"CDC001"} \cup {"CDC002"} \cup {"CDC003"} \cup {"CDC004"} \cup {"CDC005"}
                \cup {"CDC006"} \cup {"CDC007"} \cup {"CDC008"} \cup {"CDC009"}
                \cup {"CDC010"} \cup {"CDC011"} \cup {"CDC012"} \cup {"CDC013"}
  BY DEF RuleIds
<1>2. \A x : IsFiniteSet({x})
  BY FS_Singleton
<1> QED
  BY <1>1, <1>2, FS_Union

(* A severity is a word.                                                   *)
LEMMA SeverityIsGiven == \A s \in Severities : s # NotGiven
<1>1. "error" # NotGiven /\ "warning" # NotGiven /\ "info" # NotGiven
  BY Zenon DEF NotGiven
<1> QED
  BY <1>1 DEF Severities

(* The entries of a configuration as overrides, in any order.              *)
EntriesOf(rules, overrides) ==
  /\ Len(overrides) \in Nat
  /\ \A i \in 1..Len(overrides) :
       /\ overrides[i].rule \in DOMAIN rules
       /\ overrides[i].enabled = rules[overrides[i].rule].enabled
       /\ overrides[i].severity = rules[overrides[i].rule].severity
  /\ \A r \in DOMAIN rules : \E i \in 1..Len(overrides) : overrides[i].rule = r

(* The rules a request disables as overrides.                              *)
DisablesOf(disable, overrides) ==
  /\ Len(overrides) \in Nat
  /\ \A i \in 1..Len(overrides) : /\ overrides[i].rule \in disable
                                  /\ ~overrides[i].enabled
                                  /\ overrides[i].severity = NotGiven
  /\ \A r \in disable : \E i \in 1..Len(overrides) : overrides[i].rule = r

(* The severities a request gives as overrides.                            *)
SeveritiesOf(severities, overrides) ==
  LET Gives(i, s) == overrides[i].rule = s.rule /\ overrides[i].severity = s.severity IN
  /\ Len(overrides) \in Nat
  /\ \A i \in 1..Len(overrides) : \E s \in severities : Gives(i, s)
  /\ \A s \in severities : \E i \in 1..Len(overrides) : Gives(i, s)

(* What an entry switches off is off, and it gives its severity.           *)
LEMMA RulesLayer ==
  ASSUME NEW rules, DOMAIN rules \subseteq RuleIds,
         NEW overrides, EntriesOf(rules, overrides)
  PROVE  LET e == AddOverrides(NewEngine, overrides) IN
         /\ DOMAIN e = RuleIds
         /\ \A r \in DOMAIN rules :
              /\ e[r].enabled => rules[r].enabled
              /\ rules[r].severity # NotGiven => e[r].severity = rules[r].severity
<1>0. /\ Len(overrides) \in Nat
      /\ \A i \in 1..Len(overrides) :
           /\ overrides[i].rule \in DOMAIN rules
           /\ overrides[i].enabled = rules[overrides[i].rule].enabled
           /\ overrides[i].severity = rules[overrides[i].rule].severity
      /\ \A r \in DOMAIN rules : \E i \in 1..Len(overrides) : overrides[i].rule = r
  BY DEF EntriesOf
<1> DEFINE e == AddOverrides(NewEngine, overrides)
<1>1. Overridden(NewEngine, overrides, Len(overrides), e)
  <2>1. DOMAIN NewEngine = RuleIds
    BY DEF NewEngine
  <2>2. \A i \in 1..Len(overrides) : overrides[i].rule \in RuleIds
    BY <1>0
  <2> QED
    BY <1>0, <2>1, <2>2, AddOverridesIsOverridden
<1> HIDE DEF e
<1>2. DOMAIN e = RuleIds
  BY <1>1 DEF Overridden
<1> SUFFICES ASSUME NEW r \in DOMAIN rules
             PROVE  /\ e[r].enabled => rules[r].enabled
                    /\ rules[r].severity # NotGiven => e[r].severity = rules[r].severity
  BY <1>2 DEF e
<1>3. PICK k \in 1..Len(overrides) : overrides[k].rule = r
  BY <1>0
<1>4. overrides[k].enabled = rules[r].enabled /\ overrides[k].severity = rules[r].severity
  BY <1>0, <1>3
<1>5. r \in RuleIds
  OBVIOUS
<1>6. e[r].enabled => rules[r].enabled
  <2>1. e[r].enabled => overrides[k].enabled
    BY <1>1, <1>3, <1>5, OverriddenRule
  <2> QED
    BY <1>4, <2>1
<1>7. ASSUME rules[r].severity # NotGiven PROVE e[r].severity = rules[r].severity
  <2>1. overrides[k].severity # NotGiven
    BY <1>4, <1>7
  <2>2. PICK i \in 1..Len(overrides) :
          overrides[i].rule = r /\ e[r].severity = overrides[i].severity
    BY <1>1, <1>3, <1>5, <2>1, OverriddenSeverity
  <2> QED
    BY <1>0, <2>2
<1> QED
  BY <1>6, <1>7

(* A disabled rule is off, the others are what they were.                  *)
LEMMA DisableLayer ==
  ASSUME NEW old, DOMAIN old = RuleIds, NEW disable, disable \subseteq RuleIds,
         NEW overrides, DisablesOf(disable, overrides)
  PROVE  LET e == AddOverrides(old, overrides) IN
         /\ DOMAIN e = RuleIds
         /\ \A r \in RuleIds : e[r].enabled => old[r].enabled /\ r \notin disable
         /\ \A r \in RuleIds : e[r].severity = old[r].severity
<1>0. /\ Len(overrides) \in Nat
      /\ \A i \in 1..Len(overrides) : /\ overrides[i].rule \in disable
                                      /\ ~overrides[i].enabled
                                      /\ overrides[i].severity = NotGiven
      /\ \A r \in disable : \E i \in 1..Len(overrides) : overrides[i].rule = r
  BY DEF DisablesOf
<1> DEFINE e == AddOverrides(old, overrides)
<1>1. Overridden(old, overrides, Len(overrides), e)
  <2>1. \A i \in 1..Len(overrides) : overrides[i].rule \in RuleIds
    BY <1>0
  <2> QED
    BY <1>0, <2>1, AddOverridesIsOverridden
<1> HIDE DEF e
<1>2. DOMAIN e = RuleIds
  BY <1>1 DEF Overridden
<1>3. ASSUME NEW r \in RuleIds
      PROVE  (e[r].enabled => old[r].enabled) /\ e[r].severity = old[r].severity
  BY <1>0, <1>1, OverriddenRule
<1>4. ASSUME NEW r \in RuleIds, r \in disable PROVE ~e[r].enabled
  <2>1. PICK k \in 1..Len(overrides) : overrides[k].rule = r
    BY <1>0, <1>4
  <2>2. e[r].enabled => overrides[k].enabled
    BY <1>1, <2>1, OverriddenRule
  <2> QED
    BY <1>0, <2>2
<1> QED
  BY <1>2, <1>3, <1>4 DEF e

(* A severity that is given stands, the others are what they were.         *)
LEMMA SeverityLayer ==
  ASSUME NEW old, DOMAIN old = RuleIds,
         NEW severities, \A s \in severities : s.rule \in RuleIds /\ s.severity # NotGiven,
         NEW overrides, SeveritiesOf(severities, overrides)
  PROVE  LET e == AddOverrides(old, overrides) IN
         \A r \in RuleIds :
           /\ e[r].enabled => old[r].enabled
           /\ IF \E s \in severities : s.rule = r
              THEN \E s \in severities : s.rule = r /\ e[r].severity = s.severity
              ELSE e[r].severity = old[r].severity
<1>0. /\ Len(overrides) \in Nat
      /\ \A i \in 1..Len(overrides) : \E s \in severities :
           overrides[i].rule = s.rule /\ overrides[i].severity = s.severity
      /\ \A s \in severities : \E i \in 1..Len(overrides) :
           overrides[i].rule = s.rule /\ overrides[i].severity = s.severity
  BY DEF SeveritiesOf
<1> DEFINE e == AddOverrides(old, overrides)
<1>1. Overridden(old, overrides, Len(overrides), e)
  <2>1. \A i \in 1..Len(overrides) : overrides[i].rule \in RuleIds
    BY <1>0
  <2> QED
    BY <1>0, <2>1, AddOverridesIsOverridden
<1> SUFFICES ASSUME NEW r \in RuleIds
             PROVE  /\ e[r].enabled => old[r].enabled
                    /\ IF \E s \in severities : s.rule = r
                       THEN \E s \in severities : s.rule = r /\ e[r].severity = s.severity
                       ELSE e[r].severity = old[r].severity
  OBVIOUS
<1> HIDE DEF e
<1>2. e[r].enabled => old[r].enabled
  BY <1>1, OverriddenRule
<1>3. ASSUME NEW s \in severities, s.rule = r
      PROVE  \E t \in severities : t.rule = r /\ e[r].severity = t.severity
  <2>1. PICK k \in 1..Len(overrides) :
          overrides[k].rule = r /\ overrides[k].severity # NotGiven
    BY <1>0, <1>3
  <2>2. PICK i \in 1..Len(overrides) :
          overrides[i].rule = r /\ e[r].severity = overrides[i].severity
    BY <1>1, <2>1, OverriddenSeverity
  <2>3. PICK t \in severities : overrides[i].rule = t.rule /\ overrides[i].severity = t.severity
    BY <1>0
  <2> QED
    BY <2>2, <2>3
<1>4. ASSUME ~\E s \in severities : s.rule = r PROVE e[r].severity = old[r].severity
  <2>1. \A i \in 1..Len(overrides) : overrides[i].rule # r
    BY <1>0, <1>4
  <2> QED
    BY <1>1, <2>1, OverriddenRule
<1> QED
  BY <1>2, <1>3, <1>4

(* The rule table of a call, whose overrides name rules and severities.    *)
LEMMA OverridesInLayers ==
  ASSUME NEW config, NEW disable, NEW severities,
         ~BadOverride(config, disable, severities),
         Len(disable) \in Nat, DOMAIN disable = 1..Len(disable),
         Len(severities) \in Nat, DOMAIN severities = 1..Len(severities)
  PROVE  LET engine == WithOverrides(config, disable, severities) IN
         \A r \in RuleIds :
           /\ engine[r].enabled =>
                /\ r \notin ToSet(disable)
                /\ r \in DOMAIN config.rules => config.rules[r].enabled
           /\ IF \E s \in ToSet(severities) : s.rule = r
              THEN \E s \in ToSet(severities) : s.rule = r /\ engine[r].severity = s.severity
              ELSE r \in DOMAIN config.rules /\ config.rules[r].severity # NotGiven =>
                     engine[r].severity = config.rules[r].severity
<1> DEFINE rules == InSomeOrder(DOMAIN config.rules)
           first == [i \in DOMAIN rules |->
                       Override(rules[i], config.rules[rules[i]].enabled,
                                config.rules[rules[i]].severity)]
           second == [i \in DOMAIN disable |-> Override(disable[i], FALSE, NotGiven)]
           third == [i \in DOMAIN severities |->
                       Override(severities[i].rule, TRUE, severities[i].severity)]
           configured == AddOverrides(NewEngine, first)
           allowed == AddOverrides(configured, second)
           engine == AddOverrides(allowed, third)
<1>1. /\ DOMAIN config.rules \subseteq RuleIds
      /\ ToSet(disable) \subseteq RuleIds
      /\ \A s \in ToSet(severities) : s.rule \in RuleIds /\ s.severity # NotGiven
  BY SeverityIsGiven DEF BadOverride
<1>2. Len(rules) \in Nat /\ DOMAIN rules = 1..Len(rules) /\ ToSet(rules) = DOMAIN config.rules
  <2>1. IsFiniteSet(DOMAIN config.rules)
    BY <1>1, RuleIdsFinite, FS_Subset
  <2> QED
    BY <2>1, OrderIsComplete
<1> HIDE DEF rules
<1>3. /\ Len(first) = Len(rules)
      /\ \A i \in 1..Len(first) : /\ first[i].rule = rules[i] /\ rules[i] \in DOMAIN config.rules
                                  /\ first[i].enabled = config.rules[rules[i]].enabled
                                  /\ first[i].severity = config.rules[rules[i]].severity
  BY <1>2 DEF Override, ToSet
<1>4. /\ Len(second) = Len(disable)
      /\ \A i \in 1..Len(second) : /\ second[i].rule = disable[i] /\ disable[i] \in ToSet(disable)
                                   /\ ~second[i].enabled /\ second[i].severity = NotGiven
  BY DEF Override, ToSet
<1>5. /\ Len(third) = Len(severities)
      /\ \A i \in 1..Len(third) : /\ third[i].rule = severities[i].rule
                                  /\ severities[i] \in ToSet(severities)
                                  /\ third[i].severity = severities[i].severity
  BY DEF Override, ToSet
<1>6. WithOverrides(config, disable, severities) = engine
  BY DEF WithOverrides, rules
<1> HIDE DEF first, second, third
<1>7. /\ DOMAIN configured = RuleIds
      /\ \A r \in DOMAIN config.rules :
           /\ configured[r].enabled => config.rules[r].enabled
           /\ config.rules[r].severity # NotGiven =>
                configured[r].severity = config.rules[r].severity
  <2>1. EntriesOf(config.rules, first)
    <3>1. \A r \in DOMAIN config.rules : \E i \in 1..Len(first) : first[i].rule = r
      BY <1>2, <1>3 DEF ToSet
    <3> QED
      BY <1>2, <1>3, <3>1 DEF EntriesOf
  <2> QED
    BY <1>1, <2>1, RulesLayer
<1>8. /\ DOMAIN allowed = RuleIds
      /\ \A r \in RuleIds :
           /\ allowed[r].enabled => configured[r].enabled /\ r \notin ToSet(disable)
           /\ allowed[r].severity = configured[r].severity
  <2>1. DisablesOf(ToSet(disable), second)
    <3>1. \A r \in ToSet(disable) : \E i \in 1..Len(second) : second[i].rule = r
      BY <1>4 DEF ToSet
    <3> QED
      BY <1>4, <3>1 DEF DisablesOf
  <2>2. DOMAIN configured = RuleIds /\ ToSet(disable) \subseteq RuleIds
    BY <1>1, <1>7
  <2> HIDE DEF configured
  <2>3. DOMAIN allowed = RuleIds
    BY <2>1, <2>2, DisableLayer
  <2>4. \A r \in RuleIds : allowed[r].enabled => configured[r].enabled /\ r \notin ToSet(disable)
    BY <2>1, <2>2, DisableLayer
  <2>5. \A r \in RuleIds : allowed[r].severity = configured[r].severity
    BY <2>1, <2>2, DisableLayer
  <2> QED
    BY <2>3, <2>4, <2>5
<1>9. \A r \in RuleIds :
        /\ engine[r].enabled => allowed[r].enabled
        /\ IF \E s \in ToSet(severities) : s.rule = r
           THEN \E s \in ToSet(severities) : s.rule = r /\ engine[r].severity = s.severity
           ELSE engine[r].severity = allowed[r].severity
  <2>1. SeveritiesOf(ToSet(severities), third)
    <3>1. \A s \in ToSet(severities) : \E i \in 1..Len(third) :
            third[i].rule = s.rule /\ third[i].severity = s.severity
      BY <1>5 DEF ToSet
    <3> QED
      BY <1>5, <3>1 DEF SeveritiesOf
  <2>2. DOMAIN allowed = RuleIds
    BY <1>8
  <2>3. \A s \in ToSet(severities) : s.rule \in RuleIds /\ s.severity # NotGiven
    BY <1>1
  <2> HIDE DEF allowed
  <2> QED
    BY <2>1, <2>2, <2>3, SeverityLayer
<1> HIDE DEF configured, allowed, engine
<1> QED
  BY <1>1, <1>6, <1>7, <1>8, <1>9

(* A profile laid over a configuration leaves the entries of other rules,  *)
(* and of those it names what it says nothing of.                          *)
LEMMA ProfileLayer ==
  ASSUME NEW config, "rules" \in DOMAIN config, NEW name, NEW over,
         over = ApplyProfile(config, name)
  PROVE  /\ DOMAIN config.rules \cup ProfileErrors(name) \cup ProfileDisables(name)
              \subseteq DOMAIN over.rules
         /\ \A r \in ProfileDisables(name) : ~over.rules[r].enabled
         /\ \A r \in DOMAIN config.rules :
              over.rules[r].enabled => config.rules[r].enabled
         /\ \A r \in ProfileErrors(name) : over.rules[r].severity = "error"
         /\ \A r \in (DOMAIN config.rules) \ ProfileErrors(name) :
              over.rules[r].severity = config.rules[r].severity
<1> DEFINE old(r) == IF r \in DOMAIN config.rules THEN config.rules[r] ELSE RuleEntry(<<>>)
           errors == ProfileErrors(name)
           disables == ProfileDisables(name)
           set(r) == [enabled |-> r \notin disables /\ old(r).enabled,
                      severity |-> IF r \in errors THEN "error" ELSE old(r).severity]
           named == [r \in errors \cup disables |-> set(r)]
<1>1. CASE name = NotGiven
  <2>1. NotGiven # "strict" /\ NotGiven # "asic_signoff"
        /\ NotGiven # "fpga" /\ NotGiven # "ip_development"
    BY Zenon DEF NotGiven
  <2>2. errors = {} /\ disables = {}
    BY <1>1, <2>1 DEF ProfileErrors, ProfileDisables
  <2>3. over = config
    BY <1>1 DEF ApplyProfile
  <2> QED
    BY <2>2, <2>3
<1>2. CASE name # NotGiven
  <2>1. over.rules = Over(named, config.rules)
    <3> DEFINE both == Over(ProfileSettings(name), config)
    <3>1. over = [both EXCEPT !.rules = Over(named, config.rules)]
      BY <1>2 DEF ApplyProfile
    <3>2. "rules" \in DOMAIN both
      BY DEF Over
    <3> HIDE DEF both, named
    <3> QED
      BY <3>1, <3>2
  <2>2. DOMAIN over.rules = errors \cup disables \cup DOMAIN config.rules
        /\ \A r \in errors \cup disables : over.rules[r] = set(r)
    BY <2>1 DEF Over
  <2>9. \A r \in (DOMAIN config.rules) \ (errors \cup disables) :
          over.rules[r] = config.rules[r]
    BY <2>1 DEF Over
  <2>3. \A r \in disables : ~set(r).enabled
    OBVIOUS
  <2>4. \A r \in DOMAIN config.rules : set(r).enabled => config.rules[r].enabled
    OBVIOUS
  <2>5. \A r \in errors : set(r).severity = "error"
    OBVIOUS
  <2>6. \A r \in (DOMAIN config.rules) \ errors : set(r).severity = config.rules[r].severity
    OBVIOUS
  <2> HIDE DEF old, errors, disables, set, named
  <2>7. \A r \in DOMAIN config.rules : over.rules[r].enabled => config.rules[r].enabled
    <3> SUFFICES ASSUME NEW r \in DOMAIN config.rules, over.rules[r].enabled
                 PROVE  config.rules[r].enabled
      OBVIOUS
    <3>1. CASE r \in errors \cup disables
      BY <2>2, <2>4, <3>1
    <3>2. CASE r \notin errors \cup disables
      <4>1. r \in (DOMAIN config.rules) \ (errors \cup disables)
        BY <3>2
      <4>2. over.rules[r] = config.rules[r]
        BY <2>9, <4>1
      <4> QED
        BY <4>2
    <3> QED
      BY <3>1, <3>2
  <2>8. \A r \in (DOMAIN config.rules) \ errors :
          over.rules[r].severity = config.rules[r].severity
    <3> SUFFICES ASSUME NEW r \in (DOMAIN config.rules) \ errors
                 PROVE  over.rules[r].severity = config.rules[r].severity
      OBVIOUS
    <3>1. CASE r \in disables
      BY <2>2, <2>6, <3>1
    <3>2. CASE r \notin disables
      <4>1. r \in (DOMAIN config.rules) \ (errors \cup disables)
        BY <3>2
      <4>2. over.rules[r] = config.rules[r]
        BY <2>9, <4>1
      <4> QED
        BY <4>2
    <3> QED
      BY <3>1, <3>2
  <2> QED
    BY <2>2, <2>3, <2>5, <2>7, <2>8 DEF errors, disables
<1> QED
  BY <1>1, <1>2

(* A finding that has passed the engine.                                   *)
Allowed(engine, f) ==
  f.rule \in RuleIds =>
    /\ engine[f.rule].enabled
    /\ engine[f.rule].severity # NotGiven => f.severity = engine[f.rule].severity

(* The engine lets no other through.                                       *)
LEMMA FilterAllows ==
  ASSUME NEW engine, NEW F, Findings(F), NEW h \in Filter(engine, F)
  PROVE  Allowed(engine, h)
<1>1. PICK f \in F :
        /\ f.rule \in RuleIds => engine[f.rule].enabled
        /\ h = IF f.rule \in RuleIds /\ engine[f.rule].severity # NotGiven
               THEN [f EXCEPT !.severity = engine[f.rule].severity] ELSE f
  BY DEF Filter
<1>2. IsFinding(f)
  BY DEF Findings
<1>3. CASE f.rule \in RuleIds /\ engine[f.rule].severity # NotGiven
  <2>1. h.rule = f.rule /\ h.severity = engine[f.rule].severity
    <3>1. h = [f EXCEPT !.severity = engine[f.rule].severity]
      BY <1>1, <1>3
    <3>2. "rule" \in DOMAIN f /\ "severity" \in DOMAIN f
      BY <1>2 DEF IsFinding
    <3> QED
      BY <3>1, <3>2
  <2> QED
    BY <1>1, <2>1 DEF Allowed
<1>4. CASE ~(f.rule \in RuleIds /\ engine[f.rule].severity # NotGiven)
  <2>1. h = f
    BY <1>1, <1>4
  <2> QED
    BY <1>1, <1>4, <2>1 DEF Allowed
<1> QED
  BY <1>3, <1>4

-----------------------------------------------------------------------------
(* What is true of every record the pipeline works on.                     *)

(* A finding with the number of the waiver that covers it, or 0.           *)
IsNoted(f) ==
  f = [rule |-> f.rule, severity |-> f.severity, src |-> f.src, dst |-> f.dst,
       path |-> f.path, status |-> f.status, why |-> f.why, by |-> f.by]

Noted(F) == IsFiniteSet(F) /\ \A f \in F : IsNoted(f)

(* A finding nobody has waived yet.                                        *)
LEMMA PutIsNoted ==
  ASSUME NEW f, IsFinding(f)
  PROVE  /\ IsNoted(Put(f, "by", 0))
         /\ Put(f, "by", 0).by = 0 /\ Put(f, "by", 0).rule = f.rule
         /\ Put(f, "by", 0).severity = f.severity
<1>1. PICK r, s, a, b, p, t, w :
        f = [rule |-> r, severity |-> s, src |-> a, dst |-> b, path |-> p,
             status |-> t, why |-> w]
  BY DEF IsFinding
<1>2. Put(f, "by", 0) = [rule |-> r, severity |-> s, src |-> a, dst |-> b, path |-> p,
                         status |-> t, why |-> w, by |-> 0]
  BY <1>1 DEF Put
<1> QED
  BY <1>1, <1>2 DEF IsNoted

(* The number of the waiver is all that apply writes.                      *)
LEMMA NotedBy ==
  ASSUME NEW f, IsNoted(f), NEW by, NEW g, g = [f EXCEPT !.by = by]
  PROVE  /\ IsNoted(g)
         /\ g.rule = f.rule /\ g.severity = f.severity /\ g.src = f.src
         /\ g.dst = f.dst /\ g.path = f.path /\ g.status = f.status
         /\ g.why = f.why /\ g.by = by
<1>1. PICK r, s, a, b, p, t, w, v :
        f = [rule |-> r, severity |-> s, src |-> a, dst |-> b, path |-> p,
             status |-> t, why |-> w, by |-> v]
  BY DEF IsNoted
<1>2. g = [rule |-> r, severity |-> s, src |-> a, dst |-> b, path |-> p,
           status |-> t, why |-> w, by |-> by]
  BY <1>1
<1> QED
  BY <1>1, <1>2 DEF IsNoted

(* The findings as the waivers get them.                                   *)
LEMMA PutAllNoted ==
  ASSUME NEW F, Findings(F)
  PROVE  Noted({Put(f, "by", 0) : f \in F})
<1> DEFINE g == [f \in F |-> Put(f, "by", 0)]
<1>1. {Put(f, "by", 0) : f \in F} = {g[f] : f \in F}
  OBVIOUS
<1>2. IsFiniteSet({g[f] : f \in F})
  <2> HIDE DEF g
  <2> QED
    BY FiniteImage DEF Findings
<1>3. \A f \in F : IsNoted(g[f])
  BY PutIsNoted DEF Findings
<1> QED
  BY <1>1, <1>2, <1>3 DEF Noted

(* One finding is replaced by its waived form.                             *)
LEMMA NotedReplace ==
  ASSUME NEW F, Noted(F), NEW f, IsNoted(f), NEW by
  PROVE  Noted((F \ {f}) \cup {[f EXCEPT !.by = by]})
<1> DEFINE g == [f EXCEPT !.by = by]
<1>1. IsNoted(g)
  BY NotedBy
<1> HIDE DEF g
<1>2. IsFiniteSet((F \ {f}) \cup {g})
  BY FS_RemoveElement, FS_AddElement DEF Noted
<1>3. Noted((F \ {f}) \cup {g})
  BY <1>1, <1>2 DEF Noted
<1> QED
  BY <1>3 DEF g

(* The stages of a call, and the caller between two calls.                 *)
Stages == {"idle", "configure", "elaborate", "constrain", "set_rules", "analyse",
           "load_waivers", "waive", "check_unused", "judge"}
WorkFields == {"config", "constraints", "false_paths", "engine", "g", "at", "proven",
               "unknown", "findings", "todo", "waivers", "warnings", "began", "seen"}
ResultFields == {"ok", "status", "findings", "signoff", "coverage", "g", "at"}

Warnings == {"expired", "unused", "broad", "none"}

(* A list of findings.                                                     *)
Listed(todo) == \E S : Noted(S) /\ todo \in Seq(S)

(* Waivers with a day, or with a day that cannot be read.                  *)
Dated(waivers) ==
  /\ Len(waivers) \in Nat /\ DOMAIN waivers = 1..Len(waivers)
  /\ \A i \in DOMAIN waivers : waivers[i].expiry \in Nat

(* The locals of run_on_graph.                                             *)
IsWork(w) ==
  /\ DOMAIN w = WorkFields
  /\ Sized(w.g)
  /\ Noted(w.findings)
  /\ Listed(w.todo)
  /\ Dated(w.waivers)
  /\ w.warnings \in Seq(Warnings)

(* A result as the caller gets it.                                         *)
IsResult(r) ==
  /\ DOMAIN r = ResultFields
  /\ Sized(r.g)
  /\ Noted(r.findings)

(* The verdict is the one of its findings under some methodology.          *)
Verdict(r) ==
  /\ r.status \in {"failed", "incomplete", "complete"}
  /\ \E methodology : r.signoff = Evaluate(r.findings, r.status, methodology)

(* Types of the variables, and what every result satisfies.                *)
TypeInv ==
  /\ today \in 1..(Never - 1)
  /\ pc \in Stages
  /\ mode \in {"run", "incremental"}
  /\ WellFormed(request)
  /\ calls \in Nat
  /\ IsWork(work)
  /\ work.began \in 0..today
  /\ pc \notin {"idle", "configure"} =>
       work.config = ApplyProfile(ConfigOf(request).config, request.profile)
  /\ IsResult(result)
  /\ Verdict(result) \/ (result.status = "no_changes" /\ calls > 1)
  /\ IsResult(held)
  /\ Verdict(held)

(* No findings.                                                            *)
LEMMA NothingNoted == Noted({})
BY FS_EmptySet DEF Noted

(* Nothing left to look at.                                                *)
LEMMA NothingListed == Listed(<<>>)
<1>1. <<>> \in Seq({})
  OBVIOUS
<1> QED
  BY <1>1, NothingNoted DEF Listed

(* The locals of a call before its first stage.                            *)
LEMMA NoWorkIsWork ==
  /\ IsWork(NoWork) /\ NoWork.began = 0
  /\ NoWork.warnings = <<>> /\ NoWork.findings = {}
<1>1. DOMAIN NoWork = WorkFields
  BY DEF NoWork, WorkFields
<1>2. /\ NoWork.g = EmptyGraph /\ NoWork.findings = {} /\ NoWork.todo = <<>>
      /\ NoWork.waivers = <<>> /\ NoWork.warnings = <<>> /\ NoWork.began = 0
  BY DEF NoWork
<1>3. Dated(<<>>)
  BY DEF Dated
<1>4. <<>> \in Seq(Warnings)
  OBVIOUS
<1> HIDE DEF NoWork
<1>5. IsWork(NoWork)
  BY <1>1, <1>2, <1>3, <1>4, EmptyGraphSized, NothingNoted, NothingListed DEF IsWork
<1> QED
  BY <1>2, <1>5

(* The locals of a call that begins today.                                 *)
LEMMA Begun ==
  ASSUME NEW w, NEW began, NEW seen, NEW proven,
         \/ w = [NoWork EXCEPT !.began = began, !.proven = proven, !.seen = seen]
         \/ w = [NoWork EXCEPT !.began = began, !.seen = seen]
  PROVE  IsWork(w) /\ w.began = began /\ w.warnings = <<>> /\ w.findings = {}
<1>1. DOMAIN NoWork = WorkFields
  BY NoWorkIsWork DEF IsWork
<1>2. /\ DOMAIN w = WorkFields
      /\ w.g = NoWork.g /\ w.findings = NoWork.findings /\ w.todo = NoWork.todo
      /\ w.waivers = NoWork.waivers /\ w.warnings = NoWork.warnings /\ w.began = began
  BY <1>1 DEF WorkFields
<1> QED
  BY <1>2, NoWorkIsWork DEF IsWork

(* A call that fails gives ERROR, whatever the graph.                      *)
LEMMA FailedIsResult ==
  ASSUME NEW g, Sized(g), NEW at
  PROVE  IsResult(Failed(g, at)) /\ Verdict(Failed(g, at))
<1>1. IsResult(Failed(g, at))
  BY NothingNoted DEF Failed, IsResult, ResultFields
<1>2. Verdict(Failed(g, at))
  <2>1. Evaluate({}, "failed", "") = "ERROR"
    BY DEF Evaluate
  <2>2. /\ Failed(g, at).status = "failed" /\ Failed(g, at).findings = {}
        /\ Failed(g, at).signoff = "ERROR"
    BY DEF Failed
  <2> QED
    BY <2>1, <2>2 DEF Verdict
<1> QED
  BY <1>1, <1>2

(* The first state, for any set of well-formed requests.                   *)
LEMMA TypeInit ==
  ASSUME NEW R, \A r \in R : WellFormed(r), InitFor(R)
  PROVE  TypeInv
<1>1. IsResult(result) /\ Verdict(result) /\ IsResult(held) /\ Verdict(held)
  BY FailedIsResult, EmptyGraphSized DEF InitFor
<1>2. IsWork(work) /\ work.began \in 0..today
  <2>1. work = NoWork /\ today = 1
    BY DEF InitFor
  <2> QED
    BY <2>1, NoWorkIsWork
<1> QED
  BY <1>1, <1>2 DEF InitFor, TypeInv, Stages, Never

(* What a step keeps of the locals it does not write. *)
LEMMA StillWork ==
  ASSUME NEW w, IsWork(w), NEW v, DOMAIN v = WorkFields,
         Sized(v.g), v.findings = w.findings, v.todo = w.todo,
         v.waivers = w.waivers, v.warnings = w.warnings
  PROVE  IsWork(v)
BY DEF IsWork

(* A day passes.                                                           *)
LEMMA StepDay ==
  ASSUME TypeInv, day_passes
  PROVE  TypeInv'
<1>1. today' \in 1..(Never - 1) /\ work.began \in 0..today'
  BY AnalyzerPipelineAssumption DEF TypeInv, day_passes, Never
<1> QED
  BY <1>1 DEF TypeInv, day_passes

(* A stage that fails.                                                     *)
LEMMA StepFail ==
  ASSUME TypeInv, NEW g, Sized(g), NEW at, Fail(g, at),
         UNCHANGED <<today, mode, request, calls>>
  PROVE  TypeInv'
<1>1. IsResult(Failed(g, at)) /\ Verdict(Failed(g, at))
  BY FailedIsResult
<1>2. IsResult(result') /\ Verdict(result') /\ pc' = "idle" /\ work' = work
  BY <1>1 DEF Fail
<1>3. IsResult(held') /\ Verdict(held')
  BY <1>1 DEF Fail, TypeInv
<1>4. IsResult(result)' /\ Verdict(result)' /\ IsResult(held)' /\ Verdict(held)'
  BY <1>2, <1>3
<1> QED
  BY <1>2, <1>4 DEF TypeInv, Stages

(* A call of run begins.                                                   *)
LEMMA StepRun ==
  ASSUME TypeInv, run
  PROVE  TypeInv'
<1>1. IsWork(work') /\ work'.began = today
  BY Begun DEF run
<1>2. calls = 0 /\ calls' = 1 /\ pc' = "configure" /\ mode' = "run"
      /\ UNCHANGED <<today, request, result, held>>
  BY DEF run
<1>3. Verdict(result)
  BY <1>2 DEF TypeInv
<1> QED
  BY <1>1, <1>2, <1>3 DEF TypeInv, Stages

(* A call of run_incremental begins or is refused.                         *)
LEMMA StepIncremental ==
  ASSUME TypeInv, NEW r \in Requests, run_incremental(r)
  PROVE  TypeInv'
<1>1. /\ pc = "idle" /\ calls \in 1..(MaxCalls - 1) /\ calls' = calls + 1
      /\ request' = r /\ mode' = "incremental" /\ today' = today /\ held' = held
  BY DEF run_incremental
<1>2. WellFormed(r)
  BY AnalyzerPipelineAssumption
<1>3. calls' \in Nat /\ calls' > 1
  BY <1>1, AnalyzerPipelineAssumption
<1>4. CASE held.g.dirty
  <2>1. IsWork(work') /\ work'.began = today
    BY <1>4, Begun DEF run_incremental
  <2>2. pc' = "configure" /\ result' = result
    BY <1>4 DEF run_incremental
  <2>3. Verdict(result) \/ (result.status = "no_changes" /\ calls' > 1)
    BY <1>3 DEF TypeInv
  <2> QED
    BY <1>1, <1>2, <1>3, <2>1, <2>2, <2>3 DEF TypeInv, Stages
<1>5. CASE ~held.g.dirty
  <2>1. result' = [held EXCEPT !.ok = TRUE, !.status = "no_changes"]
        /\ pc' = pc /\ work' = work
    BY <1>5 DEF run_incremental
  <2>2. IsResult(result')
    <3>1. DOMAIN result' = ResultFields /\ result'.g = held.g
          /\ result'.findings = held.findings
      BY <2>1 DEF TypeInv, IsResult, ResultFields
    <3> QED
      BY <3>1 DEF TypeInv, IsResult
  <2>3. result'.status = "no_changes"
    BY <2>1 DEF TypeInv, IsResult, ResultFields
  <2> QED
    BY <1>1, <1>2, <1>3, <2>1, <2>2, <2>3 DEF TypeInv, Stages
<1> QED
  BY <1>4, <1>5

(* The caller changes the graph it holds.                                  *)
LEMMA StepHeld ==
  ASSUME TypeInv, NEW g, Sized(g), held' = [held EXCEPT !.g = g],
         UNCHANGED <<today, pc, mode, request, work, result, calls>>
  PROVE  TypeInv'
<1>1. DOMAIN held' = ResultFields /\ held'.g = g /\ held'.findings = held.findings
      /\ held'.status = held.status /\ held'.signoff = held.signoff
  BY DEF TypeInv, IsResult, ResultFields
<1>2. IsResult(held') /\ Verdict(held')
  BY <1>1 DEF TypeInv, IsResult, Verdict
<1> QED
  BY <1>2 DEF TypeInv

(* The configuration is read, or the call fails.                           *)
LEMMA StepConfigure ==
  ASSUME TypeInv, configure
  PROVE  TypeInv'
<1> DEFINE read == ConfigOf(request)
           taken == ApplyProfile(read.config, request.profile)
<1>1. /\ pc = "configure" /\ UNCHANGED <<today, mode, request, calls>>
      /\ IF read.error # "" THEN Fail(EmptyGraph, <<>>)
         ELSE /\ work' = [work EXCEPT !.config = taken,
                                      !.g = IF mode = "run" THEN @ ELSE held.g,
                                      !.at = IF mode = "run" THEN @ ELSE held.at]
              /\ pc' = IF mode = "run" THEN "elaborate" ELSE "constrain"
              /\ UNCHANGED <<result, held>>
  BY DEF configure, ReadConfig
<1> HIDE DEF read, taken
<1>2. CASE read.error # ""
  BY <1>1, <1>2, EmptyGraphSized, StepFail
<1>3. CASE read.error = ""
  <2> DEFINE g == IF mode = "run" THEN work.g ELSE held.g
             at == IF mode = "run" THEN work.at ELSE held.at
  <2>1. work' = [work EXCEPT !.config = taken, !.g = g, !.at = at]
    BY <1>1, <1>3
  <2>2. Sized(g)
    BY DEF TypeInv, IsWork, IsResult
  <2> HIDE DEF g, at
  <2>3. IsWork(work) /\ DOMAIN work = WorkFields
    BY DEF TypeInv, IsWork
  <2>4. /\ DOMAIN work' = WorkFields /\ work'.g = g /\ work'.config = taken
        /\ work'.findings = work.findings /\ work'.todo = work.todo
        /\ work'.waivers = work.waivers /\ work'.warnings = work.warnings
        /\ work'.began = work.began
    BY <2>1, <2>3 DEF WorkFields
  <2>5. IsWork(work')
    BY <2>2, <2>3, <2>4, StillWork
  <2>6. pc' \in Stages
    BY <1>1, <1>3 DEF Stages
  <2> QED
    BY <1>1, <1>3, <2>4, <2>5, <2>6 DEF TypeInv, taken, read
<1> QED
  BY <1>2, <1>3

(* A stage that fails, or writes some locals and names the next stage. *)
LEMMA StepStage ==
  ASSUME TypeInv, pc \notin {"idle", "configure"},
         UNCHANGED <<today, mode, request, calls, result, held>>,
         IsWork(work'), work'.config = work.config, work'.began = work.began,
         pc' \in Stages
  PROVE  TypeInv'
BY DEF TypeInv

(* The graph is built, or the call fails.                                  *)
LEMMA StepElaborate ==
  ASSUME TypeInv, elaborate
  PROVE  TypeInv'
<1> DEFINE design == request.design
           g == Connected(Placed(design.nodes), design.edges)
           Unread == ~design.ok \/ (design.input = "netlist" /\ ~HasNetlistFrontend)
<1>1. /\ pc = "elaborate" /\ UNCHANGED <<today, mode, request, calls>>
      /\ IF Unread THEN Fail(EmptyGraph, <<>>)
         ELSE /\ work' = [work EXCEPT !.g = g, !.at = design.at, !.proven = design.proven,
                                      !.unknown = design.unknown]
              /\ pc' = "constrain"
              /\ UNCHANGED <<result, held>>
  BY DEF elaborate
<1>2. Sized(g)
  BY PlacedSized, ConnectedSized DEF TypeInv, WellFormed
<1> HIDE DEF g, Unread
<1>3. CASE Unread
  BY <1>1, <1>3, EmptyGraphSized, StepFail
<1>4. CASE ~Unread
  <2>1. work' = [work EXCEPT !.g = g, !.at = design.at, !.proven = design.proven,
                             !.unknown = design.unknown]
    BY <1>1, <1>4
  <2>2. IsWork(work) /\ DOMAIN work = WorkFields
    BY DEF TypeInv, IsWork
  <2>3. /\ DOMAIN work' = WorkFields /\ work'.g = g /\ work'.config = work.config
        /\ work'.findings = work.findings /\ work'.todo = work.todo
        /\ work'.waivers = work.waivers /\ work'.warnings = work.warnings
        /\ work'.began = work.began
    <3> HIDE DEF design
    <3> QED
      BY <2>1, <2>2 DEF WorkFields
  <2>4. IsWork(work')
    BY <1>2, <2>2, <2>3, StillWork
  <2> QED
    BY <1>1, <1>4, <2>3, <2>4, StepStage DEF Stages
<1> QED
  BY <1>3, <1>4

(* The constraints are applied, or the call fails.                         *)
LEMMA StepConstrain ==
  ASSUME TypeInv, constrain
  PROVE  TypeInv'
<1> DEFINE read == ReadConstraints
<1>1. /\ pc = "constrain" /\ UNCHANGED <<today, mode, request, calls>>
      /\ IF read.error # "" THEN Fail(work.g, work.at)
         ELSE /\ work' = [work EXCEPT !.constraints = read.constraints,
                                      !.at = WithRoots(work.g, @, read.constraints)]
              /\ pc' = "set_rules"
              /\ UNCHANGED <<result, held>>
  BY DEF constrain, Constrain
<1>2. IsWork(work) /\ DOMAIN work = WorkFields /\ Sized(work.g)
  BY DEF TypeInv, IsWork
<1> HIDE DEF read
<1>3. CASE read.error # ""
  BY <1>1, <1>2, <1>3, StepFail
<1>4. CASE read.error = ""
  <2> DEFINE at == WithRoots(work.g, work.at, read.constraints)
  <2>1. work' = [work EXCEPT !.constraints = read.constraints, !.at = at]
    BY <1>1, <1>4
  <2> HIDE DEF at
  <2>2. /\ DOMAIN work' = WorkFields /\ work'.g = work.g /\ work'.config = work.config
        /\ work'.findings = work.findings /\ work'.todo = work.todo
        /\ work'.waivers = work.waivers /\ work'.warnings = work.warnings
        /\ work'.began = work.began
    BY <1>2, <2>1 DEF WorkFields
  <2>3. IsWork(work')
    BY <1>2, <2>2, StillWork
  <2> QED
    BY <1>1, <1>4, <2>2, <2>3, StepStage DEF Stages
<1> QED
  BY <1>3, <1>4

(* The rules are chosen, or the call fails.                                *)
LEMMA StepSetRules ==
  ASSUME TypeInv, set_rules
  PROVE  TypeInv'
<1> DEFINE wrong == BadOverride(work.config, request.disable, request.severities)
           engine == WithOverrides(work.config, request.disable, request.severities)
           paths == AllFalsePaths(work.config, work.constraints, request.false_paths)
<1>1. /\ pc = "set_rules" /\ UNCHANGED <<today, mode, request, calls>>
      /\ IF wrong THEN Fail(work.g, work.at)
         ELSE /\ work' = [work EXCEPT !.engine = engine, !.false_paths = paths]
              /\ pc' = "analyse"
              /\ UNCHANGED <<result, held>>
  BY DEF set_rules
<1>2. IsWork(work) /\ DOMAIN work = WorkFields /\ Sized(work.g)
  BY DEF TypeInv, IsWork
<1> HIDE DEF wrong, engine, paths
<1>3. CASE wrong
  BY <1>1, <1>2, <1>3, StepFail
<1>4. CASE ~wrong
  <2>1. work' = [work EXCEPT !.engine = engine, !.false_paths = paths]
    BY <1>1, <1>4
  <2>2. /\ DOMAIN work' = WorkFields /\ work'.g = work.g /\ work'.config = work.config
        /\ work'.findings = work.findings /\ work'.todo = work.todo
        /\ work'.waivers = work.waivers /\ work'.warnings = work.warnings
        /\ work'.began = work.began
    BY <1>2, <2>1 DEF WorkFields
  <2>3. IsWork(work')
    BY <1>2, <2>2, StillWork
  <2> QED
    BY <1>1, <1>4, <2>2, <2>3, StepStage DEF Stages
<1> QED
  BY <1>3, <1>4

(* What the analysis makes of the locals. *)
LEMMA AnalyseWork ==
  ASSUME IsWork(work), analyse
  PROVE  /\ IsWork(work') /\ work'.config = work.config /\ work'.began = work.began
         /\ work'.waivers = work.waivers /\ work'.warnings = work.warnings
         /\ work'.g = work.g /\ work'.engine = work.engine
         /\ \A f \in work'.findings : f.by = 0 /\ Allowed(work.engine, f)
<1> DEFINE D == Design(work)
           kept == Filter(work.engine, FindingsFrom(D, Analyze(D)))
           found == {Put(f, "by", 0) : f \in kept}
           marks == Marks(D, Analyze(D))
           marked == [id \in DOMAIN work.at |-> [work.at[id] EXCEPT !.uncertain = marks[id]]]
<1>1. work' = [work EXCEPT !.findings = found, !.at = marked]
  BY DEF analyse
<1>2. D.g = work.g
  BY DEF Design
<1>3. DOMAIN work = WorkFields /\ Sized(work.g)
  BY DEF IsWork
<1> HIDE DEF D, marks, marked
<1>4. Noted(found)
  <2>1. Findings(FindingsFrom(D, Analyze(D)))
    BY <1>2, <1>3, AnalysisFindsFew
  <2>2. Findings(kept)
    BY <2>1, FilterFew
  <2> QED
    BY <2>2, PutAllNoted
<1>6. \A f \in found : f.by = 0 /\ Allowed(work.engine, f)
  <2>1. Findings(FindingsFrom(D, Analyze(D)))
    BY <1>2, <1>3, AnalysisFindsFew
  <2>2. Findings(kept) /\ \A f \in kept : Allowed(work.engine, f)
    BY <2>1, FilterFew, FilterAllows
  <2> HIDE DEF kept
  <2> SUFFICES ASSUME NEW f \in kept
               PROVE  LET h == Put(f, "by", 0) IN h.by = 0 /\ Allowed(work.engine, h)
    OBVIOUS
  <2>3. /\ Put(f, "by", 0).by = 0 /\ Put(f, "by", 0).rule = f.rule
        /\ Put(f, "by", 0).severity = f.severity
    BY <2>2, PutIsNoted DEF Findings
  <2> QED
    BY <2>2, <2>3 DEF Allowed
<1> HIDE DEF found
<1>5. /\ DOMAIN work' = WorkFields /\ work'.g = work.g /\ work'.config = work.config
      /\ work'.findings = found /\ work'.todo = work.todo
      /\ work'.waivers = work.waivers /\ work'.warnings = work.warnings
      /\ work'.began = work.began /\ work'.engine = work.engine
  BY <1>1, <1>3 DEF WorkFields
<1> QED
  BY <1>4, <1>5, <1>6 DEF IsWork

(* All rules run over the graph.                                           *)
LEMMA StepAnalyse ==
  ASSUME TypeInv, analyse
  PROVE  TypeInv'
<1>1. /\ IsWork(work') /\ work'.config = work.config /\ work'.began = work.began
  BY AnalyseWork DEF TypeInv
<1>2. pc = "analyse" /\ pc' = "load_waivers"
      /\ UNCHANGED <<today, mode, request, result, held, calls>>
  BY DEF analyse
<1> QED
  BY <1>1, <1>2, StepStage DEF Stages

(* The waivers that are loaded, and the list of the findings. *)
LEMMA LoadWork ==
  ASSUME TypeInv, load_waivers,
         WaiversOf(work.config, request.waiver_file).ok
  PROVE  LET waivers == WaiversOf(work.config, request.waiver_file).waivers IN
         /\ IsWork(work') /\ work'.config = work.config /\ work'.began = work.began
         /\ work'.findings = work.findings /\ work'.warnings = work.warnings
         /\ work'.g = work.g /\ work'.at = work.at /\ work'.engine = work.engine
         /\ work'.waivers = waivers
         /\ ToSet(work'.todo) = work.findings
         /\ pc' = IF waivers = <<>> THEN "judge" ELSE "waive"
         /\ UNCHANGED <<today, mode, request, calls, result, held>>
<1> DEFINE read == WaiversOf(work.config, request.waiver_file)
           todo == InSomeOrder(work.findings)
<1>1. /\ pc = "load_waivers"
      /\ work' = [work EXCEPT !.waivers = read.waivers, !.todo = todo]
      /\ pc' = IF read.waivers = <<>> THEN "judge" ELSE "waive"
      /\ UNCHANGED <<today, mode, request, calls, result, held>>
  BY DEF load_waivers
<1>2. Dated(read.waivers)
  BY <1>1 DEF TypeInv, WellFormed, Dated
<1>3. IsWork(work) /\ DOMAIN work = WorkFields /\ Noted(work.findings)
  BY DEF TypeInv, IsWork
<1>4. todo \in Seq(work.findings) /\ ToSet(todo) = work.findings
  BY <1>3, OrderIsComplete DEF Noted
<1> HIDE DEF read, todo
<1>5. /\ DOMAIN work' = WorkFields /\ work'.g = work.g /\ work'.config = work.config
      /\ work'.findings = work.findings /\ work'.todo = todo
      /\ work'.waivers = read.waivers /\ work'.warnings = work.warnings
      /\ work'.began = work.began /\ work'.at = work.at /\ work'.engine = work.engine
  BY <1>1, <1>3 DEF WorkFields
<1>6. Listed(todo)
  BY <1>3, <1>4 DEF Listed
<1>7. IsWork(work')
  BY <1>2, <1>3, <1>5, <1>6 DEF IsWork
<1> QED
  BY <1>1, <1>4, <1>5, <1>7 DEF read

(* The waivers are read, or the call fails.                                *)
LEMMA StepLoad ==
  ASSUME TypeInv, load_waivers
  PROVE  TypeInv'
<1>1. CASE WaiversOf(work.config, request.waiver_file).ok
  <2>1. pc = "load_waivers" /\ pc' \in Stages
    BY <1>1, LoadWork DEF load_waivers, Stages
  <2> QED
    BY <1>1, <2>1, LoadWork, StepStage
<1>2. CASE ~WaiversOf(work.config, request.waiver_file).ok
  <2>1. Fail(work.g, work.at) /\ UNCHANGED <<today, mode, request, calls>>
    BY <1>2 DEF load_waivers
  <2>2. Sized(work.g)
    BY DEF TypeInv, IsWork
  <2> QED
    BY <2>1, <2>2, StepFail
<1> QED
  BY <1>1, <1>2

(* A finding is looked at, and the list goes on without it. *)
LEMMA WaiveWork ==
  ASSUME IsWork(work), waive, work.todo # <<>>
  PROVE  LET f == Head(work.todo)
             by == WaivedBy(work.waivers, AsNamed(work, f), today) IN
         /\ IsNoted(f) /\ f \in ToSet(work.todo)
         /\ IsWork(work') /\ work'.config = work.config /\ work'.began = work.began
         /\ work'.g = work.g /\ work'.at = work.at /\ work'.engine = work.engine
         /\ work'.waivers = work.waivers /\ work'.warnings = work.warnings
         /\ work'.findings = (work.findings \ {f}) \cup {[f EXCEPT !.by = by]}
         /\ ToSet(work.todo) \subseteq ToSet(work'.todo) \cup {f}
         /\ ToSet(work'.todo) \subseteq ToSet(work.todo)
<1> DEFINE f == Head(work.todo)
           by == WaivedBy(work.waivers, AsNamed(work, f), today)
           left == (work.findings \ {f}) \cup {[f EXCEPT !.by = by]}
           rest == Tail(work.todo)
<1>1. work' = [work EXCEPT !.findings = left, !.todo = rest]
  BY DEF waive
<1>2. PICK S : Noted(S) /\ work.todo \in Seq(S)
  BY DEF IsWork, Listed
<1>3. f \in S /\ rest \in Seq(S)
  BY <1>2
<1>4. IsNoted(f)
  BY <1>2, <1>3 DEF Noted
<1>5. /\ ToSet(work.todo) \subseteq ToSet(rest) \cup {f}
      /\ ToSet(rest) \subseteq ToSet(work.todo)
      /\ f \in ToSet(work.todo)
  <2> DEFINE todo == work.todo
  <2>1. todo \in Seq(S) /\ todo # <<>>
    BY <1>2
  <2> HIDE DEF todo
  <2>2. Len(todo) \in Nat /\ DOMAIN todo = 1..Len(todo)
        /\ Len(Tail(todo)) = Len(todo) - 1 /\ Tail(todo) \in Seq(S)
        /\ \A i \in 1..(Len(todo) - 1) : Tail(todo)[i] = todo[i + 1]
    BY <2>1
  <2>3. ASSUME NEW i \in 1..Len(todo)
        PROVE  todo[i] \in ToSet(Tail(todo)) \cup {Head(todo)}
    <3>1. CASE i = 1
      BY <2>1, <3>1
    <3>2. CASE i # 1
      <4>1. i - 1 \in 1..(Len(todo) - 1) /\ (i - 1) + 1 = i
        BY <2>2, <3>2
      <4>2. Tail(todo)[i - 1] = todo[i] /\ i - 1 \in DOMAIN Tail(todo)
        BY <2>2, <4>1
      <4> QED
        BY <4>2 DEF ToSet
    <3> QED
      BY <3>1, <3>2
  <2>4. Head(todo) = todo[1] /\ 1 \in 1..Len(todo)
    BY <2>1
  <2>5. ASSUME NEW i \in 1..(Len(todo) - 1) PROVE Tail(todo)[i] \in ToSet(todo)
    <3>1. i + 1 \in DOMAIN todo
      BY <2>2
    <3> QED
      BY <2>2, <3>1 DEF ToSet
  <2>6. DOMAIN Tail(todo) = 1..(Len(todo) - 1)
    BY <2>2
  <2> QED
    BY <2>2, <2>3, <2>4, <2>5, <2>6 DEF ToSet, todo
<1>6. Noted(left)
  BY <1>4, NotedReplace DEF IsWork
<1>7. Listed(rest)
  BY <1>2, <1>3 DEF Listed
<1>8. DOMAIN work = WorkFields
  BY DEF IsWork
<1> HIDE DEF left, rest
<1>9. /\ DOMAIN work' = WorkFields /\ work'.g = work.g /\ work'.config = work.config
      /\ work'.findings = left /\ work'.todo = rest
      /\ work'.waivers = work.waivers /\ work'.warnings = work.warnings
      /\ work'.began = work.began /\ work'.at = work.at /\ work'.engine = work.engine
  BY <1>1, <1>8 DEF WorkFields
<1>10. IsWork(work')
  BY <1>6, <1>7, <1>9 DEF IsWork
<1> QED
  BY <1>4, <1>5, <1>9, <1>10 DEF left

(* One finding is waived, or all are.                                      *)
LEMMA StepWaive ==
  ASSUME TypeInv, waive
  PROVE  TypeInv'
<1>1. pc = "waive" /\ UNCHANGED <<today, mode, request, result, held, calls>>
  BY DEF waive
<1>2. CASE work.todo = <<>>
  <2>1. pc' = "check_unused" /\ work' = work
    BY <1>2 DEF waive
  <2> QED
    BY <1>1, <2>1 DEF TypeInv, Stages
<1>3. CASE work.todo # <<>>
  <2>1. pc' = pc
    BY <1>3 DEF waive
  <2>2. IsWork(work)
    BY DEF TypeInv
  <2>3. IsWork(work') /\ work'.config = work.config /\ work'.began = work.began
    BY <1>3, <2>2, WaiveWork
  <2> QED
    BY <1>1, <2>1, <2>3, StepStage DEF Stages
<1> QED
  BY <1>2, <1>3

(* What is said of a waiver. *)
LEMMA CheckIsNamed ==
  ASSUME NEW w, NEW named, NEW day
  PROVE  CheckUnused(w, named, day) \in Warnings
<1> DEFINE matched == {f \in named : Matches(w, f, day)}
           expired == IsExpired(w.expiry, day)
           many == Cardinality(matched) >= BroadMatch
<1>1. CheckUnused(w, named, day) =
        IF expired THEN "expired"
        ELSE IF matched = {} THEN "unused" ELSE IF many THEN "broad" ELSE "none"
  BY DEF CheckUnused
<1> HIDE DEF expired, matched, many
<1> QED
  BY <1>1 DEF Warnings

(* A waiver is looked at. *)
LEMMA CheckWork ==
  ASSUME IsWork(work), check_unused, Len(work.warnings) # Len(work.waivers)
  PROVE  LET w == work.waivers[Len(work.warnings) + 1]
             named == {AsNamed(work, f) : f \in work.findings} IN
         /\ IsWork(work') /\ work'.config = work.config /\ work'.began = work.began
         /\ work'.g = work.g /\ work'.at = work.at /\ work'.engine = work.engine
         /\ work'.waivers = work.waivers /\ work'.findings = work.findings
         /\ work'.warnings = Append(work.warnings, CheckUnused(w, named, today))
<1> DEFINE w == work.waivers[Len(work.warnings) + 1]
           named == {AsNamed(work, f) : f \in work.findings}
           said == CheckUnused(w, named, today)
           warnings == Append(work.warnings, said)
<1>1. work' = [work EXCEPT !.warnings = warnings]
  BY DEF check_unused
<1>2. said \in Warnings
  BY CheckIsNamed
<1>3. DOMAIN work = WorkFields /\ work.warnings \in Seq(Warnings)
  BY DEF IsWork
<1> HIDE DEF said
<1>4. warnings \in Seq(Warnings)
  BY <1>2, <1>3
<1> HIDE DEF warnings
<1>5. /\ DOMAIN work' = WorkFields /\ work'.g = work.g /\ work'.config = work.config
      /\ work'.findings = work.findings /\ work'.todo = work.todo
      /\ work'.waivers = work.waivers /\ work'.warnings = warnings
      /\ work'.began = work.began /\ work'.at = work.at /\ work'.engine = work.engine
  BY <1>1, <1>3 DEF WorkFields
<1>6. IsWork(work')
  BY <1>4, <1>5 DEF IsWork
<1> QED
  BY <1>5, <1>6 DEF warnings, said

(* One waiver is looked at, or all are.                                    *)
LEMMA StepCheck ==
  ASSUME TypeInv, check_unused
  PROVE  TypeInv'
<1>1. pc = "check_unused" /\ UNCHANGED <<today, mode, request, result, held, calls>>
  BY DEF check_unused
<1>2. CASE Len(work.warnings) = Len(work.waivers)
  <2>1. pc' = "judge" /\ work' = work
    BY <1>2 DEF check_unused
  <2> QED
    BY <1>1, <2>1 DEF TypeInv, Stages
<1>3. CASE Len(work.warnings) # Len(work.waivers)
  <2>1. pc' = pc
    BY <1>3 DEF check_unused
  <2>2. IsWork(work)
    BY DEF TypeInv
  <2>3. IsWork(work') /\ work'.config = work.config /\ work'.began = work.began
    BY <1>3, <2>2, CheckWork
  <2> QED
    BY <1>1, <2>1, <2>3, StepStage DEF Stages
<1> QED
  BY <1>2, <1>3

(* The result gets its verdict.                                            *)
LEMMA StepJudge ==
  ASSUME TypeInv, judge
  PROVE  TypeInv'
<1> DEFINE status == FinalStatus(work, work.findings)
<1>1. status \in {"incomplete", "complete"}
  BY DEF FinalStatus, Status
<1>2. /\ pc' = "idle" /\ UNCHANGED <<today, mode, request, work, calls>>
      /\ DOMAIN result' = ResultFields
      /\ result'.g = work.g /\ result'.findings = work.findings
      /\ result'.status = status
      /\ result'.signoff = Evaluate(work.findings, status, Methodology)
      /\ held' = result'
  <2> HIDE DEF status
  <2>1. result' = [ok |-> TRUE, status |-> status, findings |-> work.findings,
                   signoff |-> Evaluate(work.findings, status, Methodology),
                   coverage |-> CrossingCoverage([g |-> work.g, at |-> work.at],
                                                 Compute(work.findings)),
                   g |-> work.g, at |-> work.at]
    BY DEF judge, status
  <2>2. pc' = "idle" /\ UNCHANGED <<today, mode, request, work, calls>> /\ held' = result'
    BY DEF judge
  <2> QED
    BY <2>1, <2>2 DEF ResultFields
<1> HIDE DEF status
<1>3. IsResult(result') /\ Verdict(result')
  BY <1>1, <1>2 DEF TypeInv, IsWork, IsResult, Verdict
<1>4. IsResult(result)' /\ Verdict(result)' /\ IsResult(held)' /\ Verdict(held)'
  BY <1>2, <1>3
<1> QED
  BY <1>2, <1>4 DEF TypeInv, Stages

(* Every step keeps the types.                                             *)
LEMMA TypeStep ==
  ASSUME TypeInv, [Next]_vars
  PROVE  TypeInv'
<1>1. CASE CallStep
  BY <1>1, StepDay, StepRun, StepConfigure, StepElaborate, StepConstrain, StepSetRules,
     StepAnalyse, StepLoad, StepWaive, StepCheck, StepJudge DEF CallStep
<1>2. ASSUME NEW r \in Requests, run_incremental(r) PROVE TypeInv'
  BY <1>2, StepIncremental
<1>3. ASSUME NEW e \in Edits, edit(e[1], e[2]) PROVE TypeInv'
  <2>1. /\ held' = [held EXCEPT !.g = AddEdge(held.g, e[1], e[2])]
        /\ UNCHANGED <<today, pc, mode, request, work, result, calls>>
    BY <1>3 DEF edit
  <2>2. Sized(AddEdge(held.g, e[1], e[2]))
    BY AddEdgeSized DEF TypeInv, IsResult
  <2> QED
    BY <2>1, <2>2, StepHeld
<1>4. CASE clear_dirty
  <2> DEFINE g == [held.g EXCEPT !.dirty = FALSE]
  <2>1. held' = [held EXCEPT !.g = g]
    BY <1>4 DEF clear_dirty
  <2>2. Sized(g)
    BY DEF TypeInv, IsResult, Sized
  <2>3. UNCHANGED <<today, pc, mode, request, work, result, calls>>
    BY <1>4 DEF clear_dirty
  <2> QED
    BY <2>1, <2>2, <2>3, StepHeld
<1>5. CASE UNCHANGED vars
  BY <1>5 DEF vars, TypeInv
<1> QED
  BY <1>1, <1>2, <1>3, <1>4, <1>5 DEF Next

-----------------------------------------------------------------------------
(* Waivers.                                                                *)

(* What a waiver covers does not depend on what waived a finding before. *)
LEMMA CoversByName ==
  ASSUME NEW v, NEW u, u.g = v.g, u.at = v.at,
         NEW f, NEW h, h.rule = f.rule, h.src = f.src, h.dst = f.dst, NEW w
  PROVE  Covers(w, AsNamed(u, h)) = Covers(w, AsNamed(v, f))
<1> DEFINE a == AsNamed(v, f)
           b == AsNamed(u, h)
<1>1. /\ b.rule = a.rule /\ b.src = a.src /\ b.dst = a.dst
      /\ b.src_domain = a.src_domain /\ b.dst_domain = a.dst_domain
  BY DEF AsNamed
<1> HIDE DEF a, b
<1>2. Covers(w, b) = Covers(w, a)
  BY <1>1 DEF Covers
<1> QED
  BY <1>2 DEF a, b

(* So the waiver that covers a finding does not, either.                   *)
LEMMA WaivedByName ==
  ASSUME NEW v, NEW u, u.g = v.g, u.at = v.at,
         NEW f, NEW h, h.rule = f.rule, h.src = f.src, h.dst = f.dst,
         NEW waivers, NEW day
  PROVE  WaivedBy(waivers, AsNamed(u, h), day) = WaivedBy(waivers, AsNamed(v, f), day)
<1> DEFINE a == AsNamed(v, f)
           b == AsNamed(u, h)
<1>1. \A w : Covers(w, b) = Covers(w, a)
  BY CoversByName
<1> DEFINE Matching(x) == {i \in DOMAIN waivers : Matches(waivers[i], x, day)}
           First(M) == IF M = {} THEN 0 ELSE CHOOSE i \in M : \A j \in M : i <= j
<1>2. Matching(b) = Matching(a)
  <2> HIDE DEF a, b
  <2> QED
    BY <1>1 DEF Matches
<1>3. \A x : WaivedBy(waivers, x, day) = First(Matching(x))
  BY DEF WaivedBy
<1> HIDE DEF a, b, Matching, First
<1>4. WaivedBy(waivers, b, day) = WaivedBy(waivers, a, day)
  BY <1>2, <1>3
<1> QED
  BY <1>4 DEF a, b

(* The first waiver that matches, or none does. *)
LEMMA WaivedByMatches ==
  ASSUME NEW waivers, Dated(waivers), NEW f, NEW day, NEW by,
         by = WaivedBy(waivers, f, day)
  PROVE  IF by = 0 THEN \A i \in DOMAIN waivers : ~Matches(waivers[i], f, day)
         ELSE by \in DOMAIN waivers /\ Matches(waivers[by], f, day)
<1> DEFINE matching == {i \in DOMAIN waivers : Matches(waivers[i], f, day)}
<1>1. matching \in SUBSET Nat /\ 0 \notin matching
  BY DEF Dated
<1>2. CASE matching = {}
  BY <1>2 DEF WaivedBy
<1>3. CASE matching # {}
  <2>1. by = CHOOSE i \in matching : \A j \in matching : i <= j
    BY <1>3 DEF WaivedBy
  <2>2. \E i \in matching : \A j \in matching : i <= j
    <3> HIDE DEF matching
    <3> QED
      BY <1>1, <1>3, NatMin
  <2>3. by \in matching
    BY <2>1, <2>2
  <2> QED
    BY <1>1, <2>3
<1> QED
  BY <1>2, <1>3

(* What was decided on one day of the call. *)
Decided(w, f, last) ==
  \E day \in w.began..last : f.by = WaivedBy(w.waivers, AsNamed(w, f), day)

(* A waiver of which it was said that it is unused covers nothing. *)
Unused(w) ==
  \A i \in DOMAIN w.warnings :
    w.warnings[i] = "unused" =>
      \A f \in w.findings : ~Covers(w.waivers[i], AsNamed(w, f))

(* Along the stages: before apply nothing is waived; during it what is no  *)
(* longer on the list is decided; after it everything is, and no warning   *)
(* that is out was wrong. A day that passes only adds days to decide by.   *)
WaivingInv ==
  /\ pc = "load_waivers" => \A f \in work.findings : f.by = 0
  /\ pc = "waive" =>
       \A f \in work.findings : f \in ToSet(work.todo) \/ Decided(work, f, today)
  /\ pc \in {"check_unused", "judge"} \/ Finished =>
       /\ \A f \in work.findings : Decided(work, f, today)
       /\ Unused(work)
  /\ pc \notin {"idle", "check_unused", "judge"} => work.warnings = <<>>
  /\ Finished => result.findings = work.findings

(* What is decided stays decided when days pass. *)
LEMMA DecidedLater ==
  ASSUME NEW w, NEW f, NEW last \in Nat, NEW later \in Nat, last <= later,
         w.began \in 0..last, Decided(w, f, last)
  PROVE  Decided(w, f, later)
<1>1. w.began..last \subseteq w.began..later
  OBVIOUS
<1> QED
  BY <1>1 DEF Decided

(* What decides a finding is the graph, the waivers and the days.          *)
LEMMA DecidedStill ==
  ASSUME NEW v, NEW u, u.g = v.g, u.at = v.at, u.began = v.began,
         u.waivers = v.waivers, NEW f, NEW last, Decided(v, f, last)
  PROVE  Decided(u, f, last)
<1>1. \A day : WaivedBy(u.waivers, AsNamed(u, f), day) = WaivedBy(v.waivers, AsNamed(v, f), day)
  BY WaivedByName
<1> QED
  BY <1>1 DEF Decided

(* Before the first call there is no result to speak of.                   *)
LEMMA WaivingInit ==
  ASSUME NEW R, InitFor(R)
  PROVE  WaivingInv
<1>1. pc = "idle" /\ result.status = "failed"
  BY DEF InitFor, Failed
<1> QED
  BY <1>1 DEF WaivingInv, Finished

(* A step that is not of the waivers' stages. *)
LEMMA WaivingElsewhere ==
  ASSUME work'.warnings = <<>>,
         pc' \notin {"load_waivers", "waive", "idle", "check_unused", "judge"}
  PROVE  WaivingInv'
BY DEF WaivingInv, Finished

(* A call that fails leaves no findings.                                   *)
LEMMA WaivingFails ==
  ASSUME NEW g, NEW at, Fail(g, at)
  PROVE  WaivingInv'
<1>1. pc' = "idle" /\ result'.status = "failed"
  BY DEF Fail, Failed
<1> QED
  BY <1>1 DEF WaivingInv, Finished

(* A day passes between two findings or two waivers.                       *)
LEMMA WaivingDay ==
  ASSUME TypeInv, WaivingInv, day_passes
  PROVE  WaivingInv'
<1>1. today' = today + 1 /\ UNCHANGED <<pc, work, result>>
  BY DEF day_passes
<1>2. today \in Nat /\ today' \in Nat /\ today <= today' /\ work.began \in 0..today
  BY <1>1 DEF TypeInv, Never
<1>3. \A f : Decided(work, f, today) => Decided(work, f, today')
  BY <1>2, DecidedLater
<1>4. /\ pc' = "waive" =>
           \A f \in work'.findings : f \in ToSet(work'.todo) \/ Decided(work', f, today')
      /\ pc' \in {"check_unused", "judge"} \/ Finished =>
           /\ \A f \in work'.findings : Decided(work', f, today')
           /\ Unused(work')
  BY <1>1, <1>3 DEF WaivingInv
<1>5. Finished' = Finished
  BY <1>1 DEF Finished
<1> QED
  BY <1>1, <1>4, <1>5 DEF WaivingInv

(* A call begins; a result of another call is not Finished.                *)
LEMMA WaivingBegins ==
  ASSUME TypeInv, run \/ \E r \in Requests : run_incremental(r)
  PROVE  WaivingInv'
<1>1. CASE run
  BY <1>1, Begun, WaivingElsewhere DEF run
<1>2. ASSUME NEW r \in Requests, run_incremental(r), held.g.dirty
      PROVE  WaivingInv'
  <2>1. /\ work' = [NoWork EXCEPT !.began = today, !.proven = work.proven,
                                   !.seen = work.seen \cup {r.constraints}]
        /\ pc' = "configure"
    BY <1>2 DEF run_incremental
  <2>2. work'.warnings = <<>>
    BY <2>1, Begun
  <2> QED
    BY <2>1, <2>2, WaivingElsewhere
<1>3. ASSUME NEW r \in Requests, run_incremental(r), ~held.g.dirty
      PROVE  WaivingInv'
  <2>1. pc' = "idle" /\ result' = [held EXCEPT !.ok = TRUE, !.status = "no_changes"]
    BY <1>3 DEF run_incremental
  <2>2. result'.status = "no_changes"
    BY <1>3, <2>1 DEF TypeInv, IsResult, ResultFields
  <2> QED
    BY <2>1, <2>2 DEF WaivingInv, Finished
<1> QED
  BY <1>1, <1>2, <1>3

(* The stages before the analysis. *)
LEMMA WaivingBefore ==
  ASSUME TypeInv, WaivingInv, configure \/ elaborate \/ constrain \/ set_rules
  PROVE  WaivingInv'
<1>1. pc \notin {"idle", "check_unused", "judge"} /\ work.warnings = <<>>
  BY DEF WaivingInv, configure, elaborate, constrain, Constrain, set_rules
<1>2. DOMAIN work = WorkFields
  BY DEF TypeInv, IsWork
<1>3. ASSUME NEW g, NEW at, Fail(g, at) PROVE WaivingInv'
  BY <1>3, WaivingFails
<1>4. ASSUME work'.warnings = work.warnings, pc' \in {"elaborate", "constrain", "set_rules", "analyse"}
      PROVE  WaivingInv'
  BY <1>1, <1>4, WaivingElsewhere
<1>5. CASE configure
  <2> DEFINE read == ConfigOf(request)
             taken == ApplyProfile(read.config, request.profile)
  <2>1. IF read.error # "" THEN Fail(EmptyGraph, <<>>)
        ELSE /\ work' = [work EXCEPT !.config = taken,
                                     !.g = IF mode = "run" THEN @ ELSE held.g,
                                     !.at = IF mode = "run" THEN @ ELSE held.at]
             /\ pc' = IF mode = "run" THEN "elaborate" ELSE "constrain"
    BY <1>5 DEF configure, ReadConfig
  <2> HIDE DEF read, taken
  <2>2. CASE read.error = ""
    <3>1. work'.warnings = work.warnings
      BY <1>2, <2>1, <2>2 DEF WorkFields
    <3> QED
      BY <1>4, <2>1, <2>2, <3>1
  <2> QED
    BY <1>3, <2>1, <2>2
<1>6. CASE elaborate
  <2> DEFINE design == request.design
             g == Connected(Placed(design.nodes), design.edges)
             Unread == ~design.ok \/ (design.input = "netlist" /\ ~HasNetlistFrontend)
  <2>1. IF Unread THEN Fail(EmptyGraph, <<>>)
        ELSE /\ work' = [work EXCEPT !.g = g, !.at = design.at, !.proven = design.proven,
                                     !.unknown = design.unknown]
             /\ pc' = "constrain"
    BY <1>6 DEF elaborate
  <2> HIDE DEF g, design, Unread
  <2>2. CASE ~Unread
    <3>1. work'.warnings = work.warnings
      BY <1>2, <2>1, <2>2 DEF WorkFields
    <3> QED
      BY <1>4, <2>1, <2>2, <3>1
  <2> QED
    BY <1>3, <2>1, <2>2
<1>7. CASE constrain
  <2> DEFINE read == ReadConstraints
             at == WithRoots(work.g, work.at, read.constraints)
  <2>1. IF read.error # "" THEN Fail(work.g, work.at)
        ELSE /\ work' = [work EXCEPT !.constraints = read.constraints, !.at = at]
             /\ pc' = "set_rules"
    BY <1>7 DEF constrain, Constrain
  <2> HIDE DEF read, at
  <2>2. CASE read.error = ""
    <3>1. work'.warnings = work.warnings
      BY <1>2, <2>1, <2>2 DEF WorkFields
    <3> QED
      BY <1>4, <2>1, <2>2, <3>1
  <2> QED
    BY <1>3, <2>1, <2>2
<1>8. CASE set_rules
  <2> DEFINE wrong == BadOverride(work.config, request.disable, request.severities)
             engine == WithOverrides(work.config, request.disable, request.severities)
             paths == AllFalsePaths(work.config, work.constraints, request.false_paths)
  <2>1. IF wrong THEN Fail(work.g, work.at)
        ELSE /\ work' = [work EXCEPT !.engine = engine, !.false_paths = paths]
             /\ pc' = "analyse"
    BY <1>8 DEF set_rules
  <2> HIDE DEF wrong, engine, paths
  <2>2. CASE ~wrong
    <3>1. work'.warnings = work.warnings
      BY <1>2, <2>1, <2>2 DEF WorkFields
    <3> QED
      BY <1>4, <2>1, <2>2, <3>1
  <2> QED
    BY <1>3, <2>1, <2>2
<1> QED
  BY <1>5, <1>6, <1>7, <1>8

(* The findings come without a waiver.                                     *)
LEMMA WaivingAnalyse ==
  ASSUME TypeInv, WaivingInv, analyse
  PROVE  WaivingInv'
<1>1. work'.warnings = work.warnings /\ \A f \in work'.findings : f.by = 0
  BY AnalyseWork DEF TypeInv
<1>2. pc = "analyse" /\ pc' = "load_waivers"
  BY DEF analyse
<1>3. ~Finished'
  BY <1>2 DEF Finished
<1> QED
  BY <1>1, <1>2, <1>3 DEF WaivingInv

(* All findings are on the list, or there are no waivers.                  *)
LEMMA WaivingLoad ==
  ASSUME TypeInv, WaivingInv, load_waivers
  PROVE  WaivingInv'
<1> DEFINE read == WaiversOf(work.config, request.waiver_file)
<1>1. CASE ~read.ok
  <2>1. Fail(work.g, work.at)
    BY <1>1 DEF load_waivers
  <2> QED
    BY <2>1, WaivingFails
<1>2. CASE read.ok
  <2>1. /\ pc = "load_waivers"
        /\ work'.began = work.began /\ work'.findings = work.findings
        /\ work'.warnings = work.warnings /\ work'.waivers = read.waivers
        /\ ToSet(work'.todo) = work.findings
        /\ pc' = IF read.waivers = <<>> THEN "judge" ELSE "waive"
        /\ UNCHANGED <<today, mode, request, calls, result, held>>
    <3>1. pc = "load_waivers"
      BY DEF load_waivers
    <3> QED
      BY <1>2, <3>1, LoadWork
  <2>2. work.warnings = <<>> /\ \A f \in work.findings : f.by = 0
    BY <2>1 DEF WaivingInv
  <2>3. ~Finished'
    BY <2>1 DEF Finished
  <2>4. CASE pc' = "judge"
    <3>1. work'.waivers = <<>>
      BY <2>1, <2>4
    <3>2. today \in work'.began..today'
      BY <2>1 DEF TypeInv, Never
    <3>3. \A f : WaivedBy(<<>>, f, today) = 0
      BY DEF WaivedBy
    <3>4. \A f \in work'.findings : Decided(work', f, today')
      BY <2>1, <2>2, <3>1, <3>2, <3>3 DEF Decided
    <3>5. Unused(work')
      BY <2>1, <2>2 DEF Unused
    <3> QED
      BY <2>3, <2>4, <3>4, <3>5 DEF WaivingInv
  <2>5. CASE pc' = "waive"
    BY <2>1, <2>2, <2>3, <2>5 DEF WaivingInv
  <2> QED
    BY <2>1, <2>4, <2>5
<1> QED
  BY <1>1, <1>2

(* The finding at the head is decided today.                               *)
LEMMA WaivingWaive ==
  ASSUME TypeInv, WaivingInv, waive
  PROVE  WaivingInv'
<1>1. /\ pc = "waive" /\ UNCHANGED <<today, result>> /\ work.warnings = <<>>
      /\ \A f \in work.findings : f \in ToSet(work.todo) \/ Decided(work, f, today)
  BY DEF waive, WaivingInv
<1>2. CASE work.todo = <<>>
  <2>1. pc' = "check_unused" /\ work' = work
    BY <1>2 DEF waive
  <2>2. ToSet(work.todo) = {}
    BY <1>2 DEF ToSet
  <2>3. \A f \in work'.findings : Decided(work', f, today')
    BY <1>1, <2>1, <2>2
  <2>4. Unused(work') /\ ~Finished'
    BY <1>1, <2>1 DEF Unused, Finished
  <2> QED
    BY <1>1, <2>1, <2>3, <2>4 DEF WaivingInv
<1>3. CASE work.todo # <<>>
  <2> DEFINE f == Head(work.todo)
             by == WaivedBy(work.waivers, AsNamed(work, f), today)
             h == [f EXCEPT !.by = by]
  <2>1. /\ IsNoted(f)
        /\ work'.began = work.began /\ work'.g = work.g /\ work'.at = work.at
        /\ work'.waivers = work.waivers /\ work'.warnings = work.warnings
        /\ work'.findings = (work.findings \ {f}) \cup {h}
        /\ ToSet(work.todo) \subseteq ToSet(work'.todo) \cup {f}
    BY <1>3, WaiveWork DEF TypeInv
  <2>2. pc' = "waive" /\ ~Finished'
    BY <1>1, <1>3 DEF waive, Finished
  <2> HIDE DEF f, h
  <2>3. h.rule = f.rule /\ h.src = f.src /\ h.dst = f.dst /\ h.by = by
    BY <2>1, NotedBy DEF h
  <2>4. WaivedBy(work'.waivers, AsNamed(work', h), today) = by
    BY <2>1, <2>3, WaivedByName
  <2>5. today \in work'.began..today'
    <3>1. today' = today /\ work'.began = work.began
      BY <1>1, <2>1
    <3>2. today \in 1..(Never - 1) /\ work.began \in 0..today
      BY DEF TypeInv
    <3> QED
      BY <3>1, <3>2 DEF Never
  <2>6. Decided(work', h, today')
    BY <2>3, <2>4, <2>5 DEF Decided
  <2>7. ASSUME NEW k \in work.findings \ {f}
        PROVE  k \in ToSet(work'.todo) \/ Decided(work', k, today')
    <3>1. CASE k \in ToSet(work.todo)
      BY <2>1, <3>1
    <3>2. CASE Decided(work, k, today)
      BY <1>1, <2>1, <3>2, DecidedStill
    <3> QED
      BY <1>1, <3>1, <3>2
  <2> QED
    BY <1>1, <2>1, <2>2, <2>6, <2>7 DEF WaivingInv
<1> QED
  BY <1>2, <1>3

(* check_unused looks at all findings before it calls one unused.          *)
LEMMA WaivingCheck ==
  ASSUME TypeInv, WaivingInv, check_unused
  PROVE  WaivingInv'
<1>1. /\ pc = "check_unused" /\ UNCHANGED <<today, result>>
      /\ \A f \in work.findings : Decided(work, f, today)
      /\ Unused(work)
  BY DEF check_unused, WaivingInv
<1>2. CASE Len(work.warnings) = Len(work.waivers)
  <2>1. pc' = "judge" /\ work' = work
    BY <1>2 DEF check_unused
  <2>2. ~Finished'
    BY <2>1 DEF Finished
  <2> QED
    BY <1>1, <2>1, <2>2 DEF WaivingInv
<1>3. CASE Len(work.warnings) # Len(work.waivers)
  <2> DEFINE n == Len(work.warnings) + 1
             w == work.waivers[n]
             named == {AsNamed(work, f) : f \in work.findings}
             said == CheckUnused(w, named, today)
  <2>1. /\ work'.began = work.began /\ work'.g = work.g /\ work'.at = work.at
        /\ work'.waivers = work.waivers /\ work'.findings = work.findings
        /\ work'.warnings = Append(work.warnings, said)
    BY <1>3, CheckWork DEF TypeInv
  <2>2. pc' = "check_unused" /\ ~Finished'
    BY <1>1, <1>3 DEF check_unused, Finished
  <2>3. said = "unused" => \A f \in work.findings : ~Covers(w, AsNamed(work, f))
    <3> SUFFICES ASSUME said = "unused", NEW f \in work.findings
                 PROVE  ~Covers(w, AsNamed(work, f))
      OBVIOUS
    <3>1. ~IsExpired(w.expiry, today) /\ {x \in named : Matches(w, x, today)} = {}
      BY DEF CheckUnused
    <3>2. AsNamed(work, f) \in named
      OBVIOUS
    <3> QED
      BY <3>1, <3>2 DEF Matches
  <2>4. \A f \in work'.findings : Decided(work', f, today')
    BY <1>1, <2>1, DecidedStill
  <2>5. work.warnings \in Seq(Warnings)
    BY DEF TypeInv, IsWork
  <2>6. \A f, x : Covers(x, AsNamed(work', f)) = Covers(x, AsNamed(work, f))
    BY <2>1, CoversByName
  <2> HIDE DEF said, w, named
  <2>7. ASSUME NEW i \in DOMAIN work'.warnings, work'.warnings[i] = "unused",
               NEW f \in work'.findings
        PROVE  ~Covers(work'.waivers[i], AsNamed(work', f))
    <3>1. CASE i = n
      <4>1. work'.warnings[i] = said
        BY <2>1, <2>5, <3>1
      <4> QED
        BY <2>1, <2>3, <2>6, <2>7, <3>1, <4>1 DEF w
    <3>2. CASE i # n
      <4>1. i \in DOMAIN work.warnings /\ work'.warnings[i] = work.warnings[i]
        BY <2>1, <2>5, <3>2
      <4> QED
        BY <1>1, <2>1, <2>6, <2>7, <4>1 DEF Unused
    <3> QED
      BY <3>1, <3>2
  <2>8. Unused(work')
    BY <2>7 DEF Unused
  <2> QED
    BY <2>2, <2>4, <2>8 DEF WaivingInv
<1> QED
  BY <1>2, <1>3

(* The findings of the result are those of the locals.                     *)
LEMMA WaivingJudge ==
  ASSUME TypeInv, WaivingInv, judge
  PROVE  WaivingInv'
<1>1. pc = "judge" /\ pc' = "idle" /\ UNCHANGED <<today, work>>
  BY DEF judge
<1>2. result'.findings = work.findings
  BY DEF judge
<1>3. \A f \in work'.findings : Decided(work', f, today')
  BY <1>1 DEF WaivingInv
<1>4. Unused(work')
  BY <1>1 DEF WaivingInv
<1> QED
  BY <1>1, <1>2, <1>3, <1>4 DEF WaivingInv

(* Every step of Next keeps what the stages know of the waivers.           *)
LEMMA WaivingStep ==
  ASSUME TypeInv, WaivingInv, [Next]_vars
  PROVE  WaivingInv'
<1>1. CASE CallStep
  BY <1>1, WaivingDay, WaivingBegins, WaivingBefore, WaivingAnalyse, WaivingLoad,
     WaivingWaive, WaivingCheck, WaivingJudge DEF CallStep
<1>2. CASE \E r \in Requests : run_incremental(r)
  BY <1>2, WaivingBegins
<1>3. CASE UNCHANGED <<today, pc, work, result>>
  BY <1>3 DEF WaivingInv, Finished
<1>4. ASSUME NEW e \in Edits, edit(e[1], e[2]) PROVE WaivingInv'
  BY <1>3, <1>4 DEF edit
<1>5. CASE clear_dirty
  BY <1>3, <1>5 DEF clear_dirty
<1>6. CASE UNCHANGED vars
  BY <1>3, <1>6 DEF vars
<1> QED
  BY <1>1, <1>2, <1>4, <1>5, <1>6 DEF Next

(* The properties follow. *)
LEMMA WaivingIsAuthorised ==
  ASSUME TypeInv, WaivingInv
  PROVE  WaivedUnderAuthority
<1> SUFFICES ASSUME Finished, NEW f \in result.findings
             PROVE  LET covering == {i \in DOMAIN work.waivers :
                                       Covers(work.waivers[i], AsNamed(work, f))} IN
                    IF f.by # 0
                    THEN f.by \in covering /\ work.began <= work.waivers[f.by].expiry
                    ELSE \A i \in covering : work.waivers[i].expiry < today
  BY DEF WaivedUnderAuthority
<1> DEFINE named == AsNamed(work, f)
<1>1. f \in work.findings
  BY DEF WaivingInv
<1>2. PICK day \in work.began..today : f.by = WaivedBy(work.waivers, named, day)
  BY <1>1 DEF WaivingInv, Decided
<1>3. Dated(work.waivers) /\ work.began \in 0..today /\ today \in 1..999
  BY DEF TypeInv, IsWork, Never
<1> HIDE DEF named
<1>4. CASE f.by = 0
  <2>1. ASSUME NEW i \in DOMAIN work.waivers, Covers(work.waivers[i], named)
        PROVE  work.waivers[i].expiry < today
    <3>1. ~Matches(work.waivers[i], named, day)
      BY <1>2, <1>3, <1>4, WaivedByMatches
    <3>2. IsExpired(work.waivers[i].expiry, day)
      BY <2>1, <3>1 DEF Matches
    <3>3. work.waivers[i].expiry \in Nat
      BY <1>3 DEF Dated
    <3> QED
      BY <1>3, <3>2, <3>3 DEF IsExpired, Garbled, Never
  <2> QED
    BY <1>4, <2>1 DEF named
<1>5. CASE f.by # 0
  <2>1. f.by \in DOMAIN work.waivers /\ Matches(work.waivers[f.by], named, day)
    BY <1>2, <1>3, <1>5, WaivedByMatches
  <2>2. Covers(work.waivers[f.by], named) /\ ~IsExpired(work.waivers[f.by].expiry, day)
    BY <2>1 DEF Matches
  <2>3. work.waivers[f.by].expiry \in Nat
    BY <1>3, <2>1 DEF Dated
  <2>4. work.began <= work.waivers[f.by].expiry
    BY <1>3, <2>2, <2>3 DEF IsExpired, Garbled, Never
  <2> QED
    BY <1>5, <2>1, <2>2, <2>4 DEF named
<1> QED
  BY <1>4, <1>5

(* A finding that a waiver covers would have been seen.                    *)
LEMMA UnusedCoversNothing ==
  ASSUME TypeInv, WaivingInv
  PROVE  UnusedMeansUnused
<1> SUFFICES ASSUME Finished, NEW i \in DOMAIN work.warnings, work.warnings[i] = "unused",
                    NEW f \in result.findings
             PROVE  f.by # i /\ ~Covers(work.waivers[i], AsNamed(work, f))
  BY DEF UnusedMeansUnused
<1>1. ~Covers(work.waivers[i], AsNamed(work, f))
  BY DEF WaivingInv, Unused
<1>2. i # 0
  BY DEF TypeInv, IsWork
<1>3. f.by # 0 => Covers(work.waivers[f.by], AsNamed(work, f))
  BY WaivingIsAuthorised DEF WaivedUnderAuthority
<1> QED
  BY <1>1, <1>2, <1>3

-----------------------------------------------------------------------------
(* Layers of the rule table.                                               *)

(* Along the stages: from the analysis on the engine is the one of the     *)
(* layers of this call, and afterwards every finding has passed it. The    *)
(* waivers look at the findings one by one and leave rule and severity.    *)
LayersInv ==
  /\ pc \in {"analyse", "load_waivers", "waive", "check_unused", "judge"} \/ Finished =>
       /\ ~BadOverride(work.config, request.disable, request.severities)
       /\ work.engine = WithOverrides(work.config, request.disable, request.severities)
  /\ pc \in {"load_waivers", "waive", "check_unused", "judge"} \/ Finished =>
       \A f \in work.findings : Allowed(work.engine, f)
  /\ pc = "waive" => \A f \in ToSet(work.todo) : Allowed(work.engine, f)
  /\ Finished =>
       work.config = ApplyProfile(ConfigOf(request).config, request.profile)

(* Before the first call there is nothing the rules were asked for.        *)
LEMMA LayersInit ==
  ASSUME NEW R, InitFor(R)
  PROVE  LayersInv
<1>1. pc = "idle" /\ result.status = "failed"
  BY DEF InitFor, Failed
<1> QED
  BY <1>1 DEF LayersInv, Finished

(* A stage before the rules are set, or a call that did not finish.        *)
LEMMA LayersElsewhere ==
  ASSUME \/ pc' \in {"configure", "elaborate", "constrain", "set_rules"}
         \/ pc' = "idle" /\ result'.status \notin {"complete", "incomplete"}
  PROVE  LayersInv'
BY DEF LayersInv, Finished

(* A call that fails has no result to speak of.                            *)
LEMMA LayersFails ==
  ASSUME NEW g, NEW at, Fail(g, at)
  PROVE  LayersInv'
<1>1. pc' = "idle" /\ result'.status = "failed"
  BY DEF Fail, Failed
<1> QED
  BY <1>1, LayersElsewhere

(* A call begins; a result that is returned once more is not Finished.     *)
LEMMA LayersBegins ==
  ASSUME TypeInv, run \/ \E r \in Requests : run_incremental(r)
  PROVE  LayersInv'
<1>1. CASE run
  BY <1>1, LayersElsewhere DEF run
<1>2. ASSUME NEW r \in Requests, run_incremental(r), held.g.dirty
      PROVE  LayersInv'
  BY <1>2, LayersElsewhere DEF run_incremental
<1>3. ASSUME NEW r \in Requests, run_incremental(r), ~held.g.dirty
      PROVE  LayersInv'
  <2>1. pc' = "idle" /\ result' = [held EXCEPT !.ok = TRUE, !.status = "no_changes"]
    BY <1>3 DEF run_incremental
  <2>2. result'.status = "no_changes"
    BY <2>1 DEF TypeInv, IsResult, ResultFields
  <2> QED
    BY <2>1, <2>2, LayersElsewhere
<1> QED
  BY <1>1, <1>2, <1>3

(* The stages that have no rules yet.                                      *)
LEMMA LayersBefore ==
  ASSUME configure \/ elaborate \/ constrain
  PROVE  LayersInv'
<1>1. CASE configure
  <2>1. Fail(EmptyGraph, <<>>) \/ pc' \in {"elaborate", "constrain"}
    BY <1>1 DEF configure
  <2> QED
    BY <2>1, LayersFails, LayersElsewhere
<1>2. CASE elaborate
  <2>1. Fail(EmptyGraph, <<>>) \/ pc' = "constrain"
    BY <1>2 DEF elaborate
  <2> QED
    BY <2>1, LayersFails, LayersElsewhere
<1>3. CASE constrain
  <2>1. Fail(work.g, work.at) \/ pc' = "set_rules"
    BY <1>3 DEF constrain, Constrain
  <2> QED
    BY <2>1, LayersFails, LayersElsewhere
<1> QED
  BY <1>1, <1>2, <1>3

(* The rules are set from the configuration and the request.               *)
LEMMA LayersSet ==
  ASSUME TypeInv, set_rules
  PROVE  LayersInv'
<1> DEFINE wrong == BadOverride(work.config, request.disable, request.severities)
           engine == WithOverrides(work.config, request.disable, request.severities)
           paths == AllFalsePaths(work.config, work.constraints, request.false_paths)
<1>1. /\ request' = request
      /\ IF wrong THEN Fail(work.g, work.at)
         ELSE /\ work' = [work EXCEPT !.engine = engine, !.false_paths = paths]
              /\ pc' = "analyse"
  BY DEF set_rules
<1>2. DOMAIN work = WorkFields
  BY DEF TypeInv, IsWork
<1> HIDE DEF wrong, engine, paths
<1>3. CASE wrong
  BY <1>1, <1>3, LayersFails
<1>4. CASE ~wrong
  <2>1. work'.engine = engine /\ work'.config = work.config
    BY <1>1, <1>2, <1>4 DEF WorkFields
  <2>2. pc' = "analyse" /\ request' = request
    BY <1>1, <1>4
  <2>3. /\ ~BadOverride(work'.config, request'.disable, request'.severities)
        /\ work'.engine = WithOverrides(work'.config, request'.disable, request'.severities)
    BY <1>4, <2>1, <2>2 DEF wrong, engine
  <2> QED
    BY <2>2, <2>3 DEF LayersInv, Finished
<1> QED
  BY <1>3, <1>4

(* A stage that keeps configuration, engine and request.                   *)
LEMMA LayersKept ==
  ASSUME LayersInv,
         pc \in {"analyse", "load_waivers", "waive", "check_unused", "judge"},
         request' = request, work'.config = work.config, work'.engine = work.engine,
         \A f \in work'.findings : Allowed(work.engine, f),
         pc' = "waive" => \A f \in ToSet(work'.todo) : Allowed(work.engine, f),
         pc' = "idle" =>
           work.config = ApplyProfile(ConfigOf(request).config, request.profile)
  PROVE  LayersInv'
<1>1. /\ ~BadOverride(work'.config, request'.disable, request'.severities)
      /\ work'.engine = WithOverrides(work'.config, request'.disable, request'.severities)
  BY DEF LayersInv
<1>2. Finished' =>
        work'.config = ApplyProfile(ConfigOf(request').config, request'.profile)
  BY DEF Finished
<1>3. /\ \A f \in work'.findings : Allowed(work'.engine, f)
      /\ pc' = "waive" => \A f \in ToSet(work'.todo) : Allowed(work'.engine, f)
  OBVIOUS
<1> QED
  BY <1>1, <1>2, <1>3 DEF LayersInv

(* What the analysis finds has passed the engine.                          *)
LEMMA LayersAnalyse ==
  ASSUME TypeInv, LayersInv, analyse
  PROVE  LayersInv'
<1>1. /\ work'.config = work.config /\ work'.engine = work.engine
      /\ \A f \in work'.findings : Allowed(work.engine, f)
  BY AnalyseWork DEF TypeInv
<1>2. pc = "analyse" /\ pc' = "load_waivers" /\ request' = request
  BY DEF analyse
<1> QED
  BY <1>1, <1>2, LayersKept

(* The findings that are listed are those that were found.                 *)
LEMMA LayersLoad ==
  ASSUME TypeInv, LayersInv, load_waivers
  PROVE  LayersInv'
<1> DEFINE read == WaiversOf(work.config, request.waiver_file)
<1>1. CASE ~read.ok
  <2>1. Fail(work.g, work.at)
    BY <1>1 DEF load_waivers
  <2> QED
    BY <2>1, LayersFails
<1>2. CASE read.ok
  <2>1. pc = "load_waivers"
    BY DEF load_waivers
  <2>2. /\ work'.config = work.config /\ work'.engine = work.engine
        /\ work'.findings = work.findings /\ ToSet(work'.todo) = work.findings
        /\ pc' \in {"judge", "waive"} /\ request' = request
    BY <1>2, LoadWork
  <2>3. \A f \in work.findings : Allowed(work.engine, f)
    BY <2>1 DEF LayersInv
  <2> QED
    BY <2>1, <2>2, <2>3, LayersKept
<1> QED
  BY <1>1, <1>2

(* To waive a finding changes neither its rule nor its severity.           *)
LEMMA LayersWaive ==
  ASSUME TypeInv, LayersInv, waive
  PROVE  LayersInv'
<1>1. /\ pc = "waive" /\ request' = request
      /\ \A f \in work.findings : Allowed(work.engine, f)
      /\ \A f \in ToSet(work.todo) : Allowed(work.engine, f)
  BY DEF waive, LayersInv
<1>2. CASE work.todo = <<>>
  <2>1. pc' = "check_unused" /\ work' = work
    BY <1>2 DEF waive
  <2> QED
    BY <1>1, <2>1, LayersKept
<1>3. CASE work.todo # <<>>
  <2> DEFINE f == Head(work.todo)
             by == WaivedBy(work.waivers, AsNamed(work, f), today)
             h == [f EXCEPT !.by = by]
  <2>1. /\ IsNoted(f) /\ f \in ToSet(work.todo)
        /\ work'.config = work.config /\ work'.engine = work.engine
        /\ work'.findings = (work.findings \ {f}) \cup {h}
        /\ ToSet(work'.todo) \subseteq ToSet(work.todo)
    BY <1>3, WaiveWork DEF TypeInv
  <2>2. pc' = "waive"
    BY <1>1, <1>3 DEF waive
  <2> HIDE DEF f, by
  <2>3. h.rule = f.rule /\ h.severity = f.severity
    BY <2>1, NotedBy
  <2> HIDE DEF h
  <2>4. Allowed(work.engine, h)
    BY <1>1, <2>1, <2>3 DEF Allowed
  <2> QED
    BY <1>1, <2>1, <2>2, <2>4, LayersKept
<1> QED
  BY <1>2, <1>3

(* To look at a waiver changes no finding.                                 *)
LEMMA LayersCheck ==
  ASSUME TypeInv, LayersInv, check_unused
  PROVE  LayersInv'
<1>1. /\ pc = "check_unused" /\ request' = request
      /\ \A f \in work.findings : Allowed(work.engine, f)
  BY DEF check_unused, LayersInv
<1>2. CASE Len(work.warnings) = Len(work.waivers)
  <2>1. pc' = "judge" /\ work' = work
    BY <1>2 DEF check_unused
  <2> QED
    BY <1>1, <2>1, LayersKept
<1>3. CASE Len(work.warnings) # Len(work.waivers)
  <2>1. /\ work'.config = work.config /\ work'.engine = work.engine
        /\ work'.findings = work.findings
    BY <1>3, CheckWork DEF TypeInv
  <2>2. pc' = "check_unused"
    BY <1>1, <1>3 DEF check_unused
  <2> QED
    BY <1>1, <2>1, <2>2, LayersKept
<1> QED
  BY <1>2, <1>3

(* The call ends with the configuration it began with.                     *)
LEMMA LayersJudge ==
  ASSUME TypeInv, LayersInv, judge
  PROVE  LayersInv'
<1>1. pc = "judge" /\ pc' = "idle" /\ UNCHANGED <<request, work>>
  BY DEF judge
<1>2. \A f \in work.findings : Allowed(work.engine, f)
  BY <1>1 DEF LayersInv
<1>3. work.config = ApplyProfile(ConfigOf(request).config, request.profile)
  BY <1>1 DEF TypeInv
<1> QED
  BY <1>1, <1>2, <1>3, LayersKept

(* Every step of Next keeps what the stages know of the rules.             *)
LEMMA LayersStep ==
  ASSUME TypeInv, LayersInv, [Next]_vars
  PROVE  LayersInv'
<1>1. CASE UNCHANGED <<pc, request, work, result>>
  BY <1>1 DEF LayersInv, Finished
<1>2. CASE CallStep
  <2>1. CASE day_passes
    BY <1>1, <2>1 DEF day_passes
  <2> QED
    BY <1>2, <2>1, LayersBegins, LayersBefore, LayersSet, LayersAnalyse, LayersLoad,
       LayersWaive, LayersCheck, LayersJudge DEF CallStep
<1>3. CASE \E r \in Requests : run_incremental(r)
  BY <1>3, LayersBegins
<1>4. ASSUME NEW e \in Edits, edit(e[1], e[2]) PROVE LayersInv'
  BY <1>1, <1>4 DEF edit
<1>5. CASE clear_dirty
  BY <1>1, <1>5 DEF clear_dirty
<1>6. CASE UNCHANGED vars
  BY <1>1, <1>6 DEF vars
<1> QED
  BY <1>2, <1>3, <1>4, <1>5, <1>6 DEF Next

(* The property follows: the layers lie one over the other.                *)
LEMMA LayersAreLaid ==
  ASSUME TypeInv, WaivingInv, LayersInv
  PROVE  LayersRespected
<1> DEFINE name == request.profile
           config == ConfigOf(request).config
           over == ApplyProfile(config, name)
           asked == ToSet(request.severities)
           rules == config.rules
<1> SUFFICES ASSUME Finished, NEW f \in result.findings
             PROVE  /\ f.rule \notin ToSet(request.disable) \cup ProfileDisables(name)
                    /\ f.rule \in DOMAIN rules => rules[f.rule].enabled
                    /\ IF \E s \in asked : s.rule = f.rule
                       THEN \E s \in asked : s.rule = f.rule /\ s.severity = f.severity
                       ELSE IF f.rule \in ProfileErrors(name) THEN f.severity = "error"
                       ELSE f.rule \in DOMAIN rules /\ rules[f.rule].severity # NotGiven =>
                              f.severity = rules[f.rule].severity
  BY DEF LayersRespected, ReadConfig
<1>1. /\ ~BadOverride(over, request.disable, request.severities)
      /\ work.engine = WithOverrides(over, request.disable, request.severities)
      /\ Allowed(work.engine, f)
  BY DEF LayersInv, WaivingInv
<1>2. /\ "rules" \in DOMAIN config
      /\ Len(request.disable) \in Nat /\ DOMAIN request.disable = 1..Len(request.disable)
      /\ Len(request.severities) \in Nat
      /\ DOMAIN request.severities = 1..Len(request.severities)
  BY DEF TypeInv, WellFormed
<1> HIDE DEF over
<1>3. /\ DOMAIN over.rules \subseteq RuleIds /\ ToSet(request.disable) \subseteq RuleIds
      /\ \A s \in asked : s.rule \in RuleIds /\ s.severity # NotGiven
  BY <1>1, SeverityIsGiven DEF BadOverride
<1>4. \A r \in RuleIds :
        /\ work.engine[r].enabled =>
             /\ r \notin ToSet(request.disable)
             /\ r \in DOMAIN over.rules => over.rules[r].enabled
        /\ IF \E s \in asked : s.rule = r
           THEN \E s \in asked : s.rule = r /\ work.engine[r].severity = s.severity
           ELSE r \in DOMAIN over.rules /\ over.rules[r].severity # NotGiven =>
                  work.engine[r].severity = over.rules[r].severity
  BY <1>1, <1>2, OverridesInLayers
<1> HIDE DEF name, config, asked
<1>5. /\ DOMAIN rules \cup ProfileErrors(name) \cup ProfileDisables(name)
              \subseteq DOMAIN over.rules
      /\ \A r \in ProfileDisables(name) : ~over.rules[r].enabled
      /\ \A r \in DOMAIN rules : over.rules[r].enabled => rules[r].enabled
      /\ \A r \in ProfileErrors(name) : over.rules[r].severity = "error"
      /\ \A r \in (DOMAIN rules) \ ProfileErrors(name) :
           over.rules[r].severity = rules[r].severity
  BY <1>2, ProfileLayer DEF over
<1> HIDE DEF rules
<1>6. CASE f.rule \in RuleIds
  <2> DEFINE r == f.rule
             e == work.engine[r]
  <2>1. e.enabled /\ (e.severity # NotGiven => f.severity = e.severity)
    BY <1>1, <1>6 DEF Allowed
  <2>2. r \notin ToSet(request.disable) /\ (r \in DOMAIN over.rules => over.rules[r].enabled)
    BY <1>4, <1>6, <2>1
  <2>3. r \notin ProfileDisables(name) /\ (r \in DOMAIN rules => rules[r].enabled)
    BY <1>5, <2>2
  <2>4. ASSUME NEW s \in asked, s.rule = r
        PROVE  \E t \in asked : t.rule = r /\ t.severity = f.severity
    <3>1. PICK t \in asked : t.rule = r /\ e.severity = t.severity
      BY <1>4, <1>6, <2>4
    <3> QED
      BY <1>3, <2>1, <3>1
  <2>5. ASSUME ~\E s \in asked : s.rule = r
        PROVE  IF r \in ProfileErrors(name) THEN f.severity = "error"
               ELSE r \in DOMAIN rules /\ rules[r].severity # NotGiven =>
                      f.severity = rules[r].severity
    <3>1. r \in DOMAIN over.rules /\ over.rules[r].severity # NotGiven =>
            e.severity = over.rules[r].severity
      BY <1>4, <1>6, <2>5
    <3>2. "error" # NotGiven
      BY SeverityIsGiven DEF Severities
    <3>3. ASSUME r \in ProfileErrors(name) PROVE f.severity = "error"
      BY <1>5, <2>1, <3>1, <3>2, <3>3
    <3>4. ASSUME r \notin ProfileErrors(name), r \in DOMAIN rules,
                 rules[r].severity # NotGiven
          PROVE  f.severity = rules[r].severity
      <4>1. over.rules[r].severity = rules[r].severity /\ r \in DOMAIN over.rules
        BY <1>5, <3>4
      <4> QED
        BY <2>1, <3>1, <3>4, <4>1
    <3> QED
      BY <3>3, <3>4
  <2> QED
    BY <2>2, <2>3, <2>4, <2>5
<1>7. CASE f.rule \notin RuleIds
  BY <1>3, <1>5, <1>7
<1> QED
  BY <1>6, <1>7

-----------------------------------------------------------------------------
(* Every record has its fields, every list is finite, the verdict of a     *)
(* result is the one that its findings and its status get, and the stages  *)
(* know what was waived and what the rules let through, in every state of  *)
(* a call (run_on_graph and its callers).                                  *)
THEOREM Invariance == Spec => [](TypeInv /\ WaivingInv /\ LayersInv)
<1>1. Init => TypeInv /\ WaivingInv /\ LayersInv
  BY AnalyzerPipelineAssumption, TypeInit, WaivingInit, LayersInit DEF Init
<1>2. TypeInv /\ WaivingInv /\ LayersInv /\ [Next]_vars => (TypeInv /\ WaivingInv /\ LayersInv)'
  BY TypeStep, WaivingStep, LayersStep
<1> QED
  BY <1>1, <1>2, PTL DEF Spec

(* What is waived is waived by a waiver that covers it and was valid on a  *)
(* day of the call, whichever day that was (WaiverEngine::apply).          *)
THEOREM WaivingNeedsAuthority == Spec => []WaivedUnderAuthority
<1>1. TypeInv /\ WaivingInv => WaivedUnderAuthority
  BY WaivingIsAuthorised
<1> QED
  BY <1>1, Invariance, PTL

(* A waiver that is called unused covers no finding (check_unused, after   *)
(* any number of days).                                                    *)
THEOREM UnusedIsUnused == Spec => []UnusedMeansUnused
<1>1. TypeInv /\ WaivingInv => UnusedMeansUnused
  BY UnusedCoversNothing
<1> QED
  BY <1>1, Invariance, PTL

(* A rule that configuration, profile or request switches off has no       *)
(* finding in a result, and a severity comes from the outermost layer that *)
(* gives one (apply_profile, then the overrides in order).                 *)
THEOREM LayersAreRespected == Spec => []LayersRespected
<1>1. TypeInv /\ WaivingInv /\ LayersInv => LayersRespected
  BY LayersAreLaid
<1> QED
  BY <1>1, Invariance, PTL

-----------------------------------------------------------------------------
(* What becomes of the source.                                             *)

(* Two nodes that have their clock and their name from one place. *)
SameRoots(g, at, bt) == \A id \in NodeIds(g) : bt[id].root = at[id].root

(* The domains are all that decides what crosses and which searches count. *)
LEMMA RootsDecide ==
  ASSUME NEW V, NEW g \in SoundGraphs(V), NEW D, NEW E, D.g = g, E.g = g,
         SameRoots(g, D.at, E.at)
  PROVE  /\ \A id \in NodeIds(g) : Domain(E, id) = Domain(D, id)
         /\ \A a, b \in NodeIds(g) : Crosses(E, a, b) <=> Crosses(D, a, b)
         /\ CrossedPairs(E) = CrossedPairs(D) /\ CutShort(E) = CutShort(D)
<1>1. Registers(g) \subseteq NodeIds(g)
  BY RegistersAreNodes
<1>2. \A id : Clock(E, id) = Clock(D, id)
  BY DEF Clock
<1>3. \A id \in NodeIds(g) : Domain(E, id) = Domain(D, id)
  BY <1>2 DEF Domain, SameRoots
<1>4. \A id \in NodeIds(g) : HasDomain(E, id) <=> HasDomain(D, id)
  BY <1>3 DEF HasDomain
<1>5. \A a, b \in NodeIds(g) : Crosses(E, a, b) <=> Crosses(D, a, b)
  BY <1>3, <1>4 DEF Crosses
<1>6. \A src : Search(E, src) = Search(D, src)
  BY DEF Search
<1>7. \A e : e \in CrossedPairs(E) <=> e \in CrossedPairs(D)
  BY <1>1, <1>5, <1>6 DEF CrossedPairs
<1>8. \A s : s \in CutShort(E) <=> s \in CutShort(D)
  BY <1>1, <1>4, <1>6 DEF CutShort
<1> QED
  BY <1>3, <1>5, <1>7, <1>8

(* The second enumeration counts the same pairs and the same searches.     *)
LEMMA CoverageCounts ==
  ASSUME NEW V, NEW D, D.g \in SoundGraphs(V), NEW counts
  PROVE  /\ CrossingCoverage(D, counts).analyzed = Cardinality(CrossedPairs(D))
         /\ CrossingCoverage(D, counts).truncated = counts.truncated + Cardinality(CutShort(D))
<1> DEFINE R == Registers(D.g)
           search(src) == FindRegisterPaths(D.g, src, MaxPaths)
           classified == {src \in R : HasDomain(D, src)}
           pairs == UNION {{<<src, Last(p.path)>> : p \in ToSet(search(src).paths)} :
                             src \in classified}
           crossing == {p \in pairs : Crosses(D, p[1], p[2])}
           short == {src \in classified : search(src).truncated}
<1>1. /\ CrossingCoverage(D, counts).analyzed = Cardinality(crossing)
      /\ CrossingCoverage(D, counts).truncated = counts.truncated + Cardinality(short)
  BY DEF CrossingCoverage
<1>2. \A src : search(src) = Search(D, src)
  BY DEF Search
<1>3. short = CutShort(D)
  BY <1>2 DEF CutShort
<1>4. \A src \in R : \A p \in ToSet(Search(D, src).paths) : Last(p.path) \in R
  <2> SUFFICES ASSUME NEW src \in R, NEW p \in ToSet(Search(D, src).paths)
               PROVE  Last(p.path) \in R
    OBVIOUS
  <2> DEFINE h == D.g
  <2>1. h \in SoundGraphs(V) /\ src \in Registers(h)
    OBVIOUS
  <2>2. p \in ToSet(FindRegisterPaths(h, src, MaxPaths).paths)
    BY DEF Search
  <2> HIDE DEF h
  <2>3. Arrives(h, p.path)
    BY <2>1, <2>2, PathsArrive
  <2> QED
    BY <2>3 DEF Arrives, h
<1>5. ASSUME NEW e PROVE e \in crossing <=> e \in CrossedPairs(D)
  <2>1. e \in pairs <=> \E src \in R : HasDomain(D, src) /\
          \E p \in ToSet(Search(D, src).paths) : e = <<src, Last(p.path)>>
    BY <1>2
  <2>2. ASSUME e \in crossing PROVE e \in CrossedPairs(D)
    <3>1. PICK src \in R : HasDomain(D, src) /\
            \E p \in ToSet(Search(D, src).paths) : e = <<src, Last(p.path)>>
      BY <2>1, <2>2
    <3>2. PICK p \in ToSet(Search(D, src).paths) : e = <<src, Last(p.path)>>
      BY <3>1
    <3>3. e \in R \X R /\ e[1] = src /\ e[2] = Last(p.path)
      BY <1>4, <3>2
    <3> QED
      BY <2>2, <3>3 DEF CrossedPairs
  <2>3. ASSUME e \in CrossedPairs(D) PROVE e \in crossing
    <3>1. /\ e \in R \X R /\ Crosses(D, e[1], e[2])
          /\ \E p \in ToSet(Search(D, e[1]).paths) : Last(p.path) = e[2]
      BY <2>3 DEF CrossedPairs
    <3>2. HasDomain(D, e[1]) /\ e = <<e[1], e[2]>> /\ e[1] \in R
      BY <3>1 DEF Crosses
    <3> QED
      BY <2>1, <3>1, <3>2
  <2> QED
    BY <2>2, <2>3
<1> QED
  BY <1>1, <1>3, <1>5

(* Findings that stand for the pairs of a set, one for each; and findings  *)
(* that stand for the members of a set.                                    *)
ReportsPairs(F, rule, S) ==
  /\ \A f \in F : f.rule = rule => <<f.src, f.dst>> \in S
  /\ \A f, e \in F : f.rule = rule /\ e.rule = rule /\ f.src = e.src /\ f.dst = e.dst => f = e
  /\ \A p \in S : \E f \in F : f.rule = rule /\ <<f.src, f.dst>> = p
ReportsSources(F, rule, S) ==
  /\ \A f \in F : f.rule = rule => f.src \in S
  /\ \A f, e \in F : f.rule = rule /\ e.rule = rule /\ f.src = e.src => f = e
  /\ \A s \in S : \E f \in F : f.rule = rule /\ f.src = s

(* Findings that stand for the members of a set, one for each, are as many. *)
LEMMA CountedPairs ==
  ASSUME NEW F, IsFiniteSet(F), NEW rule, NEW S, ReportsPairs(F, rule, S)
  PROVE  Cardinality({f \in F : f.rule = rule}) = Cardinality(S)
<1> DEFINE T == {f \in F : f.rule = rule}
           b == [f \in T |-> <<f.src, f.dst>>]
<1>1. b \in Bijection(T, S)
  <2>1. b \in [T -> S]
    BY DEF ReportsPairs
  <2>2. \A f, e \in T : b[f] = b[e] => f = e
    BY DEF ReportsPairs
  <2>3. \A p \in S : \E f \in T : b[f] = p
    BY DEF ReportsPairs
  <2> HIDE DEF b, T
  <2> QED
    BY <2>1, <2>2, <2>3 DEF Bijection, Injection, Surjection, IsInjective
<1>2. IsFiniteSet(T)
  BY FS_Subset
<1> HIDE DEF T, b
<1>3. ExistsBijection(T, S)
  BY <1>1 DEF ExistsBijection
<1>4. Cardinality(S) = Cardinality(T)
  BY <1>2, <1>3, FS_Bijection
<1> QED
  BY <1>4 DEF T

(* The same, where a finding stands for its source alone. *)
LEMMA CountedSources ==
  ASSUME NEW F, IsFiniteSet(F), NEW rule, NEW S, ReportsSources(F, rule, S)
  PROVE  Cardinality({f \in F : f.rule = rule}) = Cardinality(S)
<1> DEFINE T == {f \in F : f.rule = rule}
           b == [f \in T |-> f.src]
<1>1. b \in Bijection(T, S)
  <2>1. b \in [T -> S]
    BY DEF ReportsSources
  <2>2. \A f, e \in T : b[f] = b[e] => f = e
    BY DEF ReportsSources
  <2>3. \A p \in S : \E f \in T : b[f] = p
    BY DEF ReportsSources
  <2> HIDE DEF b, T
  <2> QED
    BY <2>1, <2>2, <2>3 DEF Bijection, Injection, Surjection, IsInjective
<1>2. IsFiniteSet(T)
  BY FS_Subset
<1> HIDE DEF T, b
<1>3. ExistsBijection(T, S)
  BY <1>1 DEF ExistsBijection
<1>4. Cardinality(S) = Cardinality(T)
  BY <1>2, <1>3, FS_Bijection
<1> QED
  BY <1>4 DEF T

(* A finding that is replaced by one about the same ends leaves that so.   *)
LEMMA ReportsReplaced ==
  ASSUME NEW F, NEW f \in F, NEW h, h.rule = f.rule, h.src = f.src, h.dst = f.dst,
         NEW rule, NEW S
  PROVE  /\ ReportsPairs(F, rule, S) => ReportsPairs((F \ {f}) \cup {h}, rule, S)
         /\ ReportsSources(F, rule, S) => ReportsSources((F \ {f}) \cup {h}, rule, S)
<1> DEFINE G == (F \ {f}) \cup {h}
<1>1. \A g \in G : \E e \in F : /\ g.rule = e.rule /\ g.src = e.src /\ g.dst = e.dst
                                /\ g = IF e = f THEN h ELSE e
  OBVIOUS
<1>2. \A e \in F : \E g \in G : g.rule = e.rule /\ g.src = e.src /\ g.dst = e.dst
  OBVIOUS
<1> HIDE DEF G
<1>3. ASSUME ReportsPairs(F, rule, S) PROVE ReportsPairs(G, rule, S)
  <2>1. \A g \in G : g.rule = rule => <<g.src, g.dst>> \in S
    BY <1>1, <1>3 DEF ReportsPairs
  <2>2. ASSUME NEW a \in G, NEW b \in G, a.rule = rule, b.rule = rule, a.src = b.src, a.dst = b.dst
        PROVE  a = b
    <3>1. PICK c \in F : /\ a.rule = c.rule /\ a.src = c.src /\ a.dst = c.dst
                         /\ a = IF c = f THEN h ELSE c
      BY <1>1
    <3>2. PICK d \in F : /\ b.rule = d.rule /\ b.src = d.src /\ b.dst = d.dst
                         /\ b = IF d = f THEN h ELSE d
      BY <1>1
    <3>3. c.rule = rule /\ d.rule = rule /\ c.src = d.src /\ c.dst = d.dst
      BY <2>2, <3>1, <3>2
    <3>4. c = d
      BY <1>3, <3>3 DEF ReportsPairs
    <3> QED
      BY <3>1, <3>2, <3>4
  <2>3. ASSUME NEW p \in S PROVE \E g \in G : g.rule = rule /\ <<g.src, g.dst>> = p
    <3>1. PICK e \in F : e.rule = rule /\ <<e.src, e.dst>> = p
      BY <1>3 DEF ReportsPairs
    <3> QED
      BY <1>2, <3>1
  <2> QED
    BY <2>1, <2>2, <2>3 DEF ReportsPairs
<1>4. ASSUME ReportsSources(F, rule, S) PROVE ReportsSources(G, rule, S)
  <2>1. \A g \in G : g.rule = rule => g.src \in S
    BY <1>1, <1>4 DEF ReportsSources
  <2>2. ASSUME NEW a \in G, NEW b \in G, a.rule = rule, b.rule = rule, a.src = b.src
        PROVE  a = b
    <3>1. PICK c \in F : /\ a.rule = c.rule /\ a.src = c.src
                         /\ a = IF c = f THEN h ELSE c
      BY <1>1
    <3>2. PICK d \in F : /\ b.rule = d.rule /\ b.src = d.src
                         /\ b = IF d = f THEN h ELSE d
      BY <1>1
    <3>3. c.rule = rule /\ d.rule = rule /\ c.src = d.src
      BY <2>2, <3>1, <3>2
    <3>4. c = d
      BY <1>4, <3>3 DEF ReportsSources
    <3> QED
      BY <3>1, <3>2, <3>4
  <2>3. ASSUME NEW s \in S PROVE \E g \in G : g.rule = rule /\ g.src = s
    <3>1. PICK e \in F : e.rule = rule /\ e.src = s
      BY <1>4 DEF ReportsSources
    <3> QED
      BY <1>2, <3>1
  <2> QED
    BY <2>1, <2>2, <2>3 DEF ReportsSources
<1> QED
  BY <1>3, <1>4 DEF G

(* What the engine and the waivers' list make of a finding that stays.     *)
LetThrough(engine, f) ==
  Put(IF f.rule \in RuleIds /\ engine[f.rule].severity # NotGiven
      THEN [f EXCEPT !.severity = engine[f.rule].severity] ELSE f, "by", 0)

LEMMA PassedFields ==
  ASSUME NEW engine, NEW f, IsFinding(f)
  PROVE  LET h == LetThrough(engine, f) IN
         /\ h.rule = f.rule /\ h.src = f.src /\ h.dst = f.dst
         /\ (f.rule \in RuleIds => engine[f.rule].severity = NotGiven) => h.severity = f.severity
<1> DEFINE k == IF f.rule \in RuleIds /\ engine[f.rule].severity # NotGiven
                THEN [f EXCEPT !.severity = engine[f.rule].severity] ELSE f
           h == Put(k, "by", 0)
<1>1. PICK r, s, a, b, p, t, w :
        f = [rule |-> r, severity |-> s, src |-> a, dst |-> b, path |-> p,
             status |-> t, why |-> w]
  BY DEF IsFinding
<1>2. \E v : k = [rule |-> r, severity |-> v, src |-> a, dst |-> b, path |-> p,
                  status |-> t, why |-> w]
  <2>1. CASE k = f
    BY <1>1, <2>1
  <2>2. CASE k = [f EXCEPT !.severity = engine[f.rule].severity]
    <3> DEFINE v == engine[f.rule].severity
    <3>1. k = [f EXCEPT !.severity = v]
      BY <2>2
    <3> HIDE DEF v, k
    <3> QED
      BY <1>1, <3>1
  <2> QED
    BY <2>1, <2>2
<1>3. (f.rule \in RuleIds => engine[f.rule].severity = NotGiven) => k = f
  OBVIOUS
<1> HIDE DEF k
<1>4. PICK v : k = [rule |-> r, severity |-> v, src |-> a, dst |-> b, path |-> p,
                    status |-> t, why |-> w]
  BY <1>2
<1>5. h = [rule |-> r, severity |-> v, src |-> a, dst |-> b, path |-> p,
           status |-> t, why |-> w, by |-> 0]
  BY <1>4 DEF Put
<1>6. h = LetThrough(engine, f)
  BY DEF LetThrough, k
<1> HIDE DEF h
<1>7. h.rule = r /\ h.src = a /\ h.dst = b /\ h.severity = v
  BY <1>5
<1>8. f.rule = r /\ f.src = a /\ f.dst = b
  BY <1>1
<1>9. k = f => v = f.severity
  <2> SUFFICES ASSUME k = f PROVE v = f.severity
    OBVIOUS
  <2>1. k.severity = v
    BY <1>4
  <2> QED
    BY <2>1
<1> QED
  BY <1>3, <1>6, <1>7, <1>8, <1>9

(* All that pass, and all that the rule table lets through pass.           *)
LEMMA AllPassed ==
  ASSUME NEW engine, NEW F
  PROVE  LET G == {Put(f, "by", 0) : f \in Filter(engine, F)} IN
         /\ \A g \in G : \E f \in F : g = LetThrough(engine, f)
         /\ \A f \in F : (f.rule \in RuleIds => engine[f.rule].enabled) =>
              LetThrough(engine, f) \in G
<1> DEFINE kept == {f \in F : f.rule \in RuleIds => engine[f.rule].enabled}
           e(f) == IF f.rule \in RuleIds /\ engine[f.rule].severity # NotGiven
                   THEN [f EXCEPT !.severity = engine[f.rule].severity] ELSE f
           K == Filter(engine, F)
<1>1. K = {e(f) : f \in kept}
  BY DEF Filter
<1>2. \A f : LetThrough(engine, f) = Put(e(f), "by", 0)
  BY DEF LetThrough
<1> HIDE DEF e, K
<1> QED
  BY <1>1, <1>2 DEF K

(* A rule that is on reports all that the analysis reports.                *)
LEMMA PassedReports ==
  ASSUME NEW engine, NEW F, Findings(F), NEW rule \in RuleIds, engine[rule].enabled, NEW S
  PROVE  LET G == {Put(f, "by", 0) : f \in Filter(engine, F)} IN
         /\ ReportsPairs(F, rule, S) => ReportsPairs(G, rule, S)
         /\ ReportsSources(F, rule, S) => ReportsSources(G, rule, S)
<1> DEFINE G == {Put(f, "by", 0) : f \in Filter(engine, F)}
           P(f) == LetThrough(engine, f)
<1>1. /\ \A g \in G : \E f \in F : g = P(f)
      /\ \A f \in F : (f.rule \in RuleIds => engine[f.rule].enabled) => P(f) \in G
  BY AllPassed
<1>2. \A f \in F : P(f).rule = f.rule /\ P(f).src = f.src /\ P(f).dst = f.dst
  BY PassedFields DEF Findings
<1> HIDE DEF G, P
<1>3. \A f \in F : f.rule = rule => P(f) \in G
  BY <1>1
<1>4. ASSUME ReportsPairs(F, rule, S) PROVE ReportsPairs(G, rule, S)
  <2>1. \A g \in G : g.rule = rule => <<g.src, g.dst>> \in S
    BY <1>1, <1>2, <1>4 DEF ReportsPairs
  <2>2. ASSUME NEW a \in G, NEW b \in G, a.rule = rule, b.rule = rule, a.src = b.src, a.dst = b.dst
        PROVE  a = b
    <3>1. PICK c \in F : a = P(c)
      BY <1>1
    <3>2. PICK d \in F : b = P(d)
      BY <1>1
    <3>3. c.rule = rule /\ d.rule = rule /\ c.src = d.src /\ c.dst = d.dst
      BY <1>2, <2>2, <3>1, <3>2
    <3>4. c = d
      BY <1>4, <3>3 DEF ReportsPairs
    <3> QED
      BY <3>1, <3>2, <3>4
  <2>3. ASSUME NEW p \in S PROVE \E g \in G : g.rule = rule /\ <<g.src, g.dst>> = p
    <3>1. PICK e \in F : e.rule = rule /\ <<e.src, e.dst>> = p
      BY <1>4 DEF ReportsPairs
    <3> QED
      BY <1>2, <1>3, <3>1
  <2> QED
    BY <2>1, <2>2, <2>3 DEF ReportsPairs
<1>5. ASSUME ReportsSources(F, rule, S) PROVE ReportsSources(G, rule, S)
  <2>1. \A g \in G : g.rule = rule => g.src \in S
    BY <1>1, <1>2, <1>5 DEF ReportsSources
  <2>2. ASSUME NEW a \in G, NEW b \in G, a.rule = rule, b.rule = rule, a.src = b.src
        PROVE  a = b
    <3>1. PICK c \in F : a = P(c)
      BY <1>1
    <3>2. PICK d \in F : b = P(d)
      BY <1>1
    <3>3. c.rule = rule /\ d.rule = rule /\ c.src = d.src
      BY <1>2, <2>2, <3>1, <3>2
    <3>4. c = d
      BY <1>5, <3>3 DEF ReportsSources
    <3> QED
      BY <3>1, <3>2, <3>4
  <2>3. ASSUME NEW s \in S PROVE \E g \in G : g.rule = rule /\ g.src = s
    <3>1. PICK e \in F : e.rule = rule /\ e.src = s
      BY <1>5 DEF ReportsSources
    <3> QED
      BY <1>2, <1>3, <3>1
  <2> QED
    BY <2>1, <2>2, <2>3 DEF ReportsSources
<1> QED
  BY <1>4, <1>5 DEF G

(* What the analysis tells, in these words.                                *)
LEMMA TellsReports ==
  ASSUME NEW D, NEW F, Tells(D, F)
  PROVE  /\ ReportsPairs(F, "CDC001", CrossedPairs(D))
         /\ ReportsSources(F, "CDC010", CutShort(D))
<1>1. \A p \in CrossedPairs(D) : p = <<p[1], p[2]>>
  BY DEF CrossedPairs
<1>2. ReportsPairs(F, "CDC001", CrossedPairs(D))
  BY <1>1 DEF Tells, ReportsPairs
<1>3. ReportsSources(F, "CDC010", CutShort(D))
  BY DEF Tells, ReportsSources
<1> QED
  BY <1>2, <1>3

-----------------------------------------------------------------------------
(* What the user says of a pair of registers.                              *)

(* A pattern that is not written leaves every name open, and so does one   *)
(* that matches. *)
Leaves(pattern, name) == pattern = <<>> \/ PatternMatches(pattern, name)
(* The name of a clock of the configuration. *)
WrittenClock(c) == IF c = "" THEN <<>> ELSE ClockNames[c]
(* Two clocks that a list sets apart. *)
Grouped(clocks, a, b) ==
  \E i, j \in DOMAIN clocks : i # j /\ Leaves(clocks[i], a) /\ Leaves(clocks[j], b)

(* ToldFalse, of two names and two clocks. *)
Told(config, constraints, requested, src, a, dst, b) ==
  \/ \E fp \in ToSet(config.false_paths) :
       /\ Leaves(fp.src, src) /\ Leaves(WrittenClock(fp.src_clock), a)
       /\ Leaves(fp.dst, dst) /\ Leaves(WrittenClock(fp.dst_clock), b)
  \/ \E p \in ToSet(requested) : Leaves(p[1], src) /\ Leaves(p[2], dst)
  \/ \E fp \in ToSet(constraints.false_paths) :
       /\ Leaves(fp.from.clock, a) /\ Leaves(fp.to.clock, b)
       /\ \A k \in EndKinds \ {"clock"} : Leaves(fp.from[k], src) /\ Leaves(fp.to[k], dst)
  \/ \E g \in ToSet(config.clock_groups) :
       g.exclusive /\ Grouped([i \in DOMAIN g.clocks |-> ClockNames[g.clocks[i]]], a, b)
  \/ \E g \in ToSet(constraints.groups) : g.exclusive /\ Grouped(g.clocks, a, b)
  \/ \E mcp \in ToSet(constraints.multicycle) : Leaves(mcp.from, a) /\ Leaves(mcp.to, b)

(* What is told of the names and clocks of two registers is told of them. *)
LEMMA ToldIsTold ==
  ASSUME NEW src, NEW dst,
         Told(work.config, work.constraints, request.false_paths,
              NameOf(src), ClockOf(src), NameOf(dst), ClockOf(dst))
  PROVE  ToldFalse(src, dst)
BY DEF Told, ToldFalse, Leaves, WrittenClock, Grouped

(* The ends of a false path as they are compared.                          *)
LEMMA EndFields ==
  ASSUME NEW c, NEW r
  PROVE  /\ End(c, r).clock = c /\ End(c, r).reg = r
         /\ \A k \in EndKinds \ {"clock"} : End(c, r)[k] = r
         /\ RegAndClock(r, c).clock = c /\ RegAndClock(r, c).reg = r
<1>1. "clock" \in EndKinds /\ "reg" \in EndKinds /\ "reg" # "clock"
  BY DEF EndKinds
<1>2. End(c, r).clock = c /\ End(c, r).reg = r /\ \A k \in EndKinds \ {"clock"} : End(c, r)[k] = r
  BY <1>1 DEF End
<1>3. DOMAIN NoEnd = EndKinds
  BY DEF NoEnd, End
<1>4. RegAndClock(r, c).clock = c /\ RegAndClock(r, c).reg = r
  BY <1>1, <1>3 DEF RegAndClock
<1> QED
  BY <1>2, <1>4

(* A false path that matches leaves its pair open in every word. *)
LEMMA EndsLeave ==
  ASSUME NEW fp, NEW src, NEW a, NEW dst, NEW b, EndsMatch(fp, End(a, src), End(b, dst))
  PROVE  /\ Leaves(fp.from.clock, a) /\ Leaves(fp.to.clock, b)
         /\ \A k \in EndKinds \ {"clock"} : Leaves(fp.from[k], src) /\ Leaves(fp.to[k], dst)
<1>1. \A k \in EndKinds : Leaves(fp.from[k], End(a, src)[k]) /\ Leaves(fp.to[k], End(b, dst)[k])
  BY DEF EndsMatch, Leaves
<1>2. /\ End(a, src).clock = a /\ End(b, dst).clock = b
      /\ \A k \in EndKinds \ {"clock"} : End(a, src)[k] = src
      /\ \A k \in EndKinds \ {"clock"} : End(b, dst)[k] = dst
  BY EndFields
<1>3. "clock" \in EndKinds
  BY DEF EndKinds
<1> QED
  BY <1>1, <1>2, <1>3

(* What stands for an exclusive group. *)
Between(a, b) == FalsePath(RegAndClock(<<>>, a), RegAndClock(<<>>, b), <<>>)

(* What add_exclusive_fps adds stands between two clocks of one group. *)
LEMMA ExclusiveOnes ==
  ASSUME NEW paths, NEW groups, NEW fp \in AddExclusive(paths, groups).fps
  PROVE  \/ fp \in paths.fps
         \/ \E g \in ToSet(groups) : g.exclusive /\
              \E i, j \in DOMAIN g.clocks : i # j /\ fp = Between(g.clocks[i], g.clocks[j])
<1> DEFINE Both(clocks) == UNION {{<<clocks[i], clocks[j]>> : j \in (DOMAIN clocks) \ {i}} :
                                    i \in DOMAIN clocks}
           ex == {g \in ToSet(groups) : g.exclusive}
           pairs == UNION {Both(g.clocks) : g \in ex}
<1>1. fp \in paths.fps \/ \E p \in pairs : fp = Between(p[1], p[2])
  BY DEF AddExclusive, Between
<1>2. ASSUME NEW p \in pairs, fp = Between(p[1], p[2])
      PROVE  \E g \in ToSet(groups) : g.exclusive /\
               \E i, j \in DOMAIN g.clocks : i # j /\ fp = Between(g.clocks[i], g.clocks[j])
  <2>1. PICK g \in ex : p \in Both(g.clocks)
    BY <1>2
  <2>2. PICK i \in DOMAIN g.clocks : \E j \in (DOMAIN g.clocks) \ {i} : p = <<g.clocks[i], g.clocks[j]>>
    BY <2>1
  <2>3. PICK j \in (DOMAIN g.clocks) \ {i} : p = <<g.clocks[i], g.clocks[j]>>
    BY <2>2
  <2>4. p[1] = g.clocks[i] /\ p[2] = g.clocks[j]
    BY <2>3
  <2> QED
    BY <1>2, <2>1, <2>3, <2>4
<1> QED
  BY <1>1, <1>2

(* Such a false path matches only clocks that the group sets apart. *)
LEMMA BetweenTold ==
  ASSUME NEW clocks, NEW i \in DOMAIN clocks, NEW j \in DOMAIN clocks, i # j,
         NEW src, NEW a, NEW dst, NEW b,
         EndsMatch(Between(clocks[i], clocks[j]), End(a, src), End(b, dst))
  PROVE  Grouped(clocks, a, b)
<1> DEFINE fp == Between(clocks[i], clocks[j])
<1>1. Leaves(fp.from.clock, a) /\ Leaves(fp.to.clock, b)
  BY EndsLeave
<1>2. fp.from.clock = clocks[i] /\ fp.to.clock = clocks[j]
  BY EndFields DEF Between, FalsePath
<1> HIDE DEF fp
<1> QED
  BY <1>1, <1>2 DEF Grouped

(* The members of a sequence. *)
LEMMA ElementIn == ASSUME NEW s, NEW i \in DOMAIN s PROVE s[i] \in ToSet(s)
BY DEF ToSet

LEMMA InElement == ASSUME NEW s, NEW x \in ToSet(s) PROVE \E i \in DOMAIN s : x = s[i]
BY DEF ToSet

(* Every false path that matches a pair was asked for by somebody.         *)
LEMMA FalsePathTold ==
  ASSUME NEW config, NEW constraints, NEW requested,
         NEW fp \in AllFalsePaths(config, constraints, requested),
         NEW src, NEW a, NEW dst, NEW b, EndsMatch(fp, End(a, src), End(b, dst))
  PROVE  Told(config, constraints, requested, src, a, dst, b)
<1> DEFINE Clocks(g) == [i \in DOMAIN g.clocks |-> ClockNames[g.clocks[i]]]
           given == ToSet(constraints.false_paths) \cup
                    {OfConfig(q) : q \in ToSet(config.false_paths)}
           asked == {FalsePath(RegAndClock(p[1], <<>>), RegAndClock(p[2], <<>>), <<>>) :
                       p \in ToSet(requested)}
           keys == {<<q.from.clock, q.to.clock>> : q \in given}
           groups == [i \in DOMAIN config.clock_groups |->
                        [clocks |-> Clocks(config.clock_groups[i]),
                         exclusive |-> config.clock_groups[i].exclusive]]
           start == [fps |-> given, keys |-> keys]
           paths == AddExclusive(start, groups)
<1>1. fp \in asked \/ fp \in AddExclusive(paths, constraints.groups).fps
  BY DEF AllFalsePaths
<1>2. /\ Leaves(fp.from.clock, a) /\ Leaves(fp.to.clock, b)
      /\ \A k \in EndKinds \ {"clock"} : Leaves(fp.from[k], src) /\ Leaves(fp.to[k], dst)
  BY EndsLeave
<1>3. "reg" \in EndKinds \ {"clock"}
  BY DEF EndKinds
<1>4. CASE fp \in asked
  <2>1. PICK p \in ToSet(requested) :
          fp = FalsePath(RegAndClock(p[1], <<>>), RegAndClock(p[2], <<>>), <<>>)
    BY <1>4
  <2>2. fp.from.reg = p[1] /\ fp.to.reg = p[2]
    BY <2>1, EndFields DEF FalsePath
  <2>3. Leaves(p[1], src) /\ Leaves(p[2], dst)
    BY <1>2, <1>3, <2>2
  <2> QED
    BY <2>3 DEF Told
<1>5. CASE fp \in given
  <2>1. CASE fp \in ToSet(constraints.false_paths)
    BY <1>2, <2>1 DEF Told
  <2>2. ASSUME NEW q \in ToSet(config.false_paths), fp = OfConfig(q)
        PROVE  Told(config, constraints, requested, src, a, dst, b)
    <3>1. fp = FalsePath(RegAndClock(q.src, WrittenClock(q.src_clock)),
                         RegAndClock(q.dst, WrittenClock(q.dst_clock)), <<>>)
      BY <2>2 DEF OfConfig, WrittenClock
    <3>2. /\ fp.from.reg = q.src /\ fp.from.clock = WrittenClock(q.src_clock)
          /\ fp.to.reg = q.dst /\ fp.to.clock = WrittenClock(q.dst_clock)
      BY <3>1, EndFields DEF FalsePath
    <3>3. /\ Leaves(q.src, src) /\ Leaves(WrittenClock(q.src_clock), a)
          /\ Leaves(q.dst, dst) /\ Leaves(WrittenClock(q.dst_clock), b)
      BY <1>2, <1>3, <3>2
    <3> QED
      BY <3>3 DEF Told
  <2> QED
    BY <1>5, <2>1, <2>2
<1>6. ASSUME NEW g \in ToSet(groups), g.exclusive,
             NEW i \in DOMAIN g.clocks, NEW j \in DOMAIN g.clocks, i # j,
             fp = Between(g.clocks[i], g.clocks[j])
      PROVE  Told(config, constraints, requested, src, a, dst, b)
  <2>1. Grouped(g.clocks, a, b)
    <3> DEFINE clocks == g.clocks
    <3>1. i \in DOMAIN clocks /\ j \in DOMAIN clocks
          /\ EndsMatch(Between(clocks[i], clocks[j]), End(a, src), End(b, dst))
      BY <1>6
    <3> HIDE DEF clocks, groups
    <3>2. Grouped(clocks, a, b)
      BY <1>6, <3>1, BetweenTold
    <3> QED
      BY <3>2 DEF clocks
  <2>2. PICK n \in DOMAIN config.clock_groups : g = groups[n]
    <3>1. \E n \in DOMAIN groups : g = groups[n]
      <4> HIDE DEF groups
      <4> QED
        BY InElement
    <3> QED
      BY <3>1
  <2> DEFINE c == config.clock_groups[n]
  <2>3. g.clocks = Clocks(c) /\ c.exclusive
    BY <1>6, <2>2
  <2>4. c \in ToSet(config.clock_groups)
    <3> DEFINE s == config.clock_groups
    <3>1. n \in DOMAIN s
      OBVIOUS
    <3> HIDE DEF s
    <3>2. s[n] \in ToSet(s)
      BY <3>1, ElementIn
    <3> QED
      BY <3>2 DEF s
  <2>5. Grouped([k \in DOMAIN c.clocks |-> ClockNames[c.clocks[k]]], a, b)
    BY <2>1, <2>3
  <2> HIDE DEF c
  <2> QED
    BY <2>3, <2>4, <2>5 DEF Told
<1>7. ASSUME NEW g \in ToSet(constraints.groups), g.exclusive,
             NEW i \in DOMAIN g.clocks, NEW j \in DOMAIN g.clocks, i # j,
             fp = Between(g.clocks[i], g.clocks[j])
      PROVE  Told(config, constraints, requested, src, a, dst, b)
  <2>1. Grouped(g.clocks, a, b)
    <3> DEFINE clocks == g.clocks
    <3>1. i \in DOMAIN clocks /\ j \in DOMAIN clocks
          /\ EndsMatch(Between(clocks[i], clocks[j]), End(a, src), End(b, dst))
      BY <1>7
    <3> HIDE DEF clocks
    <3>2. Grouped(clocks, a, b)
      BY <1>7, <3>1, BetweenTold
    <3> QED
      BY <3>2 DEF clocks
  <2> QED
    BY <1>7, <2>1 DEF Told
<1>8. start.fps = given
  OBVIOUS
<1> HIDE DEF asked, given, groups, paths, start
<1>9. CASE fp \in AddExclusive(paths, constraints.groups).fps
  <2>1. fp \in paths.fps \/ Told(config, constraints, requested, src, a, dst, b)
    BY <1>7, <1>9, ExclusiveOnes
  <2>2. ASSUME fp \in paths.fps PROVE Told(config, constraints, requested, src, a, dst, b)
    <3>1. fp \in AddExclusive(start, groups).fps
      BY <2>2 DEF paths
    <3>2. fp \in start.fps \/ Told(config, constraints, requested, src, a, dst, b)
      BY <1>6, <3>1, ExclusiveOnes
    <3> QED
      BY <1>5, <1>8, <3>2
  <2> QED
    BY <2>1, <2>2
<1> QED
  BY <1>1, <1>4, <1>9

-----------------------------------------------------------------------------
(* Why a crossing without a synchronizer is no error.                      *)

(* A register that no register of its clock follows is no synchronizer.    *)
LEMMA LoneStage ==
  ASSUME NEW V, NEW D, D.g \in SoundGraphs(V), NEW dst \in Registers(D.g),
         \A s \in ToSet(Direct(D, dst)) : Clock(D, s) # Clock(D, dst),
         D.at[dst].packed \in Nat, D.at[dst].packed < 2
  PROVE  FindPatternForDest(D, dst, TRUE) = "None"
<1> DEFINE T == TRUE
           c == Chain(D, dst, T, T)
           next == Fitting(D, dst, dst, T, T)
<1>1. dst \in Nat
  BY RegistersAreNodes
<1> HIDE DEF T
<1>2. WholeChain(D, dst, c, T, T)
  BY <1>1, ChainIs
<1> HIDE DEF c
<1>3. /\ Len(c) \in 1..(MaxStages + 1) /\ c[1] = dst
      /\ \A i \in 1..(Len(c) - 1) : Fitting(D, dst, c[i], T, T) # <<>>
  BY <1>2 DEF WholeChain, StageWalk
<1>4. next = <<>>
  <2>1. next \in Seq(Nat)
    BY <1>1, FittingFacts
  <2>2. \A s : s \in ToSet(next) => s \in ToSet(Direct(D, dst)) /\ Fits(D, dst, dst, s, T, T)
    BY <1>1, FittingFacts
  <2>3. \A s : s \notin ToSet(next)
    BY <2>2 DEF Fits
  <2> HIDE DEF next
  <2>4. ASSUME next # <<>> PROVE FALSE
    <3>1. 1 \in DOMAIN next
      BY <2>1, <2>4
    <3> QED
      BY <2>3, <3>1, ElementIn
  <2> QED
    BY <2>4
<1>5. Len(c) = 1
  <2> SUFFICES ASSUME Len(c) # 1 PROVE FALSE
    OBVIOUS
  <2>1. 1 \in 1..(Len(c) - 1)
    BY <1>3 DEF MaxStages
  <2> QED
    BY <1>3, <1>4, <2>1
<1>6. \A depth \in Nat : depth < 2 => PatternFromDepth(depth) = "None"
  BY DEF PatternFromDepth
<1>7. PatternFromDepth(Len(c)) = "None" /\ PatternFromDepth(D.at[dst].packed) = "None"
  BY <1>5, <1>6
<1>8. FindPatternForDest(D, dst, T) \in
        {"None", PatternFromDepth(D.at[dst].packed), PatternFromDepth(Len(c))}
  BY DEF FindPatternForDest, c, T
<1> QED
  BY <1>7, <1>8 DEF T

(* The attributes of a node that tell what becomes of a crossing; the      *)
(* marks of uncertain values do not.                                       *)
SameSources(g, at, bt) ==
  \A id \in NodeIds(g) :
    /\ bt[id].root = at[id].root /\ bt[id].name = at[id].name
    /\ bt[id].module = at[id].module /\ bt[id].isolation = at[id].isolation
    /\ bt[id].packed = at[id].packed

(* The name of the domain of a register. *)
EndAt(g, at, id) == ClockNames[Domain([g |-> g, at |-> at], id)]

(* What answers for a crossing into a register that is no synchronizer.    *)
Answered(config, constraints, requested, g, at, src, dst) ==
  \/ Told(config, constraints, requested, at[src].name, EndAt(g, at, src),
          at[dst].name, EndAt(g, at, dst))
  \/ \E p \in SimplePaths(g, src) :
       /\ Last(p) = dst
       /\ \E id \in ToSet(p) : /\ id \in NodeIds(g)
                               /\ at[id].isolation \/ InSafeBox(config, at[id].module)

(* No register of its clock follows the destination: somebody answers. *)
Excused(config, constraints, requested, g, at, src, dst) ==
  LET B == [g |-> g, at |-> at] IN
  (\A s \in ToSet(Direct(B, dst)) : Clock(B, s) # Clock(B, dst)) /\ at[dst].packed < 2 =>
    Answered(config, constraints, requested, g, at, src, dst)

(* The marks of uncertain values excuse nothing. *)
LEMMA ExcusedStill ==
  ASSUME NEW V, NEW g \in SoundGraphs(V), NEW at, NEW bt, SameSources(g, at, bt),
         NEW src \in Registers(g), NEW dst \in Registers(g),
         NEW config, NEW constraints, NEW requested,
         Excused(config, constraints, requested, g, at, src, dst)
  PROVE  Excused(config, constraints, requested, g, bt, src, dst)
<1> DEFINE B == [g |-> g, at |-> at]
           C == [g |-> g, at |-> bt]
<1>1. src \in NodeIds(g) /\ dst \in NodeIds(g)
  BY RegistersAreNodes
<1>2. /\ B.g = g /\ C.g = g /\ B.at = at /\ C.at = bt
  OBVIOUS
<1> HIDE DEF B, C
<1>3. \A id : Clock(C, id) = Clock(B, id)
  BY <1>2 DEF Clock
<1>4. \A id : Direct(C, id) = Direct(B, id)
  BY <1>2 DEF Direct
<1>5. \A id \in NodeIds(g) : Domain(C, id) = Domain(B, id)
  BY <1>2, <1>3 DEF Domain, SameSources
<1>6. /\ bt[src].name = at[src].name /\ bt[dst].name = at[dst].name
      /\ EndAt(g, bt, src) = EndAt(g, at, src) /\ EndAt(g, bt, dst) = EndAt(g, at, dst)
      /\ bt[dst].packed = at[dst].packed
  BY <1>1, <1>5 DEF EndAt, SameSources, B, C
<1>7. Answered(config, constraints, requested, g, at, src, dst) =>
        Answered(config, constraints, requested, g, bt, src, dst)
  BY <1>6 DEF Answered, SameSources
<1>8. Excused(config, constraints, requested, g, at, src, dst) <=>
        ((\A s \in ToSet(Direct(B, dst)) : Clock(B, s) # Clock(B, dst)) /\ at[dst].packed < 2 =>
           Answered(config, constraints, requested, g, at, src, dst))
  BY DEF Excused, B
<1>9. Excused(config, constraints, requested, g, bt, src, dst) <=>
        ((\A s \in ToSet(Direct(C, dst)) : Clock(C, s) # Clock(C, dst)) /\ bt[dst].packed < 2 =>
           Answered(config, constraints, requested, g, bt, src, dst))
  BY DEF Excused, C
<1> QED
  BY <1>3, <1>4, <1>6, <1>7, <1>8, <1>9

(* The attributes a frontend gives the nodes of a graph.                   *)
Attributes(g, at) ==
  /\ NodeIds(g) \subseteq DOMAIN at
  /\ \A id \in DOMAIN at : /\ DOMAIN at[id] = AttributeFields \cup {"name", "module"}
                           /\ at[id].packed \in Nat

(* The design the analysis is given, read off the locals of the call.      *)
LEMMA DesignIs ==
  ASSUME NEW w, \A id \in DOMAIN w.at : "safe_box" \in DOMAIN w.at[id]
  PROVE  LET D == Design(w) IN
         /\ D.g = w.g
         /\ \A id \in DOMAIN w.at :
              /\ D.at[id].safe_box = InSafeBox(w.config, w.at[id].module)
              /\ \A k \in DOMAIN w.at[id] \ {"safe_box"} : D.at[id][k] = w.at[id][k]
         /\ \A src, dst, path : IsFalsePath(D, src, dst, path) =>
              \E fp \in w.false_paths :
                EndsMatch(fp, End(EndAt(w.g, w.at, src), w.at[src].name),
                              End(EndAt(w.g, w.at, dst), w.at[dst].name))
         /\ \A a, b : <<a, b>> \in D.multicycle =>
              \E mcp \in ToSet(w.constraints.multicycle) :
                Leaves(mcp.from, ClockNames[a]) /\ Leaves(mcp.to, ClockNames[b])
<1> DEFINE D == Design(w)
           ids == DOMAIN w.at
           regs == Registers(w.g)
           B == [g |-> w.g, at |-> w.at]
           domains == {Domain(B, id) : id \in {id \in regs : HasDomain(B, id)}}
           EndOf(id) == End(ClockNames[Domain(B, id)], w.at[id].name)
           known == {id \in regs : HasDomain(B, id)}
           Cut(fp) ==
             [clocks |-> <<>>,
              ends |-> <<{p \in known \X known : EndsMatch(fp, EndOf(p[1]), EndOf(p[2]))}>>,
              through |-> {{id \in ids : PatternMatches(pattern, w.at[id].name)} :
                             pattern \in ToSet(fp.through)}]
<1>1. /\ D.g = w.g
      /\ D.at = [id \in ids |->
                   [w.at[id] EXCEPT !.safe_box = InSafeBox(w.config, w.at[id].module)]]
      /\ D.false_paths = {Cut(fp) : fp \in {fp \in w.false_paths : Selective(fp)}}
      /\ D.multicycle = {p \in domains \X domains :
                           \E mcp \in ToSet(w.constraints.multicycle) :
                             MulticycleMatches(mcp, ClockNames[p[1]], ClockNames[p[2]])}
  BY DEF Design
<1>2. \A id : EndOf(id) = End(EndAt(w.g, w.at, id), w.at[id].name)
  BY DEF EndAt
<1> HIDE DEF D
<1>3. \A id \in DOMAIN w.at :
        /\ D.at[id].safe_box = InSafeBox(w.config, w.at[id].module)
        /\ \A k \in DOMAIN w.at[id] \ {"safe_box"} : D.at[id][k] = w.at[id][k]
  BY <1>1
<1>4. ASSUME NEW src, NEW dst, NEW path, IsFalsePath(D, src, dst, path)
      PROVE  \E fp \in w.false_paths :
               EndsMatch(fp, End(EndAt(w.g, w.at, src), w.at[src].name),
                             End(EndAt(w.g, w.at, dst), w.at[dst].name))
  <2>1. PICK c \in D.false_paths : \A pairs \in ToSet(c.ends) : <<src, dst>> \in pairs
    BY <1>4 DEF IsFalsePath
  <2>2. PICK fp \in w.false_paths : c = Cut(fp)
    BY <1>1, <2>1
  <2> DEFINE X == {p \in known \X known : EndsMatch(fp, EndOf(p[1]), EndOf(p[2]))}
  <2>3. c.ends = <<X>>
    BY <2>2
  <2>4. <<src, dst>> \in X
    <3> HIDE DEF X
    <3>1. ToSet(<<X>>) = {X}
      BY SetOfOne
    <3> QED
      BY <2>1, <2>3, <3>1
  <2>5. EndsMatch(fp, EndOf(src), EndOf(dst))
    <3> HIDE DEF EndOf, known
    <3> QED
      BY <2>4
  <2> HIDE DEF EndOf, X
  <2> QED
    BY <1>2, <2>5
<1>5. ASSUME NEW a, NEW b, <<a, b>> \in D.multicycle
      PROVE  \E mcp \in ToSet(w.constraints.multicycle) :
               Leaves(mcp.from, ClockNames[a]) /\ Leaves(mcp.to, ClockNames[b])
  <2>1. PICK mcp \in ToSet(w.constraints.multicycle) :
          MulticycleMatches(mcp, ClockNames[a], ClockNames[b])
    <3> HIDE DEF domains
    <3> QED
      BY <1>1, <1>5
  <2> QED
    BY <2>1 DEF MulticycleMatches, Leaves
<1> QED
  BY <1>1, <1>3, <1>4, <1>5 DEF D

(* A crossing that is no error is answered for, if no synchronizer stands  *)
(* behind it.                                                              *)
LEMMA CrossingsExcused ==
  ASSUME NEW V, NEW w, w.g \in SoundGraphs(V), Attributes(w.g, w.at), NEW requested,
         w.false_paths = AllFalsePaths(w.config, w.constraints, requested),
         NEW f \in StructuralFindings(Design(w)), f.rule = "CDC001"
  PROVE  \/ f.severity = "error"
         \/ Excused(w.config, w.constraints, requested, w.g, w.at, f.src, f.dst)
<1> DEFINE D == Design(w)
           B == [g |-> w.g, at |-> w.at]
           src == f.src
           dst == f.dst
<1>1. \A id \in DOMAIN w.at : "safe_box" \in DOMAIN w.at[id]
  BY DEF Attributes, AttributeFields
<1>2. /\ D.g = w.g
      /\ \A id \in DOMAIN w.at :
           /\ D.at[id].safe_box = InSafeBox(w.config, w.at[id].module)
           /\ \A k \in DOMAIN w.at[id] \ {"safe_box"} : D.at[id][k] = w.at[id][k]
      /\ \A a, b, path : IsFalsePath(D, a, b, path) =>
           \E fp \in w.false_paths :
             EndsMatch(fp, End(EndAt(w.g, w.at, a), w.at[a].name),
                           End(EndAt(w.g, w.at, b), w.at[b].name))
      /\ \A a, b : <<a, b>> \in D.multicycle =>
           \E mcp \in ToSet(w.constraints.multicycle) :
             Leaves(mcp.from, ClockNames[a]) /\ Leaves(mcp.to, ClockNames[b])
  BY <1>1, DesignIs
<1>3. \A id \in NodeIds(w.g) :
        /\ id \in DOMAIN w.at
        /\ D.at[id].root = w.at[id].root /\ D.at[id].packed = w.at[id].packed
        /\ D.at[id].isolation = w.at[id].isolation
        /\ D.at[id].safe_box = InSafeBox(w.config, w.at[id].module)
        /\ w.at[id].packed \in Nat
  BY <1>2 DEF Attributes, AttributeFields
<1>4. D.g \in SoundGraphs(V) /\ StructuralFindings(D) = StructuralFindings(Design(w))
  BY <1>2
<1> HIDE DEF D
<1>5. PICK e \in Analyze(D) : e.rule = "CDC001" /\ CrossingSays(D, e) /\ f = Lowered(D, e)
  <2>1. f \in StructuralFindings(D)
    BY <1>4
  <2> QED
    BY <1>4, <2>1, StructuralSays
<1>6. IsFinding(e) /\ Arrives(D.g, e.path)
  <2>1. Findings(Analyze(D))
    BY <1>4, AnalyzeTells
  <2>2. \A x \in Analyze(D) : x.rule = "CDC001" => Arrives(D.g, x.path)
    BY <1>4, CrossingsArrive
  <2> QED
    BY <1>5, <2>1, <2>2 DEF Findings
<1>7. e.src = src /\ e.dst = dst
  BY <1>5, <1>6, LoweredFields DEF IsAbout
<1>8. /\ src \in Registers(w.g) /\ dst \in Registers(w.g)
      /\ e.path \in SimplePaths(w.g, src) /\ Last(e.path) = dst /\ Judges(D, e)
  BY <1>2, <1>5, <1>7 DEF CrossingSays
<1>9. src \in NodeIds(w.g) /\ dst \in NodeIds(w.g) /\ ToSet(e.path) \subseteq NodeIds(w.g)
  BY <1>2, <1>6, <1>8, RegistersAreNodes DEF Arrives
<1>10. \A id : Clock(D, id) = Clock(B, id)
  BY <1>2 DEF Clock
<1>11. \A id : Direct(D, id) = Direct(B, id)
  BY <1>2 DEF Direct
<1>12. \A id \in NodeIds(w.g) : ClockNames[Domain(D, id)] = EndAt(w.g, w.at, id)
  <2>1. \A id \in NodeIds(w.g) : Domain(D, id) = Domain(B, id)
    BY <1>3, <1>10 DEF Domain
  <2> QED
    BY <2>1 DEF EndAt
<1> DEFINE T == Told(w.config, w.constraints, requested, w.at[src].name, EndAt(w.g, w.at, src),
                     w.at[dst].name, EndAt(w.g, w.at, dst))
           boxed == \E id \in ToSet(e.path) : D.at[id].isolation \/ D.at[id].safe_box
           A == Answered(w.config, w.constraints, requested, w.g, w.at, src, dst)
<1>13. T => A
  BY DEF Answered
<1>14. boxed => A
  BY <1>3, <1>8, <1>9 DEF Answered
<1>15. ASSUME IsFalsePath(D, src, dst, e.path) PROVE T
  <2>1. PICK fp \in w.false_paths :
          EndsMatch(fp, End(EndAt(w.g, w.at, src), w.at[src].name),
                        End(EndAt(w.g, w.at, dst), w.at[dst].name))
    BY <1>2, <1>15
  <2>2. fp \in AllFalsePaths(w.config, w.constraints, requested)
    OBVIOUS
  <2> QED
    BY <2>1, <2>2, FalsePathTold
<1>16. ASSUME <<Domain(D, src), Domain(D, dst)>> \in D.multicycle PROVE T
  <2>1. PICK mcp \in ToSet(w.constraints.multicycle) :
          Leaves(mcp.from, ClockNames[Domain(D, src)]) /\ Leaves(mcp.to, ClockNames[Domain(D, dst)])
    BY <1>2, <1>16
  <2>2. Leaves(mcp.from, EndAt(w.g, w.at, src)) /\ Leaves(mcp.to, EndAt(w.g, w.at, dst))
    BY <1>9, <1>12, <2>1
  <2> QED
    BY <2>2 DEF Told
<1>17. ASSUME e = Judged(D, src, dst, e.path),
              \A s \in ToSet(Direct(B, dst)) : Clock(B, s) # Clock(B, dst), w.at[dst].packed < 2
       PROVE  f.severity = "error" \/ boxed
  <2>1. FindPatternForDest(D, dst, TRUE) = "None"
    <3>1. dst \in Registers(D.g) /\ D.at[dst].packed \in Nat /\ D.at[dst].packed < 2
      BY <1>2, <1>3, <1>8, <1>9, <1>17
    <3>2. \A s \in ToSet(Direct(D, dst)) : Clock(D, s) # Clock(D, dst)
      BY <1>10, <1>11, <1>17
    <3> HIDE DEF dst
    <3> QED
      BY <1>4, <3>1, <3>2, LoneStage
  <2> DEFINE F == Finding("CDC001", "error", src, dst, e.path, "VerifiedUnsafe")
  <2>2. e = Because(F, "unsynchronized")
    BY <1>17, <2>1 DEF Judged
  <2>3. e.severity = "error"
    <3>1. F.severity = "error" /\ IsFinding(F)
      BY FindingFields DEF IsAbout
    <3> HIDE DEF F
    <3>2. Because(F, "unsynchronized").severity = F.severity
      BY <3>1, BecauseSays
    <3> QED
      BY <2>2, <3>1, <3>2
  <2>4. f = e \/ \E id \in ToSet(e.path) : D.at[id].isolation
    BY <1>5 DEF Lowered
  <2> QED
    BY <2>3, <2>4
<1> SUFFICES ASSUME f.severity # "error",
                    \A s \in ToSet(Direct(B, dst)) : Clock(B, s) # Clock(B, dst),
                    w.at[dst].packed < 2
             PROVE  A
  BY DEF Excused
<1>18. \/ IsFalsePath(D, src, dst, e.path)
       \/ IsPathThroughSafeBlackbox(D, e.path)
       \/ <<Domain(D, src), Domain(D, dst)>> \in D.multicycle
       \/ e = Judged(D, src, dst, e.path)
  BY <1>7, <1>8 DEF Judges
<1>19. IsPathThroughSafeBlackbox(D, e.path) => boxed
  BY DEF IsPathThroughSafeBlackbox
<1> HIDE DEF T, A, boxed, B
<1> QED
  BY <1>13, <1>14, <1>15, <1>16, <1>17, <1>18, <1>19

-----------------------------------------------------------------------------
(* The source along the stages.                                            *)

(* A graph of a frontend, and the attributes of its nodes.                 *)
Pictured(g, at) == (\E V : g \in SoundGraphs(V)) /\ Attributes(g, at)

(* What the findings say of the graph they were found on: each pair that   *)
(* the search crosses has one CDC001, each search that was cut short one   *)
(* CDC010, and a CDC001 whose severity is the rule's own is an error or    *)
(* answered for.                                                           *)
Faithful(w, requested) ==
  LET B == [g |-> w.g, at |-> w.at] IN
  /\ w.engine["CDC001"].enabled => ReportsPairs(w.findings, "CDC001", CrossedPairs(B))
  /\ w.engine["CDC010"].enabled => ReportsSources(w.findings, "CDC010", CutShort(B))
  /\ w.engine["CDC001"] = RuleEntry(<<>>) =>
       \A f \in w.findings : f.rule = "CDC001" =>
         \/ f.severity = "error"
         \/ /\ f.src \in Registers(w.g) /\ f.dst \in Registers(w.g)
            /\ Excused(w.config, w.constraints, requested, w.g, w.at, f.src, f.dst)

(* No member twice. *)
Once(s) == \A i, j \in DOMAIN s : s[i] = s[j] => i = j

(* Along the stages: graph and attributes are those of a frontend, from    *)
(* the first stage on and in what the caller holds; when the analysis      *)
(* begins the false paths are those that were asked for; after it the      *)
(* findings report the graph, while one after the other is waived; and a   *)
(* result counts what its graph has.                                       *)
SourceInv ==
  /\ Pictured(work.g, work.at) /\ Pictured(held.g, held.at)
  /\ pc = "analyse" =>
       work.false_paths = AllFalsePaths(work.config, work.constraints, request.false_paths)
  /\ pc \in {"load_waivers", "waive", "check_unused", "judge"} \/ Finished =>
       Faithful(work, request.false_paths)
  /\ pc = "waive" => Once(work.todo) /\ ToSet(work.todo) \subseteq work.findings
  /\ Finished => /\ result.coverage = CrossingCoverage(Bare, Compute(work.findings))
                 /\ result.status = "complete" => \A f \in work.findings : f.rule # "CDC010"

(* Nothing is drawn yet. *)
LEMMA NothingPictured == Pictured(EmptyGraph, <<>>)
<1>1. EmptyGraph \in SoundGraphs({})
  BY EmptySound
<1>2. NodeIds(EmptyGraph) = {}
  BY DEF NodeIds, EmptyGraph
<1> QED
  BY <1>1, <1>2 DEF Pictured, Attributes

(* The list of the findings holds each of them once. *)
LEMMA OrderIsOnce ==
  ASSUME NEW S, IsFiniteSet(S)
  PROVE  Once(InSomeOrder(S))
<1> DEFINE s == InSomeOrder(S)
           n == Cardinality(S)
<1>1. n \in Nat /\ DOMAIN s = 1..n /\ s \in Seq(S) /\ ToSet(s) = S
  BY OrderIsComplete
<1> HIDE DEF s
<1>2. \A i \in 1..n : s[i] \in S
  BY <1>1, ElementIn
<1>3. \A x \in S : \E i \in 1..n : s[i] = x
  BY <1>1, InElement
<1>4. s \in Surjection(1..n, S)
  <2>1. s \in [1..n -> S]
    BY <1>1, <1>2
  <2> QED
    BY <1>3, <2>1 DEF Surjection
<1>5. IsFiniteSet(1..n) /\ Cardinality(1..n) = n
  <2> HIDE DEF n
  <2> QED
    BY <1>1, UpTo
<1>6. s \in Injection(1..n, S)
  BY <1>4, <1>5, FS_SurjSameCardinalityImpliesInj
<1> QED
  BY <1>1, <1>6 DEF Once, Injection, IsInjective, s

(* A graph and its attributes change together, or not at all. *)
LEMMA PicturedAttributes ==
  ASSUME NEW g, NEW at, Pictured(g, at), NEW bt, DOMAIN bt = DOMAIN at,
         \A id \in DOMAIN at : DOMAIN bt[id] = DOMAIN at[id] /\ bt[id].packed = at[id].packed
  PROVE  Pictured(g, bt)
BY DEF Pictured, Attributes

(* A call that has not analysed anything. *)
LEMMA SourceElsewhere ==
  ASSUME Pictured(work'.g, work'.at), Pictured(held'.g, held'.at),
         \/ pc' \in {"configure", "elaborate", "constrain", "set_rules"}
         \/ pc' = "idle" /\ result'.status \notin {"complete", "incomplete"}
  PROVE  SourceInv'
BY DEF SourceInv, Finished

(* Before the first call nothing is drawn, held or reported. *)
LEMMA SourceInit ==
  ASSUME NEW R, InitFor(R)
  PROVE  SourceInv
<1>1. /\ pc = "idle" /\ result.status = "failed" /\ work = NoWork /\ held = result
      /\ result.g = EmptyGraph /\ result.at = <<>>
  BY DEF InitFor, Failed
<1>2. NoWork.g = EmptyGraph /\ NoWork.at = <<>>
  BY DEF NoWork
<1>3. Pictured(work.g, work.at) /\ Pictured(held.g, held.at)
  BY <1>1, <1>2, NothingPictured
<1> QED
  BY <1>1, <1>3 DEF SourceInv, Finished

(* A call that fails gives back a graph that was drawn. *)
LEMMA SourceFails ==
  ASSUME SourceInv, NEW g, NEW at, Pictured(g, at), Fail(g, at)
  PROVE  SourceInv'
<1>1. /\ pc' = "idle" /\ work' = work /\ result'.status = "failed"
      /\ held' = IF mode = "run" THEN Failed(g, at) ELSE held
  BY DEF Fail, Failed
<1>2. Failed(g, at).g = g /\ Failed(g, at).at = at
  BY DEF Failed
<1>3. Pictured(held'.g, held'.at) /\ Pictured(work'.g, work'.at)
  BY <1>1, <1>2 DEF SourceInv
<1> QED
  BY <1>1, <1>3, SourceElsewhere

(* A call begins, with nothing. *)
LEMMA SourceBegins ==
  ASSUME TypeInv, SourceInv, run \/ \E r \in Requests : run_incremental(r)
  PROVE  SourceInv'
<1>1. DOMAIN NoWork = WorkFields /\ NoWork.g = EmptyGraph /\ NoWork.at = <<>>
  BY NoWorkIsWork DEF IsWork, NoWork
<1>2. CASE run
  <2>1. work' = [NoWork EXCEPT !.began = today, !.seen = {request.constraints}]
        /\ pc' = "configure" /\ held' = held
    BY <1>2 DEF run
  <2>2. work'.g = EmptyGraph /\ work'.at = <<>>
    BY <1>1, <2>1 DEF WorkFields
  <2> QED
    BY <2>1, <2>2, NothingPictured, SourceElsewhere DEF SourceInv
<1>3. ASSUME NEW r \in Requests, run_incremental(r), held.g.dirty
      PROVE  SourceInv'
  <2>1. work' = [NoWork EXCEPT !.began = today, !.proven = work.proven,
                               !.seen = work.seen \cup {r.constraints}]
        /\ pc' = "configure" /\ held' = held
    BY <1>3 DEF run_incremental
  <2>2. work'.g = EmptyGraph /\ work'.at = <<>>
    BY <1>1, <2>1 DEF WorkFields
  <2> QED
    BY <2>1, <2>2, NothingPictured, SourceElsewhere DEF SourceInv
<1>4. ASSUME NEW r \in Requests, run_incremental(r), ~held.g.dirty
      PROVE  SourceInv'
  <2>1. /\ pc' = "idle" /\ result' = [held EXCEPT !.ok = TRUE, !.status = "no_changes"]
        /\ work' = work /\ held' = held
    BY <1>4 DEF run_incremental
  <2>2. result'.status = "no_changes"
    BY <2>1 DEF TypeInv, IsResult, ResultFields
  <2> QED
    BY <2>1, <2>2, SourceElsewhere DEF SourceInv
<1> QED
  BY <1>2, <1>3, <1>4

(* An incremental call goes on with the graph the caller holds. *)
LEMMA SourceConfigure ==
  ASSUME TypeInv, SourceInv, configure
  PROVE  SourceInv'
<1>1. \/ Fail(EmptyGraph, <<>>)
      \/ /\ pc' \in {"elaborate", "constrain"} /\ held' = held
         /\ \E config :
              work' = [work EXCEPT !.config = config,
                                   !.g = IF mode = "run" THEN @ ELSE held.g,
                                   !.at = IF mode = "run" THEN @ ELSE held.at]
  BY DEF configure
<1>2. CASE Fail(EmptyGraph, <<>>)
  BY <1>2, NothingPictured, SourceFails
<1>3. ASSUME pc' \in {"elaborate", "constrain"}, held' = held, NEW config,
             work' = [work EXCEPT !.config = config,
                                  !.g = IF mode = "run" THEN @ ELSE held.g,
                                  !.at = IF mode = "run" THEN @ ELSE held.at]
      PROVE  SourceInv'
  <2>1. DOMAIN work = WorkFields
    BY DEF TypeInv, IsWork
  <2>2. \/ work'.g = work.g /\ work'.at = work.at
        \/ work'.g = held.g /\ work'.at = held.at
    BY <1>3, <2>1 DEF WorkFields
  <2>3. Pictured(work'.g, work'.at) /\ Pictured(held'.g, held'.at)
    BY <1>3, <2>2 DEF SourceInv
  <2> QED
    BY <1>3, <2>3, SourceElsewhere
<1> QED
  BY <1>1, <1>2, <1>3

(* The graph of a design is drawn, with the attributes of its nodes. *)
LEMMA DesignPictured ==
  ASSUME NEW r, WellFormed(r)
  PROVE  Pictured(Connected(Placed(r.design.nodes), r.design.edges), r.design.at)
<1> DEFINE nodes == r.design.nodes
           edges == r.design.edges
           at == r.design.at
           V == Drawn(r.design)
           h == Placed(nodes)
           g == Connected(h, edges)
<1>1. /\ Len(nodes) \in Nat /\ DOMAIN nodes = 1..Len(nodes)
      /\ \A i \in DOMAIN nodes : nodes[i].kind \in Kinds
      /\ DOMAIN at = DOMAIN nodes
      /\ \A id \in DOMAIN at : /\ DOMAIN at[id] = AttributeFields \cup {"name", "module"}
                               /\ at[id].packed \in Nat
      /\ edges \in Seq(Nat \X Nat)
  BY DEF WellFormed, Kinds
<1>2. V.names = Nat /\ "Unknown" \in V.logics /\ \A i \in DOMAIN nodes : nodes[i].clock \in V.clocks
  BY DEF Drawn
<1> HIDE DEF nodes, edges, at, V
<1>3. h \in SoundGraphs(V) /\ NodeIds(h) \subseteq DOMAIN nodes
  BY <1>1, <1>2, PlacedSound
<1> HIDE DEF h
<1>4. g \in SoundGraphs(V) /\ NodeIds(g) = NodeIds(h)
  BY <1>1, <1>3, ConnectedSound
<1>5. Pictured(g, at)
  BY <1>1, <1>3, <1>4 DEF Pictured, Attributes
<1> QED
  BY <1>5 DEF g, h, nodes, edges, at

(* The frontend's graph, or none. *)
LEMMA SourceElaborate ==
  ASSUME TypeInv, SourceInv, elaborate
  PROVE  SourceInv'
<1> DEFINE design == request.design
           g == Connected(Placed(design.nodes), design.edges)
           at == design.at
<1>1. Pictured(g, at)
  BY DesignPictured DEF TypeInv
<1>2. \/ Fail(EmptyGraph, <<>>)
      \/ /\ pc' = "constrain" /\ held' = held
         /\ work' = [work EXCEPT !.g = g, !.at = at, !.proven = design.proven,
                                 !.unknown = design.unknown]
  BY DEF elaborate
<1> HIDE DEF g, at
<1>3. CASE Fail(EmptyGraph, <<>>)
  BY <1>3, NothingPictured, SourceFails
<1>4. CASE /\ pc' = "constrain" /\ held' = held
           /\ work' = [work EXCEPT !.g = g, !.at = at, !.proven = design.proven,
                                   !.unknown = design.unknown]
  <2>1. DOMAIN work = WorkFields
    BY DEF TypeInv, IsWork
  <2>2. work'.g = g /\ work'.at = at
    <3> HIDE DEF design
    <3> QED
      BY <1>4, <2>1 DEF WorkFields
  <2> QED
    BY <1>1, <1>4, <2>2, SourceElsewhere DEF SourceInv
<1> QED
  BY <1>2, <1>3, <1>4

(* Generated clocks give registers another root and nothing else. *)
LEMMA SourceConstrain ==
  ASSUME TypeInv, SourceInv, constrain
  PROVE  SourceInv'
<1> DEFINE read == ReadConstraints
           at == WithRoots(work.g, work.at, read.constraints)
<1>1. \/ Fail(work.g, work.at)
      \/ /\ pc' = "set_rules" /\ held' = held
         /\ work' = [work EXCEPT !.constraints = read.constraints, !.at = at]
  BY DEF constrain, Constrain
<1>2. Pictured(work.g, work.at)
  BY DEF SourceInv
<1>3. Pictured(work.g, at)
  <2>1. DOMAIN at = DOMAIN work.at
    BY DEF WithRoots
  <2>2. \A id \in DOMAIN work.at : at[id] = work.at[id] \/ \E c : at[id] = [work.at[id] EXCEPT !.root = c]
    BY DEF WithRoots
  <2> HIDE DEF at
  <2>3. \A id \in DOMAIN work.at : "packed" \in DOMAIN work.at[id]
    BY <1>2 DEF Pictured, Attributes, AttributeFields
  <2>4. \A id \in DOMAIN work.at :
          DOMAIN at[id] = DOMAIN work.at[id] /\ at[id].packed = work.at[id].packed
    BY <2>2, <2>3
  <2> QED
    BY <1>2, <2>1, <2>4, PicturedAttributes
<1> HIDE DEF read, at
<1>4. CASE Fail(work.g, work.at)
  BY <1>2, <1>4, SourceFails
<1>5. CASE /\ pc' = "set_rules" /\ held' = held
           /\ work' = [work EXCEPT !.constraints = read.constraints, !.at = at]
  <2>1. DOMAIN work = WorkFields
    BY DEF TypeInv, IsWork
  <2>2. work'.g = work.g /\ work'.at = at
    BY <1>5, <2>1 DEF WorkFields
  <2> QED
    BY <1>3, <1>5, <2>2, SourceElsewhere DEF SourceInv
<1> QED
  BY <1>1, <1>4, <1>5

(* The false paths are those that were asked for. *)
LEMMA SourceSet ==
  ASSUME TypeInv, SourceInv, set_rules
  PROVE  SourceInv'
<1> DEFINE engine == WithOverrides(work.config, request.disable, request.severities)
           paths == AllFalsePaths(work.config, work.constraints, request.false_paths)
<1>1. \/ Fail(work.g, work.at)
      \/ /\ pc' = "analyse" /\ held' = held
         /\ work' = [work EXCEPT !.engine = engine, !.false_paths = paths]
  BY DEF set_rules
<1>2. request' = request
  BY DEF set_rules
<1>3. Pictured(work.g, work.at)
  BY DEF SourceInv
<1> HIDE DEF engine, paths
<1>4. CASE Fail(work.g, work.at)
  BY <1>3, <1>4, SourceFails
<1>5. CASE /\ pc' = "analyse" /\ held' = held
           /\ work' = [work EXCEPT !.engine = engine, !.false_paths = paths]
  <2>1. DOMAIN work = WorkFields
    BY DEF TypeInv, IsWork
  <2>2. /\ work'.g = work.g /\ work'.at = work.at /\ work'.config = work.config
        /\ work'.constraints = work.constraints /\ work'.false_paths = paths
    BY <1>5, <2>1 DEF WorkFields
  <2>3. work'.false_paths = AllFalsePaths(work'.config, work'.constraints, request'.false_paths)
    BY <1>2, <2>2 DEF paths
  <2>4. ~Finished'
    BY <1>5 DEF Finished
  <2>5. Pictured(work'.g, work'.at) /\ Pictured(held'.g, held'.at)
    BY <1>3, <1>5, <2>2 DEF SourceInv
  <2> QED
    BY <1>5, <2>3, <2>4, <2>5 DEF SourceInv
<1> QED
  BY <1>1, <1>4, <1>5

(* What the findings say depends on the locals they are about alone. *)
LEMMA FaithfulKept ==
  ASSUME NEW v, NEW w, NEW requested, Faithful(v, requested),
         w.g = v.g, w.at = v.at, w.config = v.config, w.constraints = v.constraints,
         w.engine = v.engine, w.findings = v.findings
  PROVE  Faithful(w, requested)
BY DEF Faithful

(* To waive a finding changes nothing they say. *)
LEMMA FaithfulWaived ==
  ASSUME NEW v, NEW w, NEW requested, Faithful(v, requested),
         w.g = v.g, w.at = v.at, w.config = v.config, w.constraints = v.constraints,
         w.engine = v.engine,
         NEW f \in v.findings, NEW h, h.rule = f.rule, h.src = f.src, h.dst = f.dst,
         h.severity = f.severity, w.findings = (v.findings \ {f}) \cup {h}
  PROVE  Faithful(w, requested)
<1> DEFINE B == [g |-> v.g, at |-> v.at]
           C == [g |-> w.g, at |-> w.at]
           F == v.findings
           G == w.findings
<1>1. C = B
  OBVIOUS
<1>2. /\ v.engine["CDC001"].enabled => ReportsPairs(F, "CDC001", CrossedPairs(B))
      /\ v.engine["CDC010"].enabled => ReportsSources(F, "CDC010", CutShort(B))
      /\ v.engine["CDC001"] = RuleEntry(<<>>) =>
           \A x \in F : x.rule = "CDC001" =>
             \/ x.severity = "error"
             \/ /\ x.src \in Registers(v.g) /\ x.dst \in Registers(v.g)
                /\ Excused(v.config, v.constraints, requested, v.g, v.at, x.src, x.dst)
  BY DEF Faithful
<1>3. G = (F \ {f}) \cup {h} /\ f \in F
  OBVIOUS
<1> HIDE DEF B, C, F, G
<1>4. ReportsPairs(F, "CDC001", CrossedPairs(B)) => ReportsPairs(G, "CDC001", CrossedPairs(B))
  BY <1>3, ReportsReplaced
<1>5. ReportsSources(F, "CDC010", CutShort(B)) => ReportsSources(G, "CDC010", CutShort(B))
  BY <1>3, ReportsReplaced
<1>6. v.engine["CDC001"] = RuleEntry(<<>>) =>
        \A x \in G : x.rule = "CDC001" =>
          \/ x.severity = "error"
          \/ /\ x.src \in Registers(v.g) /\ x.dst \in Registers(v.g)
             /\ Excused(v.config, v.constraints, requested, v.g, v.at, x.src, x.dst)
  BY <1>2, <1>3
<1>7. /\ w.engine["CDC001"].enabled => ReportsPairs(G, "CDC001", CrossedPairs(C))
      /\ w.engine["CDC010"].enabled => ReportsSources(G, "CDC010", CutShort(C))
  BY <1>1, <1>2, <1>4, <1>5
<1>8. w.engine["CDC001"] = RuleEntry(<<>>) =>
        \A x \in G : x.rule = "CDC001" =>
          \/ x.severity = "error"
          \/ /\ x.src \in Registers(w.g) /\ x.dst \in Registers(w.g)
             /\ Excused(w.config, w.constraints, requested, w.g, w.at, x.src, x.dst)
  BY <1>6
<1> QED
  BY <1>7, <1>8 DEF Faithful, C, G

(* What the analysis finds is told of the graph it leaves behind. *)
LEMMA FoundFaithful ==
  ASSUME NEW w, Pictured(w.g, w.at), NEW requested,
         w.false_paths = AllFalsePaths(w.config, w.constraints, requested),
         NEW v, v.g = w.g, SameSources(w.g, w.at, v.at), v.config = w.config,
         v.constraints = w.constraints, v.engine = w.engine,
         v.findings = {Put(f, "by", 0) : f \in Filter(w.engine, StructuralFindings(Design(w)))}
  PROVE  Faithful(v, requested)
<1> DEFINE D == Design(w)
           B == [g |-> v.g, at |-> v.at]
           F == StructuralFindings(D)
           G == v.findings
           engine == w.engine
<1>1. PICK V : w.g \in SoundGraphs(V)
  BY DEF Pictured
<1>2. Attributes(w.g, w.at)
  BY DEF Pictured
<1>3. \A id \in DOMAIN w.at : "safe_box" \in DOMAIN w.at[id]
  BY <1>2 DEF Attributes, AttributeFields
<1>4. /\ D.g = w.g
      /\ \A id \in DOMAIN w.at : \A k \in DOMAIN w.at[id] \ {"safe_box"} : D.at[id][k] = w.at[id][k]
  BY <1>3, DesignIs
<1>5. SameRoots(w.g, D.at, B.at)
  BY <1>2, <1>4 DEF SameRoots, SameSources, Attributes, AttributeFields
<1>6. \A f \in F : f.rule = "CDC001" =>
        \/ f.severity = "error"
        \/ Excused(w.config, w.constraints, requested, w.g, w.at, f.src, f.dst)
  BY <1>1, <1>2, CrossingsExcused
<1>7. G = {Put(f, "by", 0) : f \in Filter(engine, F)} /\ B.g = w.g
  OBVIOUS
<1> HIDE DEF D, B, G, engine
<1>8. CrossedPairs(B) = CrossedPairs(D) /\ CutShort(B) = CutShort(D)
  <2> DEFINE h == w.g
  <2>1. h \in SoundGraphs(V) /\ D.g = h /\ B.g = h /\ SameRoots(h, D.at, B.at)
    BY <1>1, <1>4, <1>5, <1>7
  <2> HIDE DEF h
  <2> QED
    BY <2>1, RootsDecide
<1>9. D.g \in SoundGraphs(V)
  BY <1>1, <1>4
<1>10. Tells(D, F)
  BY <1>9, StructuralTells
<1>11. Findings(F)
  <2>1. Sized(D.g)
    BY <1>9, GraphFields DEF SoundGraphs, Sized, GraphType
  <2> QED
    BY <2>1, AnalysisFindsFew DEF StructuralFindings
<1> HIDE DEF F
<1>12. ReportsPairs(F, "CDC001", CrossedPairs(D)) /\ ReportsSources(F, "CDC010", CutShort(D))
  BY <1>10, TellsReports
<1>13. "CDC001" \in RuleIds /\ "CDC010" \in RuleIds
  BY DEF RuleIds
<1>14. engine["CDC001"].enabled => ReportsPairs(G, "CDC001", CrossedPairs(B))
  BY <1>7, <1>8, <1>11, <1>12, <1>13, PassedReports
<1>15. engine["CDC010"].enabled => ReportsSources(G, "CDC010", CutShort(B))
  BY <1>7, <1>8, <1>11, <1>12, <1>13, PassedReports
<1>16. ASSUME engine["CDC001"] = RuleEntry(<<>>), NEW f \in G, f.rule = "CDC001",
              f.severity # "error"
       PROVE  /\ f.src \in Registers(w.g) /\ f.dst \in Registers(w.g)
              /\ Excused(w.config, w.constraints, requested, w.g, v.at, f.src, f.dst)
  <2>1. PICK e \in F : f = LetThrough(engine, e)
    BY <1>7, AllPassed
  <2>2. IsFinding(e)
    BY <1>11 DEF Findings
  <2>3. /\ f.rule = e.rule /\ f.src = e.src /\ f.dst = e.dst
        /\ (e.rule \in RuleIds => engine[e.rule].severity = NotGiven) => f.severity = e.severity
    BY <2>1, <2>2, PassedFields
  <2>4. engine["CDC001"].severity = NotGiven
    BY <1>16 DEF RuleEntry, Over
  <2>5. e.rule = "CDC001" /\ e.severity # "error"
    BY <1>16, <2>3, <2>4
  <2>6. Excused(w.config, w.constraints, requested, w.g, w.at, e.src, e.dst)
    BY <1>6, <2>5
  <2>7. <<e.src, e.dst>> \in CrossedPairs(D)
    BY <1>12, <2>5 DEF ReportsPairs
  <2>8. e.src \in Registers(w.g) /\ e.dst \in Registers(w.g)
    BY <1>4, <2>7 DEF CrossedPairs
  <2>9. Excused(w.config, w.constraints, requested, w.g, v.at, e.src, e.dst)
    <3> DEFINE h == w.g
               at == w.at
               bt == v.at
               src == e.src
               dst == e.dst
    <3>1. /\ h \in SoundGraphs(V) /\ SameSources(h, at, bt)
          /\ src \in Registers(h) /\ dst \in Registers(h)
          /\ Excused(w.config, w.constraints, requested, h, at, src, dst)
      BY <1>1, <2>6, <2>8
    <3> HIDE DEF h, at, bt, src, dst
    <3>2. Excused(w.config, w.constraints, requested, h, bt, src, dst)
      BY <3>1, ExcusedStill
    <3> QED
      BY <3>2 DEF h, bt, src, dst
  <2> QED
    BY <2>3, <2>8, <2>9
<1>17. v.engine = engine /\ v.config = w.config /\ v.constraints = w.constraints /\ v.g = w.g
  BY DEF engine
<1>18. v.engine["CDC001"] = RuleEntry(<<>>) =>
         \A f \in G : f.rule = "CDC001" =>
           \/ f.severity = "error"
           \/ /\ f.src \in Registers(v.g) /\ f.dst \in Registers(v.g)
              /\ Excused(v.config, v.constraints, requested, v.g, v.at, f.src, f.dst)
  BY <1>16, <1>17
<1> QED
  BY <1>14, <1>15, <1>17, <1>18 DEF Faithful, B, G

(* All rules run; what they find is told of the graph. *)
LEMMA SourceAnalyse ==
  ASSUME TypeInv, SourceInv, analyse
  PROVE  SourceInv'
<1> DEFINE D == Design(work)
           found == {Put(f, "by", 0) : f \in Filter(work.engine, StructuralFindings(D))}
           marks == Marks(D, Analyze(D))
           marked == [id \in DOMAIN work.at |-> [work.at[id] EXCEPT !.uncertain = marks[id]]]
<1>1. work' = [work EXCEPT !.findings = found, !.at = marked]
  BY DEF analyse, StructuralFindings
<1>2. pc = "analyse" /\ pc' = "load_waivers" /\ request' = request /\ held' = held
  BY DEF analyse
<1>3. DOMAIN work = WorkFields
  BY DEF TypeInv, IsWork
<1>4. /\ Pictured(work.g, work.at) /\ Pictured(held.g, held.at)
      /\ work.false_paths = AllFalsePaths(work.config, work.constraints, request.false_paths)
  BY <1>2 DEF SourceInv
<1>5. /\ DOMAIN marked = DOMAIN work.at
      /\ \A id \in DOMAIN work.at :
           /\ DOMAIN marked[id] = DOMAIN work.at[id]
           /\ \A k \in DOMAIN work.at[id] \ {"uncertain"} : marked[id][k] = work.at[id][k]
  OBVIOUS
<1>6. found = {Put(f, "by", 0) : f \in Filter(work.engine, StructuralFindings(Design(work)))}
  OBVIOUS
<1> HIDE DEF D, found, marks, marked
<1>7. /\ work'.g = work.g /\ work'.at = marked /\ work'.findings = found
      /\ work'.config = work.config /\ work'.constraints = work.constraints
      /\ work'.engine = work.engine
  BY <1>1, <1>3 DEF WorkFields
<1>8. Attributes(work.g, work.at)
  BY <1>4 DEF Pictured
<1>9. Pictured(work.g, marked)
  <2>1. \A id \in DOMAIN work.at :
          DOMAIN marked[id] = DOMAIN work.at[id] /\ marked[id].packed = work.at[id].packed
    BY <1>5, <1>8 DEF Attributes, AttributeFields
  <2> QED
    BY <1>4, <1>5, <2>1, PicturedAttributes
<1>10. SameSources(work.g, work.at, marked)
  BY <1>5, <1>8 DEF SameSources, Attributes, AttributeFields
<1>11. Faithful(work', request.false_paths)
  BY <1>4, <1>6, <1>7, <1>10, FoundFaithful
<1>12. ~Finished'
  BY <1>2 DEF Finished
<1> QED
  BY <1>2, <1>4, <1>7, <1>9, <1>11, <1>12 DEF SourceInv

(* The findings are listed, each once. *)
LEMMA SourceLoad ==
  ASSUME TypeInv, SourceInv, load_waivers
  PROVE  SourceInv'
<1> DEFINE read == WaiversOf(work.config, request.waiver_file)
<1>1. CASE ~read.ok
  <2>1. Fail(work.g, work.at) /\ Pictured(work.g, work.at)
    BY <1>1 DEF load_waivers, SourceInv
  <2> QED
    BY <2>1, SourceFails
<1>2. CASE read.ok
  <2>1. pc = "load_waivers"
        /\ work' = [work EXCEPT !.waivers = read.waivers, !.todo = InSomeOrder(work.findings)]
    BY <1>2 DEF load_waivers
  <2>2. DOMAIN work = WorkFields /\ Noted(work.findings)
    BY DEF TypeInv, IsWork
  <2>3. /\ pc' \in {"judge", "waive"} /\ request' = request /\ held' = held
        /\ ToSet(work'.todo) = work.findings
    BY <1>2, LoadWork
  <2> HIDE DEF read
  <2>4. /\ work'.g = work.g /\ work'.at = work.at /\ work'.config = work.config
        /\ work'.constraints = work.constraints /\ work'.engine = work.engine
        /\ work'.findings = work.findings /\ work'.todo = InSomeOrder(work.findings)
    BY <2>1, <2>2 DEF WorkFields
  <2>5. Faithful(work', request.false_paths)
    BY <2>1, <2>4, FaithfulKept DEF SourceInv
  <2>6. Once(work'.todo)
    BY <2>2, <2>4, OrderIsOnce DEF Noted
  <2>7. ~Finished'
    BY <2>3 DEF Finished
  <2>8. Pictured(work'.g, work'.at) /\ Pictured(held'.g, held'.at)
    BY <2>3, <2>4 DEF SourceInv
  <2> QED
    BY <2>3, <2>4, <2>5, <2>6, <2>7, <2>8 DEF SourceInv
<1> QED
  BY <1>1, <1>2

(* The rest of a list without repetitions is without them, and without its *)
(* head. *)
LEMMA OnceTail ==
  ASSUME NEW S, NEW s \in Seq(S), s # <<>>, Once(s)
  PROVE  /\ Once(Tail(s)) /\ ToSet(Tail(s)) \subseteq ToSet(s) \ {Head(s)}
         /\ Head(s) \in ToSet(s)
<1>1. /\ Len(s) \in Nat /\ DOMAIN s = 1..Len(s) /\ 1 \in DOMAIN s /\ Head(s) = s[1]
      /\ Len(Tail(s)) = Len(s) - 1 /\ DOMAIN Tail(s) = 1..(Len(s) - 1)
      /\ \A i \in 1..(Len(s) - 1) : Tail(s)[i] = s[i + 1]
  OBVIOUS
<1>2. Once(Tail(s))
  <2> SUFFICES ASSUME NEW i \in DOMAIN Tail(s), NEW j \in DOMAIN Tail(s), Tail(s)[i] = Tail(s)[j]
               PROVE  i = j
    BY DEF Once
  <2>1. i + 1 \in DOMAIN s /\ j + 1 \in DOMAIN s /\ s[i + 1] = s[j + 1]
    BY <1>1
  <2>2. i + 1 = j + 1
    BY <2>1 DEF Once
  <2> QED
    BY <1>1, <2>2
<1>3. ASSUME NEW x \in ToSet(Tail(s)) PROVE x \in ToSet(s) \ {Head(s)}
  <2>1. PICK i \in DOMAIN Tail(s) : x = Tail(s)[i]
    BY <1>3, InElement
  <2>2. i + 1 \in DOMAIN s /\ i + 1 # 1 /\ x = s[i + 1]
    BY <1>1, <2>1
  <2>3. x # s[1]
    BY <1>1, <2>2 DEF Once
  <2>4. x \in ToSet(s)
    BY <2>2, ElementIn
  <2> QED
    BY <1>1, <2>3, <2>4
<1>4. s[1] \in ToSet(s)
  BY <1>1, ElementIn
<1> QED
  BY <1>1, <1>2, <1>3, <1>4

(* A finding is waived, and is the same finding. *)
LEMMA SourceWaive ==
  ASSUME TypeInv, SourceInv, waive
  PROVE  SourceInv'
<1>1. /\ pc = "waive" /\ request' = request /\ held' = held
  BY DEF waive
<1>2. /\ Faithful(work, request.false_paths) /\ Once(work.todo)
      /\ ToSet(work.todo) \subseteq work.findings
      /\ Pictured(work.g, work.at) /\ Pictured(held.g, held.at)
  BY <1>1 DEF SourceInv
<1>3. CASE work.todo = <<>>
  <2>1. pc' = "check_unused" /\ work' = work
    BY <1>3 DEF waive
  <2>2. ~Finished'
    BY <2>1 DEF Finished
  <2> QED
    BY <1>1, <1>2, <2>1, <2>2 DEF SourceInv
<1>4. CASE work.todo # <<>>
  <2> DEFINE f == Head(work.todo)
             by == WaivedBy(work.waivers, AsNamed(work, f), today)
             h == [f EXCEPT !.by = by]
             left == (work.findings \ {f}) \cup {h}
             rest == Tail(work.todo)
  <2>1. work' = [work EXCEPT !.findings = left, !.todo = rest] /\ pc' = "waive"
    BY <1>1, <1>4 DEF waive
  <2>2. DOMAIN work = WorkFields
    BY DEF TypeInv, IsWork
  <2>3. IsNoted(f)
    BY <1>4, WaiveWork DEF TypeInv
  <2>4. PICK S : work.todo \in Seq(S)
    BY DEF TypeInv, IsWork, Listed
  <2>5. Once(rest) /\ ToSet(rest) \subseteq ToSet(work.todo) \ {f} /\ f \in ToSet(work.todo)
    <3> DEFINE s == work.todo
    <3>1. s \in Seq(S) /\ s # <<>> /\ Once(s)
      BY <1>2, <1>4, <2>4
    <3> HIDE DEF s
    <3>2. Once(Tail(s)) /\ ToSet(Tail(s)) \subseteq ToSet(s) \ {Head(s)} /\ Head(s) \in ToSet(s)
      BY <3>1, OnceTail
    <3> QED
      BY <3>2 DEF s
  <2> HIDE DEF f, by, rest
  <2>6. h.rule = f.rule /\ h.src = f.src /\ h.dst = f.dst /\ h.severity = f.severity
    BY <2>3, NotedBy
  <2>7. left = (work.findings \ {f}) \cup {h}
    OBVIOUS
  <2> HIDE DEF h, left
  <2>8. /\ work'.g = work.g /\ work'.at = work.at /\ work'.config = work.config
        /\ work'.constraints = work.constraints /\ work'.engine = work.engine
        /\ work'.findings = left /\ work'.todo = rest
    BY <2>1, <2>2 DEF WorkFields
  <2>9. f \in work.findings
    BY <1>2, <2>5
  <2>10. Faithful(work', request.false_paths)
    BY <1>2, <2>6, <2>7, <2>8, <2>9, FaithfulWaived
  <2>11. ToSet(rest) \subseteq left
    BY <1>2, <2>5, <2>7
  <2>12. ~Finished'
    BY <2>1 DEF Finished
  <2> QED
    BY <1>1, <1>2, <2>1, <2>5, <2>8, <2>10, <2>11, <2>12 DEF SourceInv
<1> QED
  BY <1>3, <1>4

(* To look at a waiver changes no finding. *)
LEMMA SourceCheck ==
  ASSUME TypeInv, SourceInv, check_unused
  PROVE  SourceInv'
<1>1. pc = "check_unused" /\ request' = request /\ held' = held
      /\ pc' \in {"check_unused", "judge"}
  BY DEF check_unused
<1>2. /\ Faithful(work, request.false_paths)
      /\ Pictured(work.g, work.at) /\ Pictured(held.g, held.at)
  BY <1>1 DEF SourceInv
<1>3. work' = work \/ \E warnings : work' = [work EXCEPT !.warnings = warnings]
  BY DEF check_unused
<1>4. DOMAIN work = WorkFields
  BY DEF TypeInv, IsWork
<1>5. /\ work'.g = work.g /\ work'.at = work.at /\ work'.config = work.config
      /\ work'.constraints = work.constraints /\ work'.engine = work.engine
      /\ work'.findings = work.findings
  BY <1>3, <1>4 DEF WorkFields
<1>6. Faithful(work', request.false_paths)
  BY <1>2, <1>5, FaithfulKept
<1>7. ~Finished'
  BY <1>1 DEF Finished
<1> QED
  BY <1>1, <1>2, <1>5, <1>6, <1>7 DEF SourceInv

(* The coverage is counted, and the verdict given. *)
LEMMA SourceJudge ==
  ASSUME TypeInv, SourceInv, judge
  PROVE  SourceInv'
<1> DEFINE status == FinalStatus(work, work.findings)
           signoff == Evaluate(work.findings, status, Methodology)
           coverage == CrossingCoverage(Bare, Compute(work.findings))
<1>1. /\ pc = "judge" /\ pc' = "idle" /\ UNCHANGED <<request, work>> /\ held' = result'
      /\ result' = [ok |-> TRUE, status |-> status, findings |-> work.findings,
                    signoff |-> signoff, coverage |-> coverage, g |-> work.g, at |-> work.at]
  BY DEF judge, Bare
<1>2. status = "complete" => \A f \in work.findings : f.rule # "CDC010"
  BY DEF FinalStatus, Status
<1> HIDE DEF status, signoff, coverage
<1>3. /\ result'.status = status /\ result'.coverage = coverage
      /\ held'.g = work.g /\ held'.at = work.at
  BY <1>1
<1>4. coverage = CrossingCoverage(Bare', Compute(work'.findings))
  BY <1>1 DEF coverage, Bare
<1>5. Faithful(work, request.false_paths) /\ Pictured(work.g, work.at)
  BY <1>1 DEF SourceInv
<1>6. Faithful(work', request'.false_paths)
  BY <1>1, <1>5
<1>7. Pictured(work'.g, work'.at) /\ Pictured(held'.g, held'.at)
  BY <1>1, <1>3, <1>5
<1> QED
  BY <1>1, <1>2, <1>3, <1>4, <1>6, <1>7 DEF SourceInv

(* The caller wires two nodes of the graph it holds. *)
LEMMA SourceEdits ==
  ASSUME TypeInv, SourceInv, NEW g, held' = [held EXCEPT !.g = g],
         \A V : held.g \in SoundGraphs(V) => g \in SoundGraphs(V) /\ NodeIds(g) = NodeIds(held.g),
         UNCHANGED <<pc, request, work, result>>
  PROVE  SourceInv'
<1>1. held'.g = g /\ held'.at = held.at
  BY DEF TypeInv, IsResult, ResultFields
<1>2. Pictured(held.g, held.at)
  BY DEF SourceInv
<1>3. Pictured(g, held.at)
  BY <1>2 DEF Pictured, Attributes
<1>4. Finished' = Finished /\ Bare' = Bare
  BY DEF Finished, Bare
<1> QED
  BY <1>1, <1>3, <1>4 DEF SourceInv

(* Every step of Next keeps what the stages know of the source. *)
LEMMA SourceStep ==
  ASSUME TypeInv, SourceInv, [Next]_vars
  PROVE  SourceInv'
<1>1. CASE UNCHANGED <<pc, request, work, result, held>>
  <2>1. Finished' = Finished /\ Bare' = Bare
    BY <1>1 DEF Finished, Bare
  <2> QED
    BY <1>1, <2>1 DEF SourceInv
<1>2. CASE CallStep
  <2>1. CASE day_passes
    BY <1>1, <2>1 DEF day_passes
  <2> QED
    BY <1>2, <2>1, SourceBegins, SourceConfigure, SourceElaborate, SourceConstrain, SourceSet,
       SourceAnalyse, SourceLoad, SourceWaive, SourceCheck, SourceJudge DEF CallStep
<1>3. CASE \E r \in Requests : run_incremental(r)
  BY <1>3, SourceBegins
<1>4. ASSUME NEW e \in Edits, edit(e[1], e[2]) PROVE SourceInv'
  <2> DEFINE from == e[1]
             to == e[2]
             h == held.g
             g == AddEdge(h, from, to)
  <2>1. /\ from \in NodeIds(h) /\ to \in NodeIds(h) /\ held' = [held EXCEPT !.g = g]
        /\ UNCHANGED <<pc, request, work, result>>
    BY <1>4 DEF edit
  <2> HIDE DEF from, to, h
  <2>2. ASSUME NEW V, h \in SoundGraphs(V)
        PROVE  g \in SoundGraphs(V) /\ NodeIds(g) = NodeIds(h)
    <3>1. NodeIds(h) \subseteq Nat
      BY <2>2, RegistersAreNodes
    <3>2. g \in SoundGraphs(V) /\ Wired(h, g)
      BY <2>1, <2>2, <3>1, AddEdgeSound
    <3> QED
      BY <3>2 DEF Wired, NodeIds
  <2> HIDE DEF g
  <2> QED
    BY <2>1, <2>2, SourceEdits DEF h
<1>5. CASE clear_dirty
  <2> DEFINE h == held.g
             g == [h EXCEPT !.dirty = FALSE]
  <2>1. held' = [held EXCEPT !.g = g] /\ UNCHANGED <<pc, request, work, result>>
    BY <1>5 DEF clear_dirty
  <2> HIDE DEF h
  <2>2. ASSUME NEW V, h \in SoundGraphs(V)
        PROVE  g \in SoundGraphs(V) /\ NodeIds(g) = NodeIds(h)
    <3>1. h \in GraphType(V)
      BY <2>2 DEF SoundGraphs
    <3>2. g \in GraphType(V) /\ g.nodes = h.nodes /\ g.edges = h.edges
          /\ g.id_to_idx = h.id_to_idx /\ g.name_to_idx = h.name_to_idx /\ g.adj = h.adj
          /\ g.radj = h.radj /\ g.edge_set = h.edge_set /\ g.next_id = h.next_id
      BY <3>1 DEF GraphType
    <3> HIDE DEF g
    <3>3. g \in SoundGraphs(V)
      BY <2>2, <3>2, FieldsSound
    <3> QED
      BY <3>2, <3>3 DEF NodeIds
  <2> HIDE DEF g
  <2> QED
    BY <2>1, <2>2, SourceEdits DEF h
<1>6. CASE UNCHANGED vars
  BY <1>1, <1>6 DEF vars
<1> QED
  BY <1>2, <1>3, <1>4, <1>5, <1>6 DEF Next

(* A verdict that passes is given to a complete analysis without errors.   *)
LEMMA PassesWhenClean ==
  ASSUME NEW findings, IsFiniteSet(findings), NEW status, NEW methodology,
         status \in {"failed", "incomplete", "complete"},
         Evaluate(findings, status, methodology) \in {"PASS", "PASS_WITH_WAIVERS"}
  PROVE  /\ status = "complete"
         /\ \A f \in findings : f.severity = "error" => f.by # 0
<1> DEFINE unwaived == {f \in findings : ~Waived(f) /\ f.severity = "error"}
           strict == WarningsAsErrors(findings, methodology)
           n == Compute(findings).unwaived_errors
           waived == Compute(findings).waived
<1>1. n = Cardinality(unwaived)
  BY DEF Compute, Count
<1>2. Evaluate(findings, status, methodology) =
        IF status = "failed" THEN "ERROR"
        ELSE IF status = "incomplete" THEN "INCOMPLETE"
        ELSE IF n > 0 \/ strict # {} THEN "FAIL"
        ELSE IF waived > 0 THEN "PASS_WITH_WAIVERS" ELSE "PASS"
  BY DEF Evaluate
<1>3. unwaived \in SUBSET findings
  OBVIOUS
<1> HIDE DEF unwaived, strict, n, waived
<1>4. status = "complete" /\ ~(n > 0)
  BY <1>2
<1>5. IsFiniteSet(unwaived)
  BY <1>3, FS_Subset
<1>6. Cardinality(unwaived) = 0
  BY <1>1, <1>4, <1>5, FS_CardinalityType
<1>7. unwaived = {}
  BY <1>5, <1>6, FS_EmptySet
<1> QED
  BY <1>4, <1>7 DEF unwaived, Waived

(* The properties follow: what is counted is what is reported. *)
LEMMA CoverageFollows ==
  ASSUME TypeInv, WaivingInv, SourceInv
  PROVE  CoverageMatchesFindings
<1> DEFINE F == result.findings
           coverage == result.coverage
<1> SUFFICES ASSUME Finished
             PROVE  /\ work.engine["CDC001"].enabled =>
                         coverage.analyzed = Cardinality({f \in F : f.rule = "CDC001"})
                    /\ work.engine["CDC010"].enabled =>
                         coverage.truncated = 2 * Cardinality({f \in F : f.rule = "CDC010"})
  BY DEF CoverageMatchesFindings
<1>1. F = work.findings /\ IsFiniteSet(F)
  BY DEF WaivingInv, TypeInv, IsWork, Noted
<1>2. /\ coverage = CrossingCoverage(Bare, Compute(F))
      /\ Faithful(work, request.false_paths)
  BY <1>1 DEF SourceInv
<1>3. PICK V : work.g \in SoundGraphs(V)
  BY DEF SourceInv, Pictured
<1>4. /\ work.engine["CDC001"].enabled => ReportsPairs(F, "CDC001", CrossedPairs(Bare))
      /\ work.engine["CDC010"].enabled => ReportsSources(F, "CDC010", CutShort(Bare))
  BY <1>1, <1>2 DEF Faithful, Bare
<1>5. /\ coverage.analyzed = Cardinality(CrossedPairs(Bare))
      /\ coverage.truncated =
           Cardinality({f \in F : f.rule = "CDC010"}) + Cardinality(CutShort(Bare))
  <2> DEFINE B == Bare
             counts == Compute(F)
  <2>3. counts.truncated = Cardinality({f \in F : f.rule = "CDC010"})
    BY DEF Compute, Count
  <2>1. B.g \in SoundGraphs(V)
    BY <1>3 DEF Bare
  <2> HIDE DEF B, counts
  <2>2. /\ CrossingCoverage(B, counts).analyzed = Cardinality(CrossedPairs(B))
        /\ CrossingCoverage(B, counts).truncated = counts.truncated + Cardinality(CutShort(B))
    BY <2>1, CoverageCounts
  <2> QED
    BY <1>2, <2>2, <2>3 DEF B, counts
<1> HIDE DEF F, coverage
<1>6. work.engine["CDC001"].enabled =>
        Cardinality({f \in F : f.rule = "CDC001"}) = Cardinality(CrossedPairs(Bare))
  BY <1>1, <1>4, CountedPairs
<1>7. work.engine["CDC010"].enabled =>
        Cardinality({f \in F : f.rule = "CDC010"}) = Cardinality(CutShort(Bare))
  BY <1>1, <1>4, CountedSources
<1>8. Cardinality({f \in F : f.rule = "CDC010"}) \in Nat
  <2>1. IsFiniteSet({f \in F : f.rule = "CDC010"})
    BY <1>1, FS_Subset
  <2> QED
    BY <2>1, FS_CardinalityType
<1> QED
  BY <1>5, <1>6, <1>7, <1>8

(* And a verdict that passes has somebody who answers for each crossing    *)
(* without a synchronizer.                                                 *)
LEMMA PassFollows ==
  ASSUME TypeInv, WaivingInv, SourceInv
  PROVE  PassIsAuthorised
<1> DEFINE between(src, dst) == {p \in SimplePaths(work.g, src) : Last(p) = dst}
           Isolated(id) == work.at[id].isolation \/ InSafeBox(work.config, work.at[id].module)
           R == Registers(work.g)
           F == result.findings
<1> SUFFICES ASSUME Finished, Passed, work.engine["CDC001"] = RuleEntry(<<>>),
                    work.engine["CDC010"].enabled,
                    NEW src \in R, NEW dst \in R, Crosses(Bare, src, dst),
                    {s \in ToSet(Direct(Bare, dst)) : Clock(Bare, s) = Clock(Bare, dst)} = {},
                    work.at[dst].packed < 2, between(src, dst) # {}
             PROVE  \/ ToldFalse(src, dst)
                    \/ \E p \in between(src, dst) : \E id \in ToSet(p) : Isolated(id)
                    \/ \E f \in Said001(src, dst), w \in ToSet(work.waivers) :
                         Covers(w, AsNamed(work, f)) /\ work.began <= w.expiry
  BY DEF PassIsAuthorised
<1>1. F = work.findings /\ IsFiniteSet(F)
  BY DEF WaivingInv, TypeInv, IsWork, Noted
<1>2. /\ Faithful(work, request.false_paths)
      /\ result.status = "complete" => \A f \in F : f.rule # "CDC010"
  BY <1>1 DEF SourceInv
<1>3. PICK V : work.g \in SoundGraphs(V)
  BY DEF SourceInv, Pictured
<1>4. result.status = "complete" /\ \A f \in F : f.severity = "error" => f.by # 0
  <2>1. PICK methodology : result.signoff = Evaluate(F, result.status, methodology)
    BY DEF TypeInv, Verdict, Finished
  <2>2. result.status \in {"failed", "incomplete", "complete"}
        /\ Evaluate(F, result.status, methodology) \in {"PASS", "PASS_WITH_WAIVERS"}
    BY <2>1 DEF Finished, Passed
  <2> HIDE DEF F
  <2> QED
    BY <1>1, <2>2, PassesWhenClean
<1>5. work.engine["CDC001"].enabled
  BY DEF RuleEntry, Over
<1>6. /\ ReportsPairs(F, "CDC001", CrossedPairs(Bare))
      /\ ReportsSources(F, "CDC010", CutShort(Bare))
      /\ \A f \in F : f.rule = "CDC001" =>
           \/ f.severity = "error"
           \/ Excused(work.config, work.constraints, request.false_paths, work.g, work.at,
                      f.src, f.dst)
  BY <1>1, <1>2, <1>5 DEF Faithful, Bare
<1>7. src \notin CutShort(Bare)
  BY <1>2, <1>4, <1>6 DEF ReportsSources
<1>8. <<src, dst>> \in CrossedPairs(Bare)
  <2> DEFINE B == Bare
  <2>1. /\ B.g \in SoundGraphs(V) /\ src \in Registers(B.g) /\ dst \in Registers(B.g)
        /\ Crosses(B, src, dst) /\ \E p \in SimplePaths(B.g, src) : Last(p) = dst
    BY <1>3 DEF Bare
  <2> HIDE DEF B
  <2>2. <<src, dst>> \in CrossedPairs(B) \/ src \in CutShort(B)
    BY <2>1, CrossedExact
  <2> QED
    BY <1>7, <2>2 DEF B
<1>9. PICK f \in F : f.rule = "CDC001" /\ f.src = src /\ f.dst = dst
  <2> DEFINE S == CrossedPairs(Bare)
  <2>1. PICK f \in F : f.rule = "CDC001" /\ <<f.src, f.dst>> = <<src, dst>>
    BY <1>6, <1>8 DEF ReportsPairs
  <2> QED
    BY <2>1
<1>10. CASE f.by # 0
  <2>1. /\ f.by \in DOMAIN work.waivers /\ Covers(work.waivers[f.by], AsNamed(work, f))
        /\ work.began <= work.waivers[f.by].expiry
    BY <1>10, WaivingIsAuthorised DEF WaivedUnderAuthority
  <2>2. work.waivers[f.by] \in ToSet(work.waivers)
    BY <2>1, ElementIn
  <2>3. f \in Said001(src, dst)
    BY <1>9 DEF Said001
  <2> QED
    BY <2>1, <2>2, <2>3
<1>11. CASE f.severity # "error"
  <2>1. Excused(work.config, work.constraints, request.false_paths, work.g, work.at, src, dst)
    BY <1>6, <1>9, <1>11
  <2>2. \A s \in ToSet(Direct(Bare, dst)) : Clock(Bare, s) # Clock(Bare, dst)
    OBVIOUS
  <2>3. Answered(work.config, work.constraints, request.false_paths, work.g, work.at, src, dst)
    BY <2>1, <2>2 DEF Excused, Bare
  <2>4. ASSUME Told(work.config, work.constraints, request.false_paths,
                    work.at[src].name, EndAt(work.g, work.at, src),
                    work.at[dst].name, EndAt(work.g, work.at, dst))
        PROVE  ToldFalse(src, dst)
    <3>1. Told(work.config, work.constraints, request.false_paths,
               NameOf(src), ClockOf(src), NameOf(dst), ClockOf(dst))
      BY <2>4 DEF NameOf, ClockOf, EndAt, Bare
    <3> QED
      BY <3>1, ToldIsTold
  <2>5. ASSUME NEW p \in SimplePaths(work.g, src), Last(p) = dst, NEW id \in ToSet(p),
               work.at[id].isolation \/ InSafeBox(work.config, work.at[id].module)
        PROVE  \E q \in between(src, dst) : \E i \in ToSet(q) : Isolated(i)
    <3>1. p \in between(src, dst) /\ Isolated(id)
      BY <2>5
    <3> HIDE DEF between, Isolated
    <3> QED
      BY <2>5, <3>1
  <2> HIDE DEF between, Isolated
  <2> QED
    BY <2>3, <2>4, <2>5 DEF Answered
<1> QED
  BY <1>4, <1>10, <1>11

(* In every state of a call its graph is a sound one, and the findings say *)
(* of it what the analysis saw, while waivers are applied one by one       *)
(* (run_on_graph and its callers).                                         *)
THEOREM SourceInvariance == Spec => []SourceInv
<1>1. Init => SourceInv
  BY SourceInit DEF Init
<1>2. TypeInv /\ SourceInv /\ [Next]_vars => SourceInv'
  BY SourceStep
<1>3. Spec => []TypeInv
  BY Invariance, PTL
<1> QED
  BY <1>1, <1>2, <1>3, PTL DEF Spec

(* The crossings a result counts are those it reports, and its number of   *)
(* truncated searches is twice that of the CDC010 it holds, on any graph   *)
(* and under any requests (compute, then compute_crossing_coverage, which  *)
(* finds the same searches again and adds them to the same counter).       *)
THEOREM CoverageIsOfTheFindings == Spec => []CoverageMatchesFindings
<1>1. TypeInv /\ WaivingInv /\ SourceInv => CoverageMatchesFindings
  BY CoverageFollows
<1> QED
  BY <1>1, Invariance, SourceInvariance, PTL

(* No verdict passes over a path between two domains that nobody answers   *)
(* for, whatever the frontend drew, the user wrote and the waivers cover   *)
(* (run_on_graph, from the graph to the sign-off).                         *)
THEOREM PassNeedsAuthority == Spec => []PassIsAuthorised
<1>1. TypeInv /\ WaivingInv /\ SourceInv => PassIsAuthorised
  BY PassFollows
<1> QED
  BY <1>1, Invariance, SourceInvariance, PTL

-----------------------------------------------------------------------------
(* Calls that differ in the marks of uncertain values.                     *)

(* The locals of two calls on one graph that differ in the marks of the    *)
(* nodes at most, as far as the rules read them.                           *)
ButMarks(a, w) ==
  /\ w.g = a.g /\ w.config = a.config /\ w.constraints = a.constraints
  /\ w.false_paths = a.false_paths /\ w.proven = a.proven
  /\ DOMAIN w.at = DOMAIN a.at
  /\ \A id \in DOMAIN a.at :
       /\ DOMAIN w.at[id] = DOMAIN a.at[id]
       /\ \A k \in DOMAIN a.at[id] \ {"uncertain"} : w.at[id][k] = a.at[id][k]

(* The parts of a design. *)
Located(w) == [g |-> w.g, at |-> w.at]
Known(w) == {id \in Registers(w.g) : HasDomain(Located(w), id)}
EndOf(w, id) == End(ClockNames[Domain(Located(w), id)], w.at[id].name)
KnownDomains(w) == {Domain(Located(w), id) : id \in Known(w)}

CutEnds(w, fp) ==
  {p \in Known(w) \X Known(w) : EndsMatch(fp, EndOf(w, p[1]), EndOf(w, p[2]))}
CutThrough(w, pattern) == {id \in DOMAIN w.at : PatternMatches(pattern, w.at[id].name)}
CutOf(w, fp) ==
  [clocks |-> <<>>, ends |-> <<CutEnds(w, fp)>>,
   through |-> {CutThrough(w, pattern) : pattern \in ToSet(fp.through)}]

(* What the configuration and the input say of the whole design.           *)
Settings(D, w) ==
  /\ D.suppress = (w.config.suppress_multicycle /\ "CDC001" \in w.config.suppress_rules)
  /\ D.proven = w.proven
  /\ D.min_stages = w.config.min_sync_stages
  /\ D.require_reset = w.config.require_reset
  /\ D.check_same_clock = w.config.check_same_clock
  /\ D.detect_synchronizer = w.config.detect_synchronizer
  /\ D.suppress_resets = w.config.suppress_reset_crossings
  /\ D.max_hops = w.config.reconvergence_depth

LEMMA DesignParts ==
  ASSUME NEW w
  PROVE  LET D == Design(w) IN
         /\ D.g = w.g
         /\ D.at = [id \in DOMAIN w.at |->
                      [w.at[id] EXCEPT !.safe_box = InSafeBox(w.config, w.at[id].module)]]
         /\ D.false_paths = {CutOf(w, fp) : fp \in {fp \in w.false_paths : Selective(fp)}}
         /\ D.multicycle = {p \in KnownDomains(w) \X KnownDomains(w) :
                              \E mcp \in ToSet(w.constraints.multicycle) :
                                MulticycleMatches(mcp, ClockNames[p[1]], ClockNames[p[2]])}
         /\ Settings(D, w)
BY DEF Design, Settings, CutOf, CutEnds, CutThrough, Known, KnownDomains, EndOf, Located

(* What the user cuts is the same, and so is all that the rules read.      *)
LEMMA ButMarksAlike ==
  ASSUME NEW V, NEW a, NEW w, a.g \in SoundGraphs(V), Attributes(a.g, a.at), ButMarks(a, w)
  PROVE  /\ Alike(Design(a), Design(w))
         /\ Design(w).suppress_resets = Design(a).suppress_resets
         /\ SameRoots(a.g, Design(a).at, Design(w).at)
         /\ \A id \in DOMAIN a.at :
              /\ Design(w).at[id].isolation = Design(a).at[id].isolation
              /\ Design(w).at[id].uncertain = w.at[id].uncertain
              /\ Design(a).at[id].uncertain = a.at[id].uncertain
         /\ DOMAIN Design(a).at = DOMAIN a.at /\ DOMAIN Design(w).at = DOMAIN a.at
<1> DEFINE D == Design(a)
           E == Design(w)
<1>1. /\ w.g = a.g /\ w.config = a.config /\ w.constraints = a.constraints
      /\ w.false_paths = a.false_paths /\ w.proven = a.proven
      /\ DOMAIN w.at = DOMAIN a.at
  BY DEF ButMarks
<1>2. \A id \in DOMAIN a.at :
        /\ DOMAIN a.at[id] = AttributeFields \cup {"name", "module"}
        /\ DOMAIN w.at[id] = AttributeFields \cup {"name", "module"}
        /\ \A k \in (AttributeFields \cup {"name", "module"}) \ {"uncertain"} :
             w.at[id][k] = a.at[id][k]
  BY DEF ButMarks, Attributes
<1>3. Registers(a.g) \subseteq NodeIds(a.g) /\ NodeIds(a.g) \subseteq DOMAIN a.at
  BY RegistersAreNodes DEF Attributes
<1>4. \A id \in DOMAIN a.at : /\ w.at[id].root = a.at[id].root /\ w.at[id].name = a.at[id].name
                              /\ w.at[id].module = a.at[id].module
  BY <1>2 DEF AttributeFields
<1>5. \A id \in Registers(a.g) : Domain(Located(w), id) = Domain(Located(a), id)
  BY <1>1, <1>3, <1>4 DEF Located, Domain, Clock
<1>6. Known(w) = Known(a)
  BY <1>1, <1>5 DEF Known, HasDomain
<1>7. KnownDomains(w) = KnownDomains(a)
  BY <1>5, <1>6 DEF KnownDomains, Known
<1>8. \A id \in Known(a) : EndOf(w, id) = EndOf(a, id)
  BY <1>3, <1>4, <1>5 DEF EndOf, Known
<1>9. \A fp : CutEnds(w, fp) = CutEnds(a, fp)
  BY <1>6, <1>8 DEF CutEnds
<1>10. \A pattern : CutThrough(w, pattern) = CutThrough(a, pattern)
  BY <1>1, <1>4 DEF CutThrough
<1>11. \A fp : CutOf(w, fp) = CutOf(a, fp)
  BY <1>9, <1>10 DEF CutOf
<1>12. D.false_paths = {CutOf(a, fp) : fp \in {fp \in a.false_paths : Selective(fp)}}
       /\ E.false_paths = {CutOf(w, fp) : fp \in {fp \in w.false_paths : Selective(fp)}}
  BY DesignParts
<1>13. /\ D.multicycle = {p \in KnownDomains(a) \X KnownDomains(a) :
                            \E mcp \in ToSet(a.constraints.multicycle) :
                              MulticycleMatches(mcp, ClockNames[p[1]], ClockNames[p[2]])}
       /\ E.multicycle = {p \in KnownDomains(w) \X KnownDomains(w) :
                            \E mcp \in ToSet(w.constraints.multicycle) :
                              MulticycleMatches(mcp, ClockNames[p[1]], ClockNames[p[2]])}
  BY DesignParts
<1>14. /\ D.g = a.g /\ E.g = w.g
       /\ D.at = [id \in DOMAIN a.at |->
                    [a.at[id] EXCEPT !.safe_box = InSafeBox(a.config, a.at[id].module)]]
       /\ E.at = [id \in DOMAIN w.at |->
                    [w.at[id] EXCEPT !.safe_box = InSafeBox(w.config, w.at[id].module)]]
  BY DesignParts
<1>15. /\ E.suppress = D.suppress /\ E.proven = D.proven
       /\ E.min_stages = D.min_stages /\ E.require_reset = D.require_reset
       /\ E.check_same_clock = D.check_same_clock
       /\ E.detect_synchronizer = D.detect_synchronizer
       /\ E.max_hops = D.max_hops /\ E.suppress_resets = D.suppress_resets
  <2>1. Settings(D, a) /\ Settings(E, w)
    BY DesignParts DEF Settings
  <2> HIDE DEF D, E
  <2> QED
    BY <1>1, <2>1 DEF Settings
<1> HIDE DEF D, E
<1>16. E.false_paths = D.false_paths
  BY <1>1, <1>11, <1>12
<1>17. E.multicycle = D.multicycle
  BY <1>1, <1>7, <1>13
<1>18. \A id \in DOMAIN a.at :
         /\ AlikeAt(E.at[id], D.at[id]) /\ E.at[id].isolation = D.at[id].isolation
         /\ E.at[id].uncertain = w.at[id].uncertain /\ D.at[id].uncertain = a.at[id].uncertain
  <2> SUFFICES ASSUME NEW id \in DOMAIN a.at
               PROVE  /\ AlikeAt(E.at[id], D.at[id]) /\ E.at[id].isolation = D.at[id].isolation
                      /\ E.at[id].uncertain = w.at[id].uncertain
                      /\ D.at[id].uncertain = a.at[id].uncertain
    OBVIOUS
  <2> DEFINE box == InSafeBox(a.config, a.at[id].module)
             x == w.at[id]
             y == a.at[id]
  <2>1. E.at[id] = [x EXCEPT !.safe_box = box] /\ D.at[id] = [y EXCEPT !.safe_box = box]
    BY <1>1, <1>4, <1>14
  <2>2. /\ DOMAIN x = AttributeFields \cup {"name", "module"}
        /\ DOMAIN y = AttributeFields \cup {"name", "module"}
        /\ \A k \in AttributeFields \ {"uncertain"} : x[k] = y[k]
    BY <1>2
  <2> HIDE DEF box, x, y
  <2>3. AlikeAt(E.at[id], D.at[id]) /\ E.at[id].isolation = D.at[id].isolation
    BY <2>1, <2>2 DEF AlikeAt, AttributeFields
  <2>4. E.at[id].uncertain = x.uncertain /\ D.at[id].uncertain = y.uncertain
    BY <2>1, <2>2 DEF AttributeFields
  <2> QED
    BY <2>3, <2>4 DEF x, y
<1>19. Alike(D, E)
  BY <1>1, <1>3, <1>14, <1>15, <1>16, <1>17, <1>18 DEF Alike
<1>20. SameRoots(a.g, D.at, E.at)
  BY <1>3, <1>18 DEF SameRoots, AlikeAt
<1>21. DOMAIN D.at = DOMAIN a.at /\ DOMAIN E.at = DOMAIN a.at
  BY <1>1, <1>14
<1> QED
  BY <1>15, <1>18, <1>19, <1>20, <1>21 DEF D, E

-----------------------------------------------------------------------------
(* What a run from nothing would find.                                     *)

ConstraintsOf(c) == IF c = <<>> THEN NoConstraints ELSE ParseConstraints(c[1]).constraints

(* The locals of a run of request r on graph g when it begins to analyse.  *)
FreshWork(r, g) ==
  LET config == ApplyProfile(ConfigOf(r).config, r.profile)
      constraints == ConstraintsOf(r.constraints) IN
  [NoWork EXCEPT
     !.config = config, !.constraints = constraints,
     !.engine = WithOverrides(config, r.disable, r.severities),
     !.false_paths = AllFalsePaths(config, constraints, r.false_paths),
     !.g = g, !.proven = r.design.proven, !.at = WithRoots(g, r.design.at, constraints)]

FreshFindings(r, g) ==
  Filter(FreshWork(r, g).engine, StructuralFindings(Design(FreshWork(r, g))))

(* Findings without what the waivers wrote. *)
Unwaived(f) == [k \in DOMAIN f \ {"by"} |-> f[k]]

(* The findings of a call are those of a run but for CDC013, and none is   *)
(* missing if no search was cut short.                                     *)
Agreeing(w, r) ==
  LET found == {Unwaived(f) : f \in w.findings}
      fresh == FreshFindings(r, w.g) IN
  /\ But013(found) = But013(fresh)
  /\ w.engine["CDC010"].enabled /\ (\A f \in w.findings : f.rule # "CDC010") =>
       fresh \subseteq found

LEMMA FreshFields ==
  ASSUME NEW r, NEW g
  PROVE  LET a == FreshWork(r, g) IN
         /\ a.config = ApplyProfile(ConfigOf(r).config, r.profile)
         /\ a.constraints = ConstraintsOf(r.constraints)
         /\ a.engine = WithOverrides(a.config, r.disable, r.severities)
         /\ a.false_paths = AllFalsePaths(a.config, a.constraints, r.false_paths)
         /\ a.g = g /\ a.proven = r.design.proven
         /\ a.at = WithRoots(g, r.design.at, ConstraintsOf(r.constraints))
<1> DEFINE a == FreshWork(r, g)
           config == ApplyProfile(ConfigOf(r).config, r.profile)
           constraints == ConstraintsOf(r.constraints)
           engine == WithOverrides(config, r.disable, r.severities)
           paths == AllFalsePaths(config, constraints, r.false_paths)
           at == WithRoots(g, r.design.at, constraints)
           proven == r.design.proven
<1>1. a = [NoWork EXCEPT !.config = config, !.constraints = constraints, !.engine = engine,
                         !.false_paths = paths, !.g = g, !.proven = proven, !.at = at]
  BY DEF FreshWork
<1>2. DOMAIN NoWork = WorkFields
  BY NoWorkIsWork DEF IsWork
<1> HIDE DEF a, config, constraints, engine, paths, at, proven
<1>3. /\ a.config = config /\ a.constraints = constraints /\ a.engine = engine
      /\ a.false_paths = paths /\ a.g = g /\ a.proven = proven /\ a.at = at
  BY <1>1, <1>2 DEF WorkFields
<1> QED
  BY <1>3 DEF a, config, constraints, engine, paths, at, proven

(* A finding is itself again when its waiver is taken away.                *)
LEMMA UnwaivedPut ==
  ASSUME NEW f, IsFinding(f)
  PROVE  Unwaived(Put(f, "by", 0)) = f
<1>1. PICK r, s, a, b, p, t, w :
        f = [rule |-> r, severity |-> s, src |-> a, dst |-> b, path |-> p,
             status |-> t, why |-> w]
  BY DEF IsFinding
<1> DEFINE h == Put(f, "by", 0)
           fields == {"rule", "severity", "src", "dst", "path", "status", "why"}
<1>2. h = [rule |-> r, severity |-> s, src |-> a, dst |-> b, path |-> p,
           status |-> t, why |-> w, by |-> 0]
  BY <1>1 DEF Put
<1> HIDE DEF h
<1>3. DOMAIN h \ {"by"} = fields /\ \A k \in fields : h[k] = f[k]
  BY <1>1, <1>2
<1>4. Unwaived(h) = [k \in fields |-> f[k]]
  BY <1>3 DEF Unwaived
<1>5. f = [k \in fields |-> f[k]]
  BY <1>1
<1> QED
  BY <1>4, <1>5 DEF h

LEMMA UnwaivedBy ==
  ASSUME NEW f, IsNoted(f), NEW by
  PROVE  Unwaived([f EXCEPT !.by = by]) = Unwaived(f)
<1> DEFINE g == [f EXCEPT !.by = by]
<1>1. DOMAIN g = DOMAIN f /\ \A k \in DOMAIN f \ {"by"} : g[k] = f[k]
  OBVIOUS
<1> HIDE DEF g
<1>2. Unwaived(g) = Unwaived(f)
  BY <1>1 DEF Unwaived
<1> QED
  BY <1>2 DEF g

(* Findings that agree before the rule table agree after it.               *)
LEMMA FilterAgrees ==
  ASSUME NEW engine, NEW F, NEW G, Findings(F), Findings(G)
  PROVE  /\ But013(F) = But013(G) => But013(Filter(engine, F)) = But013(Filter(engine, G))
         /\ F \subseteq G => Filter(engine, F) \subseteq Filter(engine, G)
<1> DEFINE On(f) == f.rule \in RuleIds => engine[f.rule].enabled
           e(f) == IF f.rule \in RuleIds /\ engine[f.rule].severity # NotGiven
                   THEN [f EXCEPT !.severity = engine[f.rule].severity] ELSE f
<1>1. Filter(engine, F) = {e(f) : f \in {f \in F : On(f)}}
      /\ Filter(engine, G) = {e(f) : f \in {f \in G : On(f)}}
  BY DEF Filter
<1>2. \A f \in F \cup G : e(f).rule = f.rule
  <2> SUFFICES ASSUME NEW f \in F \cup G PROVE e(f).rule = f.rule
    OBVIOUS
  <2> DEFINE v == engine[f.rule].severity
  <2>1. IsFinding(f)
    BY DEF Findings
  <2>2. e(f) = f \/ e(f) = [f EXCEPT !.severity = v]
    OBVIOUS
  <2> HIDE DEF e, v
  <2>3. [f EXCEPT !.severity = v].rule = f.rule
    BY <2>1 DEF IsFinding
  <2> QED
    BY <2>2, <2>3
<1> HIDE DEF e, On
<1> QED
  BY <1>1, <1>2 DEF But013

-----------------------------------------------------------------------------
(* What a graph keeps of earlier calls.                                    *)

(* A simple path from another domain ends in a register. *)
CrossedInto(g, at, id) ==
  /\ id \in Registers(g)
  /\ \E src \in Registers(g) :
       Crosses([g |-> g, at |-> at], src, id) /\ \E p \in SimplePaths(g, src) : Last(p) = id

(* What calls with the constraints C made of the attributes bt of a node   *)
(* that are now the attributes a: a root and marks, a mark of a crossing   *)
(* only behind a crossing.                                                 *)
AgedNode(a, b, root) ==
  /\ DOMAIN a = DOMAIN b
  /\ \A k \in DOMAIN b \ {"root", "uncertain"} : a[k] = b[k]
  /\ a.root \in {b.root, root}
  /\ IF b.uncertain # "no" THEN a.uncertain = b.uncertain
     ELSE a.uncertain \in {"no", "crossing", "propagated"}

Aged(g, at, bt, C) ==
  LET now == WithRoots(g, bt, C) IN
  /\ DOMAIN at = DOMAIN bt
  /\ \A id \in DOMAIN bt : AgedNode(at[id], bt[id], now[id].root)
  /\ \A id \in DOMAIN bt : bt[id].uncertain = "no" /\ at[id].uncertain = "crossing" =>
                             CrossedInto(g, now, id)

Rooted(g, at, bt, C) == \A id \in DOMAIN bt : at[id].root = WithRoots(g, bt, C)[id].root

(* The attributes of a design. *)
IsDrawing(bt) ==
  DOMAIN bt \subseteq Nat /\ \A id \in DOMAIN bt : DOMAIN bt[id] = AttributeFields \cup {"name", "module"}

(* The root a constraint file gives a register, <<>> or <<clock>>. *)
NewRoot(g, C, id) ==
  LET def == GetClock(C, ClockNames[FindNode(g, id).clock_domain]) IN
  IF /\ IsRegister(g, id) /\ FindNode(g, id).clock_domain # NoClock
     /\ def # <<>> /\ def[1].generated /\ def[1].master # <<>>
  THEN <<ClockNamed(def[1].master)>> ELSE <<>>

LEMMA RootsGiven ==
  ASSUME NEW g, NEW at, NEW C
  PROVE  /\ DOMAIN WithRoots(g, at, C) = DOMAIN at
         /\ \A id \in DOMAIN at :
              WithRoots(g, at, C)[id] = IF NewRoot(g, C, id) # <<>>
                                        THEN [at[id] EXCEPT !.root = NewRoot(g, C, id)[1]]
                                        ELSE at[id]
<1> DEFINE def(id) == GetClock(C, ClockNames[FindNode(g, id).clock_domain])
           Remapped(id) == /\ IsRegister(g, id) /\ FindNode(g, id).clock_domain # NoClock
                           /\ def(id) # <<>> /\ def(id)[1].generated
                           /\ def(id)[1].master # <<>>
           clock(id) == ClockNamed(def(id)[1].master)
<1>1. WithRoots(g, at, C) = [id \in DOMAIN at |-> IF Remapped(id)
                                                  THEN [at[id] EXCEPT !.root = clock(id)]
                                                  ELSE at[id]]
  BY DEF WithRoots
<1>2. \A id : NewRoot(g, C, id) = IF Remapped(id) THEN <<clock(id)>> ELSE <<>>
  BY DEF NewRoot
<1> HIDE DEF Remapped, clock
<1>3. \A id : /\ Remapped(id) => NewRoot(g, C, id) # <<>> /\ NewRoot(g, C, id)[1] = clock(id)
              /\ ~Remapped(id) => NewRoot(g, C, id) = <<>>
  BY <1>2
<1>4. DOMAIN WithRoots(g, at, C) = DOMAIN at
  BY <1>1
<1>5. ASSUME NEW id \in DOMAIN at
      PROVE  WithRoots(g, at, C)[id] = IF NewRoot(g, C, id) # <<>>
                                       THEN [at[id] EXCEPT !.root = NewRoot(g, C, id)[1]]
                                       ELSE at[id]
  <2>1. WithRoots(g, at, C)[id] = IF Remapped(id) THEN [at[id] EXCEPT !.root = clock(id)]
                                  ELSE at[id]
    BY <1>1
  <2> QED
    BY <1>3, <2>1
<1> QED
  BY <1>4, <1>5

(* An added edge gives no register another root. *)
LEMMA RootsStay ==
  ASSUME NEW h, NEW k, Extended(h, k), NEW at, NEW C
  PROVE  WithRoots(k, at, C) = WithRoots(h, at, C)
<1>1. \A id : NewRoot(k, C, id) = NewRoot(h, C, id)
  BY ExtendedNodes DEF NewRoot
<1>2. \A id \in DOMAIN at : WithRoots(k, at, C)[id] = WithRoots(h, at, C)[id]
  <2> SUFFICES ASSUME NEW id \in DOMAIN at
               PROVE  WithRoots(k, at, C)[id] = WithRoots(h, at, C)[id]
    OBVIOUS
  <2>1. WithRoots(k, at, C)[id] = IF NewRoot(k, C, id) # <<>>
                                  THEN [at[id] EXCEPT !.root = NewRoot(k, C, id)[1]] ELSE at[id]
    BY RootsGiven
  <2>2. WithRoots(h, at, C)[id] = IF NewRoot(h, C, id) # <<>>
                                  THEN [at[id] EXCEPT !.root = NewRoot(h, C, id)[1]] ELSE at[id]
    BY RootsGiven
  <2> QED
    BY <1>1, <2>1, <2>2
<1>3. \A g : WithRoots(g, at, C) = [id \in DOMAIN at |-> WithRoots(g, at, C)[id]]
  BY DEF WithRoots
<1> QED
  BY <1>2, <1>3

(* The fields of the nodes with their new roots. *)
LEMMA RootedFields ==
  ASSUME NEW g, NEW bt, IsDrawing(bt), NEW C, NEW id \in DOMAIN bt
  PROVE  LET n == WithRoots(g, bt, C)[id] IN
         /\ DOMAIN n = DOMAIN bt[id]
         /\ \A k \in DOMAIN bt[id] \ {"root"} : n[k] = bt[id][k]
         /\ n.root = IF NewRoot(g, C, id) # <<>> THEN NewRoot(g, C, id)[1] ELSE bt[id].root
<1> DEFINE n == WithRoots(g, bt, C)[id]
           b == bt[id]
           r == NewRoot(g, C, id)
<1>1. n = IF r # <<>> THEN [b EXCEPT !.root = r[1]] ELSE b
  BY RootsGiven
<1>2. "root" \in DOMAIN b
  BY DEF IsDrawing, AttributeFields
<1> HIDE DEF n, b, r
<1>3. /\ DOMAIN n = DOMAIN b /\ \A k \in DOMAIN b \ {"root"} : n[k] = b[k]
      /\ n.root = IF r # <<>> THEN r[1] ELSE b.root
  BY <1>1, <1>2
<1> QED
  BY <1>3 DEF n, b, r

(* A drawing that nobody has analysed yet. *)
LEMMA NewIsAged ==
  ASSUME NEW g, NEW bt, IsDrawing(bt), NEW C
  PROVE  Aged(g, bt, bt, C)
BY DEF Aged, AgedNode

(* More edges leave the crossings there are. *)
LEMMA AgedExtends ==
  ASSUME NEW V, NEW h \in SoundGraphs(V), NEW W, NEW k \in SoundGraphs(W), Extended(h, k),
         NEW at, NEW bt, NEW C, Aged(h, at, bt, C)
  PROVE  Aged(k, at, bt, C)
<1> DEFINE now == WithRoots(h, bt, C)
<1>1. WithRoots(k, bt, C) = now
  BY RootsStay
<1>2. /\ DOMAIN at = DOMAIN bt
      /\ \A id \in DOMAIN bt : AgedNode(at[id], bt[id], now[id].root)
      /\ \A id \in DOMAIN bt : bt[id].uncertain = "no" /\ at[id].uncertain = "crossing" =>
                                 CrossedInto(h, now, id)
  BY DEF Aged
<1> HIDE DEF now
<1>3. ASSUME NEW id, CrossedInto(h, now, id) PROVE CrossedInto(k, now, id)
  <2> DEFINE D == [g |-> h, at |-> now]
             E == [g |-> k, at |-> now]
  <2>1. PICK src \in Registers(h) : Crosses(D, src, id) /\ \E p \in SimplePaths(h, src) : Last(p) = id
    BY <1>3 DEF CrossedInto
  <2>2. Registers(k) = Registers(h) /\ \A n : FindNode(k, n) = FindNode(h, n)
    BY ExtendedNodes
  <2>3. Registers(h) \subseteq Nat
    BY RegistersAreNodes
  <2>4. \A n : Domain(E, n) = Domain(D, n)
    BY <2>2 DEF Domain, Clock
  <2>5. Crosses(E, src, id)
    BY <2>1, <2>4 DEF Crosses, HasDomain
  <2>6. \E p \in SimplePaths(k, src) : Last(p) = id
    BY <2>1, <2>3, PathsStay
  <2> QED
    BY <1>3, <2>2, <2>5, <2>6 DEF CrossedInto
<1> QED
  BY <1>1, <1>2, <1>3 DEF Aged

(* The constraint file gives the same roots again. *)
LEMMA AgedRooted ==
  ASSUME NEW g, NEW at, NEW bt, IsDrawing(bt), NEW C, Aged(g, at, bt, C)
  PROVE  Aged(g, WithRoots(g, at, C), bt, C) /\ Rooted(g, WithRoots(g, at, C), bt, C)
<1> DEFINE now == WithRoots(g, bt, C)
           new == WithRoots(g, at, C)
<1>1. /\ DOMAIN at = DOMAIN bt
      /\ \A id \in DOMAIN bt : AgedNode(at[id], bt[id], now[id].root)
      /\ \A id \in DOMAIN bt : bt[id].uncertain = "no" /\ at[id].uncertain = "crossing" =>
                                 CrossedInto(g, now, id)
  BY DEF Aged
<1>2. IsDrawing(at)
  BY <1>1 DEF IsDrawing, AgedNode
<1>3. DOMAIN new = DOMAIN bt
  BY <1>1, RootsGiven
<1>4. ASSUME NEW id \in DOMAIN bt
      PROVE  /\ AgedNode(new[id], bt[id], now[id].root) /\ new[id].root = now[id].root
             /\ new[id].uncertain = at[id].uncertain
  <2> DEFINE r == NewRoot(g, C, id)
             n == new[id]
             a == at[id]
             b == bt[id]
             root == now[id].root
  <2>1. /\ DOMAIN n = DOMAIN a /\ \A k \in DOMAIN a \ {"root"} : n[k] = a[k]
        /\ n.root = IF r # <<>> THEN r[1] ELSE a.root
    BY <1>1, <1>2, RootedFields
  <2>2. root = IF r # <<>> THEN r[1] ELSE b.root
    BY RootedFields
  <2>3. AgedNode(a, b, root)
    BY <1>1
  <2>4. "uncertain" \in DOMAIN b
    BY DEF IsDrawing, AttributeFields
  <2> HIDE DEF r, n, a, b, root
  <2>5. n.root = root
    BY <2>1, <2>2, <2>3 DEF AgedNode
  <2>6. n.uncertain = a.uncertain
    BY <2>1, <2>3, <2>4 DEF AgedNode
  <2>7. AgedNode(n, b, root)
    BY <2>1, <2>3, <2>5, <2>6 DEF AgedNode
  <2> QED
    BY <2>5, <2>6, <2>7 DEF n, a, b, root
<1> HIDE DEF now, new
<1> QED
  BY <1>1, <1>3, <1>4 DEF Aged, Rooted, now, new

(* The locals of a call that analyses what earlier calls left are those of *)
(* a run but for the marks.                                                *)
AsFresh(w, r) ==
  LET a == FreshWork(r, w.g) IN
  /\ w.config = a.config /\ w.constraints = a.constraints /\ w.engine = a.engine
  /\ w.false_paths = a.false_paths /\ w.proven = a.proven

LEMMA AgedButMarks ==
  ASSUME NEW w, NEW r, IsDrawing(r.design.at), AsFresh(w, r),
         Aged(w.g, w.at, r.design.at, ConstraintsOf(r.constraints)),
         Rooted(w.g, w.at, r.design.at, ConstraintsOf(r.constraints))
  PROVE  ButMarks(FreshWork(r, w.g), w)
<1> DEFINE g == w.g
           a == FreshWork(r, g)
           bt == r.design.at
           C == ConstraintsOf(r.constraints)
           now == WithRoots(g, bt, C)
<1>1. a.at = now /\ a.g = g
  BY FreshFields
<1>2. /\ DOMAIN w.at = DOMAIN bt
      /\ \A id \in DOMAIN bt : AgedNode(w.at[id], bt[id], now[id].root)
  BY DEF Aged
<1>3. \A id \in DOMAIN bt : w.at[id].root = now[id].root
  BY DEF Rooted
<1>4. DOMAIN now = DOMAIN bt
  BY RootsGiven
<1>5. ASSUME NEW id \in DOMAIN bt
      PROVE  /\ DOMAIN w.at[id] = DOMAIN now[id]
             /\ \A k \in DOMAIN now[id] \ {"uncertain"} : w.at[id][k] = now[id][k]
  <2> DEFINE n == now[id]
             b == bt[id]
             x == w.at[id]
  <2>1. DOMAIN n = DOMAIN b /\ \A k \in DOMAIN b \ {"root"} : n[k] = b[k]
    BY RootedFields
  <2>2. AgedNode(x, b, n.root) /\ x.root = n.root
    BY <1>2, <1>3
  <2> HIDE DEF n, b, x
  <2>3. DOMAIN x = DOMAIN n /\ \A k \in DOMAIN n \ {"uncertain"} : x[k] = n[k]
    BY <2>1, <2>2 DEF AgedNode
  <2> QED
    BY <2>3 DEF n, x
<1>6. /\ w.config = a.config /\ w.constraints = a.constraints
      /\ w.false_paths = a.false_paths /\ w.proven = a.proven
  BY DEF AsFresh
<1> HIDE DEF now, bt, a
<1> QED
  BY <1>1, <1>2, <1>4, <1>5, <1>6 DEF ButMarks, g, a

(* Drawn attributes are those of the nodes of a graph, with new roots. *)
LEMMA FreshAttributes ==
  ASSUME NEW g, NEW at, Attributes(g, at), NEW bt, IsDrawing(bt), NEW C, Aged(g, at, bt, C)
  PROVE  Attributes(g, WithRoots(g, bt, C))
<1> DEFINE now == WithRoots(g, bt, C)
<1>1. /\ DOMAIN at = DOMAIN bt
      /\ \A id \in DOMAIN bt : AgedNode(at[id], bt[id], now[id].root)
  BY DEF Aged
<1>2. DOMAIN now = DOMAIN bt
  BY RootsGiven
<1>3. \A id \in DOMAIN bt : DOMAIN now[id] = DOMAIN bt[id] /\ now[id].packed = bt[id].packed
  BY RootedFields DEF IsDrawing, AttributeFields
<1>4. \A id \in DOMAIN bt : at[id].packed = bt[id].packed
  BY <1>1 DEF IsDrawing, AttributeFields, AgedNode
<1> HIDE DEF now
<1>5. Attributes(g, now)
  BY <1>1, <1>2, <1>3, <1>4 DEF Attributes, IsDrawing
<1> QED
  BY <1>5 DEF now

(* A crossing has a path that ends there. *)
LEMMA CrossedReached ==
  ASSUME NEW V, NEW D, NEW g, D.g = g, g \in SoundGraphs(V), NEW src, NEW dst,
         <<src, dst>> \in CrossedPairs(D)
  PROVE  Crosses(D, src, dst) /\ \E p \in SimplePaths(g, src) : Last(p) = dst
<1>1. <<src, dst>> \in Registers(D.g) \X Registers(D.g)
  BY DEF CrossedPairs
<1>2. src \in Registers(D.g) /\ dst \in Registers(D.g)
  BY <1>1
<1>3. D.g \in SoundGraphs(V)
  OBVIOUS
<1>4. Crosses(D, src, dst) /\ \E p \in SimplePaths(D.g, src) : Last(p) = dst
  BY <1>2, <1>3, CrossedExact
<1> QED
  BY <1>4

(* All findings are themselves again. *)
LEMMA AllUnwaived ==
  ASSUME NEW F, \A f \in F : IsFinding(f)
  PROVE  {Unwaived(f) : f \in {Put(f, "by", 0) : f \in F}} = F
<1> DEFINE P(f) == Put(f, "by", 0)
           U(f) == Unwaived(f)
           G == {P(f) : f \in F}
<1>1. \A f \in F : U(P(f)) = f
  BY UnwaivedPut
<1>2. G = {P(f) : f \in F}
  OBVIOUS
<1> HIDE DEF P, U, G
<1>3. {U(f) : f \in G} = F
  BY <1>1, <1>2
<1> QED
  BY <1>3 DEF P, U, G

(* A crossing of the graph with its new roots is one of the design.        *)
LEMMA IntoIsCrossed ==
  ASSUME NEW V, NEW D, D.g \in SoundGraphs(V), NEW at, SameRoots(D.g, at, D.at),
         NEW id, CrossedInto(D.g, at, id)
  PROVE  id \in Registers(D.g) /\ \E src \in Registers(D.g) : <<src, id>> \in CrossedPairs(D) \/ src \in CutShort(D)
<1> DEFINE g == D.g
           B == [g |-> g, at |-> at]
<1>1. PICK src \in Registers(g) : Crosses(B, src, id) /\ \E p \in SimplePaths(g, src) : Last(p) = id
  BY DEF CrossedInto
<1>2. id \in Registers(g)
  BY DEF CrossedInto
<1>3. B.g = g /\ B.at = at
  OBVIOUS
<1> HIDE DEF B, g
<1>4. Crosses(D, src, id)
  <2>1. \A a, b \in NodeIds(g) : Crosses(D, a, b) <=> Crosses(B, a, b)
    <3>1. g \in SoundGraphs(V) /\ D.g = g /\ SameRoots(g, B.at, D.at)
      BY <1>3 DEF g
    <3> QED
      BY <1>3, <3>1, RootsDecide
  <2>2. Registers(g) \subseteq NodeIds(g)
    BY RegistersAreNodes DEF g
  <2> QED
    BY <1>1, <1>2, <2>1, <2>2
<1>5. <<src, id>> \in CrossedPairs(D) \/ src \in CutShort(D)
  BY <1>1, <1>2, <1>4, CrossedExact DEF g
<1> QED
  BY <1>1, <1>2, <1>5 DEF g

(* What is found on what earlier calls left agrees with a run.             *)
LEMMA FoundAgrees ==
  ASSUME NEW V, NEW w, w.g \in SoundGraphs(V), Attributes(w.g, w.at), NEW r,
         IsDrawing(r.design.at), AsFresh(w, r),
         Aged(w.g, w.at, r.design.at, ConstraintsOf(r.constraints)),
         Rooted(w.g, w.at, r.design.at, ConstraintsOf(r.constraints)),
         NEW v, v.g = w.g, v.engine = w.engine,
         v.findings = {Put(f, "by", 0) : f \in Filter(w.engine, StructuralFindings(Design(w)))}
  PROVE  Agreeing(v, r)
<1> DEFINE g == w.g
           a == FreshWork(r, g)
           bt == r.design.at
           C == ConstraintsOf(r.constraints)
           now == WithRoots(g, bt, C)
           D == Design(a)
           E == Design(w)
           SD == StructuralFindings(D)
           SE == StructuralFindings(E)
           engine == w.engine
<1>1. a.at = now /\ a.g = g /\ a.engine = engine
  BY FreshFields DEF AsFresh
<1>2. ButMarks(a, w)
  BY AgedButMarks
<1>3. Attributes(g, now)
  BY FreshAttributes
<1>4. /\ DOMAIN w.at = DOMAIN bt
      /\ \A id \in DOMAIN bt : AgedNode(w.at[id], bt[id], now[id].root)
      /\ \A id \in DOMAIN bt : bt[id].uncertain = "no" /\ w.at[id].uncertain = "crossing" =>
                                 CrossedInto(g, now, id)
  BY DEF Aged
<1>5. DOMAIN now = DOMAIN bt /\ DOMAIN bt \subseteq Nat
  BY RootsGiven DEF IsDrawing
<1>6. \A id \in DOMAIN bt : now[id].uncertain = bt[id].uncertain
  <2> SUFFICES ASSUME NEW id \in DOMAIN bt PROVE now[id].uncertain = bt[id].uncertain
    OBVIOUS
  <2>1. \A k \in DOMAIN bt[id] \ {"root"} : now[id][k] = bt[id][k]
    BY RootedFields
  <2>2. "uncertain" \in DOMAIN bt[id] \ {"root"}
    BY DEF IsDrawing, AttributeFields
  <2> HIDE DEF now, bt
  <2> QED
    BY <2>1, <2>2
<1>7. FreshFindings(r, g) = Filter(engine, SD)
  BY <1>1 DEF FreshFindings
<1>8. D.g = a.g
  BY DesignParts
<1> HIDE DEF a, now, bt, D, E
<1>9. a.g \in SoundGraphs(V) /\ Attributes(a.g, a.at)
  BY <1>1, <1>3
<1>10. /\ Alike(D, E) /\ E.suppress_resets = D.suppress_resets
       /\ SameRoots(a.g, D.at, E.at)
       /\ \A id \in DOMAIN a.at :
            /\ E.at[id].isolation = D.at[id].isolation
            /\ E.at[id].uncertain = w.at[id].uncertain
            /\ D.at[id].uncertain = a.at[id].uncertain
       /\ DOMAIN D.at = DOMAIN a.at /\ DOMAIN E.at = DOMAIN a.at
  BY <1>2, <1>9, ButMarksAlike DEF D, E
<1>11. D.g = g /\ D.g \in SoundGraphs(V) /\ E.g = g /\ NodeIds(g) \subseteq DOMAIN a.at
  BY <1>1, <1>8, <1>9, <1>10 DEF Alike, Attributes
<1>12. But013(SE) = But013(SD)
       /\ (PropagateUncertainty(D, Analyze(D)) \subseteq PropagateUncertainty(E, Analyze(D)) => SD \subseteq SE)
  BY <1>10, <1>11, StructuralAlike
<1>13. Findings(SD) /\ Findings(SE)
  <2>1. Sized(D.g) /\ Sized(E.g)
    BY <1>11, GraphFields DEF SoundGraphs, Sized, GraphType
  <2> QED
    BY <2>1, AnalysisFindsFew DEF StructuralFindings
<1>14. Tells(E, SE) /\ Tells(D, Analyze(D))
  BY <1>11, StructuralTells, AnalyzeTells
<1>15. CutShort(E) = CutShort(D)
  <2>1. g \in SoundGraphs(V) /\ SameRoots(g, D.at, E.at)
    BY <1>1, <1>9, <1>10
  <2> HIDE DEF g
  <2> QED
    BY <1>11, <2>1, RootsDecide
<1>16. v.findings = {Put(f, "by", 0) : f \in Filter(engine, SE)}
  BY DEF E
<1>17. \A f \in Filter(engine, SE) : IsFinding(f)
  BY <1>13, FilterFew DEF Findings
<1> HIDE DEF SD, SE, engine
<1>18. {Unwaived(f) : f \in v.findings} = Filter(engine, SE)
  <2> DEFINE S == Filter(engine, SE)
  <2>1. v.findings = {Put(f, "by", 0) : f \in S}
    BY <1>16
  <2>2. \A f \in S : IsFinding(f)
    BY <1>17
  <2> HIDE DEF S
  <2>3. {Unwaived(f) : f \in {Put(f, "by", 0) : f \in S}} = S
    BY <2>2, AllUnwaived
  <2>4. {Unwaived(f) : f \in v.findings} = S
    BY <2>1, <2>3
  <2> QED
    BY <2>4 DEF S
<1>19. But013(Filter(engine, SE)) = But013(Filter(engine, SD))
  BY <1>12, <1>13, FilterAgrees
<1>20. ASSUME engine["CDC010"].enabled, \A f \in v.findings : f.rule # "CDC010"
       PROVE  Filter(engine, SD) \subseteq Filter(engine, SE)
  <2>1. CutShort(E) = {}
    <3> SUFFICES ASSUME NEW s \in CutShort(E) PROVE FALSE
      OBVIOUS
    <3>1. PICK f \in SE : f.rule = "CDC010" /\ f.src = s
      BY <1>14 DEF Tells
    <3>2. LetThrough(engine, f) \in v.findings
      BY <1>16, <1>20, <3>1, AllPassed
    <3>3. LetThrough(engine, f).rule = "CDC010"
      BY <1>13, <3>1, PassedFields DEF Findings
    <3> QED
      BY <1>20, <3>2, <3>3
  <2>2. MoreMarks(D, E)
    <3>1. DOMAIN E.at = DOMAIN D.at
      BY <1>10
    <3>2. ASSUME NEW id \in DOMAIN D.at
          PROVE  IF D.at[id].uncertain # "no" THEN E.at[id].uncertain = D.at[id].uncertain
                 ELSE /\ E.at[id].uncertain \in {"no", "crossing", "propagated"}
                      /\ E.at[id].uncertain = "crossing" =>
                           \E src \in Registers(D.g) : <<src, id>> \in CrossedPairs(D)
      <4>1. id \in DOMAIN bt /\ id \in DOMAIN a.at
        BY <1>1, <1>5, <1>10
      <4>2. D.at[id].uncertain = bt[id].uncertain /\ E.at[id].uncertain = w.at[id].uncertain
        BY <1>1, <1>6, <1>10, <4>1
      <4>3. IF bt[id].uncertain # "no" THEN w.at[id].uncertain = bt[id].uncertain
            ELSE w.at[id].uncertain \in {"no", "crossing", "propagated"}
        BY <1>4, <4>1 DEF AgedNode
      <4>4. ASSUME bt[id].uncertain = "no", w.at[id].uncertain = "crossing"
            PROVE  \E src \in Registers(D.g) : <<src, id>> \in CrossedPairs(D)
        <5>1. CrossedInto(D.g, now, id)
          BY <1>4, <1>11, <4>1, <4>4
        <5>2. SameRoots(D.g, now, D.at)
          <6>1. \A n \in DOMAIN a.at : D.at[n].root = a.at[n].root
            <7>1. /\ D.at = [n \in DOMAIN a.at |->
                               [a.at[n] EXCEPT !.safe_box = InSafeBox(a.config, a.at[n].module)]]
              BY DesignParts DEF D
            <7>2. \A n \in DOMAIN a.at : "root" \in DOMAIN a.at[n]
              BY <1>9 DEF Attributes, AttributeFields
            <7> QED
              BY <7>1, <7>2
          <6> QED
            BY <1>1, <1>11, <6>1 DEF SameRoots
        <5>3. \E src \in Registers(D.g) : <<src, id>> \in CrossedPairs(D) \/ src \in CutShort(D)
          BY <1>11, <5>1, <5>2, IntoIsCrossed
        <5> QED
          BY <1>15, <2>1, <5>3
      <4> QED
        BY <4>2, <4>3, <4>4
    <3> QED
      BY <3>1, <3>2 DEF MoreMarks
  <2>3. PropagateUncertainty(D, Analyze(D)) \subseteq PropagateUncertainty(E, Analyze(D))
    <3>1. NodeIds(D.g) \subseteq DOMAIN D.at /\ DOMAIN D.at \subseteq Nat /\ E.g = D.g
      BY <1>1, <1>5, <1>10, <1>11
    <3> QED
      BY <1>11, <1>14, <2>2, <3>1, MarksGrow
  <2>4. SD \subseteq SE
    BY <1>12, <2>3
  <2> QED
    BY <1>13, <2>4, FilterAgrees
<1>21. v.g = g /\ v.engine = engine
  BY DEF engine
<1> QED
  BY <1>7, <1>18, <1>19, <1>20, <1>21 DEF Agreeing

(* The analysis leaves marks of its crossings and of what is behind them.  *)
LEMMA AnalysedIsAged ==
  ASSUME NEW V, NEW w, w.g \in SoundGraphs(V), Attributes(w.g, w.at), NEW bt, IsDrawing(bt),
         NEW C, Aged(w.g, w.at, bt, C), Rooted(w.g, w.at, bt, C),
         NEW at, at = [id \in DOMAIN w.at |->
                         [w.at[id] EXCEPT !.uncertain = Marks(Design(w), Analyze(Design(w)))[id]]]
  PROVE  Aged(w.g, at, bt, C)
<1> DEFINE D == Design(w)
           F == Analyze(D)
           marks == Marks(D, F)
           now == WithRoots(w.g, bt, C)
           marked == Spread(D, Uncertain(F) \cup {id \in DOMAIN D.at : D.at[id].uncertain # "no"})
<1>1. /\ DOMAIN w.at = DOMAIN bt
      /\ \A id \in DOMAIN bt : AgedNode(w.at[id], bt[id], now[id].root)
      /\ \A id \in DOMAIN bt : bt[id].uncertain = "no" /\ w.at[id].uncertain = "crossing" =>
                                 CrossedInto(w.g, now, id)
  BY DEF Aged
<1>2. \A id \in DOMAIN bt : w.at[id].root = now[id].root
  BY DEF Rooted
<1>3. D.g = w.g
      /\ D.at = [id \in DOMAIN w.at |->
                   [w.at[id] EXCEPT !.safe_box = InSafeBox(w.config, w.at[id].module)]]
  BY DesignParts
<1>4. \A id \in DOMAIN D.at :
        marks[id] = IF D.at[id].uncertain # "no" THEN D.at[id].uncertain
                    ELSE IF id \in Uncertain(F) THEN "crossing"
                    ELSE IF id \in marked THEN "propagated" ELSE "no"
  <2> HIDE DEF marked, D, F
  <2> QED
    BY DEF Marks, marked
<1>5. at = [id \in DOMAIN w.at |-> [w.at[id] EXCEPT !.uncertain = marks[id]]]
  OBVIOUS
<1> HIDE DEF D, F, marks, marked, now
<1>6. \A id \in DOMAIN w.at : "root" \in DOMAIN w.at[id] /\ "uncertain" \in DOMAIN w.at[id]
  BY DEF Attributes, AttributeFields
<1>7. DOMAIN D.at = DOMAIN bt
      /\ \A id \in DOMAIN bt : D.at[id].root = now[id].root /\ D.at[id].uncertain = w.at[id].uncertain
  BY <1>1, <1>2, <1>3, <1>6
<1>8. ASSUME NEW id \in Uncertain(F) PROVE CrossedInto(w.g, now, id)
  <2> DEFINE g == w.g
             B == [g |-> g, at |-> now]
  <2>1. Tells(D, F)
    BY <1>3, AnalyzeTells DEF F
  <2>2. PICK f \in F : f.rule = "CDC001" /\ f.dst = id
    BY <1>8 DEF Uncertain
  <2> DEFINE src == f.src
  <2>3. <<src, id>> \in CrossedPairs(D)
    BY <2>1, <2>2 DEF Tells
  <2> HIDE DEF src
  <2>4. src \in Registers(g) /\ id \in Registers(g) /\ D.g \in SoundGraphs(V)
    BY <1>3, <2>3 DEF CrossedPairs
  <2>5. Crosses(D, src, id) /\ \E p \in SimplePaths(g, src) : Last(p) = id
    <3>1. D.g = g
      BY <1>3
    <3> HIDE DEF g
    <3> QED
      BY <2>3, <2>4, <3>1, CrossedReached
  <2>6. Crosses(B, src, id)
    <3>1. B.g = g /\ D.g = g /\ B.at = now
      BY <1>3
    <3>2. g \in SoundGraphs(V) /\ SameRoots(g, D.at, B.at)
      <4>1. NodeIds(g) \subseteq DOMAIN bt
        BY <1>1 DEF Attributes
      <4> QED
        BY <1>7, <4>1 DEF SameRoots
    <3>3. Registers(g) \subseteq NodeIds(g)
      BY <3>2, RegistersAreNodes
    <3> HIDE DEF g, B
    <3>4. \A a, b \in NodeIds(g) : Crosses(B, a, b) <=> Crosses(D, a, b)
      BY <3>1, <3>2, RootsDecide
    <3> QED
      BY <2>4, <2>5, <3>3, <3>4
  <2> QED
    BY <2>4, <2>5, <2>6 DEF CrossedInto
<1>9. ASSUME NEW id \in DOMAIN bt
      PROVE  /\ AgedNode(at[id], bt[id], now[id].root)
             /\ bt[id].uncertain = "no" /\ at[id].uncertain = "crossing" => CrossedInto(w.g, now, id)
  <2> DEFINE m == marks[id]
             x == w.at[id]
             y == at[id]
             b == bt[id]
             root == now[id].root
  <2>1. y = [x EXCEPT !.uncertain = m]
    BY <1>1, <1>5
  <2>2. AgedNode(x, b, root)
    BY <1>1
  <2>3. m = IF x.uncertain # "no" THEN x.uncertain
            ELSE IF id \in Uncertain(F) THEN "crossing"
            ELSE IF id \in marked THEN "propagated" ELSE "no"
    BY <1>4, <1>7
  <2>4. b.uncertain = "no" /\ x.uncertain = "crossing" => CrossedInto(w.g, now, id)
    BY <1>1
  <2>5. "uncertain" \in DOMAIN x /\ "root" \in DOMAIN x
    BY <1>1, <1>6
  <2> HIDE DEF m, x, y, b, root
  <2>6. y.uncertain = m /\ DOMAIN y = DOMAIN x /\ \A k \in DOMAIN x \ {"uncertain"} : y[k] = x[k]
    BY <2>1, <2>5
  <2>7. AgedNode(y, b, root)
    <3>1. IF b.uncertain # "no" THEN m = b.uncertain ELSE m \in {"no", "crossing", "propagated"}
      BY <2>2, <2>3 DEF AgedNode
    <3> QED
      BY <2>2, <2>5, <2>6, <3>1 DEF AgedNode
  <2>8. b.uncertain = "no" /\ y.uncertain = "crossing" => CrossedInto(w.g, now, id)
    BY <1>8, <2>3, <2>4, <2>6
  <2> QED
    BY <2>7, <2>8 DEF y, b, root
<1>10. DOMAIN at = DOMAIN bt
  BY <1>1, <1>5
<1> QED
  BY <1>9, <1>10 DEF Aged, now

-----------------------------------------------------------------------------
(* The calls before.                                                       *)

(* The stages whose call has a graph, and those that have findings of it.  *)
Judging == {"load_waivers", "waive", "check_unused", "judge"}
Built == {"constrain", "set_rules", "analyse"} \cup Judging

(* If c was the constraint file of all calls: what the graphs keep of the  *)
(* calls before, and that the findings agree with a run.                   *)
HeldFor(c) ==
  LET bt == request.design.at
      C == ConstraintsOf(c) IN
  /\ held.g # EmptyGraph => Aged(held.g, held.at, bt, C)
  /\ pc \in Built => Aged(work.g, work.at, bt, C)
  /\ pc \in {"set_rules", "analyse"} => Rooted(work.g, work.at, bt, C)
  /\ pc \in Judging \/ Finished => Agreeing(work, request)

(* What a call takes from those before it, and what a run would have.      *)
HeldInv ==
  /\ calls = 0 => pc = "idle" /\ held.g = EmptyGraph
  /\ pc = "configure" /\ mode = "incremental" => held.g # EmptyGraph
  /\ held.g # EmptyGraph \/ pc \in Built => work.proven = request.design.proven
  /\ IsFiniteSet(work.seen)
  /\ pc # "idle" \/ Finished => request.constraints \in work.seen
  /\ pc \in {"set_rules", "analyse"} => work.constraints = ConstraintsOf(request.constraints)
  /\ pc = "analyse" =>
       work.engine = WithOverrides(work.config, request.disable, request.severities)
  /\ Finished => result.g = work.g /\ result.findings = work.findings
  /\ \A c : work.seen \subseteq {c} => HeldFor(c)

(* A request brings the attributes of its nodes. *)
LEMMA RequestDraws ==
  ASSUME TypeInv
  PROVE  IsDrawing(request.design.at)
BY DEF TypeInv, WellFormed, IsDrawing

(* Before the first call nothing is held. *)
LEMMA HeldInit ==
  ASSUME NEW R, InitFor(R)
  PROVE  HeldInv
<1>1. /\ pc = "idle" /\ result.status = "failed" /\ work = NoWork /\ held = result
      /\ result.g = EmptyGraph /\ calls = 0
  BY DEF InitFor, Failed
<1>2. NoWork.seen = {}
  BY DEF NoWork
<1>3. IsFiniteSet(work.seen)
  BY <1>1, <1>2, FS_EmptySet
<1>4. ~Finished
  BY <1>1 DEF Finished
<1>5. \A c : HeldFor(c)
  BY <1>1, <1>4 DEF HeldFor, Built, Judging
<1> QED
  BY <1>1, <1>3, <1>4, <1>5 DEF HeldInv, Built, Judging

(* A call fails, and its caller holds what it gave back. *)
LEMMA HeldFails ==
  ASSUME HeldInv, NEW g, NEW at, Fail(g, at), UNCHANGED <<request, calls>>, pc # "idle",
         g = EmptyGraph \/ (pc \in Built /\ g = work.g /\ at = work.at)
  PROVE  HeldInv'
<1>1. /\ pc' = "idle" /\ work' = work /\ result'.status = "failed"
      /\ held' = IF mode = "run" THEN Failed(g, at) ELSE held
  BY DEF Fail, Failed
<1>2. ~Finished'
  BY <1>1 DEF Finished
<1>3. Failed(g, at).g = g /\ Failed(g, at).at = at
  BY DEF Failed
<1>4. \/ held' = held \/ held'.g = EmptyGraph
      \/ pc \in Built /\ held'.g = work.g /\ held'.at = work.at
  BY <1>1, <1>3
<1>5. held'.g # EmptyGraph => held.g # EmptyGraph \/ pc \in Built
  BY <1>4
<1>6. calls' # 0
  BY DEF HeldInv
<1>7. ASSUME NEW c, work'.seen \subseteq {c} PROVE HeldFor(c)'
  <2>1. HeldFor(c)
    BY <1>1, <1>7 DEF HeldInv
  <2>2. held'.g # EmptyGraph => Aged(held'.g, held'.at, request.design.at, ConstraintsOf(c))
    BY <1>4, <2>1 DEF HeldFor
  <2> QED
    BY <1>1, <1>2, <2>2 DEF HeldFor, Built, Judging
<1> QED
  BY <1>1, <1>2, <1>5, <1>6, <1>7 DEF HeldInv, Built, Judging

(* A call begins: the first, with nothing, or a later one. *)
LEMMA HeldBegins ==
  ASSUME TypeInv, HeldInv, run \/ \E r \in Requests : run_incremental(r)
  PROVE  HeldInv'
<1>1. DOMAIN NoWork = WorkFields
  BY NoWorkIsWork DEF IsWork
<1>2. calls \in Nat
  BY DEF TypeInv
<1>3. CASE run
  <2>1. /\ work' = [NoWork EXCEPT !.began = today, !.seen = {request.constraints}]
        /\ pc' = "configure" /\ held' = held /\ mode' = "run" /\ request' = request
        /\ calls = 0 /\ calls' = calls + 1
    BY <1>3 DEF run
  <2>2. work'.seen = {request'.constraints}
    BY <1>1, <2>1 DEF WorkFields
  <2>3. IsFiniteSet(work'.seen)
    BY <2>2, FS_Singleton
  <2>4. held'.g = EmptyGraph /\ calls' # 0
    BY <1>2, <2>1 DEF HeldInv
  <2>5. ~Finished'
    BY <2>1 DEF Finished
  <2>6. \A c : HeldFor(c)'
    BY <2>1, <2>4, <2>5 DEF HeldFor, Built, Judging
  <2> QED
    BY <2>1, <2>2, <2>3, <2>4, <2>5, <2>6 DEF HeldInv, Built, Judging
<1>4. ASSUME NEW r \in Requests, run_incremental(r), held.g.dirty
      PROVE  HeldInv'
  <2>1. /\ work' = [NoWork EXCEPT !.began = today, !.proven = work.proven,
                                  !.seen = work.seen \cup {r.constraints}]
        /\ pc' = "configure" /\ held' = held /\ mode' = "incremental" /\ request' = r
        /\ r.design = request.design /\ calls' = calls + 1
    BY <1>4 DEF run_incremental
  <2>2. work'.seen = work.seen \cup {r.constraints} /\ work'.proven = work.proven
    BY <1>1, <2>1 DEF WorkFields
  <2>3. IsFiniteSet(work'.seen)
    BY <2>2, FS_AddElement DEF HeldInv
  <2>4. held'.g # EmptyGraph /\ calls' # 0
    BY <1>2, <1>4, <2>1 DEF EmptyGraph
  <2>5. ~Finished'
    BY <2>1 DEF Finished
  <2>6. ASSUME NEW c, work'.seen \subseteq {c} PROVE HeldFor(c)'
    <3>1. HeldFor(c)
      BY <2>2, <2>6 DEF HeldInv
    <3>2. Aged(held'.g, held'.at, request'.design.at, ConstraintsOf(c))
      BY <2>1, <2>4, <3>1 DEF HeldFor
    <3> QED
      BY <2>1, <2>5, <3>2 DEF HeldFor, Built, Judging
  <2>7. work'.proven = request'.design.proven
    BY <2>1, <2>2, <2>4 DEF HeldInv
  <2> QED
    BY <2>1, <2>2, <2>3, <2>4, <2>5, <2>6, <2>7 DEF HeldInv, Built, Judging
<1>5. ASSUME NEW r \in Requests, run_incremental(r), ~held.g.dirty
      PROVE  HeldInv'
  <2>1. /\ pc = "idle" /\ pc' = "idle"
        /\ result' = [held EXCEPT !.ok = TRUE, !.status = "no_changes"]
        /\ work' = work /\ held' = held /\ request' = r /\ r.design = request.design
        /\ calls' = calls + 1
    BY <1>5 DEF run_incremental
  <2>2. result'.status = "no_changes"
    BY <2>1 DEF TypeInv, IsResult, ResultFields
  <2>3. ~Finished' /\ calls' # 0
    BY <1>2, <2>1, <2>2 DEF Finished
  <2>4. ASSUME NEW c, work'.seen \subseteq {c} PROVE HeldFor(c)'
    <3>1. HeldFor(c)
      BY <2>1, <2>4 DEF HeldInv
    <3> QED
      BY <2>1, <2>3, <3>1 DEF HeldFor, Built, Judging
  <2> QED
    BY <2>1, <2>3, <2>4 DEF HeldInv, Built, Judging
<1> QED
  BY <1>3, <1>4, <1>5

(* A later call takes graph and marks from what the caller holds. *)
LEMMA HeldConfigure ==
  ASSUME TypeInv, HeldInv, configure
  PROVE  HeldInv'
<1>1. pc = "configure" /\ UNCHANGED <<mode, request, calls>>
  BY DEF configure
<1>2. \/ Fail(EmptyGraph, <<>>)
      \/ /\ pc' = IF mode = "run" THEN "elaborate" ELSE "constrain"
         /\ UNCHANGED <<result, held>>
         /\ \E config :
              work' = [work EXCEPT !.config = config,
                                   !.g = IF mode = "run" THEN @ ELSE held.g,
                                   !.at = IF mode = "run" THEN @ ELSE held.at]
  BY DEF configure
<1>3. CASE Fail(EmptyGraph, <<>>)
  BY <1>1, <1>3, HeldFails
<1>4. ASSUME pc' = IF mode = "run" THEN "elaborate" ELSE "constrain",
             UNCHANGED <<result, held>>, NEW config,
             work' = [work EXCEPT !.config = config,
                                  !.g = IF mode = "run" THEN @ ELSE held.g,
                                  !.at = IF mode = "run" THEN @ ELSE held.at]
      PROVE  HeldInv'
  <2>1. DOMAIN work = WorkFields /\ mode \in {"run", "incremental"}
    BY DEF TypeInv, IsWork
  <2>2. /\ work'.proven = work.proven /\ work'.seen = work.seen
        /\ mode # "run" => work'.g = held.g /\ work'.at = held.at
    BY <1>4, <2>1 DEF WorkFields
  <2>3. pc' \in {"elaborate", "constrain"} /\ (pc' = "constrain" => mode = "incremental")
    BY <1>4, <2>1
  <2>4. ~Finished'
    BY <2>3 DEF Finished
  <2>5. pc' = "constrain" => held.g # EmptyGraph
    BY <1>1, <2>3 DEF HeldInv
  <2>6. ASSUME NEW c, work'.seen \subseteq {c} PROVE HeldFor(c)'
    <3>1. HeldFor(c)
      BY <2>2, <2>6 DEF HeldInv
    <3>2. pc' = "constrain" => Aged(work'.g, work'.at, request'.design.at, ConstraintsOf(c))
      BY <1>1, <2>2, <2>3, <2>5, <3>1 DEF HeldFor
    <3>3. held'.g # EmptyGraph => Aged(held'.g, held'.at, request'.design.at, ConstraintsOf(c))
      BY <1>1, <1>4, <3>1 DEF HeldFor
    <3> QED
      BY <2>3, <2>4, <3>2, <3>3 DEF HeldFor, Built, Judging
  <2>7. work'.seen = work.seen /\ request.constraints \in work.seen /\ IsFiniteSet(work.seen)
    BY <1>1, <2>2 DEF HeldInv
  <2>8. calls' # 0
    BY <1>1 DEF HeldInv
  <2>9. held'.g # EmptyGraph \/ pc' \in Built => work'.proven = request'.design.proven
    BY <1>1, <1>4, <2>2, <2>3, <2>5 DEF HeldInv, Built, Judging
  <2> QED
    BY <1>1, <2>3, <2>4, <2>6, <2>7, <2>8, <2>9 DEF HeldInv
<1> QED
  BY <1>2, <1>3, <1>4

(* The frontend's graph is new. *)
LEMMA HeldElaborate ==
  ASSUME TypeInv, HeldInv, elaborate
  PROVE  HeldInv'
<1> DEFINE design == request.design
           g == Connected(Placed(design.nodes), design.edges)
           at == design.at
           proven == design.proven
           unknown == design.unknown
<1>1. pc = "elaborate" /\ UNCHANGED <<mode, request, calls>>
  BY DEF elaborate
<1>2. \/ Fail(EmptyGraph, <<>>)
      \/ /\ pc' = "constrain" /\ UNCHANGED <<result, held>>
         /\ work' = [work EXCEPT !.g = g, !.at = at, !.proven = proven, !.unknown = unknown]
  BY DEF elaborate
<1>3. IsDrawing(at)
  BY RequestDraws
<1> HIDE DEF g
<1>4. CASE Fail(EmptyGraph, <<>>)
  BY <1>1, <1>4, HeldFails
<1>5. CASE /\ pc' = "constrain" /\ UNCHANGED <<result, held>>
           /\ work' = [work EXCEPT !.g = g, !.at = at, !.proven = proven, !.unknown = unknown]
  <2>1. DOMAIN work = WorkFields
    BY DEF TypeInv, IsWork
  <2>2. work'.proven = proven /\ work'.seen = work.seen /\ work'.g = g /\ work'.at = at
    <3> HIDE DEF proven, unknown, at
    <3> QED
      BY <1>5, <2>1 DEF WorkFields
  <2>3. ~Finished'
    BY <1>5 DEF Finished
  <2>4. ASSUME NEW c, work'.seen \subseteq {c} PROVE HeldFor(c)'
    <3>1. HeldFor(c)
      BY <2>2, <2>4 DEF HeldInv
    <3>2. Aged(work'.g, work'.at, request'.design.at, ConstraintsOf(c))
      BY <1>1, <1>3, <2>2, NewIsAged
    <3>3. held'.g # EmptyGraph => Aged(held'.g, held'.at, request'.design.at, ConstraintsOf(c))
      BY <1>1, <1>5, <3>1 DEF HeldFor
    <3> QED
      BY <1>5, <2>3, <3>2, <3>3 DEF HeldFor, Built, Judging
  <2>5. work'.seen = work.seen /\ request.constraints \in work.seen /\ IsFiniteSet(work.seen)
    BY <1>1, <2>2 DEF HeldInv
  <2>6. calls' # 0
    BY <1>1 DEF HeldInv
  <2> QED
    BY <1>1, <1>5, <2>2, <2>3, <2>4, <2>5, <2>6 DEF HeldInv, Built, Judging
<1> QED
  BY <1>2, <1>4, <1>5

(* With one constraint file, what the inductive invariant says of it. *)
LEMMA HeldNow ==
  ASSUME HeldInv, pc \in Built, work.seen \subseteq {request.constraints}
  PROVE  LET bt == request.design.at
             C == ConstraintsOf(request.constraints) IN
         /\ Aged(work.g, work.at, bt, C)
         /\ pc \in {"set_rules", "analyse"} => Rooted(work.g, work.at, bt, C)
         /\ pc \in Judging => Agreeing(work, request)
BY DEF HeldInv, HeldFor

(* A call goes on from one stage to the next. *)
LEMMA HeldGoesOn ==
  ASSUME HeldInv, pc \in Built, pc' \in Built, UNCHANGED <<held, request, calls>>,
         work'.proven = work.proven, work'.seen = work.seen,
         pc' \in {"set_rules", "analyse"} =>
           work'.constraints = ConstraintsOf(request.constraints),
         pc' = "analyse" =>
           work'.engine = WithOverrides(work'.config, request.disable, request.severities),
         work.seen \subseteq {request.constraints} =>
           /\ Aged(work'.g, work'.at, request.design.at, ConstraintsOf(request.constraints))
           /\ pc' \in {"set_rules", "analyse"} =>
                Rooted(work'.g, work'.at, request.design.at, ConstraintsOf(request.constraints))
           /\ pc' \in Judging => Agreeing(work', request)
  PROVE  HeldInv'
<1>1. pc # "idle" /\ pc' # "idle" /\ pc' # "configure"
  BY DEF Built, Judging
<1>2. request.constraints \in work.seen /\ IsFiniteSet(work.seen) /\ calls # 0
      /\ work.proven = request.design.proven
  BY <1>1 DEF HeldInv
<1>3. ~Finished'
  BY <1>1 DEF Finished
<1>4. ASSUME NEW c, work'.seen \subseteq {c} PROVE HeldFor(c)'
  <2>1. c = request.constraints /\ work.seen \subseteq {request.constraints}
    BY <1>2, <1>4
  <2>2. HeldFor(c)
    BY <1>4 DEF HeldInv
  <2>3. held'.g # EmptyGraph =>
          Aged(held'.g, held'.at, request'.design.at, ConstraintsOf(c))
    BY <2>2 DEF HeldFor
  <2> QED
    BY <1>3, <2>1, <2>3 DEF HeldFor
<1> QED
  BY <1>1, <1>2, <1>3, <1>4 DEF HeldInv

(* The constraint file is read, and gives the roots it gave before. *)
LEMMA HeldConstrain ==
  ASSUME TypeInv, HeldInv, constrain
  PROVE  HeldInv'
<1> DEFINE read == ReadConstraints
           C == read.constraints
           at == WithRoots(work.g, work.at, C)
           bt == request.design.at
<1>1. pc = "constrain" /\ UNCHANGED <<request, calls>>
  BY DEF constrain, Constrain
<1>2. \/ Fail(work.g, work.at)
      \/ /\ pc' = "set_rules" /\ UNCHANGED held
         /\ work' = [work EXCEPT !.constraints = C, !.at = at]
  BY DEF constrain, Constrain
<1>3. C = ConstraintsOf(request.constraints)
  BY DEF ReadConstraints, ConstraintsOf
<1>4. IsDrawing(bt)
  BY RequestDraws
<1>5. CASE Fail(work.g, work.at)
  BY <1>1, <1>5, HeldFails DEF Built
<1> HIDE DEF read, C
<1>6. work.seen \subseteq {request.constraints} => Aged(work.g, at, bt, C) /\ Rooted(work.g, at, bt, C)
  <2> SUFFICES ASSUME work.seen \subseteq {request.constraints}
               PROVE  Aged(work.g, at, bt, C) /\ Rooted(work.g, at, bt, C)
    OBVIOUS
  <2>1. Aged(work.g, work.at, bt, C)
    BY <1>1, <1>3, HeldNow DEF Built
  <2> QED
    BY <1>4, <2>1, AgedRooted
<1> HIDE DEF at, bt
<1>7. CASE /\ pc' = "set_rules" /\ UNCHANGED held
           /\ work' = [work EXCEPT !.constraints = C, !.at = at]
  <2>1. DOMAIN work = WorkFields
    BY DEF TypeInv, IsWork
  <2>2. /\ work'.proven = work.proven /\ work'.seen = work.seen /\ work'.g = work.g
        /\ work'.at = at /\ work'.constraints = C
    BY <1>7, <2>1 DEF WorkFields
  <2>3. pc \in Built /\ pc' \in Built /\ pc' \notin Judging /\ pc' # "analyse"
    BY <1>1, <1>7 DEF Built, Judging
  <2> QED
    BY <1>1, <1>3, <1>6, <1>7, <2>2, <2>3, HeldGoesOn DEF bt
<1> QED
  BY <1>2, <1>5, <1>7

(* The rules and false paths are those of the request. *)
LEMMA HeldSet ==
  ASSUME TypeInv, HeldInv, set_rules
  PROVE  HeldInv'
<1> DEFINE engine == WithOverrides(work.config, request.disable, request.severities)
           paths == AllFalsePaths(work.config, work.constraints, request.false_paths)
<1>1. pc = "set_rules" /\ UNCHANGED <<request, calls>>
  BY DEF set_rules
<1>2. \/ Fail(work.g, work.at)
      \/ /\ pc' = "analyse" /\ UNCHANGED held
         /\ work' = [work EXCEPT !.engine = engine, !.false_paths = paths]
  BY DEF set_rules
<1>3. CASE Fail(work.g, work.at)
  BY <1>1, <1>3, HeldFails DEF Built
<1> HIDE DEF engine, paths
<1>4. CASE /\ pc' = "analyse" /\ UNCHANGED held
           /\ work' = [work EXCEPT !.engine = engine, !.false_paths = paths]
  <2>1. DOMAIN work = WorkFields
    BY DEF TypeInv, IsWork
  <2>2. /\ work'.proven = work.proven /\ work'.seen = work.seen /\ work'.g = work.g
        /\ work'.at = work.at /\ work'.constraints = work.constraints
        /\ work'.config = work.config /\ work'.engine = engine
    BY <1>4, <2>1 DEF WorkFields
  <2>3. work'.engine = WithOverrides(work'.config, request.disable, request.severities)
    BY <2>2 DEF engine
  <2>4. work'.constraints = ConstraintsOf(request.constraints)
    BY <1>1, <2>2 DEF HeldInv
  <2>5. pc \in Built /\ pc' \in Built /\ pc' \notin Judging
    BY <1>1, <1>4 DEF Built, Judging
  <2>6. work.seen \subseteq {request.constraints} =>
          /\ Aged(work'.g, work'.at, request.design.at, ConstraintsOf(request.constraints))
          /\ Rooted(work'.g, work'.at, request.design.at, ConstraintsOf(request.constraints))
    BY <1>1, <2>2, <2>5, HeldNow
  <2> QED
    BY <1>1, <1>4, <2>2, <2>3, <2>4, <2>5, <2>6, HeldGoesOn
<1> QED
  BY <1>2, <1>3, <1>4

(* The findings agree with a run, and the marks stay behind crossings. *)
LEMMA HeldAnalyse ==
  ASSUME TypeInv, SourceInv, HeldInv, analyse
  PROVE  HeldInv'
<1> DEFINE D == Design(work)
           found == {Put(f, "by", 0) : f \in Filter(work.engine, StructuralFindings(D))}
           marks == Marks(D, Analyze(D))
           marked == [id \in DOMAIN work.at |-> [work.at[id] EXCEPT !.uncertain = marks[id]]]
           bt == request.design.at
           C == ConstraintsOf(request.constraints)
<1>1. work' = [work EXCEPT !.findings = found, !.at = marked]
  BY DEF analyse, StructuralFindings
<1>2. pc = "analyse" /\ pc' = "load_waivers" /\ UNCHANGED <<request, held, calls>>
  BY DEF analyse
<1>3. DOMAIN work = WorkFields
  BY DEF TypeInv, IsWork
<1>4. found = {Put(f, "by", 0) : f \in Filter(work.engine, StructuralFindings(Design(work)))}
      /\ marked = [id \in DOMAIN work.at |->
                     [work.at[id] EXCEPT !.uncertain = Marks(Design(work), Analyze(Design(work)))[id]]]
  OBVIOUS
<1>5. IsDrawing(bt)
  BY RequestDraws
<1> HIDE DEF D, found, marks, marked
<1>6. /\ work'.g = work.g /\ work'.at = marked /\ work'.findings = found
      /\ work'.engine = work.engine /\ work'.proven = work.proven /\ work'.seen = work.seen
  BY <1>1, <1>3 DEF WorkFields
<1>7. PICK V : work.g \in SoundGraphs(V)
  BY DEF SourceInv, Pictured
<1>8. Attributes(work.g, work.at)
  BY DEF SourceInv, Pictured
<1>9. AsFresh(work, request)
  <2>1. work.config = ApplyProfile(ConfigOf(request).config, request.profile)
    BY <1>2 DEF TypeInv
  <2>2. /\ work.constraints = C /\ work.proven = request.design.proven
        /\ work.engine = WithOverrides(work.config, request.disable, request.severities)
    BY <1>2 DEF HeldInv, Built
  <2>3. work.false_paths = AllFalsePaths(work.config, work.constraints, request.false_paths)
    BY <1>2 DEF SourceInv
  <2> DEFINE a == FreshWork(request, work.g)
  <2>4. /\ a.config = ApplyProfile(ConfigOf(request).config, request.profile)
        /\ a.constraints = C
        /\ a.engine = WithOverrides(a.config, request.disable, request.severities)
        /\ a.false_paths = AllFalsePaths(a.config, a.constraints, request.false_paths)
        /\ a.proven = request.design.proven
    BY FreshFields
  <2> HIDE DEF a, C
  <2>5. work.config = a.config /\ work.constraints = a.constraints /\ work.proven = a.proven
    BY <2>1, <2>2, <2>4
  <2>6. work.engine = a.engine /\ work.false_paths = a.false_paths
    BY <2>2, <2>3, <2>4, <2>5
  <2> QED
    BY <2>5, <2>6 DEF AsFresh, a
<1>10. pc \in Built /\ pc' \in Built /\ pc' \notin {"set_rules", "analyse"}
  BY <1>2 DEF Built, Judging
<1>11. ASSUME work.seen \subseteq {request.constraints}
       PROVE  Aged(work'.g, work'.at, bt, C) /\ Agreeing(work', request)
  <2>1. Aged(work.g, work.at, bt, C) /\ Rooted(work.g, work.at, bt, C)
    BY <1>2, <1>10, <1>11, HeldNow
  <2>2. Agreeing(work', request)
    BY <1>4, <1>5, <1>6, <1>7, <1>8, <1>9, <2>1, FoundAgrees
  <2>3. Aged(work.g, marked, bt, C)
    <3> HIDE DEF bt, C
    <3> QED
      BY <1>4, <1>5, <1>7, <1>8, <2>1, AnalysedIsAged
  <2> QED
    BY <1>6, <2>2, <2>3
<1> QED
  BY <1>2, <1>6, <1>10, <1>11, HeldGoesOn

(* Nothing changes of what the invariant is about but the findings. *)
LEMMA HeldJudging ==
  ASSUME HeldInv, pc \in Judging, pc' \in Judging, UNCHANGED <<held, request, calls>>,
         work'.proven = work.proven, work'.seen = work.seen, work'.g = work.g,
         work'.at = work.at, work'.engine = work.engine,
         {Unwaived(f) : f \in work'.findings} = {Unwaived(f) : f \in work.findings},
         (\A f \in work'.findings : f.rule # "CDC010") =>
           \A f \in work.findings : f.rule # "CDC010"
  PROVE  HeldInv'
<1>1. /\ pc \in Built /\ pc' \in Built /\ pc' \notin {"set_rules", "analyse"}
  BY DEF Built, Judging
<1>2. Agreeing(work, request) => Agreeing(work', request)
  BY DEF Agreeing
<1>3. work.seen \subseteq {request.constraints} =>
        /\ Aged(work'.g, work'.at, request.design.at, ConstraintsOf(request.constraints))
        /\ Agreeing(work', request)
  BY <1>1, <1>2, HeldNow
<1> QED
  BY <1>1, <1>3, HeldGoesOn

(* The waivers are read. *)
LEMMA HeldLoad ==
  ASSUME TypeInv, HeldInv, load_waivers
  PROVE  HeldInv'
<1> DEFINE read == WaiversOf(work.config, request.waiver_file)
<1>1. pc = "load_waivers" /\ UNCHANGED <<request, calls>>
  BY DEF load_waivers
<1>2. CASE ~read.ok
  <2>1. Fail(work.g, work.at)
    BY <1>2 DEF load_waivers
  <2> QED
    BY <1>1, <2>1, HeldFails DEF Built, Judging
<1>3. CASE read.ok
  <2> DEFINE todo == InSomeOrder(work.findings)
             waivers == read.waivers
  <2>1. /\ work' = [work EXCEPT !.waivers = waivers, !.todo = todo]
        /\ UNCHANGED held
        /\ pc' = IF waivers = <<>> THEN "judge" ELSE "waive"
    BY <1>3 DEF load_waivers
  <2>2. DOMAIN work = WorkFields
    BY DEF TypeInv, IsWork
  <2> HIDE DEF todo, waivers
  <2>3. /\ work'.proven = work.proven /\ work'.seen = work.seen /\ work'.g = work.g
        /\ work'.at = work.at /\ work'.engine = work.engine /\ work'.findings = work.findings
    BY <2>1, <2>2 DEF WorkFields
  <2>4. pc \in Judging /\ pc' \in Judging
    BY <1>1, <2>1 DEF Judging
  <2> QED
    BY <1>1, <2>1, <2>3, <2>4, HeldJudging
<1> QED
  BY <1>2, <1>3

(* A waiver writes nothing but its number into a finding. *)
LEMMA HeldWaive ==
  ASSUME TypeInv, SourceInv, HeldInv, waive
  PROVE  HeldInv'
<1>1. pc = "waive" /\ UNCHANGED <<held, request, calls>>
  BY DEF waive
<1>2. CASE work.todo = <<>>
  <2>1. pc' = "check_unused" /\ work' = work
    BY <1>2 DEF waive
  <2>2. pc \in Judging /\ pc' \in Judging
    BY <1>1, <2>1 DEF Judging
  <2> QED
    BY <1>1, <2>1, <2>2, HeldJudging
<1>3. CASE work.todo # <<>>
  <2> DEFINE f == Head(work.todo)
             by == WaivedBy(work.waivers, AsNamed(work, f), today)
             h == [f EXCEPT !.by = by]
             left == (work.findings \ {f}) \cup {h}
             rest == Tail(work.todo)
  <2>1. work' = [work EXCEPT !.findings = left, !.todo = rest] /\ pc' = "waive"
    BY <1>1, <1>3 DEF waive
  <2>2. DOMAIN work = WorkFields
    BY DEF TypeInv, IsWork
  <2>3. IsNoted(f)
    BY <1>3, WaiveWork DEF TypeInv
  <2>4. f \in work.findings
    <3> DEFINE s == work.todo
    <3>1. PICK S : s \in Seq(S)
      BY DEF TypeInv, IsWork, Listed
    <3>2. s # <<>> /\ Once(s) /\ ToSet(s) \subseteq work.findings
      BY <1>1, <1>3 DEF SourceInv
    <3> HIDE DEF s
    <3>3. Head(s) \in ToSet(s)
      BY <3>1, <3>2, OnceTail
    <3> QED
      BY <3>2, <3>3 DEF s
  <2> HIDE DEF f, by, rest
  <2>5. h.rule = f.rule
    BY <2>3, NotedBy
  <2>6. Unwaived(h) = Unwaived(f)
    BY <2>3, UnwaivedBy
  <2>7. left = (work.findings \ {f}) \cup {h}
    OBVIOUS
  <2> HIDE DEF h, left
  <2>8. /\ work'.proven = work.proven /\ work'.seen = work.seen /\ work'.g = work.g
        /\ work'.at = work.at /\ work'.engine = work.engine /\ work'.findings = left
    BY <2>1, <2>2 DEF WorkFields
  <2>9. {Unwaived(e) : e \in left} = {Unwaived(e) : e \in work.findings}
    BY <2>4, <2>6, <2>7
  <2>10. (\A e \in left : e.rule # "CDC010") => \A e \in work.findings : e.rule # "CDC010"
    BY <2>5, <2>7
  <2>11. pc \in Judging /\ pc' \in Judging
    BY <1>1, <2>1 DEF Judging
  <2> QED
    BY <1>1, <2>8, <2>9, <2>10, <2>11, HeldJudging
<1> QED
  BY <1>2, <1>3

(* To look at a waiver changes no finding. *)
LEMMA HeldCheck ==
  ASSUME TypeInv, HeldInv, check_unused
  PROVE  HeldInv'
<1>1. /\ pc = "check_unused" /\ UNCHANGED <<held, request, calls>>
      /\ pc' \in {"check_unused", "judge"}
  BY DEF check_unused
<1>2. work' = work \/ \E warnings : work' = [work EXCEPT !.warnings = warnings]
  BY DEF check_unused
<1>3. DOMAIN work = WorkFields
  BY DEF TypeInv, IsWork
<1>4. /\ work'.proven = work.proven /\ work'.seen = work.seen /\ work'.g = work.g
      /\ work'.at = work.at /\ work'.engine = work.engine /\ work'.findings = work.findings
  BY <1>2, <1>3 DEF WorkFields
<1>5. pc \in Judging /\ pc' \in Judging
  BY <1>1 DEF Judging
<1> QED
  BY <1>1, <1>4, <1>5, HeldJudging

(* The result has graph and findings of the call, and is held. *)
LEMMA HeldJudge ==
  ASSUME TypeInv, HeldInv, judge
  PROVE  HeldInv'
<1> DEFINE status == FinalStatus(work, work.findings)
           signoff == Evaluate(work.findings, status, Methodology)
           coverage == CrossingCoverage([g |-> work.g, at |-> work.at], Compute(work.findings))
<1>1. /\ pc = "judge" /\ pc' = "idle" /\ UNCHANGED <<request, work, calls>> /\ held' = result'
      /\ result' = [ok |-> TRUE, status |-> status, findings |-> work.findings,
                    signoff |-> signoff, coverage |-> coverage, g |-> work.g, at |-> work.at]
  BY DEF judge
<1> HIDE DEF status, signoff, coverage
<1>2. /\ result'.g = work.g /\ result'.findings = work.findings
      /\ held'.g = work.g /\ held'.at = work.at
  BY <1>1
<1>3. pc \in Built /\ pc \in Judging /\ pc' \notin Built
  BY <1>1 DEF Built, Judging
<1>4. /\ work.proven = request.design.proven /\ IsFiniteSet(work.seen)
      /\ request.constraints \in work.seen /\ calls # 0
  BY <1>1, <1>3 DEF HeldInv
<1>5. ASSUME NEW c, work'.seen \subseteq {c} PROVE HeldFor(c)'
  <2>1. HeldFor(c)
    BY <1>1, <1>5 DEF HeldInv
  <2>2. Aged(work.g, work.at, request.design.at, ConstraintsOf(c)) /\ Agreeing(work, request)
    BY <1>3, <2>1 DEF HeldFor
  <2>3. Agreeing(work', request')
    BY <1>1, <2>2
  <2> QED
    BY <1>1, <1>2, <1>3, <2>2, <2>3 DEF HeldFor, Built
<1> QED
  BY <1>1, <1>2, <1>3, <1>4, <1>5 DEF HeldInv, Built

(* The caller wires two nodes of the graph it holds. *)
LEMMA HeldEdits ==
  ASSUME TypeInv, SourceInv, HeldInv, NEW g, held' = [held EXCEPT !.g = g], pc = "idle",
         held.g # EmptyGraph, Extended(held.g, g),
         \A V : held.g \in SoundGraphs(V) => g \in SoundGraphs(V),
         UNCHANGED <<pc, mode, request, work, result, calls>>
  PROVE  HeldInv'
<1>1. held'.g = g /\ held'.at = held.at
  BY DEF TypeInv, IsResult, ResultFields
<1>2. PICK V : held.g \in SoundGraphs(V)
  BY DEF SourceInv, Pictured
<1>3. Finished' = Finished
  BY DEF Finished
<1>4. calls # 0 /\ pc \notin Built
  BY DEF HeldInv, Built, Judging
<1>5. ASSUME NEW c, work'.seen \subseteq {c} PROVE HeldFor(c)'
  <2>1. HeldFor(c)
    BY <1>5 DEF HeldInv
  <2>2. Aged(held.g, held.at, request.design.at, ConstraintsOf(c))
    BY <2>1 DEF HeldFor
  <2>3. Aged(g, held.at, request.design.at, ConstraintsOf(c))
    BY <1>2, <2>2, AgedExtends
  <2>4. Finished => Agreeing(work, request)
    BY <2>1 DEF HeldFor
  <2>5. pc' \notin Judging /\ pc' \notin Built /\ pc' \notin {"set_rules", "analyse"}
    BY <1>4 DEF Judging, Built
  <2> QED
    BY <1>1, <1>3, <2>3, <2>4, <2>5 DEF HeldFor
<1> QED
  BY <1>1, <1>3, <1>4, <1>5 DEF HeldInv

(* Every step of Next keeps what a call takes from those before it. *)
LEMMA HeldStep ==
  ASSUME TypeInv, SourceInv, HeldInv, [Next]_vars
  PROVE  HeldInv'
<1>1. CASE UNCHANGED <<pc, mode, request, work, result, held, calls>>
  <2>1. Finished' = Finished
    BY <1>1 DEF Finished
  <2>2. \A c : HeldFor(c) => HeldFor(c)'
    BY <1>1, <2>1 DEF HeldFor
  <2> QED
    BY <1>1, <2>1, <2>2 DEF HeldInv
<1>2. CASE CallStep
  <2>1. CASE day_passes
    BY <1>1, <2>1 DEF day_passes
  <2> QED
    BY <1>2, <2>1, HeldBegins, HeldConfigure, HeldElaborate, HeldConstrain, HeldSet,
       HeldAnalyse, HeldLoad, HeldWaive, HeldCheck, HeldJudge DEF CallStep
<1>3. CASE \E r \in Requests : run_incremental(r)
  BY <1>3, HeldBegins
<1>4. ASSUME NEW e \in Edits, edit(e[1], e[2]) PROVE HeldInv'
  <2> DEFINE from == e[1]
             to == e[2]
             h == held.g
             g == AddEdge(h, from, to)
  <2>1. /\ from \in NodeIds(h) /\ to \in NodeIds(h) /\ held' = [held EXCEPT !.g = g]
        /\ pc = "idle" /\ UNCHANGED <<pc, mode, request, work, result, calls>>
    BY <1>4 DEF edit
  <2> HIDE DEF from, to, h
  <2>2. PICK V : h \in SoundGraphs(V)
    BY DEF SourceInv, Pictured, h
  <2>3. Extended(h, g)
    BY <2>2, AddEdgeExtends
  <2>4. ASSUME NEW W, h \in SoundGraphs(W) PROVE g \in SoundGraphs(W)
    <3>1. NodeIds(h) \subseteq Nat
      BY <2>4, RegistersAreNodes
    <3> QED
      BY <2>1, <2>4, <3>1, AddEdgeSound
  <2>5. h # EmptyGraph
    BY <2>1 DEF NodeIds, EmptyGraph
  <2> HIDE DEF g
  <2> QED
    BY <2>1, <2>3, <2>4, <2>5, HeldEdits DEF h
<1>5. CASE clear_dirty
  <2> DEFINE h == held.g
             g == [h EXCEPT !.dirty = FALSE]
  <2>1. /\ held' = [held EXCEPT !.g = g] /\ h.dirty
        /\ pc = "idle" /\ UNCHANGED <<pc, mode, request, work, result, calls>>
    BY <1>5 DEF clear_dirty
  <2> HIDE DEF h
  <2>2. ASSUME NEW V, h \in SoundGraphs(V)
        PROVE  g \in SoundGraphs(V) /\ Extended(h, g)
    <3>1. h \in GraphType(V)
      BY <2>2 DEF SoundGraphs
    <3>2. g \in GraphType(V) /\ g.nodes = h.nodes /\ g.edges = h.edges
          /\ g.id_to_idx = h.id_to_idx /\ g.name_to_idx = h.name_to_idx /\ g.adj = h.adj
          /\ g.radj = h.radj /\ g.edge_set = h.edge_set /\ g.next_id = h.next_id
      BY <3>1 DEF GraphType
    <3> HIDE DEF g
    <3>3. g \in SoundGraphs(V)
      BY <2>2, <3>2, FieldsSound
    <3> QED
      BY <3>2, <3>3 DEF Extended
  <2>3. Extended(h, g)
    BY <2>2 DEF SourceInv, Pictured, h
  <2>4. h # EmptyGraph
    BY <2>1 DEF EmptyGraph
  <2> HIDE DEF g
  <2> QED
    BY <2>1, <2>2, <2>3, <2>4, HeldEdits DEF h
<1>6. CASE UNCHANGED vars
  BY <1>1, <1>6 DEF vars
<1> QED
  BY <1>2, <1>3, <1>4, <1>5, <1>6 DEF Next

(* What a run from nothing would find is what the property says. *)
LEMMA FreshIs == Fresh = FreshFindings(request, result.g)
<1> DEFINE C == ReadConstraints.constraints
           config == ApplyProfile(ReadConfig.config, request.profile)
           asked == [NoWork EXCEPT
             !.config = config, !.constraints = C,
             !.engine = WithOverrides(config, request.disable, request.severities),
             !.false_paths = AllFalsePaths(config, C, request.false_paths),
             !.g = result.g, !.proven = request.design.proven,
             !.at = WithRoots(result.g, request.design.at, C)]
<1>1. C = ConstraintsOf(request.constraints)
  BY DEF ReadConstraints, ConstraintsOf
<1>2. Fresh = Filter(asked.engine, StructuralFindings(Design(asked)))
  BY DEF Fresh
<1>3. asked = FreshWork(request, result.g)
  <2> HIDE DEF C
  <2> QED
    BY <1>1 DEF FreshWork, ReadConfig
<1> HIDE DEF asked
<1> QED
  BY <1>2, <1>3 DEF FreshFindings

(* So what a call on a changed graph reports agrees with a run on it. *)
LEMMA IncrementalFollows ==
  ASSUME TypeInv, SourceInv, HeldInv
  PROVE  IncrementalAgreesWithRun
<1> DEFINE found == {Unwaived(f) : f \in result.findings}
<1> SUFFICES ASSUME Finished, Cardinality(work.seen) = 1
             PROVE  /\ But013(found) = But013(Fresh)
                    /\ result.status = "complete" /\ work.engine["CDC010"].enabled =>
                         Fresh \subseteq found
  BY DEF IncrementalAgreesWithRun, Unwaived, But013
<1>1. \E c : work.seen = {c}
  BY FS_Singleton DEF HeldInv
<1>2. PICK c : work.seen = {c}
  BY <1>1
<1>3. HeldFor(c)
  BY <1>2 DEF HeldInv
<1>4. Agreeing(work, request)
  BY <1>3 DEF HeldFor
<1>5. result.g = work.g /\ result.findings = work.findings
  BY DEF HeldInv
<1>6. Fresh = FreshFindings(request, work.g)
  BY <1>5, FreshIs
<1>7. result.status = "complete" => \A f \in work.findings : f.rule # "CDC010"
  BY DEF SourceInv
<1>8. found = {Unwaived(f) : f \in work.findings}
  BY <1>5
<1> HIDE DEF found
<1> QED
  BY <1>4, <1>6, <1>7, <1>8 DEF Agreeing

(* What the graph of a call keeps of the calls before, its roots and its   *)
(* marks, is what a run gives it or stands behind a crossing of now        *)
(* (run_incremental, WithRoots and mark_uncertainty on one graph).         *)
THEOREM HeldInvariance == Spec => []HeldInv
<1>1. Init => HeldInv
  BY HeldInit DEF Init
<1>2. TypeInv /\ SourceInv /\ HeldInv /\ [Next]_vars => HeldInv'
  BY HeldStep
<1>3. Spec => []TypeInv
  BY Invariance, PTL
<1> QED
  BY <1>1, <1>2, <1>3, SourceInvariance, PTL DEF Spec

(* Whatever edges the caller added and however many calls it made with one *)
(* constraint file, a call on its graph finds what a run would, and but    *)
(* for CDC013 nothing else (run_incremental).                              *)
THEOREM IncrementalAgrees == Spec => []IncrementalAgreesWithRun
<1>1. TypeInv /\ SourceInv /\ HeldInv => IncrementalAgreesWithRun
  BY IncrementalFollows
<1>2. Spec => []TypeInv
  BY Invariance, PTL
<1> QED
  BY <1>1, <1>2, SourceInvariance, HeldInvariance, PTL

-----------------------------------------------------------------------------
(* Baselines.                                                              *)

(* A list of findings, as long as it may be.                               *)
List(s) == Len(s) \in Nat /\ DOMAIN s = 1..Len(s)

(* The occurrences of one key before the i-th finding. *)
Before(s, i) == {j \in 1..(i - 1) : Key(s[j]) = Key(s[i])}

(* A later finding with the same key has a greater number.                 *)
LEMMA BeforeGrows ==
  ASSUME NEW s, NEW i \in Nat, NEW k \in Nat, 1 <= i, i < k, Key(s[i]) = Key(s[k])
  PROVE  Cardinality(Before(s, i)) < Cardinality(Before(s, k))
<1> DEFINE A == Before(s, i)
           B == Before(s, k)
<1>1. IsFiniteSet(B)
  <2>1. B \in SUBSET (1..(k - 1)) /\ IsFiniteSet(1..(k - 1))
    BY FS_Interval DEF Before
  <2> HIDE DEF B
  <2> QED
    BY <2>1, FS_Subset
<1>2. A \subseteq B /\ i \in B /\ i \notin A
  BY DEF Before
<1> HIDE DEF A, B
<1>3. A \in SUBSET B /\ A # B
  BY <1>2
<1>4. Cardinality(A) \in Nat /\ Cardinality(B) \in Nat
      /\ Cardinality(A) <= Cardinality(B)
      /\ (Cardinality(A) = Cardinality(B) => A = B)
  BY <1>1, <1>3, FS_Subset, FS_CardinalityType
<1>5. Cardinality(A) < Cardinality(B)
  BY <1>3, <1>4
<1> QED
  BY <1>5 DEF A, B

(* The number of an occurrence is one.                                     *)
LEMMA CardinalityBefore ==
  ASSUME NEW s, NEW i \in Nat
  PROVE  Cardinality(Before(s, i)) \in Nat
<1>1. Before(s, i) \in SUBSET (1..(i - 1)) /\ IsFiniteSet(1..(i - 1))
  BY FS_Interval DEF Before
<1>2. IsFiniteSet(Before(s, i))
  BY <1>1, FS_Subset
<1> QED
  BY <1>2, FS_CardinalityType

(* Every finding of a list has a key of its own: the numbers tell apart    *)
(* those that are alike.                                                   *)
LEMMA MapHoldsAll ==
  ASSUME NEW s, List(s)
  PROVE  /\ IsFiniteSet(BuildFindingMap(s))
         /\ Cardinality(BuildFindingMap(s)) = Len(s)
<1> DEFINE n == Len(s)
           T == BuildFindingMap(s)
           f == [i \in 1..n |-> <<Key(s[i]), Cardinality(Before(s, i))>>]
<1>1. n \in Nat /\ DOMAIN s = 1..n
  BY DEF List
<1>2. T = {f[i] : i \in 1..n}
  <2>1. T = {<<Key(s[i]), Cardinality(Before(s, i))>> : i \in 1..n}
    BY <1>1 DEF BuildFindingMap, Before
  <2> QED
    BY <2>1
<1>3. ASSUME NEW i \in 1..n, NEW k \in 1..n, f[i] = f[k] PROVE i = k
  <2>1. Key(s[i]) = Key(s[k]) /\ Cardinality(Before(s, i)) = Cardinality(Before(s, k))
    BY <1>3
  <2>2. i \in Nat /\ k \in Nat /\ 1 <= i /\ 1 <= k
    BY <1>1
  <2>3. ~(i < k)
    <3>1. ASSUME i < k PROVE FALSE
      <4>1. Cardinality(Before(s, i)) < Cardinality(Before(s, k))
        BY <2>1, <2>2, <3>1, BeforeGrows
      <4>2. \A j \in Nat : Cardinality(Before(s, j)) \in Nat
        BY CardinalityBefore
      <4> QED
        BY <2>1, <2>2, <4>1, <4>2
    <3> QED
      BY <3>1
  <2>4. ~(k < i)
    <3>1. ASSUME k < i PROVE FALSE
      <4>1. Cardinality(Before(s, k)) < Cardinality(Before(s, i))
        BY <2>1, <2>2, <3>1, BeforeGrows
      <4>2. \A j \in Nat : Cardinality(Before(s, j)) \in Nat
        BY CardinalityBefore
      <4> QED
        BY <2>1, <2>2, <4>1, <4>2
    <3> QED
      BY <3>1
  <2> QED
    BY <2>2, <2>3, <2>4
<1>4. f \in Bijection(1..n, T)
  <2>1. f \in [1..n -> T]
    BY <1>2
  <2>2. \A t \in T : \E i \in 1..n : f[i] = t
    BY <1>2
  <2> HIDE DEF f, T, n
  <2> QED
    BY <1>3, <2>1, <2>2 DEF Bijection, Injection, IsInjective, Surjection
<1>5. IsFiniteSet(1..n) /\ Cardinality(1..n) = n
  <2> HIDE DEF n
  <2> QED
    BY <1>1, FS_Interval
<1>6. ExistsBijection(1..n, T)
  BY <1>4 DEF ExistsBijection
<1> HIDE DEF T, n, f
<1>7. IsFiniteSet(T) /\ Cardinality(T) = n
  BY <1>5, <1>6, FS_Bijection
<1> QED
  BY <1>7 DEF T, n

(* What is added less what is fixed is the difference of the lengths. *)
LEMMA RegressedMeansLonger ==
  ASSUME NEW old, List(old), NEW new, List(new)
  PROVE  Regressed(Compare(old, new)) <=> Len(new) > Len(old)
<1> DEFINE A == BuildFindingMap(old)
           B == BuildFindingMap(new)
<1>1. /\ IsFiniteSet(A) /\ Cardinality(A) = Len(old) /\ Len(old) \in Nat
      /\ IsFiniteSet(B) /\ Cardinality(B) = Len(new) /\ Len(new) \in Nat
  BY MapHoldsAll DEF List
<1>2. Compare(old, new).added = Cardinality(B \ A)
      /\ Compare(old, new).fixed = Cardinality(A \ B)
  BY DEF Compare
<1> HIDE DEF A, B
<1> DEFINE added == Cardinality(B \ A)
           fixed == Cardinality(A \ B)
           kept == Cardinality(A \cap B)
<1>3. A \cap B = B \cap A /\ kept \in Nat
  BY <1>1, FS_Intersection, FS_CardinalityType
<1>4. added = Len(new) - kept /\ fixed = Len(old) - kept
  BY <1>1, <1>3, FS_Difference
<1> HIDE DEF added, fixed, kept
<1>5. added > fixed <=> Len(new) > Len(old)
  BY <1>1, <1>3, <1>4
<1> QED
  BY <1>2, <1>5 DEF Regressed, added, fixed

-----------------------------------------------------------------------------
(* The command.                                                            *)

ReportOf(r) ==
  LET findings == InSomeOrder(r.findings) IN
  [i \in DOMAIN findings |-> Key(AsNamed(r, findings[i]))]

(* What is reported is a matter of the result.                             *)
LEMMA ReportedStays ==
  ASSUME UNCHANGED vars
  PROVE  Reported' = Reported
<1>1. Reported = ReportOf(result)
  BY DEF Reported, ReportOf
<1>2. Reported' = ReportOf(result')
  BY DEF Reported, ReportOf
<1> QED
  BY <1>1, <1>2 DEF vars

(* A report has as many entries as the result has findings.                *)
LEMMA ReportedIsList ==
  ASSUME TypeInv
  PROVE  List(Reported)
<1> DEFINE listed == InSomeOrder(result.findings)
           n == Cardinality(result.findings)
           e == [i \in DOMAIN listed |-> Key(AsNamed(result, listed[i]))]
<1>1. n \in Nat /\ DOMAIN listed = 1..n
  BY OrderIsComplete DEF TypeInv, IsResult, Noted
<1>2. Reported = e
  BY DEF Reported
<1>3. DOMAIN e = 1..n
  BY <1>1
<1> HIDE DEF e, n, listed
<1>4. Len(Reported) = n
  <2>1. Reported = [i \in 1..n |-> Reported[i]]
    <3>1. e = [i \in DOMAIN e |-> e[i]]
      BY DEF e
    <3> QED
      BY <1>2, <1>3, <3>1
  <2> DEFINE S == {Reported[i] : i \in 1..n}
  <2>2. Reported \in [1..n -> S]
    BY <2>1
  <2> HIDE DEF S
  <2>3. Reported \in Seq(S) /\ Len(Reported) = n
    BY <1>1, <2>2
  <2> QED
    BY <2>3
<1> QED
  BY <1>1, <1>2, <1>3, <1>4 DEF List

(* The places main can be in.                                              *)
MainStages ==
  {"library", "options", "analysis", "baseline", "report", "baseline_tmp", "report_tmp",
   "exit", "done"}
Before_analysis == {"library", "options", "analysis"}
After_analysis == {"baseline", "report", "baseline_tmp", "report_tmp", "exit"}

(* A file that is being written. *)
Partly(f) ==
  \/ f = Whole(Reported)
  \/ \E written : f = [there |-> TRUE, findings |-> written, ended |-> FALSE]

(* The report that was asked for is there.                                 *)
Delivered == (command.out /\ command.format # "html") => disk.report = Whole(Reported)

(* Before the analysis nothing is written; a temporary file holds part of  *)
(* the report, or all of it once it has ended; an artifact is whole; main  *)
(* leaves with a code only when it is done.                                *)
MainInv ==
  /\ TypeInv
  /\ stage \in MainStages
  /\ stage # "library" => calls <= 1
  /\ DOMAIN disk = {"baseline", "report", "baseline_tmp", "report_tmp"}
  /\ stage \in Before_analysis => disk.baseline \in Earlier /\ disk.report = Absent
  /\ ArtifactsWhole
  /\ stage = "baseline_tmp" => Partly(disk.baseline_tmp)
  /\ stage = "report_tmp" => Partly(disk.report_tmp)
  /\ stage # "done" => exit = "none"
  /\ stage \in After_analysis => ~command.compare
  /\ stage = "exit" => Delivered
  /\ OkMeansDone
  /\ ComparisonOnlyCounts

(* The process starts; an older baseline may lie on the disk.              *)
LEMMA MainInitially ==
  ASSUME MainInit
  PROVE  MainInv
<1>1. TypeInv
  <2>1. InitFor(Requests \cup CommandRequests)
    BY DEF MainInit
  <2>2. \A r \in Requests \cup CommandRequests : WellFormed(r)
    BY AnalyzerPipelineAssumption, CommandLineAssumption
  <2> QED
    BY <2>1, <2>2, TypeInit
<1>2. calls = 0 /\ stage \in {"library", "options"} /\ exit = "none"
  BY DEF MainInit, InitFor
<1>3. PICK old \in Earlier :
        disk = [baseline |-> old, report |-> Absent, baseline_tmp |-> Absent,
                report_tmp |-> Absent]
  BY CommandLineAssumption DEF MainInit
<1>4. /\ DOMAIN disk = {"baseline", "report", "baseline_tmp", "report_tmp"}
      /\ disk.baseline \in Earlier /\ disk.report = Absent
  BY <1>3
<1>5. ArtifactsWhole
  BY <1>4 DEF ArtifactsWhole, Artifacts
<1>6. OkMeansDone /\ ComparisonOnlyCounts
  BY <1>2 DEF OkMeansDone, ComparisonOnlyCounts
<1> QED
  BY <1>1, <1>2, <1>4, <1>5, <1>6 DEF MainInv, MainStages, After_analysis

(* A step of the analyzer: nothing is on the disk yet, and the command     *)
(* makes one call.                                                         *)
LEMMA CallsOnce ==
  ASSUME TypeInv, calls <= 1, CallStep
  PROVE  calls' <= 1
<1>1. CASE run
  BY <1>1 DEF run
<1>2. CASE UNCHANGED calls
  BY <1>2
<1>3. run \/ UNCHANGED calls
  BY DEF CallStep, day_passes, configure, elaborate, constrain, Constrain, set_rules,
     analyse, load_waivers, waive, check_unused, judge
<1> QED
  BY <1>1, <1>2, <1>3

(* The analyzer works, and main waits.                                     *)
LEMMA MainAnalyses ==
  ASSUME MainInv, library \/ analysis
  PROVE  MainInv'
<1>1. stage \in {"library", "analysis"} /\ UNCHANGED main_vars
  BY DEF library, analysis
<1>2. Next
  BY DEF library, analysis, Next
<1>3. TypeInv'
  BY <1>2, TypeStep DEF MainInv
<1>4. stage # "library" => calls' <= 1
  BY <1>1, CallsOnce DEF MainInv, library, analysis
<1>5. exit = "none" /\ disk.baseline \in Earlier /\ disk.report = Absent
  BY <1>1 DEF MainInv, Before_analysis
<1>6. ArtifactsWhole'
  BY <1>1, <1>5 DEF ArtifactsWhole, Artifacts, main_vars
<1>7. OkMeansDone' /\ ComparisonOnlyCounts'
  BY <1>1, <1>5 DEF OkMeansDone, ComparisonOnlyCounts, main_vars
<1> QED
  BY <1>1, <1>3, <1>4, <1>5, <1>6, <1>7
  DEF MainInv, MainStages, Before_analysis, After_analysis, main_vars

(* The steps of main itself leave the analyzer's state alone. *)
LEMMA MainStill ==
  ASSUME MainInv, UNCHANGED vars, UNCHANGED command
  PROVE  /\ TypeInv' /\ Reported' = Reported /\ calls' = calls
         /\ result' = result /\ command' = command
         /\ \A f : Partly(f) => Partly(f)'
<1>1. TypeInv'
  BY DEF MainInv, TypeInv, vars
<1>2. Reported' = Reported
  BY ReportedStays
<1> QED
  BY <1>1, <1>2 DEF vars, Partly

(* The options are refused, or the analysis begins.                        *)
LEMMA MainReadsOptions ==
  ASSUME MainInv, read_options
  PROVE  MainInv'
<1>1. stage = "options" /\ UNCHANGED <<vars, command, disk, bad>>
  BY DEF read_options
<1>2. \/ stage' = "done" /\ exit' = "INPUT_ERROR"
      \/ stage' = "analysis" /\ exit' = exit
  BY DEF read_options, Exit
<1>3. /\ TypeInv' /\ Reported' = Reported /\ calls' = calls /\ result' = result
      /\ disk' = disk /\ command' = command
  BY <1>1, MainStill
<1>4. exit = "none" /\ disk.baseline \in Earlier /\ disk.report = Absent /\ calls <= 1
  BY <1>1 DEF MainInv, Before_analysis
<1>5. ArtifactsWhole'
  BY <1>3, <1>4 DEF ArtifactsWhole, Artifacts
<1>6. OkMeansDone' /\ ComparisonOnlyCounts'
  BY <1>2, <1>4 DEF OkMeansDone, ComparisonOnlyCounts
<1> QED
  BY <1>2, <1>3, <1>4, <1>5, <1>6
  DEF MainInv, MainStages, Before_analysis, After_analysis

(* The call has ended: a comparison, an error, or the files.               *)
LEMMA MainCompares ==
  ASSUME MainInv, after_analysis
  PROVE  MainInv'
<1> DEFINE report == Compare(LoadBaseline(disk.baseline), Reported)
           code == IF Regressed(report) THEN "FINDINGS" ELSE "OK"
<1>1. stage = "analysis" /\ UNCHANGED <<vars, command, disk, bad>>
  BY DEF after_analysis
<1>2. \/ stage' = "done" /\ exit' = "INPUT_ERROR"
      \/ stage' = "done" /\ command.compare /\ exit' = code
      \/ /\ stage' \in {"baseline", "report"} /\ ~command.compare
         /\ exit' = exit
  BY DEF after_analysis, Exit
<1>3. /\ TypeInv' /\ Reported' = Reported /\ calls' = calls /\ result' = result
      /\ disk' = disk /\ command' = command
  BY <1>1, MainStill
<1>4. exit = "none" /\ disk.baseline \in Earlier /\ disk.report = Absent /\ calls <= 1
  BY <1>1 DEF MainInv, Before_analysis
<1>5. ArtifactsWhole'
  BY <1>3, <1>4 DEF ArtifactsWhole, Artifacts
<1>6. (code = "FINDINGS") <=> Len(Reported) > Len(LoadBaseline(disk.baseline))
  <2>1. List(LoadBaseline(disk.baseline))
    BY <1>4, CommandLineAssumption DEF LoadBaseline, List
  <2>2. List(Reported)
    BY ReportedIsList DEF MainInv
  <2>3. Regressed(report) <=> Len(Reported) > Len(LoadBaseline(disk.baseline))
    BY <2>1, <2>2, RegressedMeansLonger
  <2> HIDE DEF report
  <2> QED
    BY <2>3
<1>7. code \in {"FINDINGS", "OK"}
  OBVIOUS
<1> HIDE DEF code, report
<1>8. ComparisonOnlyCounts'
  BY <1>2, <1>3, <1>4, <1>6, <1>7 DEF ComparisonOnlyCounts
<1>9. OkMeansDone'
  BY <1>2, <1>3, <1>4 DEF OkMeansDone
<1> QED
  BY <1>2, <1>3, <1>4, <1>5, <1>8, <1>9
  DEF MainInv, MainStages, Before_analysis, After_analysis

(* The process ends without OK, and no comparison is made. *)
LEMMA MainEnds ==
  ASSUME MainInv, stage # "library", stage' = "done", exit' \notin {"OK", "FINDINGS"},
         UNCHANGED <<vars, command>>,
         DOMAIN disk' = DOMAIN disk, disk'.baseline = disk.baseline,
         disk'.report = disk.report
  PROVE  MainInv'
<1>1. /\ TypeInv' /\ Reported' = Reported /\ calls' = calls /\ result' = result
      /\ command' = command
  BY MainStill
<1>2. ArtifactsWhole'
  BY <1>1 DEF MainInv, ArtifactsWhole, Artifacts
<1>3. OkMeansDone' /\ ComparisonOnlyCounts'
  BY DEF OkMeansDone, ComparisonOnlyCounts
<1> QED
  BY <1>1, <1>2, <1>3 DEF MainInv, MainStages, Before_analysis, After_analysis

(* The process goes on writing. *)
LEMMA MainGoesOn ==
  ASSUME MainInv, stage \in After_analysis, UNCHANGED <<vars, command, exit>>,
         stage' \in After_analysis, DOMAIN disk' = DOMAIN disk,
         \A file \in Artifacts : disk'[file] \in {disk[file], Whole(Reported)},
         stage' = "baseline_tmp" => Partly(disk'.baseline_tmp),
         stage' = "report_tmp" => Partly(disk'.report_tmp),
         stage' = "exit" => ((command.out /\ command.format # "html") =>
                               disk'.report = Whole(Reported))
  PROVE  MainInv'
<1>1. /\ TypeInv' /\ Reported' = Reported /\ calls' = calls /\ result' = result
      /\ command' = command
      /\ \A f : Partly(f) => Partly(f)'
  BY MainStill
<1>2. exit = "none" /\ exit' = exit /\ stage # "library"
  BY DEF MainInv, After_analysis
<1>3. ArtifactsWhole'
  BY <1>1 DEF MainInv, ArtifactsWhole, Artifacts
<1>4. OkMeansDone' /\ ComparisonOnlyCounts'
  BY <1>2 DEF OkMeansDone, ComparisonOnlyCounts
<1>5. /\ stage' = "baseline_tmp" => Partly(disk.baseline_tmp)'
      /\ stage' = "report_tmp" => Partly(disk.report_tmp)'
  BY <1>1 DEF Partly
<1>6. stage' = "exit" => Delivered'
  BY <1>1 DEF Delivered
<1> QED
  BY <1>1, <1>2, <1>3, <1>4, <1>5, <1>6
  DEF MainInv, MainStages, Before_analysis, After_analysis

(* The four names on the disk are different.                               *)
LEMMA TemporaryFiles ==
  ASSUME NEW file \in Artifacts
  PROVE  /\ Temporary[file] = IF file = "baseline" THEN "baseline_tmp" ELSE "report_tmp"
         /\ Temporary[file] \in After_analysis /\ Temporary[file] \notin Artifacts
         /\ file \in After_analysis
BY DEF Artifacts, Temporary, After_analysis

(* The temporary file is removed; the artifact is not touched.             *)
LEMMA MainAbandons ==
  ASSUME MainInv, NEW file \in Artifacts, stage \in After_analysis,
         UNCHANGED <<vars, command>>,
         \A a \in Artifacts : disk'[a] = disk[a], DOMAIN disk' = DOMAIN disk,
         IF file = "baseline" THEN stage' = "report" /\ UNCHANGED exit
         ELSE Exit("INPUT_ERROR")
  PROVE  MainInv'
<1>1. CASE file = "baseline"
  BY <1>1, MainGoesOn DEF After_analysis
<1>2. CASE file # "baseline"
  <2>1. stage' = "done" /\ exit' = "INPUT_ERROR"
    BY <1>2 DEF Exit
  <2>2. disk'.baseline = disk.baseline /\ disk'.report = disk.report
    BY DEF Artifacts
  <2>3. stage # "library"
    BY DEF After_analysis
  <2> QED
    BY <2>1, <2>2, <2>3, MainEnds
<1> QED
  BY <1>1, <1>2

(* What is in a file that is being written.                                *)
LEMMA PartlyIs ==
  ASSUME NEW f, Partly(f)
  PROVE  IF f.ended THEN f = Whole(Reported)
         ELSE \E written : f = [there |-> TRUE, findings |-> written, ended |-> FALSE]
<1>1. CASE f = Whole(Reported)
  <2>1. f.ended
    BY <1>1, Zenon DEF Whole
  <2> QED
    BY <1>1, <2>1, Zenon
<1>2. ASSUME NEW written, f = [there |-> TRUE, findings |-> written, ended |-> FALSE]
      PROVE  ~f.ended
  BY <1>2, Zenon
<1> QED
  BY <1>1, <1>2, Zenon DEF Partly

(* What is in one place of the disk.                                       *)
IsFile(f, there, findings, ended) ==
  f = [there |-> there, findings |-> findings, ended |-> ended]

(* A record of the disk that has been written to is a file.                *)
LEMMA ThereSet ==
  ASSUME NEW there, NEW findings, NEW ended, NEW f, IsFile(f, there, findings, ended),
         NEW x, NEW h, h = [f EXCEPT !.there = x]
  PROVE  IsFile(h, x, findings, ended)
BY DEF IsFile

(* A finding is appended; the file goes on.                                *)
LEMMA FindingsSet ==
  ASSUME NEW there, NEW findings, NEW ended, NEW f, IsFile(f, there, findings, ended),
         NEW x, NEW h, h = [f EXCEPT !.findings = x]
  PROVE  IsFile(h, there, x, ended)
BY DEF IsFile

(* The last line is written.                                               *)
LEMMA EndedSet ==
  ASSUME NEW there, NEW findings, NEW ended, NEW f, IsFile(f, there, findings, ended),
         NEW x, NEW h, h = [f EXCEPT !.ended = x]
  PROVE  IsFile(h, there, findings, x)
BY DEF IsFile

(* A temporary file is opened, or cannot be.                               *)
LEMMA MainOpens ==
  ASSUME MainInv, NEW file \in Artifacts, open(file)
  PROVE  MainInv'
<1> DEFINE tmp == Temporary[file]
<1>1. stage = file /\ UNCHANGED <<vars, command>> /\ stage \in After_analysis
  BY TemporaryFiles DEF open
<1>2. \/ disk' = [disk EXCEPT ![tmp] = Empty] /\ stage' = tmp /\ UNCHANGED exit
      \/ /\ IF file = "baseline" THEN stage' = "report" /\ UNCHANGED exit
            ELSE Exit("INPUT_ERROR")
         /\ UNCHANGED disk
  BY DEF open
<1>3. tmp \in {"baseline_tmp", "report_tmp"} /\ tmp \in After_analysis /\ tmp # "exit"
  BY TemporaryFiles DEF Artifacts
<1>4. DOMAIN disk = {"baseline", "report", "baseline_tmp", "report_tmp"}
  BY DEF MainInv
<1>5. Partly(Empty)
  <2>1. IsFile(Absent, FALSE, <<>>, FALSE)
    BY Zenon DEF Absent, IsFile
  <2>2. IsFile(Empty, TRUE, <<>>, FALSE)
    BY <2>1, ThereSet DEF Empty
  <2> QED
    BY <2>2, Zenon DEF Partly, IsFile
<1> HIDE DEF tmp
<1>6. CASE disk' = [disk EXCEPT ![tmp] = Empty] /\ stage' = tmp /\ UNCHANGED exit
  <2>1. /\ DOMAIN disk' = DOMAIN disk /\ disk'[tmp] = Empty
        /\ \A a \in Artifacts : disk'[a] = disk[a]
    BY <1>3, <1>4, <1>6 DEF Artifacts
  <2> HIDE DEF Empty
  <2>2. /\ stage' = "baseline_tmp" => Partly(disk'.baseline_tmp)
        /\ stage' = "report_tmp" => Partly(disk'.report_tmp)
    BY <1>5, <1>6, <2>1
  <2> QED
    BY <1>1, <1>3, <1>6, <2>1, <2>2, MainGoesOn
<1>7. CASE /\ IF file = "baseline" THEN stage' = "report" /\ UNCHANGED exit
              ELSE Exit("INPUT_ERROR")
           /\ UNCHANGED disk
  BY <1>1, <1>7, MainAbandons
<1> QED
  BY <1>2, <1>6, <1>7

(* A finding or the end is written, or a write fails.                      *)
LEMMA MainWrites ==
  ASSUME MainInv, NEW file \in Artifacts, write(file)
  PROVE  MainInv'
<1> DEFINE tmp == Temporary[file]
           written == disk[tmp].findings
           more == Append(written, Reported[Len(written) + 1])
<1>1. stage = tmp /\ stage \in After_analysis /\ stage' = stage
      /\ UNCHANGED <<vars, command, exit>> /\ ~disk[tmp].ended
  BY TemporaryFiles DEF write
<1>2. \/ written = Reported /\ disk' = [disk EXCEPT ![tmp] = [disk[tmp] EXCEPT !.ended = TRUE]]
      \/ disk' = [disk EXCEPT ![tmp] = [disk[tmp] EXCEPT !.findings = more]]
      \/ disk' = disk
  BY DEF write
<1>3. tmp \in {"baseline_tmp", "report_tmp"} /\ tmp # "exit"
  BY TemporaryFiles DEF Artifacts
<1>4. DOMAIN disk = {"baseline", "report", "baseline_tmp", "report_tmp"}
  BY DEF MainInv
<1>5. Partly(disk[tmp])
  BY <1>1, <1>3 DEF MainInv
<1> HIDE DEF tmp, more
<1>6. PICK f : f = disk[tmp]
  OBVIOUS
<1>7. ~f.ended /\ Partly(f) /\ f.findings = written
  BY <1>1, <1>5, <1>6
<1>8. PICK x : IsFile(f, TRUE, x, FALSE)
  BY <1>7, PartlyIs, Zenon DEF IsFile
<1>9. written = x
  <2>1. f.findings = x
    BY <1>8, Zenon DEF IsFile
  <2> QED
    BY <1>7, <2>1
<1> HIDE DEF written
<1>10. Partly(disk'[tmp]) /\ DOMAIN disk' = DOMAIN disk
      /\ \A a \in Artifacts : disk'[a] = disk[a]
  <2>1. CASE disk' = disk
    BY <1>5, <2>1
  <2>2. CASE /\ written = Reported
             /\ disk' = [disk EXCEPT ![tmp] = [disk[tmp] EXCEPT !.ended = TRUE]]
    <3>1. disk'[tmp] = [f EXCEPT !.ended = TRUE]
          /\ DOMAIN disk' = DOMAIN disk /\ \A a \in Artifacts : disk'[a] = disk[a]
      BY <1>3, <1>4, <1>6, <2>2 DEF Artifacts
    <3>2. IsFile(disk'[tmp], TRUE, Reported, TRUE)
      <4> HIDE <1>9, <2>2
      <4>1. IsFile(disk'[tmp], TRUE, x, TRUE)
        BY <1>8, <3>1, EndedSet
      <4>2. x = Reported
        BY <1>9, <2>2
      <4> QED
        BY <4>1, <4>2, Zenon
    <3>3. Partly(disk'[tmp])
      BY <3>2, Zenon DEF IsFile, Partly, Whole
    <3> QED
      BY <3>1, <3>3
  <2>3. CASE disk' = [disk EXCEPT ![tmp] = [disk[tmp] EXCEPT !.findings = more]]
    <3>1. disk'[tmp] = [f EXCEPT !.findings = more]
          /\ DOMAIN disk' = DOMAIN disk /\ \A a \in Artifacts : disk'[a] = disk[a]
      BY <1>3, <1>4, <1>6, <2>3 DEF Artifacts
    <3>2. IsFile(disk'[tmp], TRUE, more, FALSE)
      BY <1>8, <3>1, FindingsSet
    <3>3. Partly(disk'[tmp])
      BY <3>2, Zenon DEF IsFile, Partly
    <3> QED
      BY <3>1, <3>3
  <2> QED
    BY <1>2, <2>1, <2>2, <2>3
<1>11. /\ stage' = "baseline_tmp" => Partly(disk'.baseline_tmp)
       /\ stage' = "report_tmp" => Partly(disk'.report_tmp)
  BY <1>1, <1>10
<1> QED
  BY <1>1, <1>3, <1>10, <1>11, MainGoesOn

(* The rename replaces the artifact by a file that has ended.              *)
LEMMA MainPublishes ==
  ASSUME MainInv, NEW file \in Artifacts, publish(file)
  PROVE  MainInv'
<1> DEFINE tmp == Temporary[file]
<1>1. stage = tmp /\ stage \in After_analysis
      /\ UNCHANGED <<vars, command>> /\ (disk[tmp].ended \/ bad)
  BY TemporaryFiles DEF publish
<1>2. \/ Abandon(file)
      \/ /\ ~bad
         /\ disk' = [disk EXCEPT ![file] = disk[tmp], ![tmp] = Absent]
         /\ stage' = IF file = "baseline" THEN "report" ELSE "exit"
         /\ UNCHANGED exit
  BY DEF publish
<1>3. tmp \in {"baseline_tmp", "report_tmp"} /\ tmp \notin Artifacts
  BY TemporaryFiles DEF Artifacts
<1>4. DOMAIN disk = {"baseline", "report", "baseline_tmp", "report_tmp"}
  BY DEF MainInv
<1>5. Partly(disk[tmp])
  BY <1>1, <1>3 DEF MainInv
<1>6. CASE Abandon(file)
  <2>1. disk' = [disk EXCEPT ![tmp] = Absent]
        /\ IF file = "baseline" THEN stage' = "report" /\ UNCHANGED exit
           ELSE Exit("INPUT_ERROR")
    BY <1>6 DEF Abandon
  <2> HIDE DEF tmp
  <2>2. DOMAIN disk' = DOMAIN disk /\ \A a \in Artifacts : disk'[a] = disk[a]
    BY <1>3, <1>4, <2>1 DEF Artifacts
  <2> QED
    BY <1>1, <2>1, <2>2, MainAbandons
<1>7. CASE /\ ~bad
           /\ disk' = [disk EXCEPT ![file] = disk[tmp], ![tmp] = Absent]
           /\ stage' = IF file = "baseline" THEN "report" ELSE "exit"
           /\ UNCHANGED exit
  <2>1. disk[tmp] = Whole(Reported)
    BY <1>1, <1>5, <1>7, PartlyIs
  <2> HIDE DEF tmp
  <2>2. /\ DOMAIN disk' = DOMAIN disk /\ disk'[file] = Whole(Reported)
        /\ \A a \in Artifacts : disk'[a] \in {disk[a], Whole(Reported)}
    BY <1>3, <1>4, <1>7, <2>1 DEF Artifacts
  <2>3. stage' \in {"report", "exit"} /\ (stage' = "exit" => file = "report")
    BY <1>7 DEF Artifacts
  <2> QED
    BY <1>1, <1>7, <2>2, <2>3, MainGoesOn DEF After_analysis
<1> QED
  BY <1>2, <1>6, <1>7

(* A report that goes to the terminal, or to pages.                        *)
LEMMA MainPrints ==
  ASSUME MainInv, print
  PROVE  MainInv'
<1>1. /\ stage = "report" /\ stage \in After_analysis /\ ~(command.out /\ command.format # "html")
      /\ UNCHANGED <<vars, command, disk, bad>>
  BY DEF print, After_analysis
<1>2. \/ stage' = "exit" /\ UNCHANGED exit
      \/ stage' = "done" /\ exit' = "INPUT_ERROR"
  BY DEF print, Exit
<1>3. CASE stage' = "exit" /\ UNCHANGED exit
  BY <1>1, <1>3, MainGoesOn DEF After_analysis
<1>4. CASE stage' = "done" /\ exit' = "INPUT_ERROR"
  BY <1>1, <1>4, MainEnds
<1> QED
  BY <1>2, <1>3, <1>4

(* The process is killed; the disk stays as it is.                         *)
LEMMA MainIsKilled ==
  ASSUME MainInv, killed
  PROVE  MainInv'
<1>1. /\ stage # "library" /\ UNCHANGED <<vars, command, disk, bad>>
      /\ stage' = "done" /\ exit' = "killed"
  BY DEF killed, Exit
<1> QED
  BY <1>1, MainEnds

(* The exit code says what the verdict or the findings say.                *)
LEMMA MainFinishes ==
  ASSUME MainInv, finish
  PROVE  MainInv'
<1>1. stage = "exit" /\ UNCHANGED <<vars, command, disk, bad>> /\ stage' = "done"
  BY DEF finish, Exit
<1>2. exit' = IF command.signoff
              THEN IF result.signoff \in {"PASS", "PASS_WITH_WAIVERS"} THEN "OK" ELSE "FINDINGS"
              ELSE IF HasUnsuppressedErrors(result.findings) THEN "FINDINGS" ELSE "OK"
  BY DEF finish, Exit
<1>3. /\ TypeInv' /\ Reported' = Reported /\ calls' = calls /\ result' = result
      /\ disk' = disk /\ command' = command
  BY <1>1, MainStill
<1>4. ~command.compare /\ Delivered /\ calls <= 1
  BY <1>1 DEF MainInv, After_analysis
<1>5. ArtifactsWhole'
  BY <1>3 DEF MainInv, ArtifactsWhole, Artifacts
<1>6. ComparisonOnlyCounts'
  BY <1>3, <1>4 DEF ComparisonOnlyCounts
<1>7. OkMeansDone'
  <2>1. CASE exit' = "OK" /\ command.signoff
    <3>1. result.signoff \in {"PASS", "PASS_WITH_WAIVERS"}
      BY <1>2, <2>1
    <3>2. Verdict(result) /\ IsFiniteSet(result.findings)
      BY <1>4 DEF MainInv, TypeInv, IsResult, Noted
    <3>3. PICK methodology :
            result.signoff = Evaluate(result.findings, result.status, methodology)
      BY <3>2 DEF Verdict
    <3>4. /\ result.status = "complete"
          /\ \A f \in result.findings : f.severity = "error" => f.by # 0
      BY <3>1, <3>2, <3>3, PassesWhenClean DEF Verdict
    <3> QED
      BY <1>3, <1>4, <3>4 DEF OkMeansDone, Delivered
  <2>2. CASE exit' = "OK" /\ ~command.signoff
    <3>1. ~HasUnsuppressedErrors(result.findings)
      BY <1>2, <2>2
    <3>2. \A f \in result.findings :
            f.severity = "error" /\ f.by = 0 => f.why \in {"false_path", "multicycle"}
      BY <3>1 DEF HasUnsuppressedErrors, Waived
    <3> QED
      BY <1>3, <1>4, <2>2, <3>2 DEF OkMeansDone, Delivered
  <2>3. CASE exit' # "OK"
    BY <2>3 DEF OkMeansDone
  <2> QED
    BY <2>1, <2>2, <2>3
<1> QED
  BY <1>1, <1>3, <1>4, <1>5, <1>6, <1>7
  DEF MainInv, MainStages, Before_analysis, After_analysis

(* Every step of main keeps the invariant.                                 *)
LEMMA MainStep ==
  ASSUME MainInv, [MainNext]_all_vars
  PROVE  MainInv'
<1>1. CASE MainNext
  BY <1>1, MainAnalyses, MainReadsOptions, MainCompares, MainOpens, MainWrites,
     MainPublishes, MainPrints, MainFinishes, MainIsKilled DEF MainNext
<1>2. CASE UNCHANGED all_vars
  <2>1. UNCHANGED <<vars, command, stage, disk, bad, exit>>
    BY <1>2 DEF all_vars, main_vars
  <2>2. TypeInv' /\ Reported' = Reported /\ \A f : Partly(f) => Partly(f)'
    BY <2>1, MainStill
  <2> QED
    BY <2>1, <2>2 DEF MainInv, ArtifactsWhole, OkMeansDone, ComparisonOnlyCounts,
       Delivered, Partly, vars
<1> QED
  BY <1>1, <1>2

-----------------------------------------------------------------------------
(* The analyzer's own steps are the only ones that touch its state, so its *)
(* invariants are the command's, too.                                      *)
LEMMA AnalyzerInMain ==
  ASSUME MainInv, WaivingInv, LayersInv, SourceInv, HeldInv, [MainNext]_all_vars
  PROVE  WaivingInv' /\ LayersInv' /\ SourceInv' /\ HeldInv'
<1>1. CASE library \/ analysis
  <2>1. Next
    BY <1>1 DEF library, analysis, Next
  <2> QED
    BY <2>1, WaivingStep, LayersStep, SourceStep, HeldStep DEF MainInv
<1>2. CASE UNCHANGED vars
  BY <1>2, WaivingStep, LayersStep, SourceStep, HeldStep DEF MainInv
<1>3. library \/ analysis \/ UNCHANGED vars
  BY DEF MainNext, read_options, after_analysis, open, write, publish, print, finish,
     killed, all_vars
<1> QED
  BY <1>1, <1>2, <1>3

(* Whatever write, flush or rename fails and wherever the process is       *)
(* killed, main is in a state in which the files, the exit code and the    *)
(* analyzer's result agree.                                                *)
THEOREM CommandInvariance ==
  MainSpec => [](MainInv /\ WaivingInv /\ LayersInv /\ SourceInv /\ HeldInv)
<1>1. MainInit => MainInv /\ WaivingInv /\ LayersInv /\ SourceInv /\ HeldInv
  BY MainInitially, WaivingInit, LayersInit, SourceInit, HeldInit DEF MainInit
<1>2. MainInv /\ WaivingInv /\ LayersInv /\ SourceInv /\ HeldInv /\ [MainNext]_all_vars =>
        MainInv' /\ WaivingInv' /\ LayersInv' /\ SourceInv' /\ HeldInv'
  BY MainStep, AnalyzerInMain
<1> QED
  BY <1>1, <1>2, PTL DEF MainSpec

(* A baseline or a report on the disk is the old one or the whole new one  *)
(* (save_baseline of trend.cpp, the --out branch of main.cpp).             *)
THEOREM ArtifactsStayWhole == MainSpec => []ArtifactsWhole
<1>1. MainInv => ArtifactsWhole
  BY DEF MainInv
<1> QED
  BY <1>1, CommandInvariance, PTL

(* Exit code 0 is not given unless the report is there as a whole and no   *)
(* error is left but waived and suppressed ones (the end of main).         *)
THEOREM OkIsDone == MainSpec => []OkMeansDone
<1>1. MainInv => OkMeansDone
  BY DEF MainInv
<1> QED
  BY <1>1, CommandInvariance, PTL

(* The exit code of a comparison compares two numbers (build_finding_map   *)
(* and compare of trend.cpp), for lists of any length with any keys.       *)
THEOREM ComparisonIsCount == MainSpec => []ComparisonOnlyCounts
<1>1. MainInv => ComparisonOnlyCounts
  BY DEF MainInv
<1> QED
  BY <1>1, CommandInvariance, PTL

(* What main prints or saves as waived is so under a waiver that covers it *)
(* and was valid on a day of the call, and a waiver it calls unused covers *)
(* nothing it reports (WaiverEngine under main).                           *)
THEOREM MainWaivesUnderAuthority == MainSpec => [](WaivedUnderAuthority /\ UnusedMeansUnused)
<1>1. MainInv /\ WaivingInv => WaivedUnderAuthority /\ UnusedMeansUnused
  BY WaivingIsAuthorised, UnusedCoversNothing DEF MainInv
<1> QED
  BY <1>1, CommandInvariance, PTL

(* What main prints or saves is of a rule that no layer switched off, with *)
(* the severity of the outermost layer that gives one (the options of main *)
(* over profile and configuration).                                        *)
THEOREM MainRespectsLayers == MainSpec => []LayersRespected
<1>1. MainInv /\ WaivingInv /\ LayersInv => LayersRespected
  BY LayersAreLaid DEF MainInv
<1> QED
  BY <1>1, CommandInvariance, PTL

(* Exit code and report of main stand on a verdict that passes over no     *)
(* crossing nobody answers for, and on counts of what the report holds     *)
(* (run_on_graph under main); the truncated searches are counted twice.    *)
THEOREM MainPassNeedsAuthority == MainSpec => [](PassIsAuthorised /\ CoverageMatchesFindings)
<1>1. MainInv /\ WaivingInv /\ SourceInv => PassIsAuthorised /\ CoverageMatchesFindings
  BY PassFollows, CoverageFollows DEF MainInv
<1> QED
  BY <1>1, CommandInvariance, PTL

(* A command never calls run_incremental and the library may, on graphs    *)
(* its caller has edited: what it reports is what a run would, where both  *)
(* are explored together (run_incremental, main).                          *)
THEOREM MainIncrementalAgrees == MainSpec => []IncrementalAgreesWithRun
<1>1. MainInv /\ SourceInv /\ HeldInv => IncrementalAgreesWithRun
  BY IncrementalFollows DEF MainInv
<1> QED
  BY <1>1, CommandInvariance, PTL
=============================================================================
