---------------------------- MODULE IRGraphProofs ----------------------------
(***************************************************************************)
(* Proofs about IRGraph and IRGraphApi: any names, limits and calls.       *)
(***************************************************************************)
EXTENDS IRGraphApi, GraphLemmas

(* The words the calls of IRGraphApi are made of. *)
Api == [names |-> Names, clocks |-> Clocks, logics |-> LogicTypes]

IInv ==
  /\ g \in SoundGraphs(Api) /\ ret \in Nat
  /\ missing => g.truncated

-----------------------------------------------------------------------------
(* An index names each node's place. *)
InPlace(I, ns, field) ==
  /\ DOMAIN I = {ns[i][field] : i \in 1..Len(ns)}
  /\ \A i \in 1..Len(ns) : I[ns[i][field]] = i
  /\ I \in [{ns[i][field] : i \in 1..Len(ns)} -> Nat]

LEMMA IndexByPlaced ==
  ASSUME NEW ns, Len(ns) \in Nat, DOMAIN ns = 1..Len(ns), NEW field,
         \A i, j \in 1..Len(ns) : ns[i][field] = ns[j][field] => i = j
  PROVE  InPlace(IndexBy(ns, field), ns, field)
<1> DEFINE M == Len(ns)
<1>1. DOMAIN IndexBy(ns, field) = {ns[i][field] : i \in 1..M}
  BY DEF IndexBy
<1>2. ASSUME NEW i \in 1..M
      PROVE  IndexBy(ns, field)[ns[i][field]] = i
  <2>1. (CHOOSE j \in 1..M : ns[j][field] = ns[i][field]) = i
    OBVIOUS
  <2>2. IndexBy(ns, field)[ns[i][field]] = CHOOSE j \in 1..M : ns[j][field] = ns[i][field]
    BY DEF IndexBy
  <2> QED
    BY <2>1, <2>2
<1>3. IndexBy(ns, field) = [x \in {ns[i][field] : i \in 1..M} |-> IndexBy(ns, field)[x]]
  BY DEF IndexBy
<1>4. \A x \in {ns[i][field] : i \in 1..M} : IndexBy(ns, field)[x] \in Nat
  BY <1>2
<1> DEFINE I == IndexBy(ns, field)
<1> HIDE DEF I
<1>5. I \in [{ns[i][field] : i \in 1..M} -> Nat]
  BY <1>3, <1>4 DEF I
<1> QED
  BY <1>1, <1>2, <1>5 DEF I, InPlace

(* remove_nodes: the survivors, each at a place of its own. *)
LEMMA SurvivorsOrigin ==
  ASSUME NEW V, NEW h \in SoundGraphs(V), NEW dead
  PROVE  LET ns == Survivors(h, dead) IN
         /\ ns \in Seq(NodeType(V))
         /\ {ns[i].id : i \in 1..Len(ns)} = Ids(h) \ dead
         /\ \A i \in 1..Len(ns) : \E j \in 1..Len(h.nodes) : ns[i] = h.nodes[j]
         /\ \A i, j \in 1..Len(ns) : ns[i].id = ns[j].id => i = j
         /\ \A i, j \in 1..Len(ns) : ns[i].hier_name = ns[j].hier_name => i = j
<1> DEFINE ns == Survivors(h, dead)
           S == {n \in ToSet(h.nodes) : n.id \notin dead}
           L == Len(h.nodes)
<1>1. h \in GraphType(V) /\ Sound(h)
  BY DEF SoundGraphs
<1>2. /\ h.nodes \in Seq(NodeType(V)) /\ L \in Nat /\ DOMAIN h.nodes = 1..L
      /\ \A i \in 1..L : h.nodes[i] \in S <=> h.nodes[i].id \notin dead
  <2>1. h.nodes \in Seq(NodeType(V)) /\ L \in Nat /\ DOMAIN h.nodes = 1..L
    BY <1>1, GraphFields
  <2> QED
    BY <2>1 DEF ToSet
<1>3. ns = Those(h.nodes, S)
  BY DEF Survivors
<1>4. \A i, j \in 1..L : h.nodes[i].id = h.nodes[j].id => i = j
  BY <1>1 DEF Sound, IdsInv
<1>5. \A i, j \in 1..L : h.nodes[i].hier_name = h.nodes[j].hier_name => i = j
  BY <1>1 DEF Sound, NamesInv
<1> HIDE DEF S, ns
<1>6. PICK f : ns \in Seq(NodeType(V)) /\ Origin(f, ns, h.nodes, S, L)
  <2> HIDE DEF L
  <2> QED
    BY <1>2, <1>3, ThoseOrigin DEF L
<1>7. /\ \A i \in 1..Len(ns) : f[i] \in 1..L /\ ns[i] = h.nodes[f[i]] /\ ns[i] \in S
      /\ \A i, j \in 1..Len(ns) : f[i] = f[j] => i = j
      /\ \A k \in 1..L : h.nodes[k] \in S => \E i \in 1..Len(ns) : f[i] = k
  BY <1>6 DEF Origin
<1>8. \A i \in 1..Len(ns) : ns[i].id \in Ids(h) \ dead
  BY <1>2, <1>7 DEF Ids
<1>9. \A x \in Ids(h) \ dead : \E i \in 1..Len(ns) : ns[i].id = x
  BY <1>2, <1>7 DEF Ids
<1>10. {ns[i].id : i \in 1..Len(ns)} = Ids(h) \ dead
  BY <1>8, <1>9
<1>11. \A i, j \in 1..Len(ns) : ns[i].id = ns[j].id => i = j
  <2> SUFFICES ASSUME NEW i \in 1..Len(ns), NEW j \in 1..Len(ns), ns[i].id = ns[j].id PROVE i = j
    OBVIOUS
  <2>1. f[i] \in 1..L /\ f[j] \in 1..L /\ h.nodes[f[i]].id = h.nodes[f[j]].id
    BY <1>7
  <2>2. f[i] = f[j]
    BY <1>4, <2>1
  <2> QED
    BY <1>7, <2>2
<1>12. \A i, j \in 1..Len(ns) : ns[i].hier_name = ns[j].hier_name => i = j
  <2> SUFFICES ASSUME NEW i \in 1..Len(ns), NEW j \in 1..Len(ns), ns[i].hier_name = ns[j].hier_name PROVE i = j
    OBVIOUS
  <2>1. f[i] \in 1..L /\ f[j] \in 1..L /\ h.nodes[f[i]].hier_name = h.nodes[f[j]].hier_name
    BY <1>7
  <2>2. f[i] = f[j]
    BY <1>5, <2>1
  <2> QED
    BY <1>7, <2>2
<1> QED
  BY <1>6, <1>7, <1>10, <1>11, <1>12 DEF ns

(* An edge is spared when both its nodes are. *)
LEMMA SparedOrigin ==
  ASSUME NEW V, NEW h \in SoundGraphs(V), NEW dead
  PROVE  LET es == Spared(h, dead) IN
         /\ es \in Seq(Edge)
         /\ \A i \in 1..Len(es) : /\ es[i][1] # es[i][2]
                                  /\ es[i][1] \in Ids(h) \ dead /\ es[i][2] \in Ids(h) \ dead
         /\ \A i, j \in 1..Len(es) : es[i] = es[j] => i = j
<1> DEFINE es == Spared(h, dead)
           S == {e \in ToSet(h.edges) : e[1] \notin dead /\ e[2] \notin dead}
           L == Len(h.edges)
<1>1. h \in GraphType(V) /\ Sound(h)
  BY DEF SoundGraphs
<1>2. h.edges \in Seq(Edge) /\ \A e \in S : e[1] \notin dead /\ e[2] \notin dead
  BY <1>1, GraphFields
<1>3. es = Those(h.edges, S)
  BY DEF Spared
<1>4. /\ \A i \in 1..L : h.edges[i][1] # h.edges[i][2]
                         /\ h.edges[i][1] \in Ids(h) /\ h.edges[i][2] \in Ids(h)
      /\ \A i, j \in 1..L : h.edges[i] = h.edges[j] => i = j
  BY <1>1 DEF Sound, EdgesInv
<1> HIDE DEF S, es
<1>5. PICK f : es \in Seq(Edge) /\ Origin(f, es, h.edges, S, L)
  <2> HIDE DEF L
  <2> QED
    BY <1>2, <1>3, ThoseOrigin DEF L
<1>6. /\ \A i \in 1..Len(es) : f[i] \in 1..L /\ es[i] = h.edges[f[i]] /\ es[i] \in S
      /\ \A i, j \in 1..Len(es) : f[i] = f[j] => i = j
  BY <1>5 DEF Origin
<1>7. \A i \in 1..Len(es) : /\ es[i][1] # es[i][2]
                            /\ es[i][1] \in Ids(h) \ dead /\ es[i][2] \in Ids(h) \ dead
  BY <1>2, <1>4, <1>6
<1>8. \A i, j \in 1..Len(es) : es[i] = es[j] => i = j
  <2> SUFFICES ASSUME NEW i \in 1..Len(es), NEW j \in 1..Len(es), es[i] = es[j] PROVE i = j
    OBVIOUS
  <2>1. f[i] \in 1..L /\ f[j] \in 1..L /\ h.edges[f[i]] = h.edges[f[j]]
    BY <1>6
  <2>2. f[i] = f[j]
    BY <1>4, <2>1
  <2> QED
    BY <1>6, <2>2
<1> QED
  BY <1>5, <1>7, <1>8 DEF es

LEMMA RemoveType ==
  ASSUME NEW V, NEW h \in GraphType(V), NEW ns \in Seq(NodeType(V)), NEW es \in Seq(Edge),
         NEW is \in Maps(Nat, Nat), NEW ms \in Maps(V.names, Nat), NEW ks \in SUBSET Nat,
         NEW a \in Maps(Nat, Seq(Nat)), NEW b \in Maps(Nat, Seq(Nat))
  PROVE  [h EXCEPT !.nodes = ns, !.id_to_idx = is, !.name_to_idx = ms, !.edges = es,
                   !.adj = a, !.radj = b, !.edge_set = ks, !.dirty = TRUE,
                   !.generation = @ + 1] \in GraphType(V)
<1> DEFINE next == h.generation + 1
<1>1. next \in Nat
  BY DEF GraphType
<1> HIDE DEF next
<1>2. [h EXCEPT !.nodes = ns, !.id_to_idx = is, !.name_to_idx = ms, !.edges = es,
                !.adj = a, !.radj = b, !.edge_set = ks, !.dirty = TRUE,
                !.generation = next] \in GraphType(V)
  BY <1>1 DEF GraphType
<1> QED
  BY <1>2 DEF next

LEMMA RemoveNodesSound ==
  ASSUME NEW V, NEW h \in SoundGraphs(V), NEW dead
  PROVE  RemoveNodes(h, dead) \in SoundGraphs(V) /\ Accounted(h, RemoveNodes(h, dead))
<1> DEFINE k == RemoveNodes(h, dead)
           ns == Survivors(h, dead)
           es == Spared(h, dead)
           is == IndexBy(ns, "id")
           ms == IndexBy(ns, "hier_name")
           a == Adjacency(es, 1, 2)
           b == Adjacency(es, 2, 1)
<1>1. h \in GraphType(V) /\ Sound(h)
  BY DEF SoundGraphs
<1>2. CASE dead = {}
  BY <1>2, SameAccounted DEF RemoveNodes
<1>3. CASE dead # {}
  <2>1. k = [h EXCEPT !.nodes = ns, !.id_to_idx = is, !.name_to_idx = ms, !.edges = es,
                      !.adj = a, !.radj = b, !.edge_set = Keys(es), !.dirty = TRUE,
                      !.generation = @ + 1]
    BY <1>3 DEF RemoveNodes
  <2>2. /\ ns \in Seq(NodeType(V))
        /\ {ns[i].id : i \in 1..Len(ns)} = Ids(h) \ dead
        /\ \A i \in 1..Len(ns) : \E j \in 1..Len(h.nodes) : ns[i] = h.nodes[j]
        /\ \A i, j \in 1..Len(ns) : ns[i].id = ns[j].id => i = j
        /\ \A i, j \in 1..Len(ns) : ns[i].hier_name = ns[j].hier_name => i = j
    BY SurvivorsOrigin
  <2>3. /\ es \in Seq(Edge)
        /\ \A i \in 1..Len(es) : /\ es[i][1] # es[i][2]
                                 /\ es[i][1] \in Ids(h) \ dead /\ es[i][2] \in Ids(h) \ dead
        /\ \A i, j \in 1..Len(es) : es[i] = es[j] => i = j
    BY SparedOrigin
  <2> HIDE DEF ns, es
  <2>4. /\ Len(ns) \in Nat /\ DOMAIN ns = 1..Len(ns)
        /\ \A i \in 1..Len(ns) : ns[i].id \in Nat /\ ns[i].hier_name \in V.names
    <3>1. Len(ns) \in Nat /\ DOMAIN ns = 1..Len(ns) /\ \A i \in 1..Len(ns) : ns[i] \in NodeType(V)
      BY <2>2, LenProperties, ElementOfSeq
    <3> QED
      BY <3>1 DEF NodeType
  <2>5. /\ DOMAIN is = {ns[i].id : i \in 1..Len(ns)}
        /\ \A i \in 1..Len(ns) : is[ns[i].id] = i
        /\ is \in [{ns[i].id : i \in 1..Len(ns)} -> Nat]
    <3> DEFINE field == "id"
    <3>1. \A i, j \in 1..Len(ns) : ns[i][field] = ns[j][field] => i = j
      BY <2>2
    <3>2. \A i \in 1..Len(ns) : ns[i][field] = ns[i].id
      OBVIOUS
    <3>3. is = IndexBy(ns, field)
      OBVIOUS
    <3> HIDE DEF field, k, is, ms, a, b
    <3>4. InPlace(is, ns, field)
      BY <2>4, <3>1, <3>3, IndexByPlaced
    <3>5. {ns[i][field] : i \in 1..Len(ns)} = {ns[i].id : i \in 1..Len(ns)}
      BY <3>2
    <3> QED
      BY <3>2, <3>4, <3>5 DEF InPlace
  <2>6. /\ DOMAIN ms = {ns[i].hier_name : i \in 1..Len(ns)}
        /\ \A i \in 1..Len(ns) : ms[ns[i].hier_name] = i
        /\ ms \in [{ns[i].hier_name : i \in 1..Len(ns)} -> Nat]
    <3> DEFINE field == "hier_name"
    <3>1. \A i, j \in 1..Len(ns) : ns[i][field] = ns[j][field] => i = j
      BY <2>2
    <3>2. \A i \in 1..Len(ns) : ns[i][field] = ns[i].hier_name
      OBVIOUS
    <3>3. ms = IndexBy(ns, field)
      OBVIOUS
    <3> HIDE DEF field, k, is, ms, a, b
    <3>4. InPlace(ms, ns, field)
      BY <2>4, <3>1, <3>3, IndexByPlaced
    <3>5. {ns[i][field] : i \in 1..Len(ns)} = {ns[i].hier_name : i \in 1..Len(ns)}
      BY <3>2
    <3> QED
      BY <3>2, <3>4, <3>5 DEF InPlace
  <2> HIDE DEF is, ms
  <2>7. is \in Maps(Nat, Nat) /\ ms \in Maps(V.names, Nat)
    <3>1. /\ {ns[i].id : i \in 1..Len(ns)} \in SUBSET Nat
          /\ {ns[i].hier_name : i \in 1..Len(ns)} \in SUBSET V.names
      BY <2>4
    <3> QED
      BY <2>5, <2>6, <3>1 DEF Maps
  <2>8. a \in Maps(Nat, Seq(Nat)) /\ b \in Maps(Nat, Seq(Nat))
    <3>1. /\ DOMAIN a \in SUBSET Nat /\ a \in [DOMAIN a -> Seq(Nat)]
          /\ DOMAIN b \in SUBSET Nat /\ b \in [DOMAIN b -> Seq(Nat)]
      BY <2>3, AdjacencyType
    <3> HIDE DEF a, b
    <3> QED
      BY <3>1 DEF Maps
  <2>9. Keys(es) \in SUBSET Nat
    <3>1. <<0, 0>> \in Edge
      BY DEF Edge
    <3> QED
      BY <2>3, <3>1, KeysAppend
  <2> HIDE DEF a, b
  <2>10. k \in GraphType(V)
    <3> HIDE DEF k
    <3> QED
      BY <1>1, <2>1, <2>2, <2>3, <2>7, <2>8, <2>9, RemoveType
  <2>11. /\ k.nodes = ns /\ k.edges = es /\ k.id_to_idx = is /\ k.name_to_idx = ms
         /\ k.adj = a /\ k.radj = b /\ k.edge_set = Keys(es)
         /\ k.next_id = h.next_id /\ k.truncated = h.truncated
         /\ k.generation = h.generation + 1 /\ k.dirty = TRUE
    BY <1>1, <2>1 DEF GraphType
  <2> HIDE DEF k
  <2>12. Ids(k) = Ids(h) \ dead
    <3>1. Ids(k) = {ns[i].id : i \in 1..Len(ns)}
      BY <2>11 DEF Ids
    <3> QED
      BY <2>2, <3>1
  <2>13. IdsInv(k)
    <3>1. Top(k) = Top(h) /\ k.next_id < IdModulus
      BY <1>1, <2>11 DEF Top, Sound, IdsInv
    <3>2. \A j \in 1..Len(h.nodes) : 0 < h.nodes[j].id /\ h.nodes[j].id < Top(h)
      BY <1>1 DEF Sound, IdsInv
    <3>3. \A i \in 1..Len(ns) : 0 < ns[i].id /\ ns[i].id < Top(k)
      BY <2>2, <3>1, <3>2
    <3> QED
      BY <2>2, <2>5, <2>11, <2>12, <3>1, <3>3 DEF IdsInv
  <2>14. NamesInv(k)
    BY <2>6, <2>11 DEF NamesInv
  <2>15. EdgesInv(k) /\ AdjInv(k)
    BY <2>3, <2>11, <2>12 DEF EdgesInv, AdjInv, a, b
  <2>16. h.generation \in Nat
    BY <1>1 DEF GraphType
  <2>17. Accounted(h, k)
    BY <2>11, <2>12, <2>16 DEF Accounted
  <2> QED
    BY <2>10, <2>13, <2>14, <2>15, <2>17 DEF SoundGraphs, Sound, k
<1> QED
  BY <1>2, <1>3

-----------------------------------------------------------------------------

LEMMA InitInv == Init => IInv
  BY EmptySound DEF Init, IInv

(* What one call does. *)
Call(h, k, r) == k \in SoundGraphs(Api) /\ Accounted(h, k) /\ r \in Nat

LEMMA HeldNat ==
  ASSUME IInv
  PROVE  HeldIds \in SUBSET Nat /\ Inputs \in SUBSET Seq(Nat)
<1>1. HeldIds \in SUBSET Nat
  BY DEF HeldIds
<1>2. ASSUME NEW x \in Inputs PROVE x \in Seq(Nat)
  <2>1. PICK n \in 0..MaxInputs : x \in [1..n -> HeldIds]
    BY DEF Inputs
  <2>2. n \in Nat
    BY IRGraphApiAssumption
  <2>3. x = [i \in 1..n |-> x[i]] /\ \A i \in 1..n : x[i] \in HeldIds
    BY <2>1
  <2>4. \A i \in 1..n : x[i] \in Nat
    BY <1>1, <2>3
  <2> HIDE DEF Inputs
  <2> QED
    BY <2>2, <2>3, <2>4, IsASeq
<1> QED
  BY <1>1, <1>2

(* What an add_* left out is marked. *)
LEMMA AnswerSound ==
  ASSUME IInv, NEW r, Answer(Api, g, r), NEW inputs, Returned(r, inputs),
         \A i \in DOMAIN inputs : Accepted(r.graph, inputs[i], r.id)
  PROVE  IInv' /\ Accounted(g, g')
<1>1. /\ g' \in SoundGraphs(Api) /\ Accounted(g, g') /\ ret' \in Nat
      /\ r.id = 0 => g'.truncated
  BY DEF Answer, Returned
<1>2. missing' => g'.truncated
  <2>1. missing => g'.truncated
    BY <1>1 DEF IInv, Accounted
  <2>2. ASSUME NEW i \in DOMAIN inputs, Unlisted(r.graph, inputs[i], r.id)
        PROVE  g'.truncated
    BY <2>2 DEF Returned, Unlisted, Accepted
  <2> QED
    BY <1>1, <2>1, <2>2 DEF Returned
<1> QED
  BY <1>1, <1>2 DEF IInv

LEMMA StepSound ==
  ASSUME IInv, Next
  PROVE  IInv' /\ Accounted(g, g')
<1>1. g \in SoundGraphs(Api) /\ ret \in Nat /\ (missing => g.truncated)
  BY DEF IInv
<1>2. HeldIds \in SUBSET Nat /\ Inputs \in SUBSET Seq(Nat)
  BY HeldNat
<1>3. ASSUME NEW r, Answer(Api, g, r), Returned(r, <<>>)
      PROVE  IInv' /\ Accounted(g, g')
  BY <1>3, AnswerSound
<1>4. ASSUME NEW name \in Api.names, NEW clock \in Api.clocks, add_register(name, clock)
      PROVE  IInv' /\ Accounted(g, g')
  BY <1>1, <1>3, <1>4, AddRegisterSound DEF add_register
<1>5. ASSUME NEW name \in Api.names, add_port(name) \/ add_net(name)
      PROVE  IInv' /\ Accounted(g, g')
  <2>1. "Port" \in Kinds /\ "Net" \in Kinds
    BY DEF Kinds
  <2> QED
    BY <1>1, <1>3, <1>5, <2>1, AddPlainSound DEF add_port, add_net, AddPort, AddNet
<1>6. ASSUME NEW name \in Api.names, NEW logic \in Api.logics, NEW inputs \in Inputs,
             add_combinational(name, logic, inputs)
      PROVE  IInv' /\ Accounted(g, g')
  <2> DEFINE r == AddCombinational(g, name, logic, inputs)
             asked == IF HasName(g, name) THEN <<>> ELSE inputs
  <2>1. inputs \in Seq(Nat)
    BY <1>2
  <2>2. /\ Answer(Api, g, r)
        /\ ~HasName(g, name) => \A n \in 1..Len(inputs) : Accepted(r.graph, inputs[n], r.id)
    BY <1>1, <2>1, AddCombinationalSound
  <2>3. Returned(r, asked)
    BY <1>6 DEF add_combinational
  <2>4. DOMAIN inputs = 1..Len(inputs)
    BY <2>1, LenProperties
  <2> HIDE DEF r
  <2>5. \A i \in DOMAIN asked : Accepted(r.graph, asked[i], r.id)
    BY <2>2, <2>4
  <2> HIDE DEF asked
  <2> QED
    BY <2>2, <2>3, <2>5, AnswerSound
<1>7. ASSUME NEW from \in HeldIds, NEW to \in HeldIds, add_edge(from, to)
      PROVE  IInv' /\ Accounted(g, g')
  <2>1. g' \in SoundGraphs(Api) /\ Accounted(g, g') /\ Accepted(g', from, to)
    BY <1>1, <1>2, <1>7, AddEdgeAccounted, AddEdgeAccepts DEF add_edge
  <2>2. missing' => g'.truncated
    BY <1>1, <1>7, <2>1 DEF add_edge, Accounted, Accepted, Unlisted
  <2> QED
    BY <1>1, <1>7, <2>1, <2>2 DEF add_edge, IInv
<1> DEFINE Kept == /\ g' \in SoundGraphs(Api) /\ Accounted(g, g')
                   /\ UNCHANGED <<ret, missing>>
<1>8. ASSUME NEW dead \in SUBSET HeldIds, remove_nodes(dead)
      PROVE  Kept
  BY <1>1, <1>8, RemoveNodesSound DEF remove_nodes
<1>9. ASSUME NEW n \in NodeLimits, NEW e \in EdgeLimits, set_limits(n, e)
      PROVE  Kept
  BY <1>1, <1>9, SetLimitsSound, IRGraphApiAssumption DEF set_limits
<1>10. Kept => IInv' /\ Accounted(g, g')
  BY <1>1 DEF IInv, Accounted
<1> HIDE DEF Kept
<1> QED
  BY <1>4, <1>5, <1>6, <1>7, <1>8, <1>9, <1>10 DEF Next, Api

(* In every reachable state the two index maps, the edge list and the      *)
(* adjacency maps of the Graph describe one graph.                         *)
THEOREM Invariance == Spec => []IInv
<1>1. IInv /\ UNCHANGED vars => IInv'
  BY DEF IInv, vars
<1>2. IInv /\ [Next]_vars => IInv'
  BY <1>1, StepSound
<1> QED
  BY InitInv, <1>2, PTL DEF Spec

LEMMA SoundIndices == IInv => IndicesExact
<1> SUFFICES ASSUME IInv PROVE IndicesExact
  OBVIOUS
<1> DEFINE L == Len(g.nodes)
           I == g.name_to_idx
           F == [i \in 1..L |-> g.nodes[i].hier_name]
<1>1. g \in GraphType(Api) /\ IdsInv(g) /\ NamesInv(g) /\ EdgesInv(g)
  BY DEF IInv, SoundGraphs, Sound
<1>2. L \in Nat /\ DOMAIN g.nodes = 1..L /\ NodeIds(g) = Ids(g) /\ DOMAIN g.edges = 1..Len(g.edges)
  BY <1>1, GraphFields
<1>3. \A id \in DOMAIN g.id_to_idx : g.id_to_idx[id] \in 1..L /\ FindNode(g, id).id = id
  BY <1>1 DEF IdsInv, Ids, FindNode
<1>4. DOMAIN I = {g.nodes[i].hier_name : i \in 1..L} /\ \A i \in 1..L : I[g.nodes[i].hier_name] = i
  BY <1>1 DEF NamesInv
<1>5. \A i, j \in 1..L : g.nodes[i].hier_name = g.nodes[j].hier_name => i = j
  BY <1>4
<1>6. \A i \in 1..Len(g.edges) : HasNode(g, g.edges[i][1]) /\ HasNode(g, g.edges[i][2])
  BY <1>1 DEF EdgesInv, IdsInv, HasNode
<1> HIDE DEF L, I
<1>7. Validate(g)
  BY <1>2, <1>3, <1>5, <1>6 DEF Validate
<1>8. Cardinality(DOMAIN I) = L
  <2>1. F \in [1..L -> DOMAIN I]
    BY <1>4
  <2>2. \A i, j \in 1..L : F[i] = F[j] => i = j
    BY <1>5
  <2>3. \A x \in DOMAIN I : \E i \in 1..L : F[i] = x
    BY <1>4
  <2> HIDE DEF F
  <2>4. F \in Bijection(1..L, DOMAIN I)
    BY <2>1, <2>2, <2>3, Fun_IsBij
  <2>5. ExistsBijection(1..L, DOMAIN I)
    BY <2>4, Fun_ExistsBij
  <2> QED
    BY <1>2, <2>5, FS_CountingElements
<1>9. DOMAIN g.id_to_idx = NodeIds(g)
  BY <1>1, <1>2 DEF IdsInv
<1>10. \A i \in 1..L : HasName(g, g.nodes[i].hier_name) /\ I[g.nodes[i].hier_name] = i
  BY <1>4 DEF HasName, I
<1> QED
  BY <1>2, <1>7, <1>8, <1>9, <1>10 DEF IndicesExact, I, L

(* validate() finds nothing after any calls to add_*, remove_nodes and     *)
(* set_limits, and the two index maps list exactly the nodes there are.    *)
THEOREM IndicesStayExact == Spec => []IndicesExact
BY Invariance, SoundIndices, PTL

LEMMA SoundAdjacency == IInv => AdjacencyExact
<1> SUFFICES ASSUME IInv PROVE AdjacencyExact
  OBVIOUS
<1>1. g \in GraphType(Api) /\ EdgesInv(g) /\ AdjInv(g)
  BY DEF IInv, SoundGraphs, Sound
<1>2. g.edges \in Seq(Edge) /\ DOMAIN g.edges = 1..Len(g.edges)
  BY <1>1, GraphFields
<1>3. \A id : /\ Successors(g, id) = Neighbours(g.edges, id, 1, 2)
              /\ Predecessors(g, id) = Neighbours(g.edges, id, 2, 1)
  BY <1>1, <1>2, AtAdjacency DEF AdjInv, Successors, Predecessors
<1>4. IsInjective(g.edges) /\ \A i \in DOMAIN g.edges : g.edges[i][1] # g.edges[i][2]
  BY <1>1, <1>2 DEF EdgesInv, IsInjective
<1>5. g.edge_set = {EdgeKey(e[1], e[2]) : e \in {f \in EdgeSet : ~Wide(f[1], f[2])}}
  <2>1. EdgeSet = ToSet(g.edges)
    BY DEF EdgeSet, ToSet
  <2> QED
    BY <1>1, <2>1 DEF EdgesInv, Keys
<1> QED
  BY <1>3, <1>4, <1>5 DEF AdjacencyExact

(* adj_ and radj_ are the edge list seen from either end, no edge is       *)
(* listed twice, on either side of the 32-bit boundary of the packed key.  *)
THEOREM AdjacencyStaysExact == Spec => []AdjacencyExact
BY Invariance, SoundAdjacency, PTL

(* What a call changes shows in the generation and the dirty flag, what    *)
(* any call had to leave out, a node or an edge, in the truncated flag, and *)
(* an id is never given to a second node.                                  *)
THEOREM CallsAreAccounted == Spec => CallsAccounted
<1> DEFINE A == /\ <<g.nodes, g.edges>>' # <<g.nodes, g.edges>> =>
                     g'.generation > g.generation /\ g'.dirty
                /\ missing' => g'.truncated
                /\ \A id \in NodeIds(g)' \ NodeIds(g) : id = g.next_id /\ id # 0
<1>1. ASSUME IInv, Next PROVE A
  <2>1. IInv' /\ Accounted(g, g')
    BY <1>1, StepSound
  <2>2. NodeIds(g) = Ids(g) /\ NodeIds(g') = Ids(g')
    BY <1>1, <2>1, GraphFields DEF IInv, SoundGraphs
  <2> QED
    BY <2>1, <2>2 DEF Accounted, IInv
<1>2. IInv /\ [Next]_vars => [A]_vars
  BY <1>1
<1> HIDE DEF A
<1>3. Spec => [][A]_vars
  BY Invariance, <1>2, PTL DEF Spec
<1> QED
  BY <1>3 DEF CallsAccounted, A

=============================================================================
