------------------------------ MODULE IRGraph ------------------------------
(***************************************************************************)
(* The netlist graph of src/ir/graph.cpp as a value: a record with the     *)
(* fields of class Graph, and one operator per method.  The modules that   *)
(* model analyses take a graph as an argument; IRGraphApi has a graph as   *)
(* its state.                                                              *)
(*                                                                         *)
(* Vectors are sequences (adjacency keeps its insertion order, which the   *)
(* traversals follow), hash maps are functions on the keys present.  Of a  *)
(* node the id, name, kind, clock, logic type and logic inputs are kept;   *)
(* the module fields and the width fill up as the clock does.              *)
(***************************************************************************)
EXTENDS Integers, Sequences, FiniteSets, SequencesExt, TLC

CONSTANTS
  UINT32_MAX,        (* largest id an edge key can pack                    *)
  IdModulus,         (* next_id_ counts modulo this (2^64 in the code)     *)
  MAX_GRAPH_NODES,
  MAX_GRAPH_EDGES,
  NoClock            (* the empty clock_domain string                      *)

ASSUME IRGraphAssumption ==
  /\ UINT32_MAX \in Nat /\ IdModulus \in Nat
  /\ 0 < UINT32_MAX /\ UINT32_MAX < IdModulus
  /\ MAX_GRAPH_NODES \in Nat /\ MAX_GRAPH_EDGES \in Nat
  /\ MAX_GRAPH_NODES <= UINT32_MAX        \* the static_assert of graph.h

Node(id, name, kind, clock, logic, inputs) ==
  [id |-> id, hier_name |-> name, kind |-> kind, clock_domain |-> clock,
   logic_type |-> logic, logic_inputs |-> inputs, reset_signal |-> NoClock]

EmptyGraph ==
  [nodes |-> <<>>, edges |-> <<>>, id_to_idx |-> <<>>, name_to_idx |-> <<>>,
   adj |-> <<>>, radj |-> <<>>, edge_set |-> {}, next_id |-> 1,
   generation |-> 0, truncated |-> FALSE, dirty |-> FALSE,
   max_nodes |-> MAX_GRAPH_NODES, max_edges |-> MAX_GRAPH_EDGES]

SetLimits(g, max_nodes, max_edges) ==
  LET clamped == IF max_nodes > UINT32_MAX THEN UINT32_MAX ELSE max_nodes IN
  [g EXCEPT !.max_nodes = IF max_nodes > 0 THEN clamped ELSE @,
            !.max_edges = IF max_edges > 0 THEN max_edges ELSE @]

-----------------------------------------------------------------------------
(* Lookups.                                                                *)

NodeIds(g) == {g.nodes[i].id : i \in DOMAIN g.nodes}
HasNode(g, id) == id \in DOMAIN g.id_to_idx            \* find_node # nullptr
FindNode(g, id) == g.nodes[g.id_to_idx[id]]
HasName(g, name) == name \in DOMAIN g.name_to_idx
FindByName(g, name) == g.nodes[g.name_to_idx[name]]

Put(f, k, v) == [x \in DOMAIN f \cup {k} |-> IF x = k THEN v ELSE f[x]]
AtKey(f, k) == IF k \in DOMAIN f THEN f[k] ELSE <<>>
Successors(g, id) == AtKey(g.adj, id)
Predecessors(g, id) == AtKey(g.radj, id)

IsDataNode(kind) == kind \in {"Port", "Net", "Combinational"}

-----------------------------------------------------------------------------
(* Edges.                                                                  *)

EdgeKey(from, to) == from * (UINT32_MAX + 1) + to
Wide(from, to) == from > UINT32_MAX \/ to > UINT32_MAX
Keys(edges) == {EdgeKey(e[1], e[2]) : e \in {f \in ToSet(edges) : ~Wide(f[1], f[2])}}
EdgeListed(g, from, to) == \E i \in DOMAIN g.edges : g.edges[i] = <<from, to>>

PushAt(f, k, v) == Put(f, k, Append(AtKey(f, k), v))

(* Mutant: add_edge at the limit returns without set_truncated. *)
AddEdge_Unmarked(g, from, to) ==
  LET duplicate == IF Wide(from, to) THEN EdgeListed(g, from, to)
                   ELSE EdgeKey(from, to) \in g.edge_set IN
  IF \/ from = to \/ ~HasNode(g, from) \/ ~HasNode(g, to)
     \/ Len(g.edges) >= g.max_edges \/ duplicate THEN g
  ELSE [g EXCEPT
          !.edges = Append(@, <<from, to>>),
          !.edge_set = IF Wide(from, to) THEN @ ELSE @ \cup {EdgeKey(from, to)},
          !.adj = PushAt(@, from, to),
          !.radj = PushAt(@, to, from),
          !.generation = @ + 1,
          !.dirty = TRUE]

AddEdge(g, from, to) ==
  LET duplicate == IF Wide(from, to) THEN EdgeListed(g, from, to)
                   ELSE EdgeKey(from, to) \in g.edge_set IN
  IF from = to \/ ~HasNode(g, from) \/ ~HasNode(g, to) THEN g
  ELSE IF Len(g.edges) >= g.max_edges THEN [g EXCEPT !.truncated = TRUE]
  ELSE IF duplicate THEN g
  ELSE [g EXCEPT
          !.edges = Append(@, <<from, to>>),
          !.edge_set = IF Wide(from, to) THEN @ ELSE @ \cup {EdgeKey(from, to)},
          !.adj = PushAt(@, from, to),
          !.radj = PushAt(@, to, from),
          !.generation = @ + 1,
          !.dirty = TRUE]

-----------------------------------------------------------------------------
(* Nodes.  Each add_* returns an id; 0 says the node was refused.          *)

Full(g) == Len(g.nodes) >= g.max_nodes \/ g.next_id = 0

Insert(g, name, kind, clock, logic, inputs) ==
  LET id == g.next_id
      idx == Len(g.nodes) + 1 IN
  [g EXCEPT
     !.next_id = (@ + 1) % IdModulus,
     !.nodes = Append(@, Node(id, name, kind, clock, logic, inputs)),
     !.id_to_idx = Put(@, id, idx),
     !.name_to_idx = Put(@, name, idx),
     !.generation = @ + 1,
     !.dirty = TRUE]

(* add_register on a name that exists: fill the empty fields. *)
Redeclare(g, name, clock) ==
  [g EXCEPT
     !.nodes[g.name_to_idx[name]].clock_domain =
        IF @ = NoClock THEN clock ELSE @,
     !.generation = @ + 1,
     !.dirty = TRUE]

AddRegister(g, name, clock) ==
  IF HasName(g, name)
  THEN [graph |-> Redeclare(g, name, clock), id |-> FindByName(g, name).id]
  ELSE IF Full(g) THEN [graph |-> [g EXCEPT !.truncated = TRUE], id |-> 0]
  ELSE [graph |-> Insert(g, name, "Register", clock, "None", <<>>),
        id |-> g.next_id]

(* add_port and add_net *)
AddPlain(g, name, kind) ==
  IF HasName(g, name) THEN [graph |-> g, id |-> FindByName(g, name).id]
  ELSE IF Full(g) THEN [graph |-> [g EXCEPT !.truncated = TRUE], id |-> 0]
  ELSE [graph |-> Insert(g, name, kind, NoClock, "None", <<>>),
        id |-> g.next_id]

AddPort(g, name) == AddPlain(g, name, "Port")
AddNet(g, name) == AddPlain(g, name, "Net")

(* An edge to id from every input, in order. *)
AddInputs(g, inputs, id) ==
  LET wired[n \in 0..Len(inputs)] ==
        IF n = 0 THEN g ELSE AddEdge(wired[n - 1], inputs[n], id)
  IN wired[Len(inputs)]

AddCombinational(g, name, logic, inputs) ==
  LET inserted == Insert(g, name, "Combinational", NoClock, logic, inputs) IN
  IF HasName(g, name) THEN [graph |-> g, id |-> FindByName(g, name).id]
  ELSE IF Full(g) THEN [graph |-> [g EXCEPT !.truncated = TRUE], id |-> 0]
  ELSE [graph |-> AddInputs(inserted, inputs, g.next_id), id |-> g.next_id]

-----------------------------------------------------------------------------
(* Removal of a batch of nodes: the vectors shrink, every index is rebuilt. *)

IndexBy(nodes, field) ==
  [k \in {nodes[i][field] : i \in DOMAIN nodes} |->
     CHOOSE i \in DOMAIN nodes : nodes[i][field] = k]

(* The elements of s that are in S, in order. *)
Those(s, S) ==
  LET kept[n \in 0..Len(s)] ==
        IF n = 0 THEN <<>>
        ELSE IF s[n] \in S THEN Append(kept[n - 1], s[n]) ELSE kept[n - 1]
  IN kept[Len(s)]

Without(s, S) == Those(s, ToSet(s) \ S)

(* The neighbours of id, in edge order. *)
Neighbours(edges, id, near, far) ==
  LET touching == Those(edges, {e \in ToSet(edges) : e[near] = id}) IN
  [i \in DOMAIN touching |-> touching[i][far]]

Adjacency(edges, near, far) ==
  [id \in {edges[i][near] : i \in DOMAIN edges} |->
     Neighbours(edges, id, near, far)]

Survivors(g, dead) == Those(g.nodes, {n \in ToSet(g.nodes) : n.id \notin dead})
Spared(g, dead) ==
  Those(g.edges, {e \in ToSet(g.edges) : e[1] \notin dead /\ e[2] \notin dead})

(* Mutant: the id index keeps the positions from before the removal. *)
RemoveNodes_StaleIndex(g, dead) ==
  LET nodes == Survivors(g, dead)
      edges == Spared(g, dead) IN
  [g EXCEPT
     !.nodes = nodes,
     !.id_to_idx = [id \in DOMAIN @ \ dead |-> @[id]],
     !.name_to_idx = IndexBy(nodes, "hier_name"),
     !.edges = edges,
     !.adj = Adjacency(edges, 1, 2), !.radj = Adjacency(edges, 2, 1),
     !.edge_set = Keys(edges),
     !.dirty = TRUE, !.generation = @ + 1]

(* Mutant: the adjacency lists of the survivors are kept as they were. *)
RemoveNodes_StaleAdjacency(g, dead) ==
  LET nodes == Survivors(g, dead)
      edges == Spared(g, dead) IN
  [g EXCEPT
     !.nodes = nodes,
     !.id_to_idx = IndexBy(nodes, "id"),
     !.name_to_idx = IndexBy(nodes, "hier_name"),
     !.edges = edges,
     !.edge_set = Keys(edges),
     !.dirty = TRUE, !.generation = @ + 1]

RemoveNodes(g, dead) ==
  LET nodes == Survivors(g, dead)
      edges == Spared(g, dead) IN
  IF dead = {} THEN g
  ELSE [g EXCEPT
          !.nodes = nodes,
          !.id_to_idx = IndexBy(nodes, "id"),
          !.name_to_idx = IndexBy(nodes, "hier_name"),
          !.edges = edges,
          !.adj = Adjacency(edges, 1, 2),
          !.radj = Adjacency(edges, 2, 1),
          !.edge_set = Keys(edges),
          !.dirty = TRUE,
          !.generation = @ + 1]

-----------------------------------------------------------------------------
(* A frontend's nodes, each named by its place, and its edges.             *)

AddNode(g, node) ==
  LET name == Len(g.nodes) + 1 IN
  CASE node.kind = "Register" -> AddRegister(g, name, node.clock).graph
    [] node.kind = "Combinational" -> AddCombinational(g, name, "Unknown", <<>>).graph
    [] OTHER -> AddPlain(g, name, node.kind).graph

Placed(nodes) ==
  LET placed[n \in 0..Len(nodes)] ==
        IF n = 0 THEN EmptyGraph ELSE AddNode(placed[n - 1], nodes[n])
  IN placed[Len(nodes)]

Connected(g, edges) ==
  LET joined[n \in 0..Len(edges)] ==
        IF n = 0 THEN g ELSE AddEdge(joined[n - 1], edges[n][1], edges[n][2])
  IN joined[Len(edges)]

-----------------------------------------------------------------------------
(* validate(): indices, names and edges; widths are not modelled. *)
Validate(g) ==
  /\ \A id \in DOMAIN g.id_to_idx :
       g.id_to_idx[id] \in DOMAIN g.nodes /\ FindNode(g, id).id = id
  /\ \A i, j \in DOMAIN g.nodes :
       g.nodes[i].hier_name = g.nodes[j].hier_name => i = j
  /\ \A i \in DOMAIN g.edges :
       HasNode(g, g.edges[i][1]) /\ HasNode(g, g.edges[i][2])
=============================================================================
