----------------------------- MODULE IRGraphApi -----------------------------
(***************************************************************************)
(* A graph under every sequence of calls its owner can make: frontends add *)
(* nodes and edges, the netlist passes remove nodes, limits may change.    *)
(***************************************************************************)
EXTENDS IRGraph

CONSTANTS
  Names,           (* hierarchical names                                   *)
  Clocks,          (* clock_domain arguments, NoClock among them           *)
  NodeLimits,      (* set_limits arguments                                 *)
  EdgeLimits,
  LogicTypes,      (* logic_type arguments                                 *)
  MaxInputs,       (* bound: inputs of one combinational node              *)
  MaxGeneration    (* bound: mutating calls of a behaviour                 *)

ASSUME IRGraphApiAssumption ==
  /\ MaxInputs \in Nat /\ MaxGeneration \in Nat
  /\ NodeLimits \subseteq Nat /\ EdgeLimits \subseteq Nat

VARIABLES
  g,               (* the graph                                            *)
  ret,             (* the id the last add_* returned                       *)
  missing          (* history: some call left out what it was asked to add *)

vars == <<g, ret, missing>>

(* Ids a caller may hold: any handed out so far, and the 0 of a refusal. *)
HeldIds == 0..(IF g.next_id = 0 THEN IdModulus ELSE g.next_id) - 1

Inputs == UNION {[1..n -> HeldIds] : n \in 0..MaxInputs}

(* The edge is asked for between two different nodes there are, and h does *)
(* not have it.                                                            *)
Unlisted(h, from, to) ==
  from # to /\ HasNode(h, from) /\ HasNode(h, to) /\ ~EdgeListed(h, from, to)

Init == g = EmptyGraph /\ ret = 0 /\ missing = FALSE

(* An add_* that asks for a node, and for an edge to it from each input. *)
Returned(r, inputs) ==
  /\ g' = r.graph /\ ret' = r.id
  /\ missing' = \/ missing \/ r.id = 0
                \/ \E i \in DOMAIN inputs : Unlisted(r.graph, inputs[i], r.id)

add_register(name, clock) == Returned(AddRegister(g, name, clock), <<>>)
add_port(name) == Returned(AddPort(g, name), <<>>)
add_net(name) == Returned(AddNet(g, name), <<>>)
add_combinational(name, logic, inputs) ==       \* a name there is gets no new edge
  Returned(AddCombinational(g, name, logic, inputs),
           IF HasName(g, name) THEN <<>> ELSE inputs)
add_edge(from, to) ==
  /\ g' = AddEdge(g, from, to) /\ UNCHANGED ret
  /\ missing' = (missing \/ Unlisted(g', from, to))
remove_nodes(dead) == g' = RemoveNodes(g, dead) /\ UNCHANGED <<ret, missing>>
set_limits(n, e) == g' = SetLimits(g, n, e) /\ UNCHANGED <<ret, missing>>

Next ==
  /\ g.generation < MaxGeneration
  /\ \/ \E name \in Names, clock \in Clocks : add_register(name, clock)
     \/ \E name \in Names : add_port(name) \/ add_net(name)
     \/ \E name \in Names, logic \in LogicTypes, inputs \in Inputs :
          add_combinational(name, logic, inputs)
     \/ \E from, to \in HeldIds : add_edge(from, to)
     \/ \E dead \in SUBSET HeldIds : remove_nodes(dead)
     \/ \E n \in NodeLimits, e \in EdgeLimits : set_limits(n, e)

Spec == Init /\ [][Next]_vars

-----------------------------------------------------------------------------
EdgeSet == {g.edges[i] : i \in DOMAIN g.edges}

(* validate() reports nothing after any calls, and the two index maps list *)
(* exactly the nodes there are (add_*, and the rebuild in remove_nodes).   *)
IndicesExact ==
  /\ Validate(g)
  /\ DOMAIN g.id_to_idx = NodeIds(g)
  /\ \A i \in DOMAIN g.nodes :
       HasName(g, g.nodes[i].hier_name)
       /\ g.name_to_idx[g.nodes[i].hier_name] = i
  /\ Cardinality(DOMAIN g.name_to_idx) = Len(g.nodes)

(* adj_ and radj_ are the edge list seen from either end, in edge order:   *)
(* the traversals that read them see every edge once and nothing else.  No *)
(* edge is listed twice and none loops on its node, on both sides of the   *)
(* 32-bit boundary of the packed key and across removals (add_edge).       *)
AdjacencyExact ==
  /\ \A id \in NodeIds(g) :
       /\ Successors(g, id) = Neighbours(g.edges, id, 1, 2)
       /\ Predecessors(g, id) = Neighbours(g.edges, id, 2, 1)
  /\ IsInjective(g.edges)
  /\ \A i \in DOMAIN g.edges : g.edges[i][1] # g.edges[i][2]
  /\ g.edge_set = {EdgeKey(e[1], e[2]) : e \in {f \in EdgeSet : ~Wide(f[1], f[2])}}

(* What a call does to the graph can be told from the graph afterwards.    *)
(* Whatever changes what a traversal can see moves the generation counter  *)
(* the pattern cache compares and raises the dirty flag run_incremental    *)
(* tests.  Once a call had to leave out a node, an edge, or an edge from   *)
(* one of a new gate's inputs, the truncated flag is up and stays up       *)
(* through removals and new limits, so that CDC010 reports it.  And an id  *)
(* is never given to a second node, even after its first is removed, so    *)
(* that ids held by findings and logic_inputs cannot come to mean another. *)
CallsAccounted ==
  [][/\ <<g.nodes, g.edges>>' # <<g.nodes, g.edges>> =>
          g'.generation > g.generation /\ g'.dirty
     /\ missing' => g'.truncated
     /\ \A id \in NodeIds(g)' \ NodeIds(g) : id = g.next_id /\ id # 0]_vars
=============================================================================
