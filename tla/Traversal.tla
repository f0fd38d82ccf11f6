----------------------------- MODULE Traversal -----------------------------
(***************************************************************************)
(* The three register traversals of src/ir/graph.cpp that every analysis   *)
(* is built on: register_successors, register_predecessors (depth-first,   *)
(* from register to register) and find_register_paths (every simple path). *)
(* Results are sequences: the synchronizer matcher takes the first         *)
(* successor that fits, so their order is part of the meaning.             *)
(***************************************************************************)
EXTENDS IRGraph

CONSTANTS MAX_PATH_DEPTH

ASSUME TraversalAssumption == MAX_PATH_DEPTH \in Nat \ {0}

KindOf(g, id) == FindNode(g, id).kind
IsRegister(g, id) == KindOf(g, id) = "Register"
Registers(g) == {id \in NodeIds(g) : IsRegister(g, id)}

Step(g, forward, id) ==
  IF forward THEN Successors(g, id) ELSE Predecessors(g, id)

(* Whether the walk goes on through a node that is no register. *)
Passes(g, id, comb) ==
  /\ IsDataNode(KindOf(g, id))
  /\ comb \/ KindOf(g, id) # "Combinational"

(* A walk: the nodes on the stack still to visit, the nodes visited, and   *)
(* the registers found in the order they came off the stack.               *)
WalkStates == [stack : Seq(Nat), visited : SUBSET Nat, found : Seq(Nat)]

(* One turn of the loop of both walks. *)
WalkStep(g, forward, comb, w) ==
  LET id == Last(w.stack)
      rest == Front(w.stack)
      seen == w.visited \cup {id}
      pushed == IF Passes(g, id, comb) THEN Without(Step(g, forward, id), seen) ELSE <<>>
  IN IF id \in w.visited THEN [w EXCEPT !.stack = rest]
     ELSE IF IsRegister(g, id)
     THEN [stack |-> rest, visited |-> seen, found |-> Append(w.found, id)]
     ELSE [w EXCEPT !.stack = rest \o pushed, !.visited = seen]

RegisterWalk(g, forward, comb, first, start) ==
  LET walk[w \in WalkStates] ==
        IF w.stack = <<>> THEN w.found ELSE walk[WalkStep(g, forward, comb, w)]
  IN walk[[stack |-> first, visited |-> start, found |-> <<>>]]

RegisterSuccessors(g, id, comb) ==
  RegisterWalk(g, TRUE, comb, Successors(g, id), {id})

(* Mutant: the backward walk ignores traverse_combinational. *)
RegisterPredecessors_IgnoresFlag(g, id, comb) ==
  RegisterWalk(g, FALSE, TRUE, Predecessors(g, id), {id})

RegisterPredecessors(g, id, comb) ==
  RegisterWalk(g, FALSE, comb, Predecessors(g, id), {id})

-----------------------------------------------------------------------------
(* find_register_paths.  A frame is the path walked so far and whether it   *)
(* went through combinational logic; on_path is the set of its nodes.       *)

Frame(path, comb) == [path |-> path, comb |-> comb]
Frames == [path : Seq(Nat), comb : BOOLEAN]

(* A search: the frames on the stack, the paths found, whether a path was  *)
(* cut short, and whether max_paths was reached, which ends the search.    *)
SearchStates ==
  [stack : Seq(Frames), paths : Seq(Frames), truncated : BOOLEAN, full : BOOLEAN]

(* Mutant: a node is entered once in the whole search, as in the walks. *)
Extend_VisitedOnce(g, f, max_paths, w, s) ==
  LET path == Append(f.path, s)
      full == Len(w.paths) + 1 >= max_paths
      entered == UNION {ToSet(q.path) : q \in ToSet(w.stack) \cup ToSet(w.paths)} IN
  IF w.full \/ s \in ToSet(f.path) THEN w
  ELSE IF IsRegister(g, s)
  THEN [w EXCEPT !.paths = Append(@, Frame(path, f.comb)),
                 !.full = full, !.truncated = @ \/ full]
  ELSE IF s \in entered THEN w
  ELSE [w EXCEPT !.stack = Append(@, Frame(path,
                               f.comb \/ KindOf(g, s) = "Combinational"))]

(* One successor s of the frame f that was popped. *)
Extend(g, f, max_paths, w, s) ==
  LET path == Append(f.path, s)
      full == Len(w.paths) + 1 >= max_paths
      comb == f.comb \/ KindOf(g, s) = "Combinational" IN
  IF w.full \/ s \in ToSet(f.path) THEN w
  ELSE IF IsRegister(g, s)
  THEN [w EXCEPT !.paths = Append(@, Frame(path, f.comb)),
                 !.full = full, !.truncated = @ \/ full]
  ELSE IF IsDataNode(KindOf(g, s))
  THEN [w EXCEPT !.stack = Append(@, Frame(path, comb))]
  ELSE w

(* One turn of the loop: a frame is popped and extended by every successor. *)
SearchStep(g, max_paths, w) ==
  LET f == Last(w.stack)
      popped == [w EXCEPT !.stack = Front(@)]
      next == Successors(g, Last(f.path))
      extended[n \in 0..Len(next)] ==
        IF n = 0 THEN popped ELSE Extend(g, f, max_paths, extended[n - 1], next[n])
  IN IF Len(f.path) > MAX_PATH_DEPTH THEN [popped EXCEPT !.truncated = TRUE]
     ELSE extended[Len(next)]

PathSearch(g, max_paths, first) ==
  LET search[w \in SearchStates] ==
        IF w.full \/ w.stack = <<>> THEN [paths |-> w.paths, truncated |-> w.truncated]
        ELSE search[SearchStep(g, max_paths, w)]
  IN search[[stack |-> <<first>>, paths |-> <<>>, truncated |-> FALSE, full |-> FALSE]]

FindRegisterPaths(g, src, max_paths) ==
  PathSearch(g, max_paths, Frame(<<src>>, FALSE))

-----------------------------------------------------------------------------
(* The same things by their definition, for the checks.                    *)

(* Inner: the nodes a connection may go through. *)
Inner(g, comb) ==
  {id \in NodeIds(g) : KindOf(g, id) \in
     IF comb THEN {"Net", "Port", "Combinational"} ELSE {"Net", "Port"}}

(* Nodes joined to from by edges (i, j) with every i in from or inner. *)
Reached(edges, inner, first) ==
  LET reached[from \in SUBSET Nat] ==
        LET next == from \cup {e[2] : e \in {d \in edges : d[1] \in from \cap inner}} IN
        IF next = from THEN from ELSE reached[next]
  IN reached[first]

RegistersReached(g, comb, id) ==
  LET edges == ToSet(g.edges)
      first == {e[2] : e \in {d \in edges : d[1] = id}} IN
  (Registers(g) \cap Reached(edges, Inner(g, comb), first)) \ {id}

(* The simple paths that extend path to another register, registers at the *)
(* ends only.                                                              *)
SimplePaths(g, src) ==
  LET extended[path \in Seq(Nat)] ==
        IF Len(path) > 1 /\ IsRegister(g, Last(path)) THEN {path}
        ELSE UNION {extended[Append(path, e[2])] :
                      e \in {d \in ToSet(g.edges) :
                              d[1] = Last(path) /\ d[2] \notin ToSet(path)}}
  IN extended[<<src>>]
=============================================================================
