--------------------------- MODULE ClockResolver ---------------------------
(***************************************************************************)
(* src/clock/resolve.cpp on the graph of a netlist: the clock of a         *)
(* register is followed up to a port, its root clock.  Ports of a netlist  *)
(* are at the top and have no dot in their names, so that is_clock_port    *)
(* says port and trace_to_top_port gives the port back.                    *)
(***************************************************************************)
EXTENDS Regroup

CONSTANT kMaxHops                   (* 8 in trace_clock *)

Untraced == [root |-> NoClock, gated |-> FALSE, muxed |-> FALSE]
Traced(port, logic) ==
  [root |-> port.hier_name, gated |-> logic = "And", muxed |-> logic = "Mux"]

Drivers(g, id) == [i \in DOMAIN Predecessors(g, id) |-> FindNode(g, Predecessors(g, id)[i])]
IsPort(node) == node.kind = "Port"
Ports(g, id) == SelectSeq(Drivers(g, id), IsPort)

(* The port at a gate on the clock net: the first of an AND's, else the    *)
(* last.                                                                   *)
GatePort(g, gate) ==
  LET ports == Ports(g, gate.id) IN
  IF gate.logic_type = "And" THEN ports[1] ELSE ports[Len(ports)]

(* The ports at a gate further up, behind nets too. *)
FarPorts(g, gate) ==
  LET IsNet(n) == n.kind = "Net"
      nets == SelectSeq(Drivers(g, gate.id), IsNet) IN
  Ports(g, gate.id) \o FlattenSeq([i \in DOMAIN nets |-> Ports(g, nets[i].id)])

(* The walk from net to net: each hop looks at the drivers in order until  *)
(* one is a port, a gate at a port, or a net.                              *)
RECURSIVE NetChain(_, _, _, _)
NetChain(g, net, visited, hop) ==
  LET Unseen(n) == n.id \notin visited
      drivers == SelectSeq(Drivers(g, net.id), Unseen)
      Ends(n) == \/ n.kind \in {"Port", "Net"}
                 \/ n.kind = "Combinational" /\ FarPorts(g, n) # <<>>
      i == SelectInSeq(drivers, Ends)
      met == drivers[i] IN
  IF hop = 0 \/ i = 0 THEN Untraced
  ELSE CASE met.kind = "Port" -> Traced(met, "None")
         [] met.kind = "Combinational" -> Traced(FarPorts(g, met)[1], met.logic_type)
         [] OTHER -> NetChain(g, met,
                       visited \cup {n.id : n \in ToSet(SubSeq(drivers, 1, i))}, hop - 1)

(* One driver of a clock net. *)
ThroughDriver(g, driver) ==
  CASE driver.kind = "Port" -> Traced(driver, "None")
    [] driver.kind = "Net" -> NetChain(g, driver, {driver.id}, kMaxHops)
    [] driver.kind = "Combinational" /\ Ports(g, driver.id) # <<>> ->
         Traced(GatePort(g, driver), driver.logic_type)
    [] OTHER -> Untraced

(* A net matches by its name or by what follows the last dot of it. *)
Matches(node, clock) ==
  node.kind = "Net" /\ clock \in {node.hier_name, [node.hier_name EXCEPT !.in = <<>>]}

(* trace_clock: a port is its own root; else the nets of the name in the   *)
(* order of the graph, and of each its drivers, until one leads to a port. *)
(* No register has a root clock yet that could be taken over.              *)
TraceClock(g, clock) ==
  LET IsMatch(n) == Matches(n, clock)
      nets == SelectSeq(g.nodes, IsMatch)
      tried == FlattenSeq([i \in DOMAIN nets |->
                 [j \in DOMAIN Drivers(g, nets[i].id) |->
                    ThroughDriver(g, Drivers(g, nets[i].id)[j])]])
      IsTraced(t) == t.root # NoClock
      First(found) == IF found = <<>> THEN Untraced ELSE found[1] IN
  IF HasName(g, clock) /\ IsPort(FindByName(g, clock)) THEN Traced(FindByName(g, clock), "None")
  ELSE First(SelectSeq(tried, IsTraced))

(* resolve, and elaborate's loop over the registers. *)
ResolveClocks(b) ==
  LET Annotate(acc, node) ==
        LET Clocked(t) ==
              Update(acc, node.id, [At(acc, node.id) EXCEPT
                !.root_clock = t.root, !.clock_is_gated = t.gated,
                !.clock_is_muxed = @ \/ t.muxed])
        IN IF node.kind # "Register" \/ node.clock_domain = NoClock THEN acc
           ELSE Clocked(TraceClock(b.g, node.clock_domain))
  IN FoldLeft(Annotate, b, b.g.nodes)
=============================================================================
