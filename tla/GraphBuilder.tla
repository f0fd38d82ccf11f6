---------------------------- MODULE GraphBuilder ----------------------------
(***************************************************************************)
(* GraphBuilder of src/frontend/netlist/netlist_adapter.cpp: one flat      *)
(* module becomes a graph.  The builder's members are the fields of a      *)
(* record b: the graph g, the union-find of the aliases, the port feeds.   *)
(* `at' has the fields of a node that IRGraph leaves out; `stopped' is the *)
(* early return of build().                                                *)
(*                                                                         *)
(* Pins are compared as they are written; the second, case-insensitive     *)
(* look of find_pin is left out.                                           *)
(***************************************************************************)
EXTENDS Flatten, CellLibrary, IRGraph

CONSTANT LooksSequential    (* cell types whose name holds FF, LATCH, LAT, REG *)

Attributes ==
  [width |-> 1, is_latch |-> FALSE, reset |-> <<FALSE, FALSE>>,
   is_isolation_cell |-> FALSE, is_gray_coded |-> FALSE,
   root_clock |-> NoClock, clock_is_gated |-> FALSE, clock_is_muxed |-> FALSE]
At(b, id) == IF id \in DOMAIN b.at THEN b.at[id] ELSE Attributes
Update(b, id, attributes) == [b EXCEPT !.at = (id :> attributes) @@ @]

NewBuilder(m, max_nodes, max_edges) ==
  [g |-> SetLimits(EmptyGraph, max_nodes, max_edges), at |-> <<>>,
   ports |-> {Plain(p.name) : p \in ToSet(m.ports)},
   parent |-> [n \in ToSet(m.nets) |-> n], feed |-> <<>>,
   suspected |-> FALSE, stopped |-> FALSE]

-----------------------------------------------------------------------------
(* Aliases of `assign a = b'.                                              *)

(* find: path compression changes no answer. *)
RECURSIVE Root(_, _)
Root(parent, x) ==
  IF x \notin DOMAIN parent \/ parent[x] = x THEN x ELSE Root(parent, parent[x])

(* alias: a port keeps its node, the last driver of any of its bits is     *)
(* its feed.                                                               *)
Alias(b, driven, driver) ==
  LET from == Root(b.parent, driven)
      to == Root(b.parent, driver) IN
  IF driven = driver THEN b
  ELSE IF Whole(driven) \in b.ports
  THEN [b EXCEPT !.feed = (Whole(driven) :> driver) @@ @]
  ELSE IF from = to THEN b
  ELSE [b EXCEPT !.parent = (from :> to) @@ @]

IsAlias(a) == a.lhs.kind = "Net" /\ a.rhs.kind = "Net"
BuildAssignAliases(b, m) ==
  LET Join(acc, a) == IF IsAlias(a) THEN Alias(acc, a.lhs.name, a.rhs.name) ELSE acc
  IN FoldLeft(Join, b, m.assigns)

-----------------------------------------------------------------------------
(* Nodes of signals: an operator gives the builder and an id, 0 for none.  *)
Got(b, added) == [b |-> [b EXCEPT !.g = added.graph], id |-> added.id]

(* get_net_node: every bit of a port is the one port node. *)
NodeOf(b, signal) ==
  LET r == Root(b.parent, signal) IN
  IF Whole(r) \in b.ports THEN Got(b, AddPort(b.g, Whole(r))) ELSE Got(b, AddNet(b.g, r))

(* get_node: constants and concatenations have no node. *)
GetNode(b, ref) == IF ref.kind = "Net" THEN NodeOf(b, ref.name) ELSE [b |-> b, id |-> 0]

AddWire(b, from, to) ==
  IF from = 0 \/ to = 0 THEN b ELSE [b EXCEPT !.g = AddEdge(@, from, to)]

(* The nodes of several signals, those that have one. *)
GetNodes(b, refs) ==
  LET Add(acc, ref) ==
        LET n == GetNode(acc.b, ref) IN
        [b |-> n.b, ids |-> IF n.id = 0 THEN acc.ids ELSE Append(acc.ids, n.id)]
  IN FoldLeft(Add, [b |-> b, ids |-> <<>>], refs)

Drive(b, from, ref) ==
  LET Feed(to) == AddWire(to.b, from, to.id) IN
  IF from = 0 \/ ref.kind # "Net" THEN b ELSE Feed(GetNode(b, ref))

-----------------------------------------------------------------------------
(* Pins.                                                                   *)
ClockPins == {"CK", "CLK", "C", "GCLK", "CP", "clock"}
DataPins == {"D", "DI", "DATA", "D1"}
OutputPins == {"Q", "QN", "Z", "Y", "CO", "OUT"}
EnablePins == {"E", "EN", "CE", "enable", "TE"}
ResetPins == {"R", "RN", "RST", "RESET", "CDN", "CLR", "SRN", "RESET_B", "RSTN"}
IcgOutPins == {"GCK", "CLKOUT", "Q", "Y", "GCLK"}

WithExplicit(pin, generic) == IF pin = "" THEN generic ELSE generic \cup {pin}

(* find_pin: the first connection whose pin is any of the candidates, an   *)
(* explicit one among the others; 0 for none.                              *)
FindPin(inst, cands) == SelectInSeq(inst.conns, LAMBDA c : c.pin \in cands)
PinNet(inst, cands) ==
  IF FindPin(inst, cands) = 0 THEN NoRef ELSE inst.conns[FindPin(inst, cands)].net

-----------------------------------------------------------------------------
(* Instances.                                                              *)

(* process_sequential: without a clock net there is no register; a latch   *)
(* is clocked by its enable.                                               *)
ProcessSequential(b, inst, def) ==
  LET Pin(explicit, generic) == PinNet(inst, WithExplicit(explicit, generic))
      clk == Pin(def.pins.clock, ClockPins)
      d == Pin(def.pins.data, DataPins)
      q == Pin(def.pins.output, OutputPins)
      rst == Pin(def.pins.reset, ResetPins)
      en == Pin(def.pins.enable, EnablePins)
      latch == def.kind = "Latch"
      clk_net == Root(b.parent, IF latch /\ en.kind = "Net" THEN en.name ELSE clk.name)
      Latched(h, id) == Update(h, id, [At(h, id) EXCEPT !.is_latch = @ \/ latch])
      Reset(h, id) ==
        IF rst.kind # "Net" THEN h
        ELSE [Update(h, id, [At(h, id) EXCEPT
                               !.reset = <<def.reset_active_low, def.reset_async>>])
              EXCEPT !.g.nodes[h.g.id_to_idx[id]].reset_signal = Root(b.parent, rst.name)]
      Wired(data, id) == Drive(AddWire(data.b, data.id, id), id, q)
      Made(reg) ==
        IF reg.id = 0 THEN reg.b
        ELSE Wired(GetNode(Reset(Latched(reg.b, reg.id), reg.id), d), reg.id)
  IN IF clk.kind # "Net" THEN [b EXCEPT !.suspected = TRUE]
     ELSE Made(Got(b, AddRegister(b.g, inst.inst_name, clk_net)))

(* process_icg: a gate of clock and enable drives the gated net. *)
ProcessIcg(b, inst, def) ==
  LET Pin(explicit, generic) == PinNet(inst, WithExplicit(explicit, generic))
      clk == Pin(def.pins.clock, ClockPins)
      en == Pin(def.pins.enable, EnablePins)
      out == Pin(def.pins.output, IcgOutPins)
      IsNode(id) == id # 0
      Gate(h, ids) ==
        Got(h, AddCombinational(h.g,
                 [inst.inst_name EXCEPT !.in = Append(@, inst.inst_name.base), !.base = "gate"],
                 "And", SelectSeq(ids, IsNode)))
      Wired(gate, to) == AddWire(gate.b, gate.id, to)
      Enabled(en_n, clk_id, out_id) == Wired(Gate(en_n.b, <<clk_id, en_n.id>>), out_id)
      Out(out_n, clk_id) == Enabled(GetNode(out_n.b, en), clk_id, out_n.id)
      Clock(clk_n) == Out(GetNode(clk_n.b, out), clk_n.id)
  IN IF clk.kind # "Net" \/ out.kind # "Net" THEN b ELSE Clock(GetNode(b, clk))

LogicOf(def) ==
  CASE def.kind = "Buffer" -> "Buf"
    [] def.kind = "Inverter" -> "Not"
    [] OTHER -> def.logic

(* The inputs of a mux as [select, true, false], by the names of the pins. *)
MuxOrder(conns, ids) ==
  LET At1(pins) == SelectInSeq(conns, LAMBDA c : c.pin \in pins)
      sel == At1({"S", "SEL", "SELECT"})
      t == At1({"B", "D1", "I1"})
      f == At1({"A", "D0", "I0"}) IN
  IF 0 \in {sel, t, f} THEN ids ELSE <<ids[sel], ids[t], ids[f]>>

(* process_comb: one pin is the output, every other net an input; a cell   *)
(* nobody knows whose name is that of a register leaves its mark.          *)
ProcessComb(b, inst, def) ==
  LET named == IF def.pins.output = "" THEN 0 ELSE FindPin(inst, {def.pins.output})
      out == IF named # 0 THEN named ELSE FindPin(inst, OutputPins)
      rest == IF out = 0 THEN inst.conns ELSE RemoveAt(inst.conns, out)
      IsNet(c) == c.net.kind = "Net"
      conns == SelectSeq(rest, IsNet)
      marked == [b EXCEPT !.suspected =
                   @ \/ (def.kind = "Unknown" /\ inst.cell_type \in LooksSequential)]
      Ordered(ids) ==
        IF LogicOf(def) = "Mux" /\ Len(ids) = Len(conns) THEN MuxOrder(conns, ids) ELSE ids
      Gate(inputs) ==
        Got(inputs.b, AddCombinational(inputs.b.g, inst.inst_name, LogicOf(def),
                                       Ordered(inputs.ids)))
      Driven(comb) == IF out = 0 THEN comb.b ELSE Drive(comb.b, comb.id, inst.conns[out].net)
      Isolates(h, id) ==
        IF id # 0 /\ def.kind = "Isolation"
        THEN Update(h, id, [At(h, id) EXCEPT !.is_isolation_cell = TRUE])
        ELSE h
      Finished(comb) == Isolates(Driven(comb), comb.id)
  IN Finished(Gate(GetNodes(marked, [i \in DOMAIN conns |-> conns[i].net])))

GatePrimitives ==
  ("and" :> "And") @@ ("nand" :> "And") @@ ("or" :> "Or") @@ ("nor" :> "Or") @@
  ("xor" :> "Xor") @@ ("xnor" :> "Xor") @@ ("not" :> "Not") @@ ("buf" :> "Buf")
SkippedPrimitives == {"bufif0", "bufif1", "notif0", "notif1", "pullup", "pulldown"}

(* process_gate_primitive: the first port is the output. *)
ProcessGatePrimitive(b, inst) ==
  LET Gate(inputs) == Got(inputs.b, AddCombinational(inputs.b.g, inst.inst_name,
                                      GatePrimitives[inst.cell_type], inputs.ids))
      Driven(gate) == Drive(gate.b, gate.id, inst.conns[1].net)
  IN IF inst.cell_type \in SkippedPrimitives \/ Len(inst.conns) < 2 THEN b
     ELSE Driven(Gate(GetNodes(b, [i \in 1..(Len(inst.conns) - 1) |-> inst.conns[i + 1].net])))

ProcessInstance(b, inst, lib) ==
  LET def == Lookup(lib, inst.cell_type) IN
  IF inst.cell_type \in DOMAIN GatePrimitives \cup SkippedPrimitives
  THEN ProcessGatePrimitive(b, inst)
  ELSE IF Positional(inst) THEN b
  ELSE IF def.kind \in SequentialKinds THEN ProcessSequential(b, inst, def)
  ELSE IF def.kind = "Icg" THEN ProcessIcg(b, inst, def)
  ELSE ProcessComb(b, inst, def)

-----------------------------------------------------------------------------
(* Pass 2: the assigns that are no aliases. *)
ConnectAssign(b, a) ==
  LET FromNode(n, to) == AddWire(n.b, n.id, to)
      Into(lhs) ==
        CASE a.rhs.kind = "Const" -> IF lhs.id = 0 THEN NodeOf(lhs.b, a.lhs.name).b ELSE lhs.b
          [] a.rhs.kind = "Concat" ->
               LET Feed(acc, member) == FromNode(NodeOf(acc, member), lhs.id)
               IN FoldLeft(Feed, lhs.b, a.rhs.concat)
          [] OTHER -> FromNode(GetNode(lhs.b, a.rhs), lhs.id)
  IN IF IsAlias(a) THEN b ELSE Into(GetNode(b, a.lhs))

(* Pass 3: the drivers of ports. *)
ConnectFeed(b, port) ==
  LET Feed(dn, to) == AddWire(dn.b, dn.id, to)
      Into(pn) == Feed(NodeOf(pn.b, b.feed[port]), pn.id)
  IN Into(NodeOf(b, port))

Build(m, lib, max_nodes, max_edges) ==
  LET begun == BuildAssignAliases(NewBuilder(m, max_nodes, max_edges), m)
      PortNode(acc, p) == NodeOf(acc, Plain(p.name)).b
      Tested(h) == [h EXCEPT !.stopped = h.g.truncated]
      Process(acc, inst) ==
        IF acc.stopped THEN acc ELSE Tested(ProcessInstance(acc, inst, lib))
      Pass3(h) == FoldLeft(ConnectFeed, h, SetToSeq(DOMAIN h.feed))
      Pass2(h) == IF h.stopped THEN h ELSE Pass3(FoldLeft(ConnectAssign, h, m.assigns))
  IN Pass2(FoldLeft(Process, FoldLeft(PortNode, begun, m.ports), m.instances))
=============================================================================
