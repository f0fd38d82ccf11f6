--------------------------- MODULE WrittenNetlist ---------------------------
(***************************************************************************)
(* What a written netlist connects, bit by bit and module by module, for   *)
(* comparison with the graph the frontend makes of it.  A point is a bit   *)
(* of a net or a cell instance; links lead from driver to driven.          *)
(***************************************************************************)
EXTENDS ClockResolver

Wire(path, base, bit) == <<"wire", Name(path, base, bit)>>
Cell(path, inst) == <<"cell", [inst.name EXCEPT !.in = path]>>

Find(design, name) == SelectInSeq(design.modules, LAMBDA m : m.name = name)
IsModule(design, type) == Find(design, type) # 0
ModuleOf(design, type) == design.modules[Find(design, type)]
Top(design) == IF design.top = "" THEN design.modules[1] ELSE ModuleOf(design, design.top)

ItemsOf(m, kind) == {item \in ToSet(m.items) : item.item = kind}

WidthOf(m, base) ==
  LET widths == {d.width : d \in {e \in ToSet(m.header) : e.name = base}}
           \cup {item.width : item \in {i \in ItemsOf(m, "port") \cup ItemsOf(m, "net") :
                                          base \in ToSet(i.names)}} IN
  IF widths = {} THEN 1 ELSE CHOOSE w \in widths : \A v \in widths : v <= w

(* The bits of a reference, the least significant first. *)
RECURSIVE BitsOf(_, _, _)
BitsOf(m, path, w) ==
  CASE w.form \in {"id", "part"} ->
         [i \in 1..WidthOf(m, w.base) |-> Wire(path, w.base, i - 1)]
    [] w.form = "bit" -> <<Wire(path, w.base, w.bit)>>
    [] w.form = "concat" ->
         FlattenSeq(Reverse([i \in DOMAIN w.members |-> BitsOf(m, path, w.members[i])]))
    [] OTHER -> <<>>

Pairs(from, to) ==
  {<<from[i], to[i]>> : i \in DOMAIN from \cap DOMAIN to}

-----------------------------------------------------------------------------
(* Pins of cells. *)
Primitive(type) == type \in DOMAIN GatePrimitives \cup SkippedPrimitives
KindOfCell(design, type) == Lookup(design.lib, type).kind
Sequential(design, type) == KindOfCell(design, type) \in SequentialKinds
PinsOf(design, type) == Lookup(design.lib, type).pins

(* All outputs that are connected; of a cell connected by position nothing *)
(* says which connection is what, so that it leads nowhere.                *)
OutputConns(type, inst) ==
  {i \in DOMAIN inst.conns :
     IF Primitive(type) THEN i = 1 ELSE inst.conns[i].pin \in OutputPins \cup IcgOutPins}
ConnsOf(inst, pins) == {i \in DOMAIN inst.conns : inst.conns[i].pin \in pins}

(* The pins a value goes through, and those a clock does. *)
DataConns(design, type, inst) ==
  IF Sequential(design, type)
  THEN ConnsOf(inst, WithExplicit(PinsOf(design, type).data, DataPins))
  ELSE DOMAIN inst.conns \ OutputConns(type, inst)
ClockConns(design, type, inst) ==
  IF KindOfCell(design, type) = "Icg" THEN ConnsOf(inst, ClockPins)
  ELSE IF Lookup(design.lib, type).logic = "Mux"
  THEN DataConns(design, type, inst) \ ConnsOf(inst, {"S"})
  ELSE DataConns(design, type, inst)

(* What clocks a register; a latch is clocked by its enable. *)
RegisterClock(design, type, inst) ==
  LET pins == PinsOf(design, type)
      enable == ConnsOf(inst, WithExplicit(pins.enable, EnablePins)) IN
  IF KindOfCell(design, type) = "Latch" /\ enable # {} THEN enable
  ELSE ConnsOf(inst, WithExplicit(pins.clock, ClockPins))

Through(m, path, inst, from, to) ==
  LET Points(conns) == UNION {ToSet(BitsOf(m, path, inst.conns[i].net)) : i \in conns} IN
  {<<p, Cell(path, inst)>> : p \in Points(from)} \cup {<<Cell(path, inst), p>> : p \in Points(to)}

(* All links below a module: of what is assigned, of what is connected to  *)
(* the ports of an instance (both ways), of cells.  A clock goes through   *)
(* no register.                                                            *)
RECURSIVE Links(_, _, _, _)
Links(design, m, path, clocks) ==
  LET Assigned(item) == Pairs(BitsOf(m, path, item.rhs), BitsOf(m, path, item.lhs))
      PortOf(child, inst, i) ==
        IF inst.conns[i].pin = "" THEN child.header[i].name ELSE inst.conns[i].pin
      Bound(child, inst) ==
        LET below == Append(path, inst.name.base)
            Outer(i) == BitsOf(m, path, inst.conns[i].net)
            Inside(i) == BitsOf(child, below, Id(PortOf(child, inst, i)))
            bound == {i \in DOMAIN inst.conns :
                        inst.conns[i].pin # "" \/ i <= Len(child.header)}
            pairs == UNION {Pairs(Outer(i), Inside(i)) : i \in bound} IN
        pairs \cup {<<p[2], p[1]>> : p \in pairs} \cup Links(design, child, below, clocks)
      CellLinks(type, inst) ==
        IF clocks /\ Sequential(design, type) THEN {}
        ELSE Through(m, path, inst,
               IF clocks THEN ClockConns(design, type, inst) ELSE DataConns(design, type, inst),
               OutputConns(type, inst))
      InstLinks(type, inst) ==
        IF IsModule(design, type) THEN Bound(ModuleOf(design, type), inst)
        ELSE CellLinks(type, inst)
  IN UNION {Assigned(item) : item \in ItemsOf(m, "assign")}
     \cup UNION {UNION {InstLinks(item.cell_type, inst) : inst \in ToSet(item.insts)} :
                   item \in ItemsOf(m, "inst")}

(* The cells that are registers or have the name of one, with their clock  *)
(* bits and whether they are connected by names.                           *)
RECURSIVE RegistersOf(_, _, _)
RegistersOf(design, m, path) ==
  UNION {UNION {
    IF IsModule(design, item.cell_type)
    THEN RegistersOf(design, ModuleOf(design, item.cell_type), Append(path, inst.name.base))
    ELSE IF \/ Sequential(design, item.cell_type) \/ item.cell_type \in LooksSequential
    THEN {[point |-> Cell(path, inst),
           clock |-> UNION {ToSet(BitsOf(m, path, inst.conns[i].net)) :
                              i \in RegisterClock(design, item.cell_type, inst)},
           named |-> \A c \in ToSet(inst.conns) : c.pin # ""]}
    ELSE {} : inst \in ToSet(item.insts)} : item \in ItemsOf(m, "inst")}

-----------------------------------------------------------------------------
(* Points reached over links, through no cell of `ends'. *)
RECURSIVE Over(_, _, _)
Over(links, ends, from) ==
  LET next == from \cup {l[2] : l \in {k \in links : k[1] \in from \ ends}} IN
  IF next = from THEN from ELSE Over(links, ends, next)

Backward(links) == {<<l[2], l[1]>> : l \in links}

(* The registers a register drives. *)
DrivenBy(links, registers, r) ==
  LET first == {l[2] : l \in {k \in links : k[1] = r}} IN
  (Over(links, registers, first) \cap registers) \ {r}

(* No cell has more than one output connected. *)
OneOutput(design) ==
  \A m \in ToSet(design.modules) : \A item \in ItemsOf(m, "inst") :
    IsModule(design, item.cell_type) \/
    \A inst \in ToSet(item.insts) : Cardinality(OutputConns(item.cell_type, inst)) <= 1

(* Every bit of a vector is named by itself and none goes through a port;  *)
(* concatenations are of single bits, on the right of an assign.           *)
RECURSIVE SingleBits(_, _)
SingleBits(m, w) ==
  CASE w.form \in {"id", "part"} -> WidthOf(m, w.base) = 1
    [] w.form = "concat" -> Len(w.members) = 1 /\ SingleBits(m, w.members[1])
    [] OTHER -> TRUE
BitByBit(design) ==
  \A m \in ToSet(design.modules) :
    /\ \A d \in ToSet(m.header) : d.width = 1
    /\ \A item \in ToSet(m.items) : \A w \in References(item) : SingleBits(m, w)
    /\ \A item \in ItemsOf(m, "assign") : item.lhs.form # "concat"
    /\ \A item \in ItemsOf(m, "inst") : \A w \in References(item) : w.form # "concat"
=============================================================================
