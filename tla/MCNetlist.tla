----------------------------- MODULE MCNetlist -----------------------------
(***************************************************************************)
(* Written netlists for NetlistAdapter, by what they exercise: loops of    *)
(* buffers, hierarchy, buses and names, clocks, cells.                     *)
(***************************************************************************)
EXTENDS NetlistAdapter

MCLooksSequential == {"DFF1", "DFFR1", "LATX1", "ODDREG"}

(* Cells, as the built-in patterns describe them, and two of a cell map.   *)
MCLibrary == <<
  CellDef({"DFF1", "DFFR1"}, 4, "Dff", "None", NoPins),
  CellDef({"DFFR1"}, 5, "DffReset", "None", NoPins),
  CellDef({"LATX1"}, 4, "Latch", "None", NoPins),
  CellDef({"ICGX1"}, 4, "Icg", "None", NoPins),
  CellDef({"BUFX1"}, 5, "Buffer", "None", NoPins),
  CellDef({"BUFX1"}, 4, "Inverter", "None", NoPins),
  CellDef({"INVX1"}, 4, "Inverter", "None", NoPins),
  CellDef({"AND2"}, 4, "Comb", "And", NoPins),
  CellDef({"XOR2"}, 4, "Comb", "Xor", NoPins),
  CellDef({"MUX2"}, 4, "Comb", "Mux", NoPins),
  CellDef({"SISO1"}, 5, "Isolation", "Unknown", NoPins),
  CellDef({"MYFLOP"}, 6, "Dff", "None",
    [NoPins EXCEPT !.clock = "PH", !.data = "IN", !.output = "Q"])>>

Declare(names) == [item |-> "net", names |-> names, width |-> 1]
Header(names) == [i \in DOMAIN names |-> Decl(names[i], 1)]
Assign(lhs, rhs) == <<[item |-> "assign", lhs |-> lhs, rhs |-> rhs]>>
By(pin, ref) == [pin |-> pin, net |-> ref]
Inst(type, name, conns) ==
  <<[item |-> "inst", cell_type |-> type, insts |-> <<[name |-> name, conns |-> conns]>>]>>
Prim(type, name, refs) ==
  Inst(type, Plain(name), [i \in DOMAIN refs |-> By("", refs[i])])
Dff(name, ck, d, q) == Inst("DFF1", name, <<By("CK", ck), By("D", d), By("Q", q)>>)
Mod(name, ports, items) == [name |-> name, header |-> ports, items |-> items]
Written0(modules, top, max_nodes, max_edges, entries) ==
  [modules |-> modules, top |-> top, lib |-> MCLibrary, entries |-> entries,
   max_nodes |-> max_nodes, max_edges |-> max_edges]
Plenty(modules, top) == Written0(modules, top, 60, 60, <<>>)

-----------------------------------------------------------------------------
(* Two buffers or gates over three nets between two registers; one net may *)
(* be an output port, a clock, an alias; the graph may be full.            *)
Three == {Id("n1"), Id("n2"), Id("n3")}
Loop(ins, out, gate, in2, out2, d, port, ck, alias, limit) ==
  Written0(<<Mod("top", Header(<<"clk">> \o IF port THEN <<"n3">> ELSE <<>>),
      <<Declare(<<"n1", "n2">> \o IF port THEN <<>> ELSE <<"n3">>)>>
      \o Dff(Plain("r1"), Id("clk"), Id("n3"), Id("n1"))
      \o Dff(Plain("r2"), ck, d, Id("y"))
      \o Prim("buf", "b", <<out>> \o ins)
      \o Prim(gate, "g", <<out2, in2>>)
      \o IF alias THEN Assign(Id("n3"), Id("n2")) ELSE <<>>)>>, "", limit[1], limit[2], <<>>)

Loops ==
  {Loop(ins, out, gate, in2, out2, d, port, ck, alias, limit) :
     ins \in {<<Id("n1")>>, <<Id("n2")>>, <<Id("n3")>>, <<Id("n1"), Id("n2")>>, <<Id("n2"), Id("n3")>>},
     out \in {Id("n2"), Id("n3")}, gate \in {"not", "buf"},
     in2 \in Three, out2 \in Three, d \in {Id("n2"), Id("n3")},
     port \in BOOLEAN, ck \in {Id("clk"), Id("n3")}, alias \in BOOLEAN,
     limit \in {<<60, 60>>, <<60, 8>>}}
  \cup
  {Loop(ins, out, "buf", in2, out2, Id("n3"), port, Id("clk"), TRUE, limit) :
     ins \in {<<Id("n1")>>, <<Id("n2")>>, <<Id("n1"), Id("n2")>>},
     out \in {Id("n2"), Id("n3")}, in2 \in Three, out2 \in {Id("n2"), Id("n4")},
     port \in BOOLEAN, limit \in {<<60, 60>>, <<6, 60>>}}

-----------------------------------------------------------------------------
(* A child between two registers, once or twice; the child may hold a      *)
(* child of its own, the module above it, or a module below that.          *)
Bodies(inner) ==
  {Assign(Id("o"), Id("i")), Assign(Id("i"), Id("o")),
   <<Declare(<<"w">>)>> \o Assign(Id("w"), Id("i")) \o Assign(Id("o"), Id("w")),
   <<Declare(<<"w", "o">>)>> \o Prim("buf", "b", <<Id("w"), Id("i")>>) \o Prim("not", "g", <<Id("o"), Id("w")>>),
   Inst("INVX1", Plain("x"), <<By("Y", Id("o")), By("A", Id("i"))>>),
   Dff(Plain("s"), Id("ck"), Id("i"), Id("o")),
   <<Declare(<<"n1">>)>> \o Dff(Plain("s"), Id("ck"), Id("n1"), Id("o")),
   Inst(inner, Plain("v"), <<By("o", Id("o")), By("i", Id("i")), By("ck", Id("ck"))>>),
   <<[item |-> "skip"]>>}

ChildPorts == Header(<<"i", "o", "ck">>)
ChildConns ==
  {<<By("i", Id("n1")), By("o", Id("n2")), By("ck", Id("clk"))>>,
   <<By("", Id("n1")), By("", Id("n2")), By("", Id("clk"))>>,
   <<By("", Id("n1")), By("", Id("n2")), By("", Id("clk")), By("", Id("n1"))>>,
   <<By("i", Id("n2")), By("o", Id("n1")), By("ck", Id("clk"))>>,
   <<By("i", Const), By("o", Id("n2")), By("ck", Id("clk"))>>,
   <<By("i", Id("n1")), By("ck", Id("clk"))>>,
   <<By("i", Bit("p", 0)), By("o", Bit("p", 1)), By("ck", Id("clk"))>>,
   <<By("i", Empty), By("o", Id("n2")), By("ck", Id("clk"))>>}

Under(top, m1, m2, conns, link) ==
  Plenty(<<Mod("M1", ChildPorts, m1), Mod("M2", ChildPorts, m2),
           Mod("M3", ChildPorts, Assign(Id("o"), Id("i"))),
           Mod("top", <<>>,
             <<[item |-> "port", names |-> <<"clk", "a">>, width |-> 1],
               Declare(<<"n1", "n2", "n3">>)>>
             \o Dff(Plain("r1"), Id("clk"), Id("a"), Id("n1"))
             \o Inst("M1", Plain("u"), conns)
             \o link
             \o Dff(Plain("r2"), Id("clk"), Id("n2"), Id("n3")))>>, top)

Hierarchies ==
  {Under("top", m1, m2, conns, link) :
     m1 \in Bodies("M2"), m2 \in {Assign(Id("o"), Id("i"))},
     conns \in ChildConns,
     link \in {<<>>, Inst("M1", Plain("t"), <<By("i", Id("n2")), By("o", Id("n3")), By("ck", Id("clk"))>>)}}
  \cup
  {Under(top, Inst("M2", Plain("v"), <<By("o", Id("o")), By("i", Id("i")), By("ck", Id("ck"))>>),
         m2, conns, <<>>) :
     top \in {"top", "M1", ""}, m2 \in Bodies("M1") \cup Bodies("M3"), conns \in ChildConns}

-----------------------------------------------------------------------------
(* Two bits of a register and what uses them: clocks, resets, a name that  *)
(* is in use, names from before synthesis, drives that look gray-coded.    *)
BitReg(type, i, ck, rst, d) ==
  Inst(type, Name(<<>>, "q", i),
    <<By("CK", ck), By("RST", rst), By("D", d), By("Q", Bit("z", i))>>)
Xor(name, out, a, b2) == Inst("XOR2", Plain(name), <<By("A", a), By("B", b2), By("Y", out)>>)

Bus(ck1, rst0, rst1, type1, drives, extra, entries, limit) ==
  Written0(<<Mod("top", Header(<<"ck", "ck2", "rst", "a">>),
      <<Declare(<<"d0", "d1", "e">>)>> \o drives
      \o BitReg("DFFR1", 0, Id("ck"), rst0, Id("d0"))
      \o BitReg(type1, 1, ck1, rst1, Id("d1"))
      \o extra
      \o Dff(Plain("r"), Id("ck2"), Bit("z", 0), Id("y"))
      \o Dff(Plain("s"), Id("ck2"), Bit("z", 1), Id("y2")))>>, "top", 60, limit, entries)

BusDrives ==
  {<<>>,
   Assign(Id("d0"), Bit("z", 1)) \o Prim("not", "g", <<Id("d1"), Bit("z", 0)>>),
   Xor("x0", Id("d0"), Bit("b", 0), Bit("b", 1)) \o Prim("buf", "f", <<Id("d1"), Id("e")>>)
     \o Xor("x1", Id("e"), Bit("b", 1), Bit("b", 2)),
   Xor("x0", Id("d0"), Bit("b", 0), Bit("b", 2)) \o Assign(Id("d1"), Id("a")),
   Xor("x0", Id("d0"), Id("a"), Id("a")) \o Prim("buf", "f", <<Id("d1"), Id("a")>>)}
SameName == Dff(Plain("q"), Id("ck"), Id("a"), Id("e"))
BusExtras ==
  {<<>>, SameName,
   Dff(Name(<<>>, "p", 1), Id("ck"), Id("a"), Id("y")),
   BitReg("DFFR1", 2, Id("ck"), Id("rst"), Id("a"))}
NameMaps ==
  {<<>>, <<[rtl |-> Plain("p"), netlist |-> Plain("q")]>>,
   <<[rtl |-> Plain("q"), netlist |-> Plain("p")], [rtl |-> Plain("a"), netlist |-> Plain("r")]>>}

(* A register and the bits of its name do not get a new name together:     *)
(* they would have one name afterwards, which the index does not tell.     *)
Buses ==
  {Bus(ck1, Id("rst"), rst1, type1, drives, use[1], use[2], 60) :
     ck1 \in {Id("ck"), Id("ck2")}, rst1 \in {Id("rst"), Id("a"), Const},
     type1 \in {"DFFR1", "LATX1"}, drives \in BusDrives,
     use \in {u \in BusExtras \X NameMaps :
               u[1] = SameName => RtlName(u[2], Plain("q")) = Plain("q")}}
  \cup
  {Bus(Id("ck"), Id("rst"), Id("rst"), "DFFR1", drives, extra, <<>>, limit) :
     drives \in BusDrives, extra \in BusExtras, limit \in 4..9}

-----------------------------------------------------------------------------
(* Clocks of two registers, straight or through a buffer, a clock gate, a  *)
(* mux, in the top or in a child.                                          *)
Clocks(gates, ck1, ck2, child, local) ==
  Plenty(<<Mod("top", Header(<<"ckA", "ckB", "en">>),
             <<Declare(<<"c1", "c2", "c3", "n">>)>> \o child \o gates
             \o Dff(Plain("r"), ck1, Id("en"), Id("n"))
             \o Dff(Plain("s"), ck2, Id("n"), Id("y"))),
           Mod("M", Header(<<"ci", "co">>),
             <<Declare(<<local>>)>> \o Prim("buf", "b", <<Id(local), Id("ci")>>)
             \o Assign(Id("co"), Id(local))
             \o Dff(Plain("t"), Id(local), Id("ci"), Id("w")))>>, "top")

Icg(name, ck, en, out) ==
  Inst("ICGX1", Plain(name), <<By("CK", ck), By("EN", en), By("GCK", out)>>)
Mux(name, a, b2, s, out) ==
  Inst("MUX2", Plain(name), <<By("A", a), By("B", b2), By("S", s), By("Y", out)>>)

Buffers(a, out) == Inst("BUFX1", Plain("cb"), <<By("A", a), By("Y", out)>>)
ClockGates ==
  {Buffers(Id("ckA"), Id("c1")) \o rest :
     rest \in {<<>>, Icg("i1", Id("ckA"), Id("en"), Id("c2")),
               Prim("buf", "b2", <<Id("c2"), Id("c1")>>) \o Prim("not", "b3", <<Id("c3"), Id("c2")>>),
               Mux("m", Id("ckA"), Id("ckB"), Id("en"), Id("c2")),
               Mux("m", Id("c1"), Id("ckB"), Id("ckB"), Id("c2")),
               Prim("buf", "b2", <<Id("c2"), Id("ckB")>>) \o Assign(Id("c3"), Id("c2")),
               Prim("and", "b2", <<Id("c2"), Id("c3"), Id("n")>>),
               Prim("buf", "b2", <<Id("c2"), Id("c3")>>) \o Prim("buf", "b3", <<Id("c3"), Id("c2")>>)}}
ClockNets == {Id("ckA"), Id("ckB"), Id("c1"), Id("c2"), Id("c3"), Const}

Child(ci, co) == Inst("M", Plain("u"), <<By("ci", ci), By("co", co)>>)
ClockTrees == {Clocks(gates, ck1, ck2, child, "k") :
                 gates \in ClockGates, ck1 \in ClockNets, ck2 \in ClockNets,
                 child \in {<<>>, Child(Id("ckB"), Id("c3")), Child(Id("c1"), Id("c3")),
                           Child(Id("c3"), Id("c2"))}}

(* Two buffered clocks with gates that have one enable, or a child with a  *)
(* clock net of the name that one has in the top.                          *)
MCClockTrees ==
  {Clocks(Buffers(Id("ckA"), Id("c1")) \o Prim("buf", "b2", <<Id("n2"), Id("ckB")>>)
            \o Icg("i1", Id("c1"), Id("en"), Id("c2")) \o Icg("i2", Id("n2"), en2, Id("c3")),
          ck1, ck2, child, "c1") :
     en2 \in {Id("en"), Const},
     ck1 \in ClockNets \ {Const}, ck2 \in ClockNets \ {Const},
     child \in {<<>>, Child(Id("ckB"), Id("w"))}}

-----------------------------------------------------------------------------
(* Cells by themselves: known and unknown, registers without a clock,      *)
(* latches, pins a cell map names, gates without inputs, a second output,  *)
(* connections by position.                                                *)
Around(cell) ==
  Plenty(<<Mod("top", Header(<<"ck", "a", "b">>),
             <<Declare(<<"n1", "n2", "n3">>)>>
             \o Dff(Plain("r1"), Id("ck"), Id("a"), Id("n1"))
             \o cell
             \o Dff(Plain("r2"), Id("b"), Id("n2"), Id("y")))>>, "")
CellTypes ==
  {"DFF1", "DFFR1", "LATX1", "BUFX1", "INVX1", "AND2", "MUX2", "SISO1",
   "MYFLOP", "ODDREG", "BLOB"}
CellTable ==
  {<<By("D", Id("n1")), By("Q", Id("n2")), By("CK", Id("ck"))>>,
   <<By("D", Id("n1")), By("Q", Id("n2")), By("CK", Const)>>,
   <<By("D", Id("n1")), By("Q", Id("n2"))>>,
   <<By("CK", Id("ck")), By("D", Id("n1")), By("Q", Id("n2")), By("E", Id("b")), By("RST", Id("a"))>>,
   <<By("PH", Id("b")), By("D", Id("n1")), By("Q", Id("n2"))>>,
   <<By("Y", Id("n2")), By("A", Id("n1")), By("B", Id("b")), By("S", Id("a"))>>,
   <<By("Y", Id("n2")), By("B", Id("n1")), By("A", Const), By("S", Id("a"))>>,
   <<By("Y", Id("n2")), By("A", Id("n1")), By("Z", Id("b"))>>,
   <<By("A", Id("n1")), By("B", Id("n2"))>>,
   <<By("CK", Id("ck")), By("D", Id("n1")), By("QN", Id("n3")), By("Q", Id("n2"))>>,
   <<By("CK", Id("ck")), By("D", Id("n1")), By("Q", Id("n3")), By("QN", Id("n2"))>>,
   <<By("A", Id("n1")), By("B", Id("b")), By("Y", Id("n3")), By("CO", Id("n2"))>>,
   <<By("", Id("ck")), By("", Id("n1")), By("", Id("n2"))>>,
   <<By("", Id("n2")), By("", Id("n1"))>>}
CellUses == {Around(Inst(type, Plain("c"), conns)) : type \in CellTypes, conns \in CellTable}
            \cup {Around(Prim(use[1], "c", use[2])) :
                     use \in {<<"xnor", <<Id("n2"), Id("n1"), Const>>>>, <<"or", <<Id("n2"), Id("n1")>>>>,
                              <<"or", <<Id("n2")>>>>, <<"pullup", <<Id("n2")>>>>}}
            \cup {Plenty(<<>>, ""), Plenty(<<Mod("top", <<>>, <<>>)>>, "bottom")}

(* A driven port on the way of a clock, or the clock itself. *)
DrivenPorts ==
  {Clocks(Prim("buf", "b1", <<Id("c3"), Id("ckA")>>) \o Prim("buf", "b2", <<Id("c1"), Id("c3")>>)
            \o Prim(gate, "b3", <<Id("en"), Id("c1")>>) \o Prim("buf", "b4", <<Id("c2"), Id("en")>>),
          ck1, ck2, <<>>, "k") :
     gate \in {"buf", "not"}, ck1 \in ClockNets, ck2 \in {Id("c2"), Id("en")}}

MCDesigns == Loops \cup Hierarchies \cup Buses \cup ClockTrees \cup CellUses
             \cup MCClockTrees \cup DrivenPorts
=============================================================================
