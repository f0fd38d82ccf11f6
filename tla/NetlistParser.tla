--------------------------- MODULE NetlistParser ---------------------------
(***************************************************************************)
(* src/frontend/netlist/netlist_parser.cpp: what the parser keeps of a     *)
(* gate-level netlist.  A written module is a header and a sequence of     *)
(* items; the tokens of an item are abstracted to its fields.              *)
(*                                                                         *)
(* A name is a record: the instances it lies in, its base name and the bit *)
(* of a `base[bit]` form, so that taking a select off a name is an update. *)
(***************************************************************************)
EXTENDS Integers, Sequences, SequencesExt

NoBit == -1
Name(in, base, bit) == [in |-> in, base |-> base, bit |-> bit]
Plain(base) == Name(<<>>, base, NoBit)

(* strip_bit, base_of and the base of split_bit_suffix *)
Whole(name) == [name EXCEPT !.bit = NoBit]
HasBit(name) == name.bit # NoBit

(* struct NetRef: `name' stands for net, has_bit and bit. *)
NetRef(kind, name, concat) == [kind |-> kind, name |-> name, concat |-> concat]
NetOf(name) == NetRef("Net", name, <<>>)
NoRef == NetRef("Error", Plain(""), <<>>)

-----------------------------------------------------------------------------
(* References as they are written.                                         *)
Written(form, base, bit, members) ==
  [form |-> form, base |-> base, bit |-> bit, members |-> members]
Id(base) == Written("id", base, NoBit, <<>>)
Bit(base, bit) == Written("bit", base, bit, <<>>)
Part(base) == Written("part", base, NoBit, <<>>)      \* base[msb:lsb], all of it
Const == Written("const", "1'b0", NoBit, <<>>)
Concat(members) == Written("concat", "", NoBit, members)
Empty == Written("empty", "", NoBit, <<>>)            \* .q()

(* parse_net_ref: a part-select is its net, a member of a concatenation    *)
(* loses its select, constants and concatenations in one are dropped.      *)
ParseNetRef(w) ==
  LET IsNet(m) == m.form \in {"id", "bit", "part"}
      Base(m) == Plain(m.base) IN
  CASE w.form \in {"id", "part"} -> NetOf(Plain(w.base))
    [] w.form = "bit" -> NetOf(Name(<<>>, w.base, w.bit))
    [] w.form = "const" -> NetRef("Const", Plain(w.base), <<>>)
    [] w.form = "concat" ->
         LET nets == SelectSeq(w.members, IsNet) IN
         NetRef("Concat", Plain(""), [i \in DOMAIN nets |-> Base(nets[i])])
    [] OTHER -> NoRef

IsError(ref) == ref.kind = "Error"

-----------------------------------------------------------------------------
(* Items of a module body.                                                 *)
Decl(name, width) == [name |-> name, width |-> width]
EmptyModule(name) ==
  [name |-> name, ports |-> <<>>, nets |-> <<>>, assigns |-> <<>>, instances |-> <<>>]

(* parse_port_decl: a declaration in the body completes the header's.      *)
ParsePortDecl(m, item) ==
  LET Declare(acc, name) ==
        LET known == {i \in DOMAIN acc : acc[i].name = name} IN
        IF known = {} THEN Append(acc, Decl(name, item.width))
        ELSE [acc EXCEPT ![CHOOSE i \in known : \A j \in known : i <= j] =
                           Decl(name, item.width)]
  IN [m EXCEPT !.ports = FoldLeft(Declare, @, item.names)]

(* parse_net_decl: what a declaration assigns is skipped, and no field of  *)
(* an item.                                                                *)
ParseNetDecl(m, item) ==
  [m EXCEPT !.nets = @ \o [i \in DOMAIN item.names |-> Decl(item.names[i], item.width)]]

ParseAssign(m, item) ==
  [m EXCEPT !.assigns =
     Append(@, [lhs |-> ParseNetRef(item.lhs), rhs |-> ParseNetRef(item.rhs)])]

(* parse_instance: one statement may have several instances. *)
ParseInstance(m, item) ==
  LET Conn(c) == [pin |-> c.pin, net |-> ParseNetRef(c.net)]
      Instance(inst) ==
        [cell_type |-> item.cell_type, inst_name |-> inst.name,
         conns |-> [i \in DOMAIN inst.conns |-> Conn(inst.conns[i])]]
  IN [m EXCEPT !.instances =
        @ \o [i \in DOMAIN item.insts |-> Instance(item.insts[i])]]

(* An item that holds a reference which is none ends the parse.            *)
References(item) ==
  CASE item.item = "assign" -> {item.lhs, item.rhs}
    [] item.item = "inst" ->
         UNION {{c.net : c \in ToSet(inst.conns)} : inst \in ToSet(item.insts)}
    [] OTHER -> {}
Malformed(item) == \E w \in References(item) : IsError(ParseNetRef(w))

(* parse_body_item; behavioral blocks, parameters and the like are skipped *)
ParseBodyItem(m, item) ==
  CASE item.item = "port" -> ParsePortDecl(m, item)
    [] item.item = "net" -> ParseNetDecl(m, item)
    [] item.item = "assign" -> ParseAssign(m, item)
    [] item.item = "inst" -> ParseInstance(m, item)
    [] OTHER -> m

(* parse_module: the ports of the header, then the body. *)
ParseModule(w) ==
  FoldLeft(ParseBodyItem, [EmptyModule(w.name) EXCEPT !.ports = w.header], w.items)

(* parse_netlist: the top module is the first of the name that is asked    *)
(* for, or the only one.                                                   *)
ParseNetlist(written, top) ==
  LET failed == written = <<>> \/ \E w \in ToSet(written) : \E item \in ToSet(w.items) : Malformed(item)
      none == [ok |-> FALSE, module |-> EmptyModule(""), modules |-> <<>>]
      IsTop(m) == IF top = "" THEN Len(written) = 1 ELSE m.name = top
      Choose(modules, i) ==
        IF i = 0 THEN none
        ELSE [ok |-> TRUE, module |-> modules[i], modules |-> RemoveAt(modules, i)]
      Chosen(modules) == Choose(modules, SelectInSeq(modules, IsTop)) IN
  IF failed THEN none ELSE Chosen([i \in DOMAIN written |-> ParseModule(written[i])])
=============================================================================
