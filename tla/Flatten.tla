------------------------------ MODULE Flatten ------------------------------
(***************************************************************************)
(* src/frontend/netlist/flatten.cpp: the hierarchy below the top module is *)
(* written out as one module.                                              *)
(***************************************************************************)
EXTENDS NetlistParser, TLC

CONSTANT kMaxDepth                  (* 64 in the code *)

ASSUME FlattenAssumption == kMaxDepth \in Nat \ {0}

(* make_module_map: the first definition of a name. *)
ModuleMap(modules) ==
  LET Emplace(acc, m) == acc @@ (m.name :> m) IN FoldLeft(Emplace, <<>>, modules)

(* struct Ctx: the instances passed on the way down, and what the ports of *)
(* this one are connected to, as references of the top.                    *)
Ctx(prefix, conns) == [prefix |-> prefix, conns |-> conns]

Prefixed(name, ctx) == [name EXCEPT !.in = ctx.prefix \o @]

(* ref_to_string: a concatenation or a constant gives the name of no net.  *)
RefToName(ref) ==
  IF ref.kind # "Concat" THEN ref.name
  ELSE Name(<<"{">> \o [i \in DOMAIN ref.concat |-> ref.concat[i].base], "}", NoBit)

(* Mutant: a bound port is looked for below the instance. *)
ResolveRef_Unbound(ref, ctx) ==
  CASE ref.kind = "Const" -> ref
    [] ref.kind = "Concat" ->
         [ref EXCEPT !.concat = [i \in DOMAIN @ |-> Prefixed(@[i], ctx)]]
    [] OTHER -> [ref EXCEPT !.name = Prefixed(@, ctx)]

(* resolve_ref: a port that is connected is what it is connected to, the   *)
(* select of the reference is lost with it.                                *)
ResolveRef(ref, ctx) ==
  LET Member(m) == IF m.base \in DOMAIN ctx.conns THEN RefToName(ctx.conns[m.base])
                   ELSE Prefixed(m, ctx) IN
  CASE ref.kind = "Const" -> ref
    [] ref.kind = "Concat" ->
         [ref EXCEPT !.concat = [i \in DOMAIN @ |-> Member(@[i])]]
    [] OTHER -> IF ref.name.base \in DOMAIN ctx.conns THEN ctx.conns[ref.name.base]
                ELSE [ref EXCEPT !.name = Prefixed(@, ctx)]

Positional(inst) == inst.conns # <<>> /\ inst.conns[1].pin = ""

(* The child's ports through the pins: by position or by name, the last    *)
(* connection of a name.                                                   *)
Bindings(inst, child, ctx) ==
  LET reach == IF Positional(inst) /\ Len(child.ports) < Len(inst.conns)
               THEN Len(child.ports) ELSE Len(inst.conns)
      Pin(i) == IF Positional(inst) THEN child.ports[i].name ELSE inst.conns[i].pin
      Bind(acc, i) == (Pin(i) :> ResolveRef(inst.conns[i].net, ctx)) @@ acc
  IN FoldLeft(Bind, <<>>, [i \in 1..reach |-> i])

(* Nets declared below that are ports bound upward are the parent's nets.  *)
OwnNets(m, ctx) ==
  LET Own(d) == ctx.prefix = <<>> \/ d.name \notin DOMAIN ctx.conns
      nets == SelectSeq(m.nets, Own) IN
  [i \in DOMAIN nets |-> Prefixed(Plain(nets[i].name), ctx)]

Leaf(inst, ctx) ==
  [inst EXCEPT !.inst_name = Prefixed(@, ctx),
               !.conns = [i \in DOMAIN @ |->
                            [@[i] EXCEPT !.net = ResolveRef(@, ctx)]]]

(* Elaborator::emit: out is the flat module so far, active the modules     *)
(* being written.                                                          *)
RECURSIVE Emit(_, _, _, _, _)
Emit(map, out, m, ctx, active) ==
  LET Assign(a) == [lhs |-> ResolveRef(a.lhs, ctx), rhs |-> ResolveRef(a.rhs, ctx)]
      begun == [out EXCEPT
        !.ports = IF ctx.prefix = <<>> THEN m.ports ELSE @,
        !.nets = @ \o OwnNets(m, ctx),
        !.assigns = @ \o [i \in DOMAIN m.assigns |-> Assign(m.assigns[i])]]
      Instance(acc, inst) ==
        IF ~acc.ok THEN acc
        ELSE IF inst.cell_type \notin DOMAIN map
        THEN [acc EXCEPT !.instances = Append(@, Leaf(inst, ctx))]
        ELSE IF inst.cell_type \in active \cup {m.name} THEN [acc EXCEPT !.ok = FALSE]
        ELSE LET child == map[inst.cell_type] IN
             Emit(map, acc, child,
                  Ctx(Append(ctx.prefix, inst.inst_name.base), Bindings(inst, child, ctx)),
                  active \cup {m.name})
  IN IF Cardinality(active) >= kMaxDepth THEN [out EXCEPT !.ok = FALSE]
     ELSE FoldLeft(Instance, begun, m.instances)

(* references_submodules *)
ReferencesSubmodules(top, modules) ==
  /\ modules # <<>>
  /\ \E inst \in ToSet(top.instances) :
       inst.cell_type \in DOMAIN ModuleMap(Append(modules, top))

(* flatten_hierarchy, and elaborate's choice to skip it; the names of the  *)
(* top's own declarations become names as emit would make them.            *)
FlattenHierarchy(top, modules) ==
  LET empty == EmptyModule(top.name) @@ [ok |-> TRUE]
      map == IF ReferencesSubmodules(top, modules)
             THEN ModuleMap(Append(modules, top)) ELSE <<>> IN
  Emit(map, empty, top, Ctx(<<>>, <<>>), {})
=============================================================================
