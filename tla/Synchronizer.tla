---------------------------- MODULE Synchronizer ----------------------------
(***************************************************************************)
(* The synchronizer matcher of src/cdc/synchronizer.cpp.                   *)
(*                                                                         *)
(* A design D is a graph D.g with the attributes D.at[id] of its nodes:    *)
(*   width, packed                the bits, and the tag of a verified      *)
(*                                shift chain (packed_shift_depth)         *)
(*   reset, async, pol            the reset signal, its kind and polarity  *)
(*   root                         the root clock, NoClock if not resolved  *)
(*   gated, muxed, safe_box       flags of the frontend and the registry   *)
(***************************************************************************)
EXTENDS Traversal

CONSTANT NoReset      (* the empty reset_signal string                     *)

MaxStages == 10       (* the literal bound of every chain walk             *)

Clock(D, id) == FindNode(D.g, id).clock_domain
Direct(D, id) == RegisterSuccessors(D.g, id, FALSE)
DirectBack(D, id) == RegisterPredecessors(D.g, id, FALSE)

(* The registers that drive id directly, of its own clock or of another. *)
OwnPreds(D, id) == {p \in ToSet(DirectBack(D, id)) : Clock(D, p) = Clock(D, id)}
CrossPreds(D, id) == ToSet(DirectBack(D, id)) \ OwnPreds(D, id)

PatternFromDepth(depth) ==
  CASE depth < 2 -> "None"
    [] depth = 2 -> "TwoFF"
    [] depth = 3 -> "ThreeFF"
    [] depth = 4 -> "FourFF"
    [] OTHER -> "NStage"

-----------------------------------------------------------------------------
(* The walk from stage to stage.  Four copies of it in the code differ in  *)
(* two tests: guarded drops a register with several drivers of its clock,  *)
(* strict one with a driver that is not the stage before.                  *)

(* Mutant: the guard counts drivers of every clock but the register's own. *)
Fits_WrongClock(D, dest, cur, s, guarded, strict) ==
  /\ Clock(D, s) = Clock(D, dest)
  /\ D.at[s].width = 1
  /\ guarded => Cardinality(CrossPreds(D, s)) <= 1
  /\ strict /\ cur # dest => OwnPreds(D, s) \subseteq {cur, s}

Fits(D, dest, cur, s, guarded, strict) ==
  /\ Clock(D, s) = Clock(D, dest)
  /\ D.at[s].width = 1
  /\ guarded => Cardinality(OwnPreds(D, s)) <= 1
  /\ strict /\ cur # dest => OwnPreds(D, s) \subseteq {cur, s}

Chain(D, dest, guarded, strict) ==
  LET longest[chain \in Seq(Nat) \ {<<>>}] ==
        LET cur == Last(chain)
            near == Direct(D, cur)
            fitting == Those(near, {s \in ToSet(near) : Fits(D, dest, cur, s, guarded, strict)}) IN
        IF Len(chain) > MaxStages \/ fitting = <<>> THEN chain
        ELSE longest[Append(chain, Head(fitting))]
  IN longest[<<dest>>]

(* What find_pattern_for_dest and chain_depth ask of the first stage. *)
IsEntry(D, dest) ==
  /\ Clock(D, dest) # NoClock
  /\ D.at[dest].width = 1 \/ D.at[dest].packed >= 2
  /\ CrossPreds(D, dest) # {}

FindPatternForDest(D, dest, strict) ==
  IF ~IsEntry(D, dest) \/ (strict /\ OwnPreds(D, dest) # {}) THEN "None"
  ELSE IF D.at[dest].width # 1 THEN PatternFromDepth(D.at[dest].packed)
  ELSE PatternFromDepth(Len(Chain(D, dest, TRUE, strict)))

ChainDepth(D, dest) ==
  IF ~IsEntry(D, dest) THEN 0
  ELSE IF D.at[dest].width # 1 THEN D.at[dest].packed
  ELSE Len(Chain(D, dest, FALSE, FALSE))

BelowMinStages(D, dest, min_stages) ==
  /\ min_stages > 1
  /\ ChainDepth(D, dest) \in 1..(min_stages - 1)

-----------------------------------------------------------------------------
(* Warnings on the stages of a chain.                                      *)

HasReset(D, id) == D.at[id].reset # NoReset

(* Whether a stage's reset does not go with that of the stage before. *)
ValidateStageReset(D, stage, prev) ==
  LET s == D.at[stage]
      p == D.at[prev]
      both == HasReset(D, stage) /\ HasReset(D, prev) IN
  \/ s.async /\ ~p.async
  \/ s.async /\ p.async /\ both /\ s.reset # p.reset
  \/ ~s.async /\ p.async /\ both
  \/ both /\ s.pol # p.pol

(* Whether a stage drives at most one register of its clock. *)
ValidateStageFanout(D, stage) ==
  Cardinality({s \in ToSet(Direct(D, stage)) : Clock(D, s) = Clock(D, stage)}) <= 1

(* Mutant: the last stage is taken for the one before, and not looked at. *)
WarnsOn_SkipsLast(D, chain) ==
  \E i \in 1..(Len(chain) - 2) :
    \/ ValidateStageReset(D, chain[i + 1], chain[i])
    \/ ~ValidateStageFanout(D, chain[i])

WarnsOn(D, chain) ==
  \E i \in 1..(Len(chain) - 1) :
    \/ ValidateStageReset(D, chain[i + 1], chain[i])
    \/ ~ValidateStageFanout(D, chain[i])

HasChainWarnings(D, dest, strict) == WarnsOn(D, Chain(D, dest, FALSE, strict))

(* match: one chain per register with a strict pattern and direct driver  *)
(* of another clock.                                                       *)
Match(D) ==
  LET Of(d) == {[source |-> p, stages |-> Chain(D, d, FALSE, TRUE)] :
                  p \in Registers(D.g) \cap CrossPreds(D, d)} IN
  UNION {Of(d) : d \in {d \in Registers(D.g) : FindPatternForDest(D, d, TRUE) # "None"}}
=============================================================================
