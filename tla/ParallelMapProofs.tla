------------------------- MODULE ParallelMapProofs -------------------------
(***************************************************************************)
(* Proofs about ParallelMap for every number of items and of threads, and  *)
(* about MCParallelMap, which maps the same items twice.                   *)
(***************************************************************************)
EXTENDS MCParallelMap, TLAPS

(* The caller's two loops: the workers it has not spawned yet have not     *)
(* moved, and those it has joined have left their lambda.                  *)
JoinInv ==
  /\ Worker = {} => main \in {"loop", "returned", "thrown"}
  /\ Worker # {} => main # "loop" /\ N > 1
  /\ main = "spawn" => \A w \in Worker : w >= at => pc[w] = "unborn"
  /\ main = "join" => \A w \in Worker : w < at => pc[w] = "exit"

(* The shared counter and flag against what the workers hold: an item held *)
(* has been handed out, a worker leaves only when the items are used up or *)
(* somebody failed, and the flag is up exactly when an exception is kept.  *)
CounterInv ==
  /\ \A w \in Worker : pc[w] \in {"run", "catch"} => mine[w] < index
  /\ \A w \in Worker : pc[w] = "catch" => mine[w] \in fails
  /\ \A w \in Worker : pc[w] = "exit" => index >= N \/ abort_flag
  /\ abort_flag => first_exception \in fails
  /\ first_exception # NoResult => first_exception \in fails

(* The sequential loop has mapped the items behind it. *)
LoopInv ==
  main = "loop" =>
    /\ at <= N
    /\ \A i \in Idx : IF i < at THEN i \notin fails /\ results[i] = i
                                ELSE results[i] = NoResult

IInv ==
  /\ TypeOK
  /\ JoinInv
  /\ CounterInv
  /\ LoopInv
  /\ OneWriterPerItem
  /\ ClaimedItemsAccounted
  /\ NoWorkerOutlivesCall
  /\ NoSwallowedException
  /\ SequentialStopsAtFirst

-----------------------------------------------------------------------------
(* The thread count never exceeds the item count. *)
LEMMA NumThreadsBound ==
  /\ NumThreads \in Nat /\ NumThreads <= N
  /\ Worker = IF N > 1 /\ NumThreads > 1 THEN 0..NumThreads-1 ELSE {}
BY ParallelMapAssumption DEF NumThreads, Clamped, Wanted, Worker

LEMMA WorkerNat == Worker \subseteq Nat /\ (Worker # {} <=> NumThreads > 1)
BY NumThreadsBound, ParallelMapAssumption DEF Worker

LEMMA InitInv == Init => IInv
<1> SUFFICES ASSUME Init PROVE IInv
  OBVIOUS
<1> USE NumThreadsBound, WorkerNat, ParallelMapAssumption DEF Init, Idx
<1>1. TypeOK
  BY DEF TypeOK
<1>2. JoinInv
  BY DEF JoinInv
<1>3. LoopInv
  BY DEF LoopInv
<1>4. CounterInv
  BY DEF CounterInv
<1>5. OneWriterPerItem /\ ClaimedItemsAccounted
  BY DEF OneWriterPerItem, ClaimedItemsAccounted
<1>6. NoWorkerOutlivesCall /\ NoSwallowedException /\ SequentialStopsAtFirst
  BY DEF NoWorkerOutlivesCall, NoSwallowedException, SequentialStopsAtFirst
<1> QED
  BY <1>1, <1>2, <1>3, <1>4, <1>5, <1>6 DEF IInv

-----------------------------------------------------------------------------
(* A step of a worker. *)
LEMMA WorkerStepInv ==
  ASSUME IInv, NEW w \in Worker, WorkerStep(w)
  PROVE  IInv'
<1> USE NumThreadsBound, WorkerNat, ParallelMapAssumption
    DEF IInv, Idx, callerVars, Goto
<1>0. Worker # {} /\ main # "loop" /\ pc[w] # "exit" /\ pc[w] # "unborn"
  BY DEF WorkerStep, SeeAbort, MissAbort, Claim, Run, RunThrows, Catch, JoinInv
<1>1. main \notin {"finish", "returned", "thrown"}
  BY <1>0 DEF NoWorkerOutlivesCall
<1>2. UNCHANGED callerVars
  BY DEF WorkerStep, SeeAbort, MissAbort, Claim, Run, RunThrows, Catch
<1>3. /\ NoWorkerOutlivesCall' /\ NoSwallowedException'
      /\ SequentialStopsAtFirst' /\ LoopInv'
  BY <1>0, <1>1, <1>2
     DEF NoWorkerOutlivesCall, NoSwallowedException, SequentialStopsAtFirst,
         LoopInv
<1>4. TypeOK'
  <2> USE DEF TypeOK
  <2>1. CASE SeeAbort(w)   BY <2>1 DEF SeeAbort
  <2>2. CASE MissAbort(w)  BY <2>2 DEF MissAbort
  <2>3. CASE Claim(w)      BY <2>3 DEF Claim
  <2>4. CASE Run(w)        BY <2>4 DEF Run
  <2>5. CASE RunThrows(w)  BY <2>5 DEF RunThrows
  <2>6. CASE Catch(w)      BY <2>6 DEF Catch
  <2> QED BY <2>1, <2>2, <2>3, <2>4, <2>5, <2>6 DEF WorkerStep
<1>5. JoinInv'
  <2>1. \A v \in Worker : v # w => pc'[v] = pc[v]
    BY DEF TypeOK, WorkerStep, SeeAbort, MissAbort, Claim, Run, RunThrows, Catch
  <2> QED BY <1>0, <1>2, <2>1 DEF JoinInv, TypeOK
<1>6. CounterInv'
  <2> USE DEF CounterInv, TypeOK
  <2>1. CASE SeeAbort(w)   BY <2>1 DEF SeeAbort
  <2>2. CASE MissAbort(w)  BY <2>2 DEF MissAbort
  <2>3. CASE Claim(w)      BY <2>3 DEF Claim
  <2>4. CASE Run(w)        BY <2>4 DEF Run
  <2>5. CASE RunThrows(w)  BY <2>5 DEF RunThrows
  <2>6. CASE Catch(w)      BY <2>6 DEF Catch
  <2> QED BY <2>1, <2>2, <2>3, <2>4, <2>5, <2>6 DEF WorkerStep
<1>7. OneWriterPerItem'
  <2> USE DEF OneWriterPerItem, TypeOK
  <2>1. CASE SeeAbort(w)   BY <2>1 DEF SeeAbort
  <2>2. CASE MissAbort(w)  BY <2>2 DEF MissAbort
  <2>3. CASE Claim(w)      BY <2>3 DEF Claim, CounterInv
  <2>4. CASE Run(w)        BY <2>4 DEF Run
  <2>5. CASE RunThrows(w)  BY <2>5 DEF RunThrows
  <2>6. CASE Catch(w)      BY <2>6 DEF Catch
  <2> QED BY <2>1, <2>2, <2>3, <2>4, <2>5, <2>6 DEF WorkerStep
<1>8. ClaimedItemsAccounted'
  <2> USE DEF ClaimedItemsAccounted, TypeOK
  <2>a. ASSUME NEW i \in Idx, i < index',
               ~ \E v \in Worker : pc'[v] \in {"run", "catch"} /\ mine'[v] = i,
               Claim(w)
        PROVE  i < index /\ ~ \E v \in Worker : pc[v] \in {"run", "catch"}
                                               /\ mine[v] = i
    BY <2>a DEF Claim
  <2>1. CASE SeeAbort(w)   BY <2>1 DEF SeeAbort
  <2>2. CASE MissAbort(w)  BY <2>2 DEF MissAbort
  <2>3. CASE Claim(w)      BY <2>3, <2>a DEF Claim
  <2>4. CASE Run(w)        BY <2>4 DEF Run
  <2>5. CASE RunThrows(w)  BY <2>5 DEF RunThrows
  <2>6. CASE Catch(w)      BY <2>6 DEF Catch, CounterInv
  <2> QED BY <2>1, <2>2, <2>3, <2>4, <2>5, <2>6 DEF WorkerStep
<1> QED
  BY <1>3, <1>4, <1>5, <1>6, <1>7, <1>8

(* A step of the caller. *)
LEMMA CallerStepInv ==
  ASSUME IInv, CallerStep
  PROVE  IInv'
<1> USE NumThreadsBound, WorkerNat, ParallelMapAssumption
    DEF IInv, Idx, workerVars
<1> USE DEF SeqItem, SeqThrow, SeqReturn, Spawn, SpawnDone, Join, JoinDone,
            Rethrow, ReturnResults
<1>1. TypeOK'
  <2> USE DEF TypeOK
  <2>1. CASE SeqItem    BY <2>1 DEF JoinInv
  <2>2. CASE SeqThrow   BY <2>2 DEF JoinInv
  <2>3. CASE SeqReturn  BY <2>3 DEF JoinInv
  <2>4. CASE Spawn
    <3>1. /\ pc' \in [Worker -> {"unborn", "check", "claim", "run", "catch", "exit"}]
          /\ \A v \in Worker : pc'[v] \in {"run", "catch"} => pc[v] = pc'[v]
      BY <2>4
    <3> QED BY <2>4, <3>1
  <2>5. CASE SpawnDone      BY <2>5
  <2>6. CASE Join           BY <2>6
  <2>7. CASE JoinDone       BY <2>7
  <2>8. CASE Rethrow        BY <2>8
  <2>9. CASE ReturnResults  BY <2>9
  <2> QED
    BY <2>1, <2>2, <2>3, <2>4, <2>5, <2>6, <2>7, <2>8, <2>9 DEF CallerStep
<1>2. JoinInv'
  <2>1. CASE SeqItem \/ SeqThrow \/ SeqReturn
    BY <2>1 DEF JoinInv, TypeOK
  <2>2. CASE Spawn
    <3>1. \A v \in Worker : v >= at' => v # at /\ pc'[v] = pc[v]
      BY <2>2 DEF TypeOK
    <3>2. main' = main /\ main = "spawn"
      BY <2>2
    <3> QED BY <2>2, <3>1, <3>2 DEF JoinInv, TypeOK
  <2>4. CASE SpawnDone
    BY <2>4 DEF JoinInv, TypeOK
  <2>3. CASE Join
    BY <2>3 DEF JoinInv, TypeOK
  <2>5. CASE JoinDone \/ Rethrow \/ ReturnResults
    BY <2>5 DEF JoinInv
  <2> QED BY <2>1, <2>2, <2>3, <2>4, <2>5 DEF CallerStep
<1>3. CounterInv'
  <2>1. CASE Spawn
    BY <2>1 DEF CounterInv, TypeOK
  <2> QED BY <2>1 DEF CallerStep, CounterInv
<1>4. LoopInv'
  <2>1. CASE SeqItem
    BY <2>1 DEF LoopInv, TypeOK
  <2> QED BY <2>1 DEF CallerStep, LoopInv, JoinInv
<1>5. OneWriterPerItem'
  <2>1. CASE Spawn
    BY <2>1 DEF OneWriterPerItem, TypeOK
  <2> QED BY <2>1 DEF CallerStep, OneWriterPerItem
<1>6. ClaimedItemsAccounted'
  <2>1. CASE SeqItem
    BY <2>1 DEF JoinInv, ClaimedItemsAccounted
  <2>2. CASE Spawn
    <3>1. at \in Worker /\ pc[at] = "unborn"
      BY <2>2 DEF JoinInv, TypeOK
    <3>2. \A v \in Worker : pc[v] \in {"run", "catch"} => pc'[v] = pc[v]
      BY <2>2, <3>1 DEF TypeOK
    <3> QED BY <2>2, <3>2 DEF ClaimedItemsAccounted
  <2> QED BY <2>1, <2>2 DEF CallerStep, ClaimedItemsAccounted
<1>7. NoWorkerOutlivesCall'
  BY DEF CallerStep, NoWorkerOutlivesCall, JoinInv, TypeOK
<1>8. NoSwallowedException'
  <2>1. CASE SeqReturn
    <3>1. fails = {} /\ results = [i \in Idx |-> i]
      BY <2>1 DEF LoopInv, TypeOK
    <3> QED BY <2>1, <3>1 DEF NoSwallowedException
  <2>2. CASE ReturnResults
    <3>1. PICK w \in Worker : pc[w] = "exit"
      BY <2>2 DEF NoWorkerOutlivesCall, JoinInv
    <3>2. ~abort_flag /\ index >= N
      BY <2>2, <3>1 DEF CounterInv, TypeOK
    <3>3. \A i \in Idx : i \notin fails /\ results[i] = i
      BY <2>2, <3>1, <3>2 DEF ClaimedItemsAccounted, NoWorkerOutlivesCall, TypeOK
    <3>4. fails = {} /\ results = [i \in Idx |-> i]
      BY <3>3 DEF TypeOK
    <3> QED BY <2>2, <3>4 DEF NoSwallowedException
  <2>3. CASE Rethrow
    BY <2>3 DEF NoSwallowedException, CounterInv
  <2> QED BY <2>1, <2>2, <2>3 DEF CallerStep, NoSwallowedException
<1>9. SequentialStopsAtFirst'
  <2>1. CASE SeqThrow
    <3>1. at \in Idx /\ response' = at /\ results' = results /\ fails' = fails
      BY <2>1 DEF TypeOK
    <3>2. \A i \in Idx : IF i < at THEN i \notin fails /\ results[i] = i
                                  ELSE results[i] = NoResult
      BY <2>1 DEF LoopInv
    <3> QED BY <3>1, <3>2 DEF SequentialStopsAtFirst
  <2> QED BY <2>1 DEF CallerStep, SequentialStopsAtFirst, JoinInv
<1> QED
  BY <1>1, <1>2, <1>3, <1>4, <1>5, <1>6, <1>7, <1>8, <1>9

LEMMA StepInv == IInv /\ [Next]_vars => IInv'
<1> SUFFICES ASSUME IInv, [Next]_vars PROVE IInv'
  OBVIOUS
<1>1. CASE Next
  BY <1>1, WorkerStepInv, CallerStepInv DEF Next
<1>2. CASE UNCHANGED vars
  BY <1>2 DEF vars, IInv, TypeOK, JoinInv, CounterInv, LoopInv,
     OneWriterPerItem, ClaimedItemsAccounted, NoWorkerOutlivesCall,
     NoSwallowedException, SequentialStopsAtFirst
<1> QED
  BY <1>1, <1>2

(* The strengthened invariant holds of every call, for every number of     *)
(* items, every requested thread count and every set of failing items.     *)
THEOREM Invariant == Spec => []IInv
BY InitInv, StepInv, PTL DEF Spec

(* The shared state of a call keeps its type; in particular a worker only  *)
(* reads items[i] within bounds (the test after fetch_add).                *)
THEOREM TypeCorrect == Spec => []TypeOK
<1>1. IInv => TypeOK  BY DEF IInv
<1> QED BY <1>1, Invariant, PTL

(* No two workers write the same entry of the result vector (fetch_add).   *)
THEOREM NoWriteRace == Spec => []OneWriterPerItem
<1>1. IInv => OneWriterPerItem  BY DEF IInv
<1> QED BY <1>1, Invariant, PTL

(* The caller touches results and first_exception only after all workers   *)
(* have left (the join loop).                                              *)
THEOREM JoinedBeforeAnswer == Spec => []NoWorkerOutlivesCall
<1>1. IInv => NoWorkerOutlivesCall  BY DEF IInv
<1> QED BY <1>1, Invariant, PTL

(* A call returns normally only with the image of every item, and throws   *)
(* only what func threw (the catch block and the rethrow).                 *)
THEOREM AnswerIsRight == Spec => []NoSwallowedException
<1>1. IInv => NoSwallowedException  BY DEF IInv
<1> QED BY <1>1, Invariant, PTL

-----------------------------------------------------------------------------
(* The safety part of the refinement: seen by its caller, parallel_map is  *)
(* a single step from the call to its answer, as the sequential loop is.   *)
LEMMA CallInitRefines == Init => Call!CallInit
BY NumThreadsBound DEF Init, Call!CallInit, Call!Idx, Idx

LEMMA CallStepRefines ==
  IInv /\ IInv' /\ [Next]_vars => [Call!CallNext]_(Call!callVars)
<1> SUFFICES ASSUME IInv, IInv', [Next]_vars
             PROVE  [Call!CallNext]_(Call!callVars)
  OBVIOUS
<1> USE DEF Call!callVars
<1>1. CASE UNCHANGED vars
  BY <1>1 DEF vars
<1>2. ASSUME NEW w \in Worker, WorkerStep(w)
      PROVE  UNCHANGED Call!callVars
  BY <1>2 DEF WorkerStep, SeeAbort, MissAbort, Claim, Run, RunThrows, Catch,
     callerVars
<1>3. CASE SeqItem \/ Spawn \/ SpawnDone \/ Join \/ JoinDone
  <2>1. /\ main \notin {"returned", "thrown"}
        /\ main' \notin {"returned", "thrown"}
        /\ UNCHANGED <<fails, response>>
    BY <1>3 DEF SeqItem, Spawn, SpawnDone, Join, JoinDone
  <2> QED BY <2>1
<1>4. CASE SeqReturn \/ ReturnResults
  <2>1. fails = {} /\ response' = [i \in Idx |-> i] /\ fails' = fails
    BY <1>4 DEF SeqReturn, ReturnResults, IInv, NoSwallowedException
  <2>2. main \notin {"returned", "thrown"} /\ main' = "returned"
    BY <1>4 DEF SeqReturn, ReturnResults
  <2> QED BY <2>1, <2>2 DEF Call!CallNext, Call!Return, Call!Image, Call!Idx, Idx
<1>5. CASE SeqThrow \/ Rethrow
  <2>1. response' \in fails /\ fails' = fails
    BY <1>5 DEF SeqThrow, Rethrow, IInv, NoSwallowedException
  <2>2. main \notin {"returned", "thrown"} /\ main' = "thrown"
    BY <1>5 DEF SeqThrow, Rethrow
  <2> QED BY <2>1, <2>2 DEF Call!CallNext, Call!Throw
<1> QED
  BY <1>1, <1>2, <1>3, <1>4, <1>5 DEF Next, CallerStep

(* parallel_map implements the safety part of what a caller may assume.    *)
THEOREM RefinesCall ==
  Spec => Call!CallInit /\ [][Call!CallNext]_(Call!callVars)
<1> QED BY CallInitRefines, CallStepRefines, Invariant, PTL DEF Spec

-----------------------------------------------------------------------------
(* The same items mapped twice.  The call with one thread has mapped what  *)
(* is behind its loop, and the other does not answer before it.            *)
OneThreadInv ==
  /\ seq_main \in {"loop", "returned", "thrown"}
  /\ seq_results \in [Idx -> Idx \cup {NoResult}]
  /\ seq_at \in Nat /\ seq_at <= N
  /\ \A i \in Idx : IF i < seq_at THEN i \notin fails /\ seq_results[i] = i
                                  ELSE seq_results[i] = NoResult
  /\ seq_main = "returned" => seq_at = N /\ seq_response = [i \in Idx |-> i]
  /\ seq_main = "thrown" => seq_at \in fails /\ seq_response = seq_at
  /\ seq_main = "loop" => main \notin {"returned", "thrown"}

LEMMA OneThreadHasNoWorker == Seq!NumThreads <= 1
BY ParallelMapAssumption DEF Seq!NumThreads, Seq!Clamped, Seq!Wanted

LEMMA OneThreadInit == MCInit => IInv /\ OneThreadInv
<1> SUFFICES ASSUME MCInit PROVE IInv /\ OneThreadInv
  OBVIOUS
<1>1. IInv
  BY InitInv DEF MCInit
<1>2. /\ seq_main = "loop" /\ seq_at = 0 /\ seq_results = [i \in Idx |-> NoResult]
  BY OneThreadHasNoWorker DEF MCInit, Seq!Init, Seq!Idx, Idx
<1>3. main \notin {"returned", "thrown"}
  BY DEF MCInit, Init
<1> QED
  BY <1>1, <1>2, <1>3, ParallelMapAssumption DEF OneThreadInv, Idx

LEMMA OneThreadStep ==
  ASSUME IInv, OneThreadInv, [MCNext]_<<vars, seqVars>>
  PROVE  IInv' /\ OneThreadInv'
<1>1. N \in Nat /\ Idx = 0..N-1 /\ fails \in SUBSET Idx
  BY ParallelMapAssumption DEF Idx, IInv, TypeOK
<1>2. CASE OneThread
  <2>1. IInv' /\ main' = main /\ fails' = fails
    BY <1>2, StepInv DEF OneThread, vars
  <2>2. Seq!SeqItem \/ Seq!SeqThrow \/ Seq!SeqReturn
    BY <1>2 DEF OneThread, Seq!CallerStep, Seq!Spawn, Seq!SpawnDone, Seq!Join, Seq!JoinDone,
                Seq!Rethrow, Seq!ReturnResults, OneThreadInv
  <2>3. CASE Seq!SeqItem
    <3>1. /\ seq_main = "loop" /\ seq_at < N /\ seq_at \notin fails
          /\ seq_results' = [seq_results EXCEPT ![seq_at] = seq_at]
          /\ seq_at' = seq_at + 1 /\ seq_main' = seq_main
      BY <2>3 DEF Seq!SeqItem
    <3>2. seq_at \in Idx /\ seq_at' \in Nat /\ seq_at' <= N
      BY <1>1, <3>1 DEF OneThreadInv
    <3>3. seq_results' \in [Idx -> Idx \cup {NoResult}]
      BY <3>1, <3>2 DEF OneThreadInv
    <3>4. \A i \in Idx : IF i < seq_at' THEN i \notin fails /\ seq_results'[i] = i
                                        ELSE seq_results'[i] = NoResult
      <4> SUFFICES ASSUME NEW i \in Idx
                   PROVE  IF i < seq_at' THEN i \notin fails /\ seq_results'[i] = i
                                         ELSE seq_results'[i] = NoResult
        OBVIOUS
      <4>1. CASE i = seq_at
        BY <1>1, <3>1, <3>2, <4>1 DEF OneThreadInv
      <4>2. CASE i # seq_at
        BY <1>1, <3>1, <3>2, <4>2 DEF OneThreadInv
      <4> QED
        BY <4>1, <4>2
    <3> QED
      BY <1>1, <2>1, <3>1, <3>2, <3>3, <3>4 DEF OneThreadInv, Idx
  <2>4. CASE Seq!SeqThrow
    BY <2>1, <2>4 DEF Seq!SeqThrow, OneThreadInv, Idx
  <2>5. CASE Seq!SeqReturn
    <3>1. seq_response' = [i \in Idx |-> i]
      BY <1>1, <2>5 DEF Seq!SeqReturn, OneThreadInv
    <3> QED
      BY <2>1, <2>5, <3>1 DEF Seq!SeqReturn, OneThreadInv, Idx
  <2> QED
    BY <2>2, <2>3, <2>4, <2>5
<1>3. CASE SeveralThreads
  <2>1. IInv' /\ UNCHANGED seqVars /\ seq_main # "loop"
    BY <1>3, StepInv DEF SeveralThreads
  <2>2. fails' = fails
    BY <1>3 DEF SeveralThreads, Next, CallerStep, WorkerStep, SeqItem, SeqThrow, SeqReturn,
                Spawn, SpawnDone, Join, JoinDone, Rethrow, ReturnResults, SeeAbort, MissAbort,
                Claim, Run, RunThrows, Catch, callerVars
  <2> QED
    BY <2>1, <2>2 DEF OneThreadInv, seqVars, Idx
<1>4. CASE UNCHANGED <<vars, seqVars>>
  BY <1>4, StepInv DEF OneThreadInv, vars, seqVars, Idx
<1> QED
  BY <1>2, <1>3, <1>4 DEF MCNext, Done

LEMMA SameAnswer == IInv /\ OneThreadInv => ThreadsDoNotShow
<1> SUFFICES ASSUME IInv, OneThreadInv PROVE ThreadsDoNotShow
  OBVIOUS
<1>1. /\ main = "returned" => fails = {} /\ response = [i \in Idx |-> i]
      /\ main = "thrown" => response \in fails
  BY DEF IInv, NoSwallowedException
<1>2. fails \in SUBSET Idx /\ N \in Nat /\ Idx = 0..N-1
  BY ParallelMapAssumption DEF IInv, TypeOK, Idx
<1>3. seq_main = "returned" => fails = {}
  BY <1>2 DEF OneThreadInv
<1>4. main \in {"returned", "thrown"} =>
        main = seq_main /\ (main = "returned" => response = seq_response)
  BY <1>1, <1>3 DEF OneThreadInv
<1>5. Seq!SequentialStopsAtFirst
  BY <1>2 DEF Seq!SequentialStopsAtFirst, Seq!Idx, Idx, OneThreadInv
<1> QED
  BY <1>4, <1>5 DEF ThreadsDoNotShow

(* parallel_map with any number of threads returns exactly when the loop   *)
(* of one thread does, and then the same vector; the loop runs nothing     *)
(* behind the first item that fails (the two branches of parallel_map).    *)
THEOREM ThreadsNeverShow == MCSpec => []ThreadsDoNotShow
<1>1. MCSpec => [](IInv /\ OneThreadInv)
  BY OneThreadInit, OneThreadStep, PTL DEF MCSpec
<1> QED
  BY <1>1, SameAnswer, PTL
=============================================================================
