---------------------------- MODULE ParallelMap ----------------------------
(***************************************************************************)
(* One call of util::parallel_map (src/util/parallel.h): the calling       *)
(* thread clamps the thread count, runs the items itself when one thread   *)
(* is left, and otherwise spawns workers that claim item indices from a    *)
(* shared atomic counter, joins them, and rethrows the first exception.    *)
(* parallel_for is the same code without the result vector.                *)
(*                                                                         *)
(* func is deterministic and its results are told apart only by the item   *)
(* they belong to: func(items[i]) is the value i.                          *)
(***************************************************************************)
EXTENDS Integers

CONSTANTS
  N,            (* items.size()                                            *)
  NoResult,     (* the default-constructed Result / the null exception_ptr *)
  Requested,    (* the num_threads argument                                *)
  Hardware,     (* std::thread::hardware_concurrency()                     *)
  KMaxThreads   (* kMaxThreads                                             *)

ASSUME ParallelMapAssumption ==
  /\ N \in Nat
  /\ NoResult \notin Nat
  /\ Requested \in Nat
  /\ Hardware \in Nat
  /\ KMaxThreads \in Nat

Idx == 0..N-1

(* num_threads, as the first lines of the call settle it *)
Wanted ==
  IF Requested # 0 THEN Requested ELSE IF Hardware # 0 THEN Hardware ELSE 4

Clamped == IF Wanted > KMaxThreads THEN KMaxThreads ELSE Wanted

NumThreads == IF N < Clamped THEN N ELSE Clamped

Worker == IF NumThreads <= 1 THEN {} ELSE 0..NumThreads-1

VARIABLES
  fails,      (* the items func throws for; an input of the call           *)
  pc,         (* per worker: "unborn", "check", "claim", "run", "catch",   *)
              (* "exit"                                                    *)
  mine,       (* per worker: the local i                                   *)
  index,      (* the shared atomic index                                   *)
  abort_flag,
  results,
  first_exception,
  main,       (* the caller: "loop", "spawn", "join", "finish", then       *)
              (* "returned" or "thrown"                                    *)
  at,         (* the caller's loop variable (i of the sequential loop, t)  *)
  response    (* what the caller hands back: the vector or the exception   *)

vars == <<fails, pc, mine, index, abort_flag, results, first_exception,
          main, at, response>>

workerVars == <<pc, mine, index, abort_flag>>
callerVars == <<fails, main, at, response>>

Init ==
  /\ fails \in SUBSET Idx
  /\ pc = [w \in Worker |-> "unborn"]
  /\ mine = [w \in Worker |-> NoResult]
  /\ index = 0
  /\ abort_flag = FALSE
  /\ results = [i \in Idx |-> NoResult]
  /\ first_exception = NoResult
  /\ main = IF NumThreads <= 1 THEN "loop" ELSE "spawn"
  /\ at = 0
  /\ response = NoResult

-----------------------------------------------------------------------------
(* The sequential loop of a call left with at most one thread.             *)

SeqItem ==
  /\ main = "loop" /\ at < N
  /\ at \notin fails
  /\ results' = [results EXCEPT ![at] = at]
  /\ at' = at + 1
  /\ UNCHANGED <<fails, response, main, first_exception, workerVars>>

(* Mutant: the sequential loop goes on after an exception and throws at    *)
(* the end.                                                                *)
SeqThrow_Late ==
  /\ main = "loop" /\ at < N
  /\ at \in fails
  /\ IF at = N - 1 THEN main' = "thrown" /\ response' = at /\ UNCHANGED at
                   ELSE at' = at + 1 /\ UNCHANGED <<main, response>>
  /\ UNCHANGED <<fails, results, first_exception, workerVars>>

SeqThrow ==
  /\ main = "loop" /\ at < N
  /\ at \in fails
  /\ main' = "thrown" /\ response' = at
  /\ UNCHANGED <<fails, at, results, first_exception, workerVars>>

SeqReturn ==
  /\ main = "loop" /\ at = N
  /\ main' = "returned" /\ response' = results
  /\ UNCHANGED <<fails, at, results, first_exception, workerVars>>

-----------------------------------------------------------------------------
(* The caller of a parallel run.                                           *)

Spawn ==
  /\ main = "spawn" /\ at < NumThreads
  /\ pc' = [pc EXCEPT ![at] = "check"]
  /\ at' = at + 1
  /\ UNCHANGED <<fails, response, main, mine, index, abort_flag,
                 results, first_exception>>

SpawnDone ==
  /\ main = "spawn" /\ at = NumThreads
  /\ main' = "join" /\ at' = 0
  /\ UNCHANGED <<fails, response, results, first_exception, workerVars>>

Join ==
  /\ main = "join" /\ at < NumThreads
  /\ pc[at] = "exit"
  /\ at' = at + 1
  /\ UNCHANGED <<fails, response, main, results, first_exception,
                 workerVars>>

(* Mutant: the loop joins one thread too few. *)
JoinDone_OneShort ==
  /\ main = "join" /\ at = NumThreads - 1
  /\ main' = "finish"
  /\ UNCHANGED <<fails, response, at, results, first_exception, workerVars>>

JoinDone ==
  /\ main = "join" /\ at = NumThreads
  /\ main' = "finish"
  /\ UNCHANGED <<fails, response, at, results, first_exception,
                 workerVars>>

(* Mutant: the caller returns without looking at first_exception. *)
ReturnResults_Unchecked ==
  /\ main = "finish"
  /\ main' = "returned" /\ response' = results
  /\ UNCHANGED <<fails, at, results, first_exception, workerVars>>

Rethrow ==
  /\ main = "finish" /\ first_exception # NoResult
  /\ main' = "thrown" /\ response' = first_exception
  /\ UNCHANGED <<fails, at, results, first_exception, workerVars>>

ReturnResults ==
  /\ main = "finish" /\ first_exception = NoResult
  /\ main' = "returned" /\ response' = results
  /\ UNCHANGED <<fails, at, results, first_exception, workerVars>>

-----------------------------------------------------------------------------
(* The worker lambda.                                                      *)

Goto(w, from, to) == pc[w] = from /\ pc' = [pc EXCEPT ![w] = to]

(* The relaxed load that sees the flag. *)
SeeAbort(w) ==
  /\ abort_flag
  /\ Goto(w, "check", "exit")
  /\ UNCHANGED <<mine, index, abort_flag, results, first_exception, callerVars>>

(* The relaxed load returns false; it may be stale, for nothing orders it  *)
(* after another worker's relaxed store.                                   *)
MissAbort(w) ==
  /\ Goto(w, "check", "claim")
  /\ UNCHANGED <<mine, index, abort_flag, results, first_exception, callerVars>>

(* Mutant: the bound test lets index = items.size() through. *)
Claim_OffByOne(w) ==
  /\ Goto(w, "claim", IF index > N THEN "exit" ELSE "run")
  /\ mine' = [mine EXCEPT ![w] = index]
  /\ index' = index + 1
  /\ UNCHANGED <<abort_flag, results, first_exception, callerVars>>

(* Mutant: a load and a store instead of fetch_add; the store can be lost. *)
Claim_NotAtomic(w) ==
  /\ Goto(w, "claim", IF index >= N THEN "exit" ELSE "run")
  /\ mine' = [mine EXCEPT ![w] = index]
  /\ index' \in {index, index + 1}
  /\ UNCHANGED <<abort_flag, results, first_exception, callerVars>>

(* index.fetch_add(1), and the bound test on the value it returned. *)
Claim(w) ==
  /\ Goto(w, "claim", IF index >= N THEN "exit" ELSE "run")
  /\ mine' = [mine EXCEPT ![w] = index]
  /\ index' = index + 1
  /\ UNCHANGED <<abort_flag, results, first_exception, callerVars>>

Run(w) ==
  /\ Goto(w, "run", "check")
  /\ mine[w] \notin fails
  /\ results' = [results EXCEPT ![mine[w]] = mine[w]]
  /\ UNCHANGED <<mine, index, abort_flag, first_exception, callerVars>>

RunThrows(w) ==
  /\ Goto(w, "run", "catch")
  /\ mine[w] \in fails
  /\ UNCHANGED <<mine, index, abort_flag, results, first_exception, callerVars>>

(* Mutant: the catch block aborts the others but keeps no exception. *)
Catch_Forgets(w) ==
  /\ Goto(w, "catch", "exit")
  /\ abort_flag' = TRUE
  /\ UNCHANGED <<mine, index, results, first_exception, callerVars>>

(* The catch block, under exc_mutex. *)
Catch(w) ==
  /\ Goto(w, "catch", "exit")
  /\ first_exception' =
       IF first_exception = NoResult THEN mine[w] ELSE first_exception
  /\ abort_flag' = TRUE
  /\ UNCHANGED <<mine, index, results, callerVars>>

-----------------------------------------------------------------------------
WorkerStep(w) ==
  \/ SeeAbort(w) \/ MissAbort(w) \/ Claim(w)
  \/ Run(w) \/ RunThrows(w) \/ Catch(w)

CallerStep ==
  \/ SeqItem \/ SeqThrow \/ SeqReturn
  \/ Spawn \/ SpawnDone \/ Join \/ JoinDone
  \/ Rethrow \/ ReturnResults

Next == CallerStep \/ \E w \in Worker : WorkerStep(w)

(* Every thread the operating system runs makes progress, and func returns *)
(* or throws: weak fairness per thread.                                    *)
Fairness ==
  /\ WF_vars(CallerStep)
  /\ \A w \in Worker : WF_vars(WorkerStep(w))

Spec == Init /\ [][Next]_vars /\ Fairness

-----------------------------------------------------------------------------
TypeOK ==
  /\ fails \in SUBSET Idx
  /\ pc \in [Worker -> {"unborn", "check", "claim", "run", "catch", "exit"}]
  /\ mine \in [Worker -> Nat \cup {NoResult}]
  /\ index \in Nat
  /\ abort_flag \in BOOLEAN
  /\ results \in [Idx -> Idx \cup {NoResult}]
  /\ first_exception \in Idx \cup {NoResult}
  /\ main \in {"loop", "spawn", "join", "finish", "returned", "thrown"}
  /\ at \in Nat
  /\ \A w \in Worker : pc[w] \in {"run", "catch"} => mine[w] \in Idx

(* Two workers never hold the same item: results[i] has one writer and     *)
(* func runs at most once per item, so the unsynchronised writes to the    *)
(* result vector do not race (results[i] = func(items[i]) in the worker).  *)
OneWriterPerItem ==
  \A v, w \in Worker :
    /\ pc[v] \in {"run", "catch"}
    /\ pc[w] \in {"run", "catch"}
    /\ mine[v] = mine[w]
    => v = w

(* Every item the counter has handed out is accounted for: a worker still  *)
(* holds it, its own result is in place, or it failed and the failure is   *)
(* recorded (the claim, the write and the catch block of the worker).      *)
ClaimedItemsAccounted ==
  Worker # {} =>
    \A i \in Idx : i < index =>
      \/ \E w \in Worker : pc[w] \in {"run", "catch"} /\ mine[w] = i
      \/ i \notin fails /\ results[i] = i
      \/ i \in fails /\ abort_flag /\ first_exception \in fails

(* The caller reads results and first_exception only after every worker    *)
(* has left its lambda (the join loop): a worker still alive would write   *)
(* to a stack frame that is gone.                                          *)
NoWorkerOutlivesCall ==
  main \in {"finish", "returned", "thrown"} =>
    \A w \in Worker : pc[w] = "exit"

(* No exception is swallowed and no item is skipped on a normal return;    *)
(* what is thrown is the exception of an item that failed.                 *)
NoSwallowedException ==
  /\ main = "returned" => fails = {} /\ response = [i \in Idx |-> i]
  /\ main = "thrown" => response \in fails

(* Run by the caller alone, the items are processed in order and the first *)
(* failure ends the call: nothing behind it has run (the sequential loop). *)
SequentialStopsAtFirst ==
  Worker = {} /\ main = "thrown" =>
    \A i \in Idx :
      /\ i < response => i \notin fails /\ results[i] = i
      /\ i >= response => results[i] = NoResult

(* parallel_map implements the caller's view of it. *)
Call == INSTANCE MapCall WITH
  outcome <- IF main \in {"returned", "thrown"} THEN main ELSE "pending",
  value <- response

ImplementsCall == Call!CallSpec
=============================================================================
