----------------------------- MODULE ThreadPool -----------------------------
(***************************************************************************)
(* The pool of util/parallel.h: workers that wait for tasks on a condition *)
(* variable, submit(), and the destructor that lets the workers drain the  *)
(* queue and joins them.  The owner's thread submits Roots and destroys    *)
(* the pool when it likes; a task may submit one more task, so a submit    *)
(* can meet a pool that is stopping.                                       *)
(*                                                                         *)
(* Each critical section of mutex_ is a step.  wait() releases the lock    *)
(* and blocks in one step; a blocked worker runs on after notify_one,      *)
(* notify_all or for no reason.                                            *)
(***************************************************************************)
EXTENDS Naturals, Sequences, Functions

CONSTANTS
  Workers,
  Roots,       (* the tasks the owner submits                              *)
  Children,    (* the tasks other tasks submit                             *)
  child        (* task -> what it submits, or None                         *)

None == "none"
Tasks == Roots \cup Children

(* The constructor starts at least one thread. *)
ASSUME ThreadPoolAssumption ==
  /\ Workers # {}
  /\ child \in [Tasks -> Children \cup {None}]
  /\ None \notin Tasks /\ Roots \cap Children = {}
  /\ \A t, u \in Tasks : child[t] = child[u] /\ child[t] # None => t = u

VARIABLES
  running_,
  tasks_,      (* the queue                                                *)
  pc,          (* worker -> "check", "waiting", "run", "notify", "finish", "exit" *)
  task,        (* worker -> the task it took                               *)
  state,       (* task -> "new", "accepted", "refused", "value", "error"   *)
  owner        (* "free", "notify", "stopping", "joining", "gone"          *)

vars == <<running_, tasks_, pc, task, state, owner>>

Init ==
  /\ running_ = TRUE /\ tasks_ = <<>>
  /\ pc = [w \in Workers |-> "check"]
  /\ task = [w \in Workers |-> None]
  /\ state = [t \in Tasks |-> "new"]
  /\ owner = "free"

-----------------------------------------------------------------------------
(* submit() under the lock: enqueued, or refused by a stopped pool.        *)
Enqueue(t) ==
  /\ running_
  /\ tasks_' = Append(tasks_, t)
  /\ state' = [state EXCEPT ![t] = "accepted"]

(* pc after notify_one: one of the blocked workers goes on, if there is one *)
Notified(f) ==
  IF \E w \in Workers : f[w] = "waiting"
  THEN {[f EXCEPT ![w] = "check"] : w \in {v \in Workers : f[v] = "waiting"}}
  ELSE {f}

Submit(t) ==
  /\ owner = "free" /\ state[t] = "new"
  /\ Enqueue(t)
  /\ owner' = "notify"
  /\ UNCHANGED <<running_, pc, task>>

Notify ==
  /\ owner = "notify"
  /\ owner' = "free"
  /\ pc' \in Notified(pc)
  /\ UNCHANGED <<running_, tasks_, task, state>>

-----------------------------------------------------------------------------
(* worker_loop.                                                            *)

Block(w) ==
  /\ pc[w] = "check" /\ running_ /\ tasks_ = <<>>
  /\ pc' = [pc EXCEPT ![w] = "waiting"]
  /\ UNCHANGED <<running_, tasks_, task, state, owner>>

SpuriousWake(w) ==
  /\ pc[w] = "waiting"
  /\ pc' = [pc EXCEPT ![w] = "check"]
  /\ UNCHANGED <<running_, tasks_, task, state, owner>>

(* Mutant: a stopped pool drops what is queued. *)
Exit_Early(w) ==
  /\ pc[w] = "check" /\ ~running_
  /\ pc' = [pc EXCEPT ![w] = "exit"]
  /\ UNCHANGED <<running_, tasks_, task, state, owner>>

Exit(w) ==
  /\ pc[w] = "check" /\ ~running_ /\ tasks_ = <<>>
  /\ pc' = [pc EXCEPT ![w] = "exit"]
  /\ UNCHANGED <<running_, tasks_, task, state, owner>>

(* Mutant: the task stays in the queue while it runs. *)
Take_KeepsFront(w) ==
  /\ pc[w] = "check" /\ tasks_ # <<>>
  /\ pc' = [pc EXCEPT ![w] = "run"]
  /\ task' = [task EXCEPT ![w] = Head(tasks_)]
  /\ UNCHANGED <<running_, tasks_, state, owner>>

Take(w) ==
  /\ pc[w] = "check" /\ tasks_ # <<>>
  /\ pc' = [pc EXCEPT ![w] = "run"]
  /\ task' = [task EXCEPT ![w] = Head(tasks_)]
  /\ tasks_' = Tail(tasks_)
  /\ UNCHANGED <<running_, state, owner>>

(* The task submits another one; that throws when the pool has stopped,    *)
(* and the exception goes to the future of the submitting task.            *)
SubmitChild(w) ==
  /\ pc[w] = "run" /\ child[task[w]] # None
  /\ Enqueue(child[task[w]])
  /\ pc' = [pc EXCEPT ![w] = "notify"]
  /\ UNCHANGED <<running_, task, owner>>

ChildRefused(w) ==
  /\ pc[w] = "run" /\ child[task[w]] # None /\ ~running_
  /\ state' = [state EXCEPT ![child[task[w]]] = "refused", ![task[w]] = "error"]
  /\ pc' = [pc EXCEPT ![w] = "check"]
  /\ task' = [task EXCEPT ![w] = None]
  /\ UNCHANGED <<running_, tasks_, owner>>

NotifyChild(w) ==
  /\ pc[w] = "notify"
  /\ pc' \in Notified([pc EXCEPT ![w] = "finish"])
  /\ UNCHANGED <<running_, tasks_, task, state, owner>>

(* The packaged task stores its value or its exception. *)
Finish(w) ==
  /\ pc[w] = "finish" \/ (pc[w] = "run" /\ child[task[w]] = None)
  /\ \E end \in {"value", "error"} : state' = [state EXCEPT ![task[w]] = end]
  /\ pc' = [pc EXCEPT ![w] = "check"]
  /\ task' = [task EXCEPT ![w] = None]
  /\ UNCHANGED <<running_, tasks_, owner>>

WorkerStep(w) ==
  \/ Block(w) \/ Exit(w) \/ Take(w) \/ SubmitChild(w) \/ ChildRefused(w)
  \/ NotifyChild(w) \/ Finish(w)

-----------------------------------------------------------------------------
(* The destructor.                                                         *)

Stop ==
  /\ owner = "free"
  /\ running_' = FALSE
  /\ owner' = "stopping"
  /\ UNCHANGED <<tasks_, pc, task, state>>

(* Mutant: one worker is woken to see that the pool stops. *)
NotifyAll_One ==
  /\ owner = "stopping"
  /\ owner' = "joining"
  /\ pc' \in Notified(pc)
  /\ UNCHANGED <<running_, tasks_, task, state>>

NotifyAll ==
  /\ owner = "stopping"
  /\ owner' = "joining"
  /\ pc' = [w \in Workers |-> IF pc[w] = "waiting" THEN "check" ELSE pc[w]]
  /\ UNCHANGED <<running_, tasks_, task, state>>

JoinAll ==
  /\ owner = "joining" /\ \A w \in Workers : pc[w] = "exit"
  /\ owner' = "gone"
  /\ UNCHANGED <<running_, tasks_, pc, task, state>>

OwnerStep == Notify \/ NotifyAll \/ JoinAll

Next ==
  \/ \E t \in Roots : Submit(t)
  \/ Stop \/ OwnerStep
  \/ \E w \in Workers : WorkerStep(w) \/ SpuriousWake(w)

(* Threads that can go on do; nobody has to submit or to destroy, and no   *)
(* wakeup comes without a reason.                                          *)
Spec ==
  /\ Init /\ [][Next]_vars
  /\ WF_vars(OwnerStep) /\ \A w \in Workers : WF_vars(WorkerStep(w))

-----------------------------------------------------------------------------
Running(w) == pc[w] \in {"run", "notify", "finish"}

TypeOK ==
  /\ running_ \in BOOLEAN
  /\ tasks_ \in Seq(Tasks)
  /\ pc \in [Workers -> {"check", "waiting", "run", "notify", "finish", "exit"}]
  /\ task \in [Workers -> Tasks \cup {None}]
  /\ state \in [Tasks -> {"new", "accepted", "refused", "value", "error"}]
  /\ owner \in {"free", "notify", "stopping", "joining", "gone"}
  /\ \A w \in Workers : Running(w) <=> task[w] # None

(* A task is run by one worker and once: it is not queued, or queued again, *)
(* while it runs, and its future is set once (worker_loop, packaged_task). *)
RunsOnce ==
  /\ \A v, w \in Workers : Running(v) /\ task[v] = task[w] => v = w
  /\ \A i, j \in DOMAIN tasks_ : tasks_[i] = tasks_[j] => i = j
  /\ \A w \in Workers : Running(w) => task[w] \notin Range(tasks_)

(* When the destructor has returned every task a submit accepted has run:  *)
(* the test ConcurrentSubmitDuringShutdown counts on it.                   *)
DestroyedMeansDone ==
  owner = "gone" => \A t \in Tasks : state[t] # "accepted"

(* No wakeup is lost: an accepted task runs, the destructor called or not, *)
(* and the destructor returns, because every worker learns that the pool   *)
(* stops (notify_one after the unlock, notify_all before the joins).       *)
NoWakeupLost ==
  /\ \A t \in Tasks : state[t] = "accepted" ~> state[t] # "accepted"
  /\ owner = "stopping" ~> owner = "gone"
=============================================================================
