-------------------------- MODULE ThreadPoolProofs --------------------------
(***************************************************************************)
(* Proofs about ThreadPool for every set of workers and of tasks.          *)
(***************************************************************************)
EXTENDS ThreadPool, TLAPS

(* Where an accepted task is: in the queue or with a worker. *)
Held(t) == \E w \in Workers : Running(w) /\ task[w] = t

PlaceInv ==
  /\ \A i \in DOMAIN tasks_ : state[tasks_[i]] = "accepted"
  /\ \A w \in Workers : Running(w) => state[task[w]] = "accepted"
  /\ \A t \in Tasks : state[t] = "accepted" => t \in Range(tasks_) \/ Held(t)

(* A child is new until its parent's run has submitted it. *)
Submitted(t) ==
  \/ state[t] \in {"value", "error"}
  \/ \E w \in Workers : task[w] = t /\ pc[w] \in {"notify", "finish"}

ChildInv ==
  \A t \in Tasks : child[t] # None /\ state[child[t]] # "new" => Submitted(t)

(* The pool is stopped by the destructor, workers leave when it is stopped *)
(* and the queue empty, and the destructor returns after they have left.   *)
StopInv ==
  /\ running_ <=> owner \in {"free", "notify"}
  /\ \A w \in Workers : pc[w] = "exit" => ~running_ /\ tasks_ = <<>>
  /\ owner = "gone" => \A w \in Workers : pc[w] = "exit"

IInv == TypeOK /\ RunsOnce /\ PlaceInv /\ ChildInv /\ StopInv

-----------------------------------------------------------------------------
(* The queue after an append and after a pop. *)
LEMMA AppendQueue ==
  ASSUME NEW s \in Seq(Tasks), NEW t \in Tasks
  PROVE  /\ Append(s, t) \in Seq(Tasks)
         /\ DOMAIN Append(s, t) = DOMAIN s \cup {Len(s) + 1}
         /\ Len(s) + 1 \notin DOMAIN s
         /\ \A i \in DOMAIN s : Append(s, t)[i] = s[i]
         /\ Append(s, t)[Len(s) + 1] = t
         /\ Range(Append(s, t)) = Range(s) \cup {t}
<1>1. /\ Append(s, t) \in Seq(Tasks)
      /\ DOMAIN Append(s, t) = DOMAIN s \cup {Len(s) + 1}
      /\ Len(s) + 1 \notin DOMAIN s
      /\ \A i \in DOMAIN s : Append(s, t)[i] = s[i]
      /\ Append(s, t)[Len(s) + 1] = t
  OBVIOUS
<1> QED
  BY <1>1 DEF Range

LEMMA TailQueue ==
  ASSUME NEW s \in Seq(Tasks), s # <<>>
  PROVE  /\ Head(s) \in Tasks /\ Tail(s) \in Seq(Tasks)
         /\ 1 \in DOMAIN s /\ s[1] = Head(s)
         /\ \A i \in DOMAIN Tail(s) :
              /\ i + 1 \in DOMAIN s /\ i + 1 # 1
              /\ Tail(s)[i] = s[i + 1]
         /\ \A i, j \in DOMAIN Tail(s) : i + 1 = j + 1 => i = j
         /\ \A x \in Range(s) : x = Head(s) \/ x \in Range(Tail(s))
<1>1. /\ Head(s) \in Tasks /\ Tail(s) \in Seq(Tasks)
      /\ Len(s) \in Nat \ {0} /\ DOMAIN s = 1..Len(s)
      /\ DOMAIN Tail(s) = 1..(Len(s) - 1)
      /\ s[1] = Head(s)
      /\ \A i \in 1..(Len(s) - 1) : Tail(s)[i] = s[i + 1]
  OBVIOUS
<1>2. \A x \in Range(s) : x = Head(s) \/ x \in Range(Tail(s))
  <2> SUFFICES ASSUME NEW i \in DOMAIN s, i # 1
               PROVE  \E j \in DOMAIN Tail(s) : Tail(s)[j] = s[i]
    BY <1>1 DEF Range
  <2>1. i - 1 \in DOMAIN Tail(s) /\ Tail(s)[i - 1] = s[i]
    BY <1>1
  <2> QED
    BY <2>1
<1> QED
  BY <1>1, <1>2

Places == {"check", "waiting", "run", "notify", "finish", "exit"}

(* A wakeup moves blocked workers to their test and nobody else. *)
LEMMA NotifiedMoves ==
  ASSUME NEW f \in [Workers -> Places], NEW g \in Notified(f)
  PROVE  /\ g \in [Workers -> Places]
         /\ \A w \in Workers : g[w] = f[w] \/ (f[w] = "waiting" /\ g[w] = "check")
<1>1. CASE \E w \in Workers : f[w] = "waiting"
  <2>1. PICK v \in Workers : f[v] = "waiting" /\ g = [f EXCEPT ![v] = "check"]
    BY <1>1 DEF Notified
  <2> QED
    BY <2>1 DEF Places
<1>2. CASE ~ \E w \in Workers : f[w] = "waiting"
  BY <1>2 DEF Notified
<1> QED
  BY <1>1, <1>2

LEMMA InitInv == Init => IInv
BY ThreadPoolAssumption
   DEF Init, IInv, TypeOK, Tasks, RunsOnce, PlaceInv, ChildInv, StopInv, Running, Range

-----------------------------------------------------------------------------
(* A task that was new goes into the queue. *)
LEMMA EnqueueInv ==
  ASSUME IInv, NEW t \in Tasks, state[t] = "new", Enqueue(t),
         task' = task,
         running_' = running_,
         \A w \in Workers : Running(w)' <=> Running(w)
  PROVE  /\ tasks_' \in Seq(Tasks)
         /\ state' \in [Tasks -> {"new", "accepted", "refused", "value", "error"}]
         /\ RunsOnce' /\ PlaceInv'
<1> USE AppendQueue DEF IInv, TypeOK, Enqueue
<1>1. t \notin Range(tasks_)
  BY DEF PlaceInv, Range
<1>2. \A w \in Workers : Running(w) => task[w] # t
  BY DEF PlaceInv
<1>3. RunsOnce'
  BY <1>1, <1>2 DEF RunsOnce, Range
<1>4. PlaceInv'
  <2>1. \A u \in Tasks : state'[u] = "accepted" => u = t \/ state[u] = "accepted"
    OBVIOUS
  <2>2. \A u \in Tasks : Held(u)' <=> Held(u)
    BY DEF Held
  <2>3. \A u \in Tasks : state'[u] = "accepted" => u \in Range(tasks_)' \/ Held(u)'
    BY <2>1, <2>2 DEF PlaceInv
  <2>4. \A i \in DOMAIN tasks_' : state'[tasks_'[i]] = "accepted"
    BY DEF PlaceInv
  <2>5. \A w \in Workers : Running(w)' => state'[task'[w]] = "accepted"
    BY <1>2 DEF PlaceInv
  <2> QED
    BY <2>3, <2>4, <2>5 DEF PlaceInv
<1> QED
  BY <1>3, <1>4

(* The owner submits a root. *)
LEMMA SubmitInv ==
  ASSUME IInv, NEW t \in Roots, Submit(t)
  PROVE  IInv'
<1> USE ThreadPoolAssumption DEF IInv, Submit
<1>1. t \in Tasks /\ \A u \in Tasks : child[u] # t
  BY DEF Tasks
<1>2. \A w \in Workers : Running(w)' <=> Running(w)
  BY DEF Running
<1>3. /\ tasks_' \in Seq(Tasks)
      /\ state' \in [Tasks -> {"new", "accepted", "refused", "value", "error"}]
      /\ RunsOnce' /\ PlaceInv'
  BY <1>1, <1>2, EnqueueInv
<1>4. TypeOK'
  BY <1>2, <1>3 DEF TypeOK
<1>5. ChildInv'
  <2> SUFFICES ASSUME NEW u \in Tasks, child[u] # None, state'[child[u]] # "new"
               PROVE  Submitted(u)'
    BY DEF ChildInv
  <2>1. child[u] # t /\ child[u] \in Tasks
    BY <1>1 DEF Tasks
  <2>2. state'[child[u]] = state[child[u]]
    BY <2>1 DEF Enqueue, TypeOK
  <2>3. Submitted(u)
    BY <2>2 DEF ChildInv
  <2> QED
    BY <2>3 DEF Submitted, Enqueue, TypeOK
<1>6. StopInv'
  BY DEF StopInv, Enqueue
<1> QED
  BY <1>3, <1>4, <1>5, <1>6

(* A worker blocks, wakes, leaves, or is told of a task: the tasks stay    *)
(* where they are.                                                         *)
LEMMA QuietInv ==
  ASSUME IInv, UNCHANGED <<running_, tasks_, task, state>>,
         pc' \in [Workers -> Places],
         \A w \in Workers : Running(w)' <=> Running(w),
         \A w \in Workers : pc[w] \in {"notify", "finish"} => pc'[w] \in {"notify", "finish"}
  PROVE  /\ RunsOnce' /\ PlaceInv' /\ ChildInv'
         /\ owner' \in {"free", "notify", "stopping", "joining", "gone"} => TypeOK'
<1>1. RunsOnce'
  BY DEF IInv, RunsOnce
<1>2. PlaceInv'
  BY DEF IInv, PlaceInv, Held
<1>3. ChildInv'
  BY DEF IInv, ChildInv, Submitted
<1>4. owner' \in {"free", "notify", "stopping", "joining", "gone"} => TypeOK'
  BY DEF IInv, TypeOK, Places
<1> QED
  BY <1>1, <1>2, <1>3, <1>4

LEMMA OwnerInv ==
  ASSUME IInv, Stop \/ OwnerStep
  PROVE  IInv'
<1>1. pc \in [Workers -> Places]
  BY DEF IInv, TypeOK, Places
<1>2. /\ UNCHANGED <<running_, tasks_, task, state>> \/ Stop
      /\ pc' \in [Workers -> Places]
      /\ \A w \in Workers :
           pc'[w] = pc[w] \/ (pc[w] = "waiting" /\ pc'[w] = "check")
      /\ owner' \in {"free", "notify", "stopping", "joining", "gone"}
  <2>1. CASE Stop       BY <2>1, <1>1 DEF Stop
  <2>2. CASE Notify     BY <2>2, <1>1, NotifiedMoves DEF Notify
  <2>3. CASE NotifyAll  BY <2>3, <1>1 DEF NotifyAll, Places
  <2>4. CASE JoinAll    BY <2>4, <1>1 DEF JoinAll
  <2> QED BY <2>1, <2>2, <2>3, <2>4 DEF OwnerStep
<1>3. \A w \in Workers :
        /\ Running(w)' <=> Running(w)
        /\ pc[w] \in {"notify", "finish"} => pc'[w] \in {"notify", "finish"}
        /\ pc'[w] = "exit" <=> pc[w] = "exit"
  BY <1>2 DEF Running
<1>4. StopInv'
  <2> USE DEF StopInv, IInv
  <2>1. CASE Stop       BY <2>1 DEF Stop
  <2>2. CASE Notify     BY <2>2, <1>3 DEF Notify
  <2>3. CASE NotifyAll  BY <2>3, <1>3 DEF NotifyAll
  <2>4. CASE JoinAll    BY <2>4 DEF JoinAll
  <2> QED BY <2>1, <2>2, <2>3, <2>4 DEF OwnerStep
<1>5. CASE Stop
  <2> USE <1>5, <1>3 DEF Stop, IInv
  <2>1. RunsOnce'                BY DEF RunsOnce
  <2>2. PlaceInv'                BY DEF PlaceInv, Held
  <2>3. ChildInv'                BY DEF ChildInv, Submitted
  <2>4. TypeOK'                  BY DEF TypeOK
  <2> QED
    BY <2>1, <2>2, <2>3, <2>4, <1>4
<1>6. CASE ~Stop
  BY <1>6, <1>2, <1>3, <1>4, QuietInv DEF IInv
<1> QED
  BY <1>5, <1>6

LEMMA QuietWorkerInv ==
  ASSUME IInv, NEW w \in Workers,
         Block(w) \/ SpuriousWake(w) \/ Exit(w) \/ NotifyChild(w)
  PROVE  IInv'
<1>1. pc \in [Workers -> Places]
  BY DEF IInv, TypeOK, Places
<1>2. /\ UNCHANGED <<running_, tasks_, task, state, owner>>
      /\ pc' \in [Workers -> Places]
      /\ \A v \in Workers :
           /\ Running(v)' <=> Running(v)
           /\ pc[v] \in {"notify", "finish"} => pc'[v] \in {"notify", "finish"}
           /\ pc'[v] = "exit" => pc[v] = "exit" \/ (~running_ /\ tasks_ = <<>>)
           /\ pc[v] = "exit" => pc'[v] = "exit"
  <2>1. CASE Block(w)         BY <2>1, <1>1 DEF Block, Places, Running
  <2>2. CASE SpuriousWake(w)  BY <2>2, <1>1 DEF SpuriousWake, Places, Running
  <2>3. CASE Exit(w)          BY <2>3, <1>1 DEF Exit, Places, Running
  <2>4. CASE NotifyChild(w)
    <3> DEFINE f == [pc EXCEPT ![w] = "finish"]
    <3>1. f \in [Workers -> Places] /\ pc[w] = "notify"
      BY <2>4, <1>1 DEF NotifyChild, Places
    <3>2. /\ pc' \in [Workers -> Places]
          /\ \A v \in Workers : pc'[v] = f[v] \/ (f[v] = "waiting" /\ pc'[v] = "check")
      <4>1. pc' \in Notified(f)
        BY <2>4 DEF NotifyChild
      <4> HIDE DEF f
      <4> QED BY <3>1, <4>1, NotifiedMoves
    <3>3. \A v \in Workers :
            IF v = w THEN pc'[v] = "finish"
            ELSE pc'[v] = pc[v] \/ (pc[v] = "waiting" /\ pc'[v] = "check")
      BY <3>1, <3>2, <1>1
    <3> QED
      BY <2>4, <3>1, <3>2, <3>3 DEF NotifyChild, Running
  <2> QED BY <2>1, <2>2, <2>3, <2>4
<1>3. StopInv'
  BY <1>2 DEF StopInv, IInv
<1>4. owner' \in {"free", "notify", "stopping", "joining", "gone"}
  BY <1>2 DEF IInv, TypeOK
<1> QED
  BY <1>2, <1>3, <1>4, QuietInv DEF IInv

(* A worker takes the first task. *)
LEMMA TakeInv ==
  ASSUME IInv, NEW w \in Workers, Take(w)
  PROVE  IInv'
<1> DEFINE h == Head(tasks_)
<1> USE DEF Take, IInv, TypeOK
<1>1. /\ tasks_ \in Seq(Tasks) /\ tasks_ # <<>>
      /\ h \in Tasks /\ Tail(tasks_) \in Seq(Tasks) /\ h # None
  BY TailQueue, ThreadPoolAssumption
<1>2. /\ 1 \in DOMAIN tasks_ /\ tasks_[1] = h
      /\ \A i \in DOMAIN Tail(tasks_) :
           i + 1 \in DOMAIN tasks_ /\ i + 1 # 1 /\ Tail(tasks_)[i] = tasks_[i + 1]
      /\ \A i, j \in DOMAIN Tail(tasks_) : i + 1 = j + 1 => i = j
      /\ \A x \in Range(tasks_) : x = h \/ x \in Range(Tail(tasks_))
  BY <1>1, TailQueue
<1> HIDE DEF h
<1>3. /\ task' = [task EXCEPT ![w] = h] /\ pc' = [pc EXCEPT ![w] = "run"]
      /\ tasks_' = Tail(tasks_) /\ ~Running(w)
      /\ UNCHANGED <<running_, state, owner>>
  BY DEF h, Running
<1>4. \A v \in Workers : Running(v)' <=> (v = w \/ Running(v))
  BY <1>3 DEF Running
<1>5. TypeOK'
  BY <1>1, <1>3, <1>4
<1>6. state[h] = "accepted"
  BY <1>2 DEF PlaceInv
<1>7. \A v \in Workers : Running(v) => task[v] # h
  BY <1>2 DEF RunsOnce, Range
<1>8. h \notin Range(Tail(tasks_)) /\ Range(Tail(tasks_)) \subseteq Range(tasks_)
  BY <1>2 DEF RunsOnce, Range
<1>9. RunsOnce'
  <2>1. \A u, v \in Workers : Running(u)' /\ task'[u] = task'[v] => u = v
    <3> SUFFICES ASSUME NEW u \in Workers, NEW v \in Workers,
                        Running(u)', task'[u] = task'[v]
                 PROVE  u = v
      OBVIOUS
    <3>1. \A x \in Workers : Running(x) <=> task[x] # None
      OBVIOUS
    <3>2. CASE u = w
      BY <3>2, <3>1, <1>1, <1>3, <1>7
    <3>3. CASE u # w
      BY <3>3, <1>3, <1>4, <1>7 DEF RunsOnce
    <3> QED BY <3>2, <3>3
  <2>2. \A i, j \in DOMAIN tasks_' : tasks_'[i] = tasks_'[j] => i = j
    BY <1>2, <1>3 DEF RunsOnce
  <2>3. \A v \in Workers : Running(v)' => task'[v] \notin Range(tasks_)'
    BY <1>3, <1>4, <1>8 DEF RunsOnce
  <2> QED BY <2>1, <2>2, <2>3 DEF RunsOnce
<1>10. PlaceInv'
  <2>1. \A i \in DOMAIN tasks_' : state'[tasks_'[i]] = "accepted"
    BY <1>2, <1>3 DEF PlaceInv
  <2>2. \A v \in Workers : Running(v)' => state'[task'[v]] = "accepted"
    BY <1>3, <1>4, <1>6 DEF PlaceInv
  <2>3. \A t \in Tasks : Held(t) \/ t = h => Held(t)'
    BY <1>3, <1>4 DEF Held
  <2>4. \A t \in Tasks : state'[t] = "accepted" => t \in Range(tasks_)' \/ Held(t)'
    BY <1>2, <1>3, <2>3 DEF PlaceInv
  <2> QED BY <2>1, <2>2, <2>4 DEF PlaceInv
<1>11. ChildInv'
  <2>1. \A t \in Tasks : Submitted(t) => Submitted(t)'
    BY <1>3 DEF Submitted, Running
  <2> QED BY <2>1, <1>3 DEF ChildInv
<1>12. StopInv'
  BY <1>1, <1>3 DEF StopInv
<1> QED
  BY <1>5, <1>9, <1>10, <1>11, <1>12

(* A running task submits its child. *)
LEMMA SubmitChildInv ==
  ASSUME IInv, NEW w \in Workers, SubmitChild(w)
  PROVE  IInv'
<1> DEFINE p == task[w]
<1> DEFINE c == child[p]
<1> USE DEF IInv, SubmitChild
<1>1. /\ p \in Tasks /\ c \in Tasks /\ Running(w) /\ pc[w] = "run"
      /\ \A u \in Tasks : child[u] = c => u = p
  BY ThreadPoolAssumption DEF TypeOK, Running, Tasks
<1>2. state[c] = "new"
  <2>1. state[p] = "accepted"
    BY <1>1 DEF PlaceInv
  <2>2. ~Submitted(p)
    BY <1>1, <2>1 DEF Submitted, RunsOnce
  <2> QED BY <1>1, <2>2 DEF ChildInv
<1>3. \A v \in Workers : Running(v)' <=> Running(v)
  BY <1>1 DEF Running, TypeOK
<1>4. /\ tasks_' \in Seq(Tasks)
      /\ state' \in [Tasks -> {"new", "accepted", "refused", "value", "error"}]
      /\ RunsOnce' /\ PlaceInv'
  BY <1>1, <1>2, <1>3, EnqueueInv
<1>5. TypeOK'
  BY <1>3, <1>4 DEF TypeOK
<1>6. ChildInv'
  <2> SUFFICES ASSUME NEW u \in Tasks, child[u] # None, state'[child[u]] # "new"
               PROVE  Submitted(u)'
    BY DEF ChildInv
  <2>1. CASE u = p
    BY <2>1, <1>1 DEF Submitted, TypeOK
  <2>2. CASE u # p
    <3>1. child[u] # c /\ child[u] \in Tasks
      BY <2>2, <1>1, ThreadPoolAssumption DEF Tasks
    <3>2. state'[child[u]] = state[child[u]]
      BY <3>1 DEF Enqueue, TypeOK
    <3>3. Submitted(u)
      BY <3>2 DEF ChildInv
    <3>4. state[u] \in {"value", "error"} => state'[u] = state[u]
      BY <1>2 DEF Enqueue, TypeOK
    <3> QED BY <3>3, <3>4 DEF Submitted, TypeOK
  <2> QED BY <2>1, <2>2
<1>7. StopInv'
  BY DEF StopInv, Enqueue, TypeOK
<1> QED
  BY <1>4, <1>5, <1>6, <1>7

(* A task ends: its future is set and its worker free. *)
LEMMA EndInv ==
  ASSUME IInv, NEW w \in Workers, Finish(w) \/ ChildRefused(w)
  PROVE  IInv'
<1> DEFINE p == task[w]
<1> USE DEF IInv
<1>1. /\ p \in Tasks /\ Running(w) /\ state[p] = "accepted"
      /\ UNCHANGED <<running_, tasks_, owner>>
      /\ pc' = [pc EXCEPT ![w] = "check"] /\ task' = [task EXCEPT ![w] = None]
  BY DEF Finish, ChildRefused, TypeOK, Running, PlaceInv
<1>2. ChildRefused(w) =>
        /\ child[p] \in Tasks /\ state[child[p]] = "new" /\ child[p] # p
        /\ state' = [state EXCEPT ![child[p]] = "refused", ![p] = "error"]
  <2> SUFFICES ASSUME ChildRefused(w)
               PROVE  child[p] \in Tasks /\ state[child[p]] = "new" /\ child[p] # p
    BY DEF ChildRefused
  <2>1. ~Submitted(p)
    BY <1>1 DEF Submitted, RunsOnce, ChildRefused, Running, TypeOK
  <2>2. child[p] \in Tasks
    BY <1>1, ThreadPoolAssumption DEF ChildRefused, Tasks
  <2> QED BY <1>1, <2>1, <2>2 DEF ChildInv, ChildRefused
<1>3. /\ state' \in [Tasks -> {"new", "accepted", "refused", "value", "error"}]
      /\ state'[p] \in {"value", "error"}
      /\ \A t \in Tasks :
           \/ t = p
           \/ state'[t] = state[t]
           \/ /\ state[t] = "new" /\ state'[t] = "refused"
              /\ ChildRefused(w) /\ t = child[p]
  <2>1. CASE Finish(w)
    BY <2>1, <1>1 DEF Finish, TypeOK
  <2>2. CASE ChildRefused(w)
    BY <2>2, <1>1, <1>2 DEF TypeOK
  <2> QED BY <2>1, <2>2
<1>4. \A v \in Workers : Running(v)' <=> (v # w /\ Running(v))
  BY <1>1 DEF Running, TypeOK
<1>5. \A v \in Workers : v # w => task'[v] = task[v] /\ pc'[v] = pc[v]
  BY <1>1 DEF TypeOK
<1> HIDE DEF p
<1>6. TypeOK'
  <2>1. task' \in [Workers -> Tasks \cup {None}]
    BY <1>1 DEF TypeOK
  <2>2. pc' \in [Workers -> {"check", "waiting", "run", "notify", "finish", "exit"}]
    BY <1>1 DEF TypeOK
  <2>3. \A v \in Workers : Running(v)' <=> task'[v] # None
    BY <1>1, <1>4, <1>5 DEF TypeOK
  <2> QED BY <1>1, <1>3, <2>1, <2>2, <2>3 DEF TypeOK
<1>7. RunsOnce'
  <2>1. \A u, v \in Workers : Running(u)' /\ task'[u] = task'[v] => u = v
    <3> SUFFICES ASSUME NEW u \in Workers, NEW v \in Workers,
                        Running(u)', task'[u] = task'[v]
                 PROVE  u = v
      OBVIOUS
    <3>1. task'[v] # None
      BY <1>6 DEF TypeOK
    <3>2. u # w /\ v # w
      BY <3>1, <1>4, <1>6 DEF TypeOK
    <3> QED BY <3>2, <1>4, <1>5 DEF RunsOnce
  <2> QED BY <2>1, <1>1, <1>4, <1>5 DEF RunsOnce
<1>8. PlaceInv'
  <2>1. \A i \in DOMAIN tasks_ : tasks_[i] # p /\ tasks_[i] \in Tasks
    BY <1>1 DEF RunsOnce, Range, TypeOK, p
  <2>2. \A i \in DOMAIN tasks_' : state'[tasks_'[i]] = "accepted"
    BY <2>1, <1>1, <1>3 DEF PlaceInv
  <2>3. \A v \in Workers : Running(v)' => state'[task'[v]] = "accepted"
    <3> SUFFICES ASSUME NEW v \in Workers, Running(v)'
                 PROVE  state'[task'[v]] = "accepted"
      OBVIOUS
    <3>1. v # w /\ Running(v) /\ task'[v] = task[v] /\ task[v] \in Tasks
      BY <1>4, <1>5 DEF TypeOK
    <3>2. task[v] # p
      BY <3>1, <1>1 DEF RunsOnce, p
    <3> QED BY <3>1, <3>2, <1>3 DEF PlaceInv
  <2>4. \A t \in Tasks : state'[t] = "accepted" => t \in Range(tasks_)' \/ Held(t)'
    <3> SUFFICES ASSUME NEW t \in Tasks, state'[t] = "accepted"
                 PROVE  t \in Range(tasks_)' \/ Held(t)'
      OBVIOUS
    <3>1. t # p /\ state[t] = "accepted"
      BY <1>3
    <3>2. CASE t \in Range(tasks_)
      BY <3>2, <1>1
    <3>3. CASE Held(t)
      <4>1. PICK v \in Workers : Running(v) /\ task[v] = t
        BY <3>3 DEF Held
      <4> QED BY <4>1, <3>1, <1>4, <1>5 DEF Held, p
    <3> QED BY <3>1, <3>2, <3>3 DEF PlaceInv
  <2> QED BY <2>2, <2>3, <2>4 DEF PlaceInv
<1>9. ChildInv'
  <2> SUFFICES ASSUME NEW u \in Tasks, child[u] # None, state'[child[u]] # "new"
               PROVE  Submitted(u)'
    BY DEF ChildInv
  <2>1. CASE u = p
    BY <2>1, <1>3 DEF Submitted
  <2>2. CASE u # p
    <3>1. child[u] \in Tasks
      BY ThreadPoolAssumption DEF Tasks
    <3>2. state[child[u]] # "new"
      <4>1. CASE child[u] = p
        BY <4>1, <1>1
      <4>2. CASE child[u] # p /\ child[u] # child[p]
        BY <4>2, <3>1, <1>3
      <4>3. CASE child[u] # p /\ child[u] = child[p]
        BY <4>3, <2>2, <1>1, ThreadPoolAssumption
      <4> QED BY <4>1, <4>2, <4>3
    <3>3. Submitted(u)
      BY <3>2 DEF ChildInv
    <3>4. CASE state[u] \in {"value", "error"}
      BY <3>4, <2>2, <1>3 DEF Submitted
    <3>5. CASE \E v \in Workers : task[v] = u /\ pc[v] \in {"notify", "finish"}
      <4>1. PICK v \in Workers : task[v] = u /\ pc[v] \in {"notify", "finish"}
        BY <3>5
      <4> QED BY <4>1, <2>2, <1>5 DEF Submitted, p
    <3> QED BY <3>3, <3>4, <3>5 DEF Submitted
  <2> QED BY <2>1, <2>2
<1>10. StopInv'
  BY <1>1, <1>4, <1>5 DEF StopInv, Running, TypeOK
<1> QED
  BY <1>6, <1>7, <1>8, <1>9, <1>10

LEMMA NextInv == IInv /\ [Next]_vars => IInv'
<1> SUFFICES ASSUME IInv, [Next]_vars PROVE IInv'
  OBVIOUS
<1>1. CASE UNCHANGED vars
  BY <1>1 DEF vars, IInv, TypeOK, RunsOnce, PlaceInv, Held, ChildInv, Submitted,
              StopInv, Running
<1>2. CASE \E t \in Roots : Submit(t)
  BY <1>2, SubmitInv
<1>3. CASE Stop \/ OwnerStep
  BY <1>3, OwnerInv
<1>4. CASE \E w \in Workers : WorkerStep(w) \/ SpuriousWake(w)
  BY <1>4, QuietWorkerInv, TakeInv, SubmitChildInv, EndInv DEF WorkerStep
<1> QED
  BY <1>1, <1>2, <1>3, <1>4 DEF Next

-----------------------------------------------------------------------------
(* The strengthening holds in every reachable state, for any number of     *)
(* workers and tasks.                                                      *)
THEOREM Invariant == Spec => []IInv
<1>1. Init => IInv
  BY InitInv
<1>2. IInv /\ [Next]_vars => IInv'
  BY NextInv
<1> QED
  BY <1>1, <1>2, PTL DEF Spec

(* The queue holds tasks, and a worker holds a task exactly while it runs  *)
(* one (worker_loop).                                                      *)
THEOREM TypeCorrect == Spec => []TypeOK
<1>1. IInv => TypeOK
  BY DEF IInv
<1> QED
  BY <1>1, Invariant, PTL

(* Two workers never run the same task and none is run twice               *)
(* (worker_loop pops under the lock).                                      *)
THEOREM EachTaskOnce == Spec => []RunsOnce
<1>1. IInv => RunsOnce
  BY DEF IInv
<1> QED
  BY <1>1, Invariant, PTL

(* The destructor returns only after every accepted task has run, those    *)
(* that tasks submitted while the pool was stopping included.              *)
THEOREM DrainedBeforeDestroyed == Spec => []DestroyedMeansDone
<1>1. IInv => DestroyedMeansDone
  <2> SUFFICES ASSUME IInv, owner = "gone", NEW t \in Tasks, state[t] = "accepted"
               PROVE  FALSE
    BY DEF DestroyedMeansDone
  <2>1. tasks_ = <<>> /\ \A w \in Workers : pc[w] = "exit"
    BY ThreadPoolAssumption DEF IInv, StopInv
  <2>2. Held(t) \/ t \in Range(tasks_)
    BY DEF IInv, PlaceInv
  <2> QED
    BY <2>1, <2>2 DEF Held, Running, Range
<1> QED
  BY <1>1, Invariant, PTL
=============================================================================
