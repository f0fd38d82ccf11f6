------------------------- MODULE LspLifecycleProofs -------------------------
(***************************************************************************)
(* Proofs about LspLifecycle for every set of peers and every bound.       *)
(***************************************************************************)
EXTENDS LspLifecycle, TLAPS

(* Where the server thread is, by the descriptors it has open: none, the   *)
(* listening one, or that and the connection it accepted.                  *)
Closed == {"none", "create", "unbound", "clearlisten", "done"}
Listening == {"publish", "bind", "loop", "clear", "closelisten"}
Answering == {"serve", "parse", "refuse", "notify", "notifying", "reply", "replying"}
Connected == Answering \cup {"admit", "close"}
Pc == Closed \cup Listening \cup Connected

Owner == {"idle", "joinold", "waitbound", "lock", "join", "stopped", "wait"}

TypeOK ==
  /\ running_ \in BOOLEAN /\ bound_port_ \in BOOLEAN
  /\ socket_fd_ \in Nat /\ client_fd_ \in Nat
  /\ socket_mutex_ \in {"free", "server"}
  /\ fds \in SUBSET Nat /\ next_fd \in Nat \ {None}
  /\ pc \in Pc
  /\ listen_fd \in Nat /\ client \in Nat
  /\ served \in Peers \cup {None}
  /\ msg \in Messages \cup {"none", "toolarge"} /\ batch \in Nat
  /\ owner \in Owner /\ starts \in Nat
  /\ peer \in [Peers -> {"off", "queued", "up", "gone"}]
  /\ reading \in [Peers -> BOOLEAN]
  /\ connects \in [Peers -> Nat]

(* The lock is held by the server thread exactly while it writes under it. *)
LockInv == socket_mutex_ = "server" <=> pc \in {"notifying", "replying"}

(* What is open follows from where the thread is; a connection that a      *)
(* failed notification closed is not open any more.                        *)
OpenInv ==
  /\ listen_fd < next_fd /\ client < next_fd
  /\ pc \in Closed => fds = {}
  /\ pc \in Listening => fds = {listen_fd}
  /\ pc \in Connected => fds \in {{listen_fd}, {listen_fd, client}}
  /\ pc \in Listening \cup Connected => listen_fd # None
  /\ pc \in Connected \cup {"clear"} =>
       client # None /\ client # listen_fd /\ served \in Peers
  /\ pc = "admit" => client \in fds

(* What the members name is what the thread has: the listening socket from *)
(* publish to clearlisten, the client from admission to clear.             *)
MemberInv ==
  /\ socket_fd_ \in {None, listen_fd}
  /\ pc \in {"none", "create", "publish", "done"} => socket_fd_ = None
  /\ client_fd_ \in {None, client}
  /\ pc \notin Answering \cup {"close", "clear"} => client_fd_ = None
  /\ client_fd_ # None /\ pc # "clear" => client_fd_ \in fds

(* stop() returns when the thread is gone. *)
OwnerInv == owner = "stopped" => Gone

IInv == TypeOK /\ LockInv /\ OpenInv /\ MemberInv /\ OwnerInv

-----------------------------------------------------------------------------
LEMMA InitInv == Init => IInv
<1> SUFFICES ASSUME Init PROVE IInv
  OBVIOUS
<1> USE DEF Init, None, Closed, Listening, Connected, Answering
<1>1. TypeOK
  <2>1. running_ \in BOOLEAN /\ bound_port_ \in BOOLEAN /\ socket_mutex_ \in {"free", "server"}
    OBVIOUS
  <2>2. /\ socket_fd_ \in Nat /\ client_fd_ \in Nat /\ listen_fd \in Nat /\ client \in Nat
        /\ fds \in SUBSET Nat /\ next_fd \in Nat \ {None} /\ pc \in Pc
    BY DEF Pc
  <2>3. /\ served \in Peers \cup {None} /\ msg \in Messages \cup {"none", "toolarge"}
        /\ batch \in Nat /\ owner \in Owner /\ starts \in Nat
        /\ peer \in [Peers -> {"off", "queued", "up", "gone"}]
        /\ reading \in [Peers -> BOOLEAN] /\ connects \in [Peers -> Nat]
    BY DEF Owner
  <2> QED
    BY <2>1, <2>2, <2>3 DEF TypeOK
<1>2. LockInv /\ OwnerInv
  BY DEF LockInv, OwnerInv
<1>3. OpenInv
  BY DEF OpenInv
<1>4. MemberInv
  BY DEF MemberInv
<1> QED
  BY <1>1, <1>2, <1>3, <1>4 DEF IInv

(* The owner's steps.  Only JoinOld moves the server thread, from where    *)
(* nothing is open and no member is set, to its start.                     *)
LEMMA JoinOldInv ==
  ASSUME IInv, JoinOld
  PROVE  IInv'
<1> USE DEF IInv, None, Closed, Listening, Connected, Answering, Gone, Pc, JoinOld
<1>1. TypeOK'
  BY DEF TypeOK, Owner, peerVars
<1>2. LockInv'
  BY DEF LockInv, TypeOK
<1>3. OpenInv'
  BY DEF OpenInv, TypeOK
<1>4. MemberInv'
  BY DEF MemberInv, TypeOK, OpenInv
<1>5. OwnerInv'
  BY DEF OwnerInv
<1> QED
  BY <1>1, <1>2, <1>3, <1>4, <1>5

LEMMA OwnerInvStep ==
  ASSUME IInv, Start \/ StopBegin \/ Wait \/ OwnerStep
  PROVE  IInv'
<1> USE DEF IInv, TypeOK, LockInv, OpenInv, MemberInv, OwnerInv, Gone, Pc, Owner, Closed,
            Listening, Connected, Answering, None, memberVars, localVars, ownerVars, peerVars
<1>1. CASE Start
  BY <1>1 DEF Start
<1>2. CASE StopBegin
  <2>1. TypeOK' /\ OwnerInv'
    BY <1>2 DEF StopBegin
  <2>2. LockInv' /\ OpenInv' /\ MemberInv'
    BY <1>2 DEF StopBegin
  <2> QED
    BY <2>1, <2>2
<1>3. CASE Wait
  BY <1>3 DEF Wait
<1>4. CASE JoinOld
  BY <1>4, JoinOldInv
<1>5. CASE WaitBound
  BY <1>5 DEF WaitBound
<1>6. CASE StopShutdown
  BY <1>6 DEF StopShutdown
<1>7. CASE StopJoin
  BY <1>7 DEF StopJoin
<1>8. CASE StopReturn
  BY <1>8 DEF StopReturn
<1>9. CASE WaitReturn
  BY <1>9 DEF WaitReturn
<1> QED
  BY <1>1, <1>2, <1>3, <1>4, <1>5, <1>6, <1>7, <1>8, <1>9 DEF OwnerStep

(* The server thread opens its socket, publishes it and listens, or closes *)
(* it again.                                                               *)
LEMMA CreateInv ==
  ASSUME IInv, Create
  PROVE  IInv'
<1> USE DEF IInv, None, Closed, Listening, Connected, Answering, Gone, Pc, Create, Move,
            memberVars, ownerVars, peerVars
<1>1. TypeOK'
  BY DEF TypeOK, Owner
<1>2. LockInv'
  BY DEF LockInv, TypeOK
<1>3. OpenInv'
  <2>1. fds = {} /\ listen_fd' = next_fd /\ next_fd # None
    BY DEF OpenInv, TypeOK
  <2>2. fds' = {listen_fd'}
    BY <2>1
  <2>3. listen_fd' < next_fd' /\ client' < next_fd'
    BY DEF OpenInv, TypeOK
  <2> QED
    BY <2>1, <2>2, <2>3 DEF OpenInv
<1>4. MemberInv'
  BY DEF MemberInv, TypeOK, OpenInv
<1>5. OwnerInv'
  BY DEF OwnerInv
<1> QED
  BY <1>1, <1>2, <1>3, <1>4, <1>5

LEMMA SocketInvStep ==
  ASSUME IInv,
         \/ Create \/ CreateFails \/ Publish \/ Bind \/ BindFails \/ Unbound
         \/ LeaveLoop \/ SelectFails \/ CloseListen \/ ClearListen
  PROVE  IInv'
<1> USE DEF IInv, TypeOK, LockInv, OpenInv, MemberInv, OwnerInv, Gone, Pc, Owner, Closed,
            Listening, Connected, Answering, None, memberVars, localVars, ownerVars, peerVars
<1>1. CASE Create
  BY <1>1, CreateInv
<1>2. CASE CreateFails
  BY <1>2 DEF CreateFails, Move
<1>3. CASE Publish
  BY <1>3 DEF Publish, Move
<1>4. CASE Bind
  BY <1>4 DEF Bind, Move
<1>5. CASE BindFails
  BY <1>5 DEF BindFails, Move
<1>6. CASE Unbound
  BY <1>6 DEF Unbound, Move
<1>7. CASE LeaveLoop
  BY <1>7 DEF LeaveLoop, Move
<1>8. CASE SelectFails
  BY <1>8 DEF SelectFails, Move
<1>9. CASE CloseListen
  BY <1>9 DEF CloseListen, Move
<1>10. CASE ClearListen
  BY <1>10 DEF ClearListen, Move
<1> QED
  BY <1>1, <1>2, <1>3, <1>4, <1>5, <1>6, <1>7, <1>8, <1>9, <1>10

(* A connection is accepted, admitted or turned away, and let go.          *)
LEMMA ConnectionInvStep ==
  ASSUME IInv,
         (\E p \in Peers : Accept(p)) \/ Admit \/ LeaveServe \/ CloseClient \/ ClearClient
  PROVE  IInv'
<1> USE DEF IInv, TypeOK, LockInv, OpenInv, MemberInv, OwnerInv, Gone, Pc, Owner, Closed,
            Listening, Connected, Answering, None, memberVars, localVars, ownerVars, peerVars
<1>1. CASE \E p \in Peers : Accept(p)
  BY <1>1 DEF Accept, Move
<1>2. CASE Admit
  BY <1>2 DEF Admit, Drop
<1>3. CASE LeaveServe
  BY <1>3 DEF LeaveServe, Move
<1>4. CASE CloseClient
  BY <1>4 DEF CloseClient, Move, Drop
<1>5. CASE ClearClient
  BY <1>5 DEF ClearClient, Move
<1> QED
  BY <1>1, <1>2, <1>3, <1>4, <1>5

(* Messages are received, processed and answered; a failed notification    *)
(* closes the connection and clears the member together.                   *)
LEMMA MessageInvStep ==
  ASSUME IInv,
         \/ \E n \in 1..MaxBatch, large \in BOOLEAN : Receive(n, large)
         \/ ParseNone \/ (\E m \in Messages : Parse(m)) \/ Refuse
         \/ NotifyLock \/ Notified \/ NotifyFails \/ ReplyLock \/ Replied
  PROVE  IInv'
<1> USE DEF IInv, TypeOK, LockInv, OpenInv, MemberInv, OwnerInv, Gone, Pc, Owner, Closed,
            Listening, Connected, Answering, None, memberVars, localVars, ownerVars, peerVars
<1>1. CASE \E n \in 1..MaxBatch, large \in BOOLEAN : Receive(n, large)
  BY <1>1, LspLifecycleAssumption DEF Receive, Move, Alive
<1>2. CASE ParseNone
  BY <1>2 DEF ParseNone, Move
<1>3. CASE \E m \in Messages : Parse(m)
  BY <1>3 DEF Parse, Messages
<1>4. CASE Refuse
  BY <1>4 DEF Refuse, Move
<1>5. CASE NotifyLock
  BY <1>5 DEF NotifyLock, Lock, Move
<1>6. CASE Notified
  BY <1>6 DEF Notified, AfterNotify
<1>7. CASE NotifyFails
  BY <1>7 DEF NotifyFails, AfterNotify
<1>8. CASE ReplyLock
  BY <1>8 DEF ReplyLock, Lock, Move
<1>9. CASE Replied
  BY <1>9 DEF Replied
<1> QED
  BY <1>1, <1>2, <1>3, <1>4, <1>5, <1>6, <1>7, <1>8, <1>9

LEMMA PeerInvStep ==
  ASSUME IInv, NEW p \in Peers, Connect(p) \/ HangUp(p) \/ StopReading(p)
  PROVE  IInv'
<1> USE DEF IInv, TypeOK, LockInv, OpenInv, MemberInv, OwnerInv, Gone, Pc, Owner, Closed,
            Listening, Connected, Answering, None, memberVars, localVars, ownerVars, peerVars
<1>1. CASE Connect(p)
  BY <1>1 DEF Connect
<1>2. CASE HangUp(p)
  BY <1>2 DEF HangUp
<1>3. CASE StopReading(p)
  BY <1>3 DEF StopReading
<1> QED
  BY <1>1, <1>2, <1>3

LEMMA StepInv == IInv /\ [Next]_vars => IInv'
<1> SUFFICES ASSUME IInv, [Next]_vars PROVE IInv'
  OBVIOUS
<1>1. CASE Start \/ StopBegin \/ Wait \/ OwnerStep
  BY <1>1, OwnerInvStep
<1>2. CASE ServerStep \/ SelectFails
  BY <1>2, SocketInvStep, ConnectionInvStep, MessageInvStep DEF ServerStep
<1>3. CASE \E n \in 1..MaxBatch, large \in BOOLEAN : Receive(n, large)
  BY <1>3, MessageInvStep
<1>4. CASE \E p \in Peers : Connect(p) \/ HangUp(p) \/ StopReading(p)
  BY <1>4, PeerInvStep
<1>5. CASE UNCHANGED vars
  BY <1>5 DEF vars, memberVars, localVars, ownerVars, peerVars, IInv, TypeOK, LockInv,
              OpenInv, MemberInv, OwnerInv, Gone
<1> QED
  BY <1>1, <1>2, <1>3, <1>4, <1>5 DEF Next

-----------------------------------------------------------------------------
(* In every reachable state the server's descriptors, members and lock are *)
(* where its thread is: what the members name is open except between close *)
(* and clear, and nothing is open once the thread can be joined.           *)
THEOREM Invariance == Spec => []IInv
<1>1. Init => IInv
  BY InitInv
<1>2. IInv /\ [Next]_vars => IInv'
  BY StepInv
<1> QED
  BY <1>1, <1>2, PTL DEF Spec

(* The members hold a flag, a descriptor or none, the lock is free or the  *)
(* server thread's, and the thread is at a point of server_loop            *)
(* (server_loop in server.cpp).                                            *)
THEOREM TypeCorrect == Spec => []TypeOK
<1>1. IInv => TypeOK
  BY DEF IInv
<1> QED
  BY <1>1, Invariance, PTL

(* The registered client is the one being served, and when stop() has      *)
(* returned no descriptor is left open and no member names one, wherever   *)
(* in accept, admission, service or a failed start it fell (server_loop    *)
(* and stop), for every set of peers and any number of starts.             *)
THEOREM StopLeavesNothingOpen == Spec => []DescriptorsAccounted
<1>1. IInv => DescriptorsAccounted
  BY DEF IInv, TypeOK, OpenInv, MemberInv, OwnerInv, Gone, Closed, Listening, Connected,
         Answering, Pc, None, DescriptorsAccounted
<1> QED
  BY <1>1, Invariance, PTL
=============================================================================
