---------------------------- MODULE LspLifecycle ----------------------------
(***************************************************************************)
(* The threads and sockets of the language server (src/lsp/server.cpp):    *)
(* the owner's start() and stop(), the server thread in server_loop(), and *)
(* peers that connect, send messages, read or stop reading, and hang up.   *)
(*                                                                         *)
(* Descriptors are numbered as the system hands them out and not used      *)
(* again, so a close of a number not in fds is a close of a descriptor the *)
(* server no longer owns.  The 5 s bound of start() and the 1 s bound of   *)
(* select are steps that are always possible.                              *)
(***************************************************************************)
EXTENDS Integers, FiniteSets

CONSTANTS
  Peers,
  Remote,        (* the peers turned away: their address is not loopback   *)
  Stubborn,      (* the peers that may stop reading                        *)
  MaxStarts,     (* bound: calls of start()                                *)
  MaxConnects,   (* bound: connections of a peer                           *)
  MaxBatch       (* bound: messages that one read delivers                 *)

ASSUME LspLifecycleAssumption ==
  /\ IsFiniteSet(Peers) /\ Stubborn \subseteq Peers /\ Remote \subseteq Peers
  /\ MaxStarts \in Nat /\ MaxConnects \in Nat /\ MaxBatch \in Nat

None == 0      (* kInvalidSocket                                           *)

VARIABLES
  running_, bound_port_, socket_fd_, client_fd_,
  socket_mutex_,  (* "free", or "server" while the server thread writes    *)
  fds,            (* descriptors the process has open                      *)
  next_fd,
  pc,             (* of the server thread; "none" before it is started     *)
  listen_fd,      (* locals of server_loop                                 *)
  client,         (* the descriptor accept returned                        *)
  served,         (* the peer behind it                                    *)
  msg,            (* the message being processed                           *)
  batch,          (* messages received and not processed yet               *)
  owner,          (* where the owner's thread is                           *)
  starts,
  peer,           (* peer -> "off", "queued", "up", "gone"                 *)
  reading,        (* peer -> BOOLEAN                                       *)
  connects

ownerVars == <<owner, starts>>
peerVars == <<peer, reading, connects>>
memberVars == <<running_, bound_port_, socket_fd_, client_fd_, socket_mutex_>>
localVars == <<listen_fd, client, served, msg, batch>>
vars == <<memberVars, fds, next_fd, pc, localVars, ownerVars, peerVars>>

Init ==
  /\ running_ = FALSE /\ bound_port_ = FALSE
  /\ socket_fd_ = None /\ client_fd_ = None /\ socket_mutex_ = "free"
  /\ fds = {} /\ next_fd = 1
  /\ pc = "none" /\ listen_fd = None /\ client = None
  /\ served = None /\ msg = "none" /\ batch = 0
  /\ owner = "idle" /\ starts = 0
  /\ peer = [p \in Peers |-> "off"]
  /\ reading = [p \in Peers |-> TRUE]
  /\ connects = [p \in Peers |-> 0]

-----------------------------------------------------------------------------
(* The owner.  start() returns at once when the server is running; it      *)
(* joins a finished thread before it starts the next.                      *)

Gone == pc \in {"none", "done"}      (* the server thread can be joined    *)

Start ==
  /\ owner = "idle" /\ starts < MaxStarts
  /\ starts' = starts + 1
  /\ owner' = IF running_ THEN "idle" ELSE "joinold"
  /\ UNCHANGED <<memberVars, fds, next_fd, pc, localVars, peerVars>>

JoinOld ==
  /\ owner = "joinold" /\ Gone
  /\ owner' = "waitbound"
  /\ running_' = TRUE /\ bound_port_' = FALSE
  /\ pc' = "create" /\ listen_fd' = None /\ client' = None
  /\ served' = None /\ msg' = "none" /\ batch' = 0
  /\ UNCHANGED <<socket_fd_, client_fd_, socket_mutex_, fds, next_fd, starts, peerVars>>

(* startup_cv_.wait_for: notified, or five seconds over. *)
WaitBound ==
  /\ owner = "waitbound"
  /\ owner' = "idle"
  /\ UNCHANGED <<memberVars, fds, next_fd, pc, localVars, starts, peerVars>>

StopBegin ==
  /\ owner = "idle"
  /\ running_' = FALSE
  /\ owner' = "lock"
  /\ UNCHANGED <<bound_port_, socket_fd_, client_fd_, socket_mutex_, fds, next_fd,
                 pc, localVars, starts, peerVars>>

(* Mutant: the lock is kept for the join. *)
StopShutdown_KeepsLock ==
  /\ owner = "lock" /\ socket_mutex_ = "free"
  /\ owner' = "join"
  /\ peer' = [p \in Peers |-> IF p = served /\ client_fd_ # None /\ peer[p] = "up"
                              THEN "gone" ELSE peer[p]]
  /\ socket_mutex_' = "owner"
  /\ socket_fd_' = None /\ client_fd_' = None
  /\ UNCHANGED <<running_, bound_port_, fds, next_fd, pc, localVars,
                 starts, reading, connects>>

(* The shut-down peer's reads and the server's reads both end. *)
StopShutdown ==
  /\ owner = "lock" /\ socket_mutex_ = "free"
  /\ owner' = "join"
  /\ peer' = [p \in Peers |-> IF p = served /\ client_fd_ # None /\ peer[p] = "up"
                              THEN "gone" ELSE peer[p]]
  /\ socket_fd_' = None /\ client_fd_' = None
  /\ UNCHANGED <<running_, bound_port_, socket_mutex_, fds, next_fd, pc, localVars,
                 starts, reading, connects>>

StopJoin ==
  /\ owner = "join" /\ Gone
  /\ owner' = "stopped"
  /\ UNCHANGED <<memberVars, fds, next_fd, pc, localVars, starts, peerVars>>

StopReturn ==
  /\ owner = "stopped"
  /\ owner' = "idle"
  /\ UNCHANGED <<memberVars, fds, next_fd, pc, localVars, starts, peerVars>>

(* wait() only joins. *)
Wait ==
  /\ owner = "idle" /\ ~Gone
  /\ owner' = "wait"
  /\ UNCHANGED <<memberVars, fds, next_fd, pc, localVars, starts, peerVars>>

WaitReturn ==
  /\ owner = "wait" /\ Gone
  /\ owner' = "idle"
  /\ UNCHANGED <<memberVars, fds, next_fd, pc, localVars, starts, peerVars>>

OwnerStep == JoinOld \/ WaitBound \/ StopShutdown \/ StopJoin \/ StopReturn \/ WaitReturn

-----------------------------------------------------------------------------
(* The server thread up to its loop.                                       *)

Move(from, to) == pc = from /\ pc' = to

Create ==
  /\ Move("create", "publish")
  /\ listen_fd' = next_fd /\ next_fd' = next_fd + 1
  /\ fds' = fds \cup {next_fd}
  /\ UNCHANGED <<memberVars, client, served, msg, batch, ownerVars, peerVars>>

CreateFails ==
  /\ Move("create", "done")
  /\ running_' = FALSE
  /\ UNCHANGED <<bound_port_, socket_fd_, client_fd_, socket_mutex_, fds, next_fd,
                 localVars, ownerVars, peerVars>>

Publish ==
  /\ socket_mutex_ = "free"
  /\ Move("publish", "bind")
  /\ socket_fd_' = listen_fd
  /\ UNCHANGED <<running_, bound_port_, client_fd_, socket_mutex_, fds, next_fd,
                 localVars, ownerVars, peerVars>>

(* bind and listen; either may fail, after which the socket is closed. *)
Bind ==
  /\ Move("bind", "loop")
  /\ bound_port_' = TRUE
  /\ UNCHANGED <<running_, socket_fd_, client_fd_, socket_mutex_, fds, next_fd,
                 localVars, ownerVars, peerVars>>

BindFails ==
  /\ Move("bind", "unbound")
  /\ fds' = fds \ {listen_fd}
  /\ UNCHANGED <<memberVars, next_fd, localVars, ownerVars, peerVars>>

Unbound ==
  /\ socket_mutex_ = "free"
  /\ Move("unbound", "done")
  /\ socket_fd_' = None /\ running_' = FALSE
  /\ UNCHANGED <<bound_port_, client_fd_, socket_mutex_, fds, next_fd, localVars,
                 ownerVars, peerVars>>

-----------------------------------------------------------------------------
(* The loop that accepts.                                                  *)

LeaveLoop ==
  /\ ~running_
  /\ Move("loop", "closelisten")
  /\ UNCHANGED <<memberVars, fds, next_fd, localVars, ownerVars, peerVars>>

(* A signal interrupts select: the thread leaves with running_ still set.  *)
SelectFails ==
  /\ Move("loop", "closelisten")
  /\ UNCHANGED <<memberVars, fds, next_fd, localVars, ownerVars, peerVars>>

(* select, then accept; select also returns every second with nothing. *)
Accept(p) ==
  /\ running_
  /\ peer[p] = "queued"
  /\ Move("loop", "admit")
  /\ peer' = [peer EXCEPT ![p] = "up"]
  /\ client' = next_fd /\ next_fd' = next_fd + 1
  /\ fds' = fds \cup {next_fd}
  /\ served' = p
  /\ UNCHANGED <<memberVars, listen_fd, msg, batch, ownerVars, reading, connects>>

Drop(q) == peer' = [peer EXCEPT ![q] = IF @ = "up" THEN "gone" ELSE @]

(* Mutant: the refused descriptor is not closed. *)
Admit_Leaks ==
  /\ socket_mutex_ = "free"
  /\ Move("admit", "loop")
  /\ UNCHANGED <<memberVars, fds, next_fd, localVars, ownerVars, peerVars>>

(* Loopback only, and one client at a time: the check and the set are one  *)
(* step under socket_mutex_.                                               *)
Admit ==
  /\ socket_mutex_ = "free"
  /\ pc = "admit"
  /\ IF served \in Remote \/ client_fd_ # None
     THEN /\ pc' = "loop" /\ fds' = fds \ {client} /\ Drop(served)
          /\ UNCHANGED client_fd_
     ELSE /\ pc' = "serve" /\ client_fd_' = client
          /\ UNCHANGED <<fds, peer>>
  /\ UNCHANGED <<running_, bound_port_, socket_fd_, socket_mutex_, next_fd, localVars,
                 ownerVars, reading, connects>>

-----------------------------------------------------------------------------
(* The loop that serves one client.                                        *)

(* What the connection behind client delivers: nothing but an error once   *)
(* the descriptor is closed, end of file once the peer is gone.            *)
Alive == client \in fds /\ peer[served] = "up"

LeaveServe ==
  /\ ~running_ \/ ~Alive
  /\ Move("serve", "close")
  /\ UNCHANGED <<memberVars, fds, next_fd, localVars, ownerVars, peerVars>>

(* One read delivers up to MaxBatch messages; "toolarge" is a buffer over  *)
(* its limit.                                                              *)
Receive(n, large) ==
  /\ running_ /\ Alive
  /\ Move("serve", IF large THEN "refuse" ELSE "parse")
  /\ batch' = n
  /\ msg' = IF large THEN "toolarge" ELSE "none"
  /\ UNCHANGED <<memberVars, fds, next_fd, listen_fd, client, served, ownerVars, peerVars>>

(* The messages of a batch are processed without a look at running_: a     *)
(* notification that publishes diagnostics, a request that does, one that  *)
(* only answers, exit, or a malformed header, after which the rest of the  *)
(* buffer is thrown away.                                                  *)
Messages == {"open", "openreq", "request", "malformed", "exit"}

ParseNone ==
  /\ batch = 0
  /\ Move("parse", "serve")
  /\ UNCHANGED <<memberVars, fds, next_fd, localVars, ownerVars, peerVars>>

Parse(m) ==
  /\ pc = "parse" /\ batch > 0
  /\ msg' = m
  /\ batch' = IF m = "malformed" THEN 0 ELSE batch - 1
  /\ pc' = CASE m \in {"open", "openreq"} -> "notify"
             [] m = "request" -> "reply"
             [] m = "malformed" -> "refuse"
             [] m = "exit" -> "parse"
  /\ running_' = (running_ /\ m # "exit")
  /\ UNCHANGED <<bound_port_, socket_fd_, client_fd_, socket_mutex_, fds, next_fd,
                 listen_fd, client, served, ownerVars, peerVars>>

(* A write is over when the peer reads it, or fails when the connection is *)
(* gone; while a peer that is up does not read, it does neither.           *)
WriteOk == Alive /\ reading[served]
WriteFails == ~Alive

(* Written without socket_mutex_, its result unread. *)
Refuse ==
  /\ Move("refuse", IF msg = "toolarge" THEN "close" ELSE "serve")
  /\ WriteOk \/ WriteFails
  /\ UNCHANGED <<memberVars, fds, next_fd, localVars, ownerVars, peerVars>>

Lock(from, to) ==
  /\ socket_mutex_ = "free"
  /\ Move(from, to)
  /\ socket_mutex_' = "server"
  /\ UNCHANGED <<running_, bound_port_, socket_fd_, client_fd_, fds, next_fd,
                 localVars, ownerVars, peerVars>>

(* send_diagnostics_notification; a request is answered afterwards. *)
NotifyLock == Lock("notify", "notifying")
AfterNotify == IF msg = "openreq" THEN "reply" ELSE "parse"

Notified ==
  /\ pc = "notifying"
  /\ client_fd_ = None \/ WriteOk
  /\ pc' = AfterNotify
  /\ socket_mutex_' = "free"
  /\ UNCHANGED <<running_, bound_port_, socket_fd_, client_fd_, fds, next_fd,
                 localVars, ownerVars, peerVars>>

(* Mutant: a dead peer keeps the lock taken. *)
NotifyFails_KeepsLock ==
  /\ pc = "notifying"
  /\ client_fd_ # None /\ WriteFails
  /\ pc' = AfterNotify
  /\ client_fd_' = None
  /\ fds' = fds \ {client_fd_}
  /\ UNCHANGED <<running_, bound_port_, socket_fd_, socket_mutex_, next_fd,
                 localVars, ownerVars, peerVars>>

NotifyFails ==
  /\ pc = "notifying"
  /\ client_fd_ # None /\ WriteFails
  /\ pc' = AfterNotify
  /\ socket_mutex_' = "free"
  /\ client_fd_' = None
  /\ fds' = fds \ {client_fd_}
  /\ UNCHANGED <<running_, bound_port_, socket_fd_, next_fd, localVars, ownerVars,
                 peerVars>>

ReplyLock == Lock("reply", "replying")

(* A failed write leaves the batch. *)
Replied ==
  /\ pc = "replying"
  /\ \/ WriteOk /\ pc' = "parse"
     \/ WriteFails /\ pc' = "serve"
  /\ socket_mutex_' = "free"
  /\ UNCHANGED <<running_, bound_port_, socket_fd_, client_fd_, fds, next_fd,
                 localVars, ownerVars, peerVars>>

CloseClient ==
  /\ Move("close", "clear")
  /\ fds' = fds \ {client}
  /\ Drop(served)
  /\ UNCHANGED <<memberVars, next_fd, localVars, ownerVars, reading, connects>>

ClearClient ==
  /\ socket_mutex_ = "free"
  /\ Move("clear", "loop")
  /\ client_fd_' = IF client_fd_ = client THEN None ELSE client_fd_
  /\ UNCHANGED <<running_, bound_port_, socket_fd_, socket_mutex_, fds, next_fd,
                 localVars, ownerVars, peerVars>>

CloseListen ==
  /\ Move("closelisten", "clearlisten")
  /\ fds' = fds \ {listen_fd}
  /\ peer' = [p \in Peers |-> IF peer[p] = "queued" THEN "gone" ELSE peer[p]]
  /\ UNCHANGED <<memberVars, next_fd, localVars, ownerVars, reading, connects>>

ClearListen ==
  /\ socket_mutex_ = "free"
  /\ Move("clearlisten", "done")
  /\ socket_fd_' = IF socket_fd_ = listen_fd THEN None ELSE socket_fd_
  /\ UNCHANGED <<running_, bound_port_, client_fd_, socket_mutex_, fds, next_fd,
                 localVars, ownerVars, peerVars>>

ServerStep ==
  \/ Create \/ CreateFails \/ Publish \/ Bind \/ BindFails \/ Unbound
  \/ LeaveLoop \/ (\E p \in Peers : Accept(p)) \/ Admit
  \/ LeaveServe \/ ParseNone \/ (\E m \in Messages : Parse(m)) \/ Refuse
  \/ NotifyLock \/ Notified \/ NotifyFails \/ ReplyLock \/ Replied
  \/ CloseClient \/ ClearClient \/ CloseListen \/ ClearListen

-----------------------------------------------------------------------------
(* The peers. *)

Connect(p) ==
  /\ peer[p] \in {"off", "gone"} /\ connects[p] < MaxConnects
  /\ bound_port_ /\ listen_fd \in fds
  /\ p # served \/ pc = "loop"
  /\ peer' = [peer EXCEPT ![p] = "queued"]
  /\ reading' = [reading EXCEPT ![p] = TRUE]
  /\ connects' = [connects EXCEPT ![p] = @ + 1]
  /\ UNCHANGED <<memberVars, fds, next_fd, pc, localVars, ownerVars>>

HangUp(p) ==
  /\ peer[p] = "up"
  /\ peer' = [peer EXCEPT ![p] = "gone"]
  /\ UNCHANGED <<memberVars, fds, next_fd, pc, localVars, ownerVars, reading, connects>>

StopReading(p) ==
  /\ p \in Stubborn /\ peer[p] = "up" /\ reading[p]
  /\ reading' = [reading EXCEPT ![p] = FALSE]
  /\ UNCHANGED <<memberVars, fds, next_fd, pc, localVars, ownerVars, peer, connects>>

Next ==
  \/ Start \/ StopBegin \/ Wait \/ OwnerStep \/ ServerStep \/ SelectFails
  \/ \E n \in 1..MaxBatch, large \in BOOLEAN : Receive(n, large)
  \/ \E p \in Peers : Connect(p) \/ HangUp(p) \/ StopReading(p)

(* Both threads go on when they can; nobody has to call start or stop, to  *)
(* connect, to send a message or to hang up, and select need not fail.     *)
Spec == Init /\ [][Next]_vars /\ WF_vars(OwnerStep) /\ WF_vars(ServerStep)

-----------------------------------------------------------------------------
(* The registered client is the one the server thread serves, so that      *)
(* stop() and the notifications shut down and write to that connection;    *)
(* and when stop() has returned every descriptor the server opened is      *)
(* closed and the members hold none, whatever step of accept, admission,   *)
(* service or failure stop() fell into (server_loop's cleanup).            *)
DescriptorsAccounted ==
  /\ client_fd_ # None => client_fd_ = client /\ pc \notin {"loop", "admit", "done", "none"}
  /\ owner = "stopped" => fds = {} /\ socket_fd_ = None /\ client_fd_ = None

(* A peer that is connected and has stopped reading. *)
Unread == \E p \in Peers : peer[p] = "up" /\ ~reading[p]

(* stop() returns, even when it falls into a write or a failed start: the  *)
(* join does not wait for a thread that nobody wakes.  What can keep it is *)
(* a peer that stays connected and never reads again (stop).               *)
StopReturnsWhenRead == owner \in {"lock", "join"} ~> (owner = "stopped" \/ []Unread)

(* The comment of stop(): "Shutdown to unblock blocking reads/joins": it   *)
(* returns whatever the peers do.                                          *)
StopReturns == owner \in {"lock", "join"} ~> owner = "stopped"

(* A client that hung up is let go and the server accepts again, or ends   *)
(* ("One dead peer must not stop the server for everyone: drop this client *)
(* and keep accepting").                                                   *)
DeadPeerReleased ==
  \A p \in Peers :
    (served = p /\ peer[p] = "gone" /\ pc = "notifying") ~> pc \in {"loop", "done"}
=============================================================================
