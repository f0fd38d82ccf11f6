---------------------------- MODULE LspDocuments ----------------------------
(***************************************************************************)
(* The documents of the language server (src/lsp/server.cpp): open texts,  *)
(* cached diagnostics and the per-document cancel flags, under calls of    *)
(* did_open, did_change, did_save, did_close and $/cancelRequest from      *)
(* several threads.  The server thread makes its calls one at a time; an   *)
(* embedding program may call the public methods from threads of its own.  *)
(* Steps are the critical sections of mutex_ and cancel_mutex_ and the     *)
(* loads of the atomic flag.                                               *)
(*                                                                         *)
(* A top module is set; diagnostics are told apart by the text they are    *)
(* for and by how the analysis ended.                                      *)
(***************************************************************************)
EXTENDS Naturals, Sequences, FiniteSets, Functions

CONSTANTS
  Threads,
  CallerSets, (* which of them make calls: the server's thread only, more  *)
  Uris,
  Texts,      (* document texts, Empty not among them                      *)
  Empty,      (* the empty text                                            *)
  MaxFlags    (* bound: analyses started in a behaviour                    *)

ASSUME LspDocumentsAssumption ==
  /\ Empty \notin Texts /\ MaxFlags \in Nat
  /\ IsFiniteSet(Threads) /\ CallerSets \subseteq SUBSET Threads

VARIABLES
  callers,             (* the threads that make calls in this behaviour    *)
  open_documents,      (* uri -> text                                      *)
  diagnostics_cache,   (* uri -> diagnostics                               *)
  cancel_flags,        (* uri -> flag                                      *)
  flags,               (* the shared atomics, in the order they are made   *)
  call                 (* thread -> the call it is in                      *)

vars == <<callers, open_documents, diagnostics_cache, cancel_flags, flags, call>>

Diag(text, kind) == [text |-> text, kind |-> kind]
NoDiag == Diag(Empty, "none")

(* told: since this call took its flag, its document was changed or a      *)
(* cancel request came in; it is history for NoSpuriousCancel.             *)
Idle == [pc |-> "idle", uri |-> Empty, text |-> Empty, flag |-> 0,
         told |-> FALSE, diags |-> NoDiag]

Enter(t, pc, u, x) ==
  call' = [call EXCEPT ![t] = [Idle EXCEPT !.pc = pc, !.uri = u, !.text = x]]

At(t, pc) == call[t].pc = pc
Goto(t, pc) == call' = [call EXCEPT ![t].pc = pc]

Put(f, k, v) == [x \in DOMAIN f \cup {k} |-> IF x = k THEN v ELSE f[x]]
Erase(f, k) == Restrict(f, DOMAIN f \ {k})

Init ==
  /\ callers \in CallerSets
  /\ open_documents = <<>> /\ diagnostics_cache = <<>> /\ cancel_flags = <<>>
  /\ flags = <<>>
  /\ call = [t \in Threads |-> Idle]

-----------------------------------------------------------------------------
(* Beginnings of the calls.                                                *)

did_open(t, u, x) ==
  /\ At(t, "idle")
  /\ open_documents' = Put(open_documents, u, x)
  /\ Enter(t, "flag", u, x)
  /\ UNCHANGED <<diagnostics_cache, cancel_flags, flags>>

did_change(t, u, x) ==
  /\ At(t, "idle")
  /\ Enter(t, "signal", u, x)
  /\ UNCHANGED <<open_documents, diagnostics_cache, cancel_flags, flags>>

(* didSave without a text takes the open document's, if it is open. *)
did_save(t, u) ==
  /\ At(t, "idle")
  /\ Enter(t, "signal", u,
           IF u \in DOMAIN open_documents THEN open_documents[u] ELSE Empty)
  /\ UNCHANGED <<open_documents, diagnostics_cache, cancel_flags, flags>>

did_close(t, u) ==
  /\ At(t, "idle")
  /\ cancel_flags' = Erase(cancel_flags, u)
  /\ Enter(t, "erase", u, Empty)
  /\ UNCHANGED <<open_documents, diagnostics_cache, flags>>

(* The calls that hold a flag. *)
Analyzing(t) == call[t].pc \in {"read", "check1", "check2", "check3"}

Tell(u) ==
  [t \in Threads |-> [call[t] EXCEPT !.told = @ \/ (Analyzing(t) /\ call[t].uri = u)]]

(* $/cancelRequest: every flag in the map is set. *)
cancelRequest(t) ==
  /\ At(t, "idle")
  /\ flags' = [f \in DOMAIN flags |-> flags[f] \/ f \in Range(cancel_flags)]
  /\ call' = [s \in Threads |->
       [call[s] EXCEPT !.told = @ \/ Analyzing(s)]]
  /\ UNCHANGED <<open_documents, diagnostics_cache, cancel_flags>>

-----------------------------------------------------------------------------
(* did_change goes on.                                                     *)

Signal(t) ==
  /\ At(t, "signal")
  /\ LET u == call[t].uri IN
     /\ flags' = IF u \in DOMAIN cancel_flags
                 THEN [flags EXCEPT ![cancel_flags[u]] = TRUE] ELSE flags
     /\ call' = [Tell(u) EXCEPT ![t].pc = "store"]
  /\ UNCHANGED <<open_documents, diagnostics_cache, cancel_flags>>

Store(t) ==
  /\ At(t, "store")
  /\ open_documents' = Put(open_documents, call[t].uri, call[t].text)
  /\ Goto(t, "flag")
  /\ UNCHANGED <<diagnostics_cache, cancel_flags, flags>>

-----------------------------------------------------------------------------
(* analyze_document.                                                       *)

FreshFlag == Len(flags) + 1

(* Mutant: a flag that is set already is taken too. *)
TakeFlag_Any(t) ==
  /\ At(t, "flag")
  /\ LET u == call[t].uri
         reuse == u \in DOMAIN cancel_flags
         f == IF reuse THEN cancel_flags[u] ELSE FreshFlag IN
     /\ flags' = IF reuse THEN flags ELSE Append(flags, FALSE)
     /\ cancel_flags' = Put(cancel_flags, u, f)
     /\ call' = [call EXCEPT ![t].pc = "read", ![t].flag = f]
  /\ UNCHANGED <<open_documents, diagnostics_cache>>

TakeFlag(t) ==
  /\ At(t, "flag")
  /\ LET u == call[t].uri
         reuse == u \in DOMAIN cancel_flags /\ ~flags[cancel_flags[u]]
         f == IF reuse THEN cancel_flags[u] ELSE FreshFlag IN
     /\ flags' = IF reuse THEN flags ELSE Append(flags, FALSE)
     /\ cancel_flags' = Put(cancel_flags, u, f)
     /\ call' = [call EXCEPT ![t].pc = "read", ![t].flag = f]
  /\ UNCHANGED <<open_documents, diagnostics_cache>>

Finish(t, d) == call' = [call EXCEPT ![t].pc = "cache", ![t].diags = d]

(* The text to analyse: the argument, else the open document's. *)
ReadText(t) ==
  /\ At(t, "read")
  /\ LET u == call[t].uri
         x == IF call[t].text = Empty /\ u \in DOMAIN open_documents
              THEN open_documents[u] ELSE call[t].text IN
     IF x = Empty THEN Finish(t, Diag(Empty, "error"))
     ELSE call' = [call EXCEPT ![t].pc = "check1", ![t].text = x]
  /\ UNCHANGED <<open_documents, diagnostics_cache, cancel_flags, flags>>

(* check_timeout: the flag is loaded, then the clock read; the deadline may *)
(* have passed whenever it is tested.                                       *)
Stop(t) ==
  /\ call[t].pc \in {"check1", "check2", "check3"}
  /\ \/ flags[call[t].flag] /\ Finish(t, Diag(call[t].text, "cancelled"))
     \/ ~flags[call[t].flag] /\ Finish(t, Diag(call[t].text, "timeout"))
  /\ UNCHANGED <<open_documents, diagnostics_cache, cancel_flags, flags>>

(* The check passes.  Behind check1 the text is written to a temporary     *)
(* file, which may fail, and analyzed; behind check2 a failed analysis     *)
(* returns its errors; behind check3 the findings are returned.            *)
GoOn(t) ==
  /\ call[t].pc \in {"check1", "check2", "check3"}
  /\ ~flags[call[t].flag]
  /\ \/ At(t, "check1") /\ Goto(t, "check2")
     \/ At(t, "check2") /\ Goto(t, "check3")
     \/ ~At(t, "check3") /\ Finish(t, Diag(call[t].text, "error"))
     \/ At(t, "check3") /\ Finish(t, Diag(call[t].text, "findings"))
  /\ UNCHANGED <<open_documents, diagnostics_cache, cancel_flags, flags>>

-----------------------------------------------------------------------------
(* Ends of the calls.  The diagnostics are cached, then published; nothing  *)
(* is read from the cache before they are.                                  *)

CacheAndPublish(t) ==
  /\ At(t, "cache")
  /\ diagnostics_cache' = Put(diagnostics_cache, call[t].uri, call[t].diags)
  /\ call' = [call EXCEPT ![t] = Idle]
  /\ UNCHANGED <<open_documents, cancel_flags, flags>>

(* Mutant: the cache keeps the diagnostics of a closed document. *)
EraseDocument_KeepsCache(t) ==
  /\ At(t, "erase")
  /\ open_documents' = Erase(open_documents, call[t].uri)
  /\ call' = [call EXCEPT ![t] = Idle]
  /\ UNCHANGED <<diagnostics_cache, cancel_flags, flags>>

EraseDocument(t) ==
  /\ At(t, "erase")
  /\ open_documents' = Erase(open_documents, call[t].uri)
  /\ diagnostics_cache' = Erase(diagnostics_cache, call[t].uri)
  /\ call' = [call EXCEPT ![t] = Idle]
  /\ UNCHANGED <<cancel_flags, flags>>

(* The bound counts every analysis that has a flag or is still to take one. *)
MayStart ==
  Len(flags)
    + Cardinality({t \in Threads : call[t].pc \in {"signal", "store", "flag"}})
    < MaxFlags

Begin(t) ==
  \/ MayStart /\ \E u \in Uris, x \in Texts : did_open(t, u, x) \/ did_change(t, u, x)
  \/ MayStart /\ \E u \in Uris : did_save(t, u)
  \/ \E u \in Uris : did_close(t, u)
  \/ cancelRequest(t)

Continue(t) ==
  \/ Signal(t) \/ Store(t) \/ TakeFlag(t) \/ ReadText(t)
  \/ Stop(t) \/ GoOn(t) \/ CacheAndPublish(t) \/ EraseDocument(t)

Next == (\E t \in callers : Begin(t) \/ Continue(t)) /\ UNCHANGED callers

(* A call that has begun goes on; nobody has to make one. *)
Spec == Init /\ [][Next]_vars /\ \A t \in Threads : WF_vars(Continue(t) /\ UNCHANGED callers)

-----------------------------------------------------------------------------
CallType ==
  [pc : {"idle", "signal", "store", "flag", "read", "check1", "check2", "check3",
         "cache", "erase"},
   uri : Uris \cup {Empty}, text : Texts \cup {Empty}, flag : Nat,
   told : BOOLEAN,
   diags : [text : Texts \cup {Empty},
            kind : {"none", "findings", "cancelled", "timeout", "error"}]]

TypeOK ==
  /\ callers \in CallerSets
  /\ open_documents \in UNION {[U -> Texts \cup {Empty}] : U \in SUBSET Uris}
  /\ DOMAIN diagnostics_cache \subseteq Uris
  /\ cancel_flags \in UNION {[U -> DOMAIN flags] : U \in SUBSET Uris}
  /\ flags \in Seq(BOOLEAN)
  /\ call \in [Threads -> CallType]
  /\ \A t \in Threads : Analyzing(t) => call[t].flag \in DOMAIN flags

(* An analysis is cancelled only by a change or a cancel request that came *)
(* after it took its flag, however flags are shared, replaced and erased:  *)
(* what an earlier change set never stops a later analysis (the flag test  *)
(* of analyze_document).                                                   *)
NoSpuriousCancel ==
  \A t \in Threads : Analyzing(t) /\ flags[call[t].flag] => call[t].told

(* Between the calls of the server's thread, where it alone makes them, the *)
(* three maps agree: a document is open, has a flag and has diagnostics,   *)
(* and these are for its text; closing leaves nothing behind (did_close).  *)
MapsAgree ==
  /\ Cardinality(callers) = 1
  /\ \A t \in Threads : At(t, "idle")
  =>
    /\ DOMAIN diagnostics_cache = DOMAIN open_documents
    /\ DOMAIN cancel_flags = DOMAIN open_documents
    /\ \A u \in DOMAIN open_documents :
         diagnostics_cache[u].text = open_documents[u]
=============================================================================
