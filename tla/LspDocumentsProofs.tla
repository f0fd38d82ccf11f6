------------------------- MODULE LspDocumentsProofs -------------------------
(***************************************************************************)
(* Proofs about LspDocuments for every set of threads, documents, texts.   *)
(***************************************************************************)
EXTENDS LspDocuments, SequenceTheorems, FiniteSetTheorems, TLAPS

(* A flag in the map serves one document: two documents have different     *)
(* flags, and an analysis that holds a flag of the map is of its document. *)
FlagInv ==
  /\ \A u, v \in DOMAIN cancel_flags : cancel_flags[u] = cancel_flags[v] => u = v
  /\ \A t \in Threads, u \in DOMAIN cancel_flags :
       Analyzing(t) /\ call[t].flag = cancel_flags[u] => call[t].uri = u

(* A call that has begun is of a document. *)
UriInv == \A t \in Threads : At(t, "idle") \/ call[t].uri \in Uris

IInv == TypeOK /\ UriInv /\ FlagInv /\ NoSpuriousCancel

Documents == UNION {[U -> Texts \cup {Empty}] : U \in SUBSET Uris}

AnalyzingPc == {"read", "check1", "check2", "check3"}

-----------------------------------------------------------------------------
(* Put adds one key, Erase drops one; the other values stay. *)
LEMMA PutType ==
  ASSUME NEW K, NEW R, NEW S \in SUBSET K, NEW f \in [S -> R], NEW k \in K, NEW v \in R
  PROVE  /\ Put(f, k, v) \in [S \cup {k} -> R]
         /\ DOMAIN Put(f, k, v) = S \cup {k}
         /\ Put(f, k, v)[k] = v
         /\ \A x \in S : x # k => Put(f, k, v)[x] = f[x]
BY DEF Put

LEMMA EraseType ==
  ASSUME NEW R, NEW S, NEW f \in [S -> R], NEW k
  PROVE  /\ Erase(f, k) \in [S \ {k} -> R]
         /\ DOMAIN Erase(f, k) = S \ {k}
         /\ \A x \in S \ {k} : Erase(f, k)[x] = f[x]
BY DEF Erase, Restrict

(* The document texts stay texts of documents under Put and Erase. *)
LEMMA PutDocuments ==
  ASSUME NEW f \in Documents, NEW u \in Uris, NEW x \in Texts \cup {Empty}
  PROVE  Put(f, u, x) \in Documents
<1>1. PICK U \in SUBSET Uris : f \in [U -> Texts \cup {Empty}]
  BY DEF Documents
<1>2. Put(f, u, x) \in [U \cup {u} -> Texts \cup {Empty}]
  BY <1>1, PutType
<1>3. U \cup {u} \in SUBSET Uris
  OBVIOUS
<1> QED
  BY <1>2, <1>3 DEF Documents

LEMMA EraseDocuments ==
  ASSUME NEW f \in Documents, NEW u
  PROVE  Erase(f, u) \in Documents
<1>1. PICK U \in SUBSET Uris : f \in [U -> Texts \cup {Empty}]
  BY DEF Documents
<1>2. Erase(f, u) \in [U \ {u} -> Texts \cup {Empty}]
  BY <1>1, EraseType
<1>3. U \ {u} \in SUBSET Uris
  OBVIOUS
<1> QED
  BY <1>2, <1>3 DEF Documents

LEMMA IdleType == Idle \in CallType /\ Idle.pc = "idle"
BY DEF Idle, CallType, NoDiag, Diag

-----------------------------------------------------------------------------
LEMMA InitInv == Init => IInv
<1> SUFFICES ASSUME Init PROVE IInv
  OBVIOUS
<1>1. call \in [Threads -> CallType] /\ \A t \in Threads : At(t, "idle")
  BY IdleType DEF Init, At
<1>2. \A t \in Threads : ~Analyzing(t)
  BY <1>1 DEF At, Analyzing
<1>3. ASSUME NEW R PROVE <<>> \in [{} -> R]
  <2>1. <<>> \in [1 .. Len(<<>>) -> R] /\ Len(<<>>) = 0
    BY EmptySeq, LenProperties
  <2>2. 1 .. 0 = {}
    OBVIOUS
  <2> QED
    BY <2>1, <2>2
<1>4. {} \in SUBSET Uris /\ DOMAIN <<>> = {}
  OBVIOUS
<1>5. open_documents \in Documents
  BY <1>3, <1>4 DEF Init, Documents
<1>6. cancel_flags \in UNION {[U -> DOMAIN flags] : U \in SUBSET Uris}
  BY <1>3, <1>4 DEF Init
<1>7. flags \in Seq(BOOLEAN)
  BY EmptySeq DEF Init
<1>8. callers \in CallerSets /\ DOMAIN diagnostics_cache \subseteq Uris
  BY <1>4 DEF Init
<1>9. TypeOK
  BY <1>1, <1>2, <1>5, <1>6, <1>7, <1>8 DEF TypeOK, Documents
<1> QED
  BY <1>1, <1>2, <1>4, <1>9 DEF IInv, Init, UriInv, FlagInv, NoSpuriousCancel

(* A step of one call that leaves the flags alone. *)
LEMMA LocalStep ==
  ASSUME IInv, NEW t \in Threads, NEW c \in CallType,
         call' = [call EXCEPT ![t] = c],
         c.pc = "idle" \/ c.uri \in Uris,
         c.pc \in AnalyzingPc =>
           /\ Analyzing(t)
           /\ c.flag = call[t].flag /\ c.uri = call[t].uri /\ c.told = call[t].told,
         open_documents' \in Documents, DOMAIN diagnostics_cache' \subseteq Uris,
         UNCHANGED <<callers, cancel_flags, flags>>
  PROVE  IInv'
<1>1. \A s \in Threads : call'[s] = IF s = t THEN c ELSE call[s]
  BY DEF IInv, TypeOK
<1>2. \A s \in Threads : Analyzing(s)' =>
        /\ Analyzing(s)
        /\ call'[s].flag = call[s].flag /\ call'[s].uri = call[s].uri
        /\ call'[s].told = call[s].told
  BY <1>1 DEF Analyzing, AnalyzingPc
<1>3. TypeOK'
  BY <1>1, <1>2 DEF IInv, TypeOK, Documents
<1>4. UriInv'
  BY <1>1 DEF IInv, UriInv, At
<1>5. FlagInv'
  BY <1>2 DEF IInv, FlagInv
<1>6. NoSpuriousCancel'
  BY <1>2 DEF IInv, NoSpuriousCancel
<1> QED
  BY <1>3, <1>4, <1>5, <1>6 DEF IInv

-----------------------------------------------------------------------------
(* Every action keeps the invariant: first the local steps.                *)
LEMMA BeginsInv ==
  ASSUME IInv, NEW t \in Threads, NEW u \in Uris, NEW x \in Texts \cup {Empty},
         UNCHANGED callers,
         did_open(t, u, x) \/ did_change(t, u, x) \/ did_save(t, u)
  PROVE  IInv'
<1> DEFINE Entered(pc, y) == [Idle EXCEPT !.pc = pc, !.uri = u, !.text = y]
<1>1. ASSUME NEW pc \in {"signal", "flag"}, NEW y \in Texts \cup {Empty}
      PROVE  /\ Entered(pc, y) \in CallType
             /\ Entered(pc, y).uri \in Uris /\ Entered(pc, y).pc \notin AnalyzingPc
  BY <1>1 DEF Idle, CallType, NoDiag, Diag, AnalyzingPc
<1>2. open_documents \in Documents /\ DOMAIN diagnostics_cache \subseteq Uris
  BY DEF IInv, TypeOK, Documents
<1>3. CASE did_open(t, u, x)
  <2>1. open_documents' \in Documents
    BY <1>2, <1>3, PutDocuments DEF did_open
  <2>2. call' = [call EXCEPT ![t] = Entered("flag", x)]
    BY <1>3 DEF did_open, Enter
  <2>3. UNCHANGED <<diagnostics_cache, cancel_flags, flags>>
    BY <1>3 DEF did_open
  <2> HIDE DEF Entered
  <2> QED
    BY <1>1, <1>2, <2>1, <2>2, <2>3, LocalStep
<1>4. CASE did_change(t, u, x)
  <2>1. call' = [call EXCEPT ![t] = Entered("signal", x)]
    BY <1>4 DEF did_change, Enter
  <2>2. UNCHANGED <<open_documents, diagnostics_cache, cancel_flags, flags>>
    BY <1>4 DEF did_change
  <2> HIDE DEF Entered
  <2> QED
    BY <1>1, <1>2, <2>1, <2>2, LocalStep
<1>5. CASE did_save(t, u)
  <2> DEFINE y == IF u \in DOMAIN open_documents THEN open_documents[u] ELSE Empty
  <2>1. y \in Texts \cup {Empty}
    BY <1>2 DEF Documents
  <2>2. call' = [call EXCEPT ![t] = Entered("signal", y)]
    BY <1>5 DEF did_save, Enter
  <2>3. UNCHANGED <<open_documents, diagnostics_cache, cancel_flags, flags>>
    BY <1>5 DEF did_save
  <2> HIDE DEF Entered, y
  <2> QED
    BY <1>1, <1>2, <2>1, <2>2, <2>3, LocalStep
<1> QED
  BY <1>3, <1>4, <1>5

LEMMA StoreInv ==
  ASSUME IInv, NEW t \in Threads, UNCHANGED callers, Store(t)
  PROVE  IInv'
<1> DEFINE c == [call[t] EXCEPT !.pc = "flag"]
<1>1. call[t] \in CallType /\ call[t].uri \in Uris
  BY DEF IInv, TypeOK, UriInv, Store, At
<1>2. c \in CallType /\ c.uri \in Uris /\ c.pc \notin AnalyzingPc
  BY <1>1 DEF CallType, AnalyzingPc
<1>3. open_documents' \in Documents /\ DOMAIN diagnostics_cache' \subseteq Uris
  <2>1. call[t].text \in Texts \cup {Empty}
    BY <1>1 DEF CallType
  <2> QED
    BY <1>1, <2>1, PutDocuments DEF IInv, TypeOK, Documents, Store
<1>4. call' = [call EXCEPT ![t] = c] /\ UNCHANGED <<cancel_flags, flags>>
  BY DEF Store, Goto
<1> HIDE DEF c
<1> QED
  BY <1>2, <1>3, <1>4, LocalStep

LEMMA FinishInv ==
  ASSUME IInv, NEW t \in Threads, Analyzing(t), UNCHANGED callers,
         NEW x \in Texts \cup {Empty},
         NEW k \in {"none", "findings", "cancelled", "timeout", "error"},
         Finish(t, Diag(x, k)),
         UNCHANGED <<open_documents, diagnostics_cache, cancel_flags, flags>>
  PROVE  IInv'
<1> DEFINE c == [call[t] EXCEPT !.pc = "cache", !.diags = Diag(x, k)]
<1>1. call[t] \in CallType /\ call[t].uri \in Uris
  BY DEF IInv, TypeOK, UriInv, Analyzing, At
<1>2. c \in CallType /\ c.uri \in Uris /\ c.pc \notin AnalyzingPc
  BY <1>1 DEF CallType, AnalyzingPc, Diag
<1>3. open_documents' \in Documents /\ DOMAIN diagnostics_cache' \subseteq Uris
  BY DEF IInv, TypeOK, Documents
<1>4. call' = [call EXCEPT ![t] = c]
  BY DEF Finish
<1> HIDE DEF c
<1> QED
  BY <1>2, <1>3, <1>4, LocalStep

(* The stages of an analysis; each keeps document, flag and told.          *)
LEMMA StageInv ==
  ASSUME IInv, NEW t \in Threads, UNCHANGED callers,
         ReadText(t) \/ Stop(t) \/ GoOn(t)
  PROVE  IInv'
<1>1. Analyzing(t) /\ call[t] \in CallType /\ call[t].uri \in Uris
  BY DEF IInv, TypeOK, UriInv, Analyzing, At, ReadText, Stop, GoOn
<1>2. UNCHANGED <<open_documents, diagnostics_cache, cancel_flags, flags>>
  BY DEF ReadText, Stop, GoOn
<1>3. call[t].text \in Texts \cup {Empty}
  BY <1>1 DEF CallType
<1>4. ASSUME NEW pc \in {"check1", "check2", "check3"}, NEW y \in Texts \cup {Empty},
             call' = [call EXCEPT ![t].pc = pc, ![t].text = y]
      PROVE  IInv'
  <2> DEFINE c == [call[t] EXCEPT !.pc = pc, !.text = y]
  <2>1. c \in CallType /\ c.uri \in Uris
    BY <1>1 DEF CallType
  <2>2. c.flag = call[t].flag /\ c.uri = call[t].uri /\ c.told = call[t].told
    BY <1>1 DEF CallType
  <2>3. call' = [call EXCEPT ![t] = c]
    BY <1>4
  <2>4. open_documents' \in Documents /\ DOMAIN diagnostics_cache' \subseteq Uris
    BY <1>2 DEF IInv, TypeOK, Documents
  <2> HIDE DEF c
  <2> QED
    BY <1>1, <1>2, <2>1, <2>2, <2>3, <2>4, LocalStep
<1>5. CASE ReadText(t)
  <2> DEFINE u == call[t].uri
             x == IF call[t].text = Empty /\ u \in DOMAIN open_documents
                  THEN open_documents[u] ELSE call[t].text
  <2>1. x \in Texts \cup {Empty}
    BY <1>3 DEF IInv, TypeOK
  <2>2. \/ Finish(t, Diag(Empty, "error"))
        \/ call' = [call EXCEPT ![t].pc = "check1", ![t].text = x]
    BY <1>5 DEF ReadText
  <2> HIDE DEF x
  <2> QED
    BY <1>1, <1>2, <1>4, <2>1, <2>2, FinishInv
<1>6. CASE Stop(t)
  BY <1>1, <1>2, <1>3, <1>6, FinishInv DEF Stop
<1>7. CASE GoOn(t)
  <2>1. ASSUME NEW pc \in {"check2", "check3"}, Goto(t, pc)
        PROVE  call' = [call EXCEPT ![t].pc = pc, ![t].text = call[t].text]
    <3>1. call' = [call EXCEPT ![t] = [call[t] EXCEPT !.pc = pc]]
      BY <2>1 DEF Goto
    <3>2. [call[t] EXCEPT !.pc = pc] = [call[t] EXCEPT !.pc = pc, !.text = call[t].text]
      BY <1>1 DEF CallType
    <3> QED
      BY <3>1, <3>2
  <2> QED
    BY <1>1, <1>2, <1>3, <1>4, <1>7, <2>1, FinishInv DEF GoOn
<1> QED
  BY <1>5, <1>6, <1>7

LEMMA EndsInv ==
  ASSUME IInv, NEW t \in Threads, UNCHANGED callers,
         CacheAndPublish(t) \/ EraseDocument(t)
  PROVE  IInv'
<1>1. call[t].uri \in Uris
  BY DEF IInv, UriInv, At, CacheAndPublish, EraseDocument
<1>2. call' = [call EXCEPT ![t] = Idle] /\ UNCHANGED <<cancel_flags, flags>>
  BY DEF CacheAndPublish, EraseDocument
<1>3. open_documents' \in Documents
  BY EraseDocuments DEF IInv, TypeOK, Documents, CacheAndPublish, EraseDocument
<1>4. DOMAIN diagnostics_cache' \subseteq Uris
  BY <1>1 DEF IInv, TypeOK, CacheAndPublish, EraseDocument, Put, Erase, Restrict
<1> QED
  BY <1>2, <1>3, <1>4, IdleType, LocalStep DEF AnalyzingPc

-----------------------------------------------------------------------------
(* The steps that change flags or the map of flags.                        *)

(* did_close drops a flag from the map and leaves it to whoever holds it.  *)
LEMMA CloseInv ==
  ASSUME IInv, NEW t \in Threads, NEW u \in Uris, UNCHANGED callers, did_close(t, u)
  PROVE  IInv'
<1> DEFINE c == [Idle EXCEPT !.pc = "erase", !.uri = u, !.text = Empty]
<1>1. c \in CallType /\ c.uri \in Uris /\ c.pc = "erase"
  BY DEF Idle, CallType, NoDiag, Diag
<1>2. /\ call' = [call EXCEPT ![t] = c] /\ cancel_flags' = Erase(cancel_flags, u)
      /\ UNCHANGED <<callers, open_documents, diagnostics_cache, flags>>
  BY DEF did_close, Enter
<1> HIDE DEF c
<1>3. \A s \in Threads : call'[s] = IF s = t THEN c ELSE call[s]
  BY <1>2 DEF IInv, TypeOK
<1>4. \A s \in Threads : Analyzing(s)' => Analyzing(s) /\ call'[s] = call[s]
  BY <1>1, <1>3 DEF Analyzing
<1>5. PICK U \in SUBSET Uris : cancel_flags \in [U -> DOMAIN flags]
  BY DEF IInv, TypeOK
<1>6. /\ cancel_flags' \in [U \ {u} -> DOMAIN flags]
      /\ DOMAIN cancel_flags' = U \ {u}
      /\ \A v \in U \ {u} : cancel_flags'[v] = cancel_flags[v]
  BY <1>2, <1>5, EraseType
<1>7. cancel_flags' \in UNION {[V -> DOMAIN flags'] : V \in SUBSET Uris}
  BY <1>2, <1>6
<1>8. TypeOK'
  BY <1>1, <1>2, <1>3, <1>4, <1>7 DEF IInv, TypeOK
<1>9. UriInv'
  BY <1>1, <1>3 DEF IInv, UriInv, At
<1>10. FlagInv'
  BY <1>4, <1>5, <1>6 DEF IInv, FlagInv
<1>11. NoSpuriousCancel'
  BY <1>2, <1>4 DEF IInv, NoSpuriousCancel
<1> QED
  BY <1>8, <1>9, <1>10, <1>11 DEF IInv

(* $/cancelRequest tells every analysis, whichever flags it sets.          *)
LEMMA CancelInv ==
  ASSUME IInv, NEW t \in Threads, UNCHANGED callers, cancelRequest(t)
  PROVE  IInv'
<1> DEFINE p(s) == call[s].told \/ Analyzing(s)
<1>1. /\ call' = [s \in Threads |-> [call[s] EXCEPT !.told = p(s)]]
      /\ flags' = [f \in DOMAIN flags |-> flags[f] \/ f \in Range(cancel_flags)]
      /\ UNCHANGED <<callers, open_documents, diagnostics_cache, cancel_flags>>
  BY DEF cancelRequest
<1>2. \A s \in Threads : p(s) \in BOOLEAN
  BY DEF IInv, TypeOK, CallType, Analyzing
<1>3. \A s \in Threads :
        /\ call'[s] \in CallType
        /\ call'[s].pc = call[s].pc /\ call'[s].uri = call[s].uri
        /\ call'[s].flag = call[s].flag /\ call'[s].told = p(s)
  <2> HIDE DEF p
  <2> QED
    BY <1>1, <1>2 DEF IInv, TypeOK, CallType
<1>4. \A s \in Threads : Analyzing(s)' <=> Analyzing(s)
  BY <1>3 DEF Analyzing
<1>5. flags' \in Seq(BOOLEAN) /\ DOMAIN flags' = DOMAIN flags
  <2>1. flags \in Seq(BOOLEAN)
    BY DEF IInv, TypeOK
  <2>2. DOMAIN flags = 1 .. Len(flags) /\ Len(flags) \in Nat
    BY <2>1, LenProperties
  <2>3. flags' \in [1 .. Len(flags) -> BOOLEAN]
    BY <1>1, <2>2
  <2> QED
    BY <1>1, <2>2, <2>3, IsASeq
<1>6. call' \in [Threads -> CallType]
  BY <1>1, <1>3
<1>7. TypeOK'
  BY <1>1, <1>3, <1>4, <1>5, <1>6 DEF IInv, TypeOK
<1>8. UriInv'
  BY <1>3 DEF IInv, UriInv, At
<1>9. FlagInv'
  BY <1>1, <1>3, <1>4 DEF IInv, FlagInv
<1>10. NoSpuriousCancel'
  BY <1>3, <1>4 DEF NoSpuriousCancel
<1> QED
  BY <1>7, <1>8, <1>9, <1>10 DEF IInv

(* did_change's signal tells the analyses of its document; by FlagInv the  *)
(* flag it sets is held by no other.                                       *)
LEMMA SignalInv ==
  ASSUME IInv, NEW t \in Threads, UNCHANGED callers, Signal(t)
  PROVE  IInv'
<1> DEFINE u == call[t].uri
           p(s) == call[s].told \/ (Analyzing(s) /\ call[s].uri = u)
<1>1. /\ call' = [Tell(u) EXCEPT ![t].pc = "store"]
      /\ call[t].pc = "signal"
      /\ flags' = IF u \in DOMAIN cancel_flags
                  THEN [flags EXCEPT ![cancel_flags[u]] = TRUE] ELSE flags
      /\ UNCHANGED <<callers, open_documents, diagnostics_cache, cancel_flags>>
  BY DEF Signal, At
<1>2. \A s \in Threads : p(s) \in BOOLEAN
  BY DEF IInv, TypeOK, CallType, Analyzing
<1>3. Tell(u) = [s \in Threads |-> [call[s] EXCEPT !.told = p(s)]]
  BY DEF Tell
<1>4. \A s \in Threads :
        /\ Tell(u)[s] \in CallType
        /\ Tell(u)[s].pc = call[s].pc /\ Tell(u)[s].uri = call[s].uri
        /\ Tell(u)[s].flag = call[s].flag /\ Tell(u)[s].told = p(s)
  <2> HIDE DEF p
  <2> QED
    BY <1>2, <1>3 DEF IInv, TypeOK, CallType
<1>5. \A s \in Threads :
        /\ call'[s] \in CallType
        /\ call'[s].pc = IF s = t THEN "store" ELSE call[s].pc
        /\ call'[s].uri = call[s].uri
        /\ call'[s].flag = call[s].flag /\ call'[s].told = p(s)
  <2>1. \A s \in Threads : s # t => call'[s] = Tell(u)[s]
    BY <1>1, <1>3
  <2>2. call'[t] = [Tell(u)[t] EXCEPT !.pc = "store"]
    BY <1>1, <1>3
  <2> HIDE DEF p, u
  <2> QED
    BY <1>4, <2>1, <2>2 DEF CallType
<1>6. \A s \in Threads : Analyzing(s)' <=> Analyzing(s)
  BY <1>1, <1>5 DEF Analyzing
<1>7. PICK U \in SUBSET Uris : cancel_flags \in [U -> DOMAIN flags]
  BY DEF IInv, TypeOK
<1>8. flags' \in Seq(BOOLEAN) /\ DOMAIN flags' = DOMAIN flags
  <2>1. flags \in Seq(BOOLEAN)
    BY DEF IInv, TypeOK
  <2>2. flags \in [1 .. Len(flags) -> BOOLEAN] /\ DOMAIN flags = 1 .. Len(flags)
        /\ Len(flags) \in Nat
    BY <2>1, LenProperties
  <2>3. flags' \in [1 .. Len(flags) -> BOOLEAN]
    BY <1>1, <1>7, <2>2
  <2> QED
    BY <2>2, <2>3, IsASeq
<1>9. call' \in [Threads -> CallType]
  BY <1>1, <1>3, <1>5
<1>10. TypeOK'
  BY <1>1, <1>5, <1>6, <1>8, <1>9 DEF IInv, TypeOK
<1>11. UriInv'
  BY <1>1, <1>5 DEF IInv, UriInv, At
<1>12. FlagInv'
  BY <1>1, <1>5, <1>6 DEF IInv, FlagInv
<1>13. NoSpuriousCancel'
  <2> SUFFICES ASSUME NEW s \in Threads, Analyzing(s), flags'[call[s].flag]
               PROVE  p(s)
    BY <1>5, <1>6 DEF NoSpuriousCancel
  <2>1. call[s].flag \in DOMAIN flags
    BY DEF IInv, TypeOK
  <2>2. CASE flags[call[s].flag]
    BY <2>2 DEF IInv, NoSpuriousCancel
  <2>3. CASE ~flags[call[s].flag]
    <3>1. u \in DOMAIN cancel_flags /\ call[s].flag = cancel_flags[u]
      BY <1>1, <1>7, <2>1, <2>3
    <3> QED
      BY <3>1 DEF IInv, FlagInv
  <2> QED
    BY <2>2, <2>3
<1> QED
  BY <1>10, <1>11, <1>12, <1>13 DEF IInv

(* The flag an analysis takes is not set: a fresh one, which no other       *)
(* document and no other analysis has, or its document's own.              *)
LEMMA TakeInv ==
  ASSUME IInv, NEW t \in Threads, UNCHANGED callers, TakeFlag(t)
  PROVE  IInv'
<1> DEFINE u == call[t].uri
           reuse == u \in DOMAIN cancel_flags /\ ~flags[cancel_flags[u]]
           f == IF reuse THEN cancel_flags[u] ELSE FreshFlag
<1>1. /\ flags' = IF reuse THEN flags ELSE Append(flags, FALSE)
      /\ cancel_flags' = Put(cancel_flags, u, f)
      /\ call' = [call EXCEPT ![t].pc = "read", ![t].flag = f]
      /\ UNCHANGED <<callers, open_documents, diagnostics_cache>>
  BY DEF TakeFlag
<1>2. u \in Uris /\ call[t] \in CallType /\ call[t].pc = "flag"
  BY DEF IInv, TypeOK, UriInv, TakeFlag, At
<1>3. PICK U \in SUBSET Uris : cancel_flags \in [U -> DOMAIN flags]
  BY DEF IInv, TypeOK
<1>4. flags \in Seq(BOOLEAN) /\ DOMAIN flags = 1 .. Len(flags) /\ Len(flags) \in Nat
  BY LenProperties DEF IInv, TypeOK
<1>5. /\ flags' \in Seq(BOOLEAN) /\ DOMAIN flags \subseteq DOMAIN flags'
      /\ \A g \in DOMAIN flags : flags'[g] = flags[g]
      /\ f \in DOMAIN flags' /\ ~flags'[f]
  <2>1. CASE reuse
    BY <1>1, <1>3, <1>4, <2>1
  <2>2. CASE ~reuse
    <3> DEFINE fs == Append(flags, FALSE)
    <3>1. /\ fs \in Seq(BOOLEAN) /\ Len(fs) = Len(flags) + 1
          /\ \A i \in 1 .. Len(flags) : fs[i] = flags[i]
          /\ fs[Len(flags) + 1] = FALSE
      BY <1>4, AppendProperties
    <3>2. DOMAIN fs = 1 .. Len(flags) + 1
      BY <3>1, LenProperties
    <3>3. flags' = fs /\ f = Len(flags) + 1
      BY <1>1, <2>2 DEF FreshFlag
    <3> HIDE DEF fs, f
    <3> QED
      BY <1>4, <3>1, <3>2, <3>3
  <2> QED
    BY <2>1, <2>2
<1>6. reuse \/ f \notin DOMAIN flags
  BY <1>4 DEF FreshFlag
<1>7. f \in Nat
  BY <1>3, <1>4 DEF FreshFlag
<1>8. f \in DOMAIN flags => u \in DOMAIN cancel_flags /\ f = cancel_flags[u]
  BY <1>6
<1> HIDE DEF f, reuse, u
<1>9. \A s \in Threads :
        /\ call'[s] \in CallType
        /\ s # t => call'[s] = call[s]
        /\ call'[t].pc = "read" /\ call'[t].flag = f /\ call'[t].uri = u
  <2>1. call'[t] = [call[t] EXCEPT !.pc = "read", !.flag = f]
    BY <1>1 DEF IInv, TypeOK
  <2>2. \A s \in Threads : s # t => call'[s] = call[s]
    BY <1>1 DEF IInv, TypeOK
  <2>3. call[t].uri = u
    BY DEF u
  <2>4. /\ call'[t] \in CallType
        /\ call'[t].pc = "read" /\ call'[t].flag = f /\ call'[t].uri = u
    BY <1>2, <1>7, <2>1, <2>3 DEF CallType
  <2> QED
    BY <2>2, <2>4 DEF IInv, TypeOK
<1>10. \A s \in Threads : s # t => (Analyzing(s)' <=> Analyzing(s))
  BY <1>9 DEF Analyzing
<1>11. /\ cancel_flags' \in [U \cup {u} -> DOMAIN flags']
       /\ DOMAIN cancel_flags' = U \cup {u} /\ cancel_flags'[u] = f
       /\ \A v \in U : v # u => cancel_flags'[v] = cancel_flags[v]
  <2>1. cancel_flags \in [U -> DOMAIN flags']
    BY <1>3, <1>5
  <2>2. cancel_flags' = Put(cancel_flags, u, f) /\ DOMAIN cancel_flags = U
    BY <1>1, <2>1
  <2> QED
    BY <1>5, <2>1, <2>2 DEF Put
<1>12. TypeOK'
  <2>1. call' \in [Threads -> CallType]
    BY <1>1, <1>9 DEF IInv, TypeOK
  <2>2. cancel_flags' \in UNION {[V -> DOMAIN flags'] : V \in SUBSET Uris}
    <3>1. U \cup {u} \in SUBSET Uris
      BY <1>2
    <3> QED
      BY <1>11, <3>1
  <2>3. \A s \in Threads : Analyzing(s)' => call'[s].flag \in DOMAIN flags'
    BY <1>5, <1>9, <1>10 DEF IInv, TypeOK
  <2> QED
    BY <1>1, <1>5, <2>1, <2>2, <2>3 DEF IInv, TypeOK
<1>13. UriInv'
  BY <1>2, <1>9 DEF IInv, UriInv, At
<1>14. FlagInv'
  <2>1. ASSUME NEW v \in DOMAIN cancel_flags', NEW w \in DOMAIN cancel_flags',
               cancel_flags'[v] = cancel_flags'[w]
        PROVE  v = w
    BY <1>3, <1>8, <1>11, <2>1 DEF IInv, FlagInv
  <2>2. ASSUME NEW s \in Threads, NEW v \in DOMAIN cancel_flags',
               Analyzing(s)', call'[s].flag = cancel_flags'[v]
        PROVE  call'[s].uri = v
    <3>1. CASE s = t
      <4>1. cancel_flags'[v] = cancel_flags'[u]
        BY <1>9, <1>11, <2>2, <3>1
      <4> QED
        BY <1>9, <1>11, <2>1, <3>1, <4>1
    <3>2. CASE s # t
      <4>1. Analyzing(s) /\ call'[s] = call[s] /\ call[s].flag \in DOMAIN flags
        BY <1>9, <1>10, <2>2, <3>2 DEF IInv, TypeOK
      <4> QED
        BY <1>3, <1>8, <1>11, <2>2, <4>1 DEF IInv, FlagInv
    <3> QED
      BY <3>1, <3>2
  <2> QED
    BY <2>1, <2>2 DEF FlagInv
<1>15. NoSpuriousCancel'
  <2> SUFFICES ASSUME NEW s \in Threads, Analyzing(s)', flags'[call'[s].flag]
               PROVE  call'[s].told
    BY DEF NoSpuriousCancel
  <2>1. s # t
    BY <1>5, <1>9
  <2>2. Analyzing(s) /\ call'[s] = call[s] /\ call[s].flag \in DOMAIN flags
    BY <1>9, <1>10, <2>1 DEF IInv, TypeOK
  <2> QED
    BY <1>5, <2>2 DEF IInv, NoSpuriousCancel
<1> QED
  BY <1>12, <1>13, <1>14, <1>15 DEF IInv

-----------------------------------------------------------------------------
LEMMA StepInv == IInv /\ [Next]_vars => IInv'
<1> SUFFICES ASSUME IInv, [Next]_vars PROVE IInv'
  OBVIOUS
<1>1. CASE UNCHANGED vars
  BY <1>1 DEF vars, IInv, TypeOK, UriInv, FlagInv, NoSpuriousCancel, Analyzing, At
<1>2. CASE Next
  <2>1. PICK t \in callers : (Begin(t) \/ Continue(t)) /\ UNCHANGED callers
    BY <1>2 DEF Next
  <2>2. t \in Threads
    BY LspDocumentsAssumption DEF IInv, TypeOK
  <2>3. CASE Begin(t)
    <3>1. \/ \E u \in Uris, x \in Texts : did_open(t, u, x) \/ did_change(t, u, x)
          \/ \E u \in Uris : did_save(t, u) \/ did_close(t, u)
          \/ cancelRequest(t)
      BY <2>3 DEF Begin
    <3>2. ASSUME NEW u \in Uris, did_save(t, u) PROVE IInv'
      <4>1. Empty \in Texts \cup {Empty}
        OBVIOUS
      <4> QED
        BY <2>1, <2>2, <3>2, <4>1, BeginsInv
    <3> QED
      BY <2>1, <2>2, <3>1, <3>2, BeginsInv, CloseInv, CancelInv
  <2>4. CASE Continue(t)
    BY <2>1, <2>2, <2>4, SignalInv, StoreInv, TakeInv, StageInv, EndsInv DEF Continue
  <2> QED
    BY <2>1, <2>3, <2>4
<1> QED
  BY <1>1, <1>2

(* The state of the documents keeps its type: every flag an analysis holds *)
(* or the map names is one that was made (cancel_flags_ in server.cpp).    *)
THEOREM TypeCorrect == Spec => []TypeOK
<1>1. IInv => TypeOK
  BY DEF IInv
<1> QED
  BY InitInv, StepInv, <1>1, PTL DEF Spec

(* No analysis is stopped by what was said of an earlier one or of another *)
(* document: analyze_document takes a flag that is not set, and only calls *)
(* about its document or a cancel request set it afterwards.               *)
THEOREM NeverSpuriouslyCancelled == Spec => []NoSpuriousCancel
<1>1. IInv => NoSpuriousCancel
  BY DEF IInv
<1> QED
  BY InitInv, StepInv, <1>1, PTL DEF Spec

-----------------------------------------------------------------------------
(* The maps of the server's thread.  While a call is under way they differ *)
(* by its document only: it is open before it has a flag, and its          *)
(* diagnostics are those of another text, or none, until they are cached;  *)
(* did_close takes its flag first.                                         *)
Computing == {"flag"} \cup AnalyzingPc \cup {"cache"}

Behind(t) == {u \in {call[t].uri} : call[t].pc \in Computing}

Synced(t) ==
  /\ DOMAIN diagnostics_cache \cup Behind(t) = DOMAIN open_documents
  /\ \A u \in DOMAIN open_documents \ Behind(t) :
       diagnostics_cache[u].text = open_documents[u]
  /\ CASE At(t, "flag") -> DOMAIN cancel_flags \cup Behind(t) = DOMAIN open_documents
       [] At(t, "erase") -> DOMAIN cancel_flags = DOMAIN open_documents \ {call[t].uri}
       [] OTHER -> DOMAIN cancel_flags = DOMAIN open_documents
  /\ call[t].pc \in Computing \ {"cache"} => call[t].text = open_documents[call[t].uri]
  /\ At(t, "cache") => call[t].diags.text = open_documents[call[t].uri]

SoleInv ==
  \A t \in Threads : callers = {t} =>
    /\ \A s \in Threads : s # t => At(s, "idle")
    /\ Synced(t)

-----------------------------------------------------------------------------
LEMMA InitSole == Init => SoleInv
<1> SUFFICES ASSUME Init, NEW t \in Threads PROVE (\A s \in Threads : At(s, "idle")) /\ Synced(t)
  BY DEF SoleInv
<1>1. \A s \in Threads : At(s, "idle")
  BY IdleType DEF Init, At
<1>2. DOMAIN open_documents = {} /\ DOMAIN cancel_flags = {} /\ DOMAIN diagnostics_cache = {}
  BY DEF Init
<1>3. Behind(t) = {}
  BY <1>1 DEF At, Behind, Computing, AnalyzingPc
<1> QED
  BY <1>1, <1>2, <1>3 DEF Synced, At, Computing, AnalyzingPc

LEMMA BeginSynced ==
  ASSUME IInv, NEW t \in Threads, Synced(t), Begin(t)
  PROVE  Synced(t)'
<1> USE DEF Synced, Behind, Computing, AnalyzingPc, At
<1>1. call[t].pc = "idle" /\ call \in [Threads -> CallType]
  BY DEF Begin, did_open, did_change, did_save, did_close, cancelRequest, IInv, TypeOK
<1>2. ASSUME NEW pc, NEW u, NEW x, Enter(t, pc, u, x)
      PROVE  call'[t].pc = pc /\ call'[t].uri = u /\ call'[t].text = x
  <2>1. call'[t] = [Idle EXCEPT !.pc = pc, !.uri = u, !.text = x]
    BY <1>1, <1>2 DEF Enter
  <2> QED
    BY <2>1 DEF Idle
<1>3. ASSUME NEW u \in Uris, NEW x \in Texts, did_open(t, u, x)
      PROVE  Synced(t)'
  <2>1. call'[t].pc = "flag" /\ call'[t].uri = u /\ call'[t].text = x
    BY <1>2, <1>3 DEF did_open
  <2> QED
    BY <1>1, <1>3, <2>1 DEF did_open, Put
<1>4. ASSUME NEW u \in Uris, NEW x \in Texts, did_change(t, u, x)
      PROVE  Synced(t)'
  <2>1. call'[t].pc = "signal" /\ call'[t].uri = u /\ call'[t].text = x
    BY <1>2, <1>4 DEF did_change
  <2> QED
    BY <1>1, <1>4, <2>1 DEF did_change
<1>5. ASSUME NEW u \in Uris, did_save(t, u)
      PROVE  Synced(t)'
  <2>1. call'[t].pc = "signal"
    BY <1>2, <1>5 DEF did_save
  <2> QED
    BY <1>1, <1>5, <2>1 DEF did_save
<1>6. ASSUME NEW u \in Uris, did_close(t, u)
      PROVE  Synced(t)'
  <2>1. call'[t].pc = "erase" /\ call'[t].uri = u
    BY <1>2, <1>6 DEF did_close
  <2>2. DOMAIN cancel_flags' = DOMAIN cancel_flags \ {u}
    BY <1>6 DEF did_close, Erase, Restrict
  <2>3. UNCHANGED <<open_documents, diagnostics_cache>>
    BY <1>6 DEF did_close
  <2> QED
    BY <1>1, <2>1, <2>2, <2>3
<1>7. CASE cancelRequest(t)
  <2>1. call'[t] = [call[t] EXCEPT !.told = @ \/ Analyzing(t)]
    BY <1>7 DEF cancelRequest
  <2>2. call'[t].pc = "idle"
    BY <1>1, <2>1 DEF CallType
  <2> QED
    BY <1>1, <1>7, <2>2 DEF cancelRequest
<1> QED
  BY <1>3, <1>4, <1>5, <1>6, <1>7 DEF Begin

LEMMA ContinueSynced ==
  ASSUME IInv, NEW t \in Threads, Synced(t), Continue(t)
  PROVE  Synced(t)'
<1> USE DEF Synced, Behind, Computing, AnalyzingPc, At
<1>1. call \in [Threads -> CallType] /\ call[t] \in CallType
  BY DEF IInv, TypeOK
<1>2. CASE Signal(t)
  <2> DEFINE u == call[t].uri
             told == call[t].told \/ (Analyzing(t) /\ call[t].uri = u)
  <2>1. call'[t] = [Tell(u)[t] EXCEPT !.pc = "store"] /\ call[t].pc = "signal"
    BY <1>2 DEF Signal, Tell
  <2>2. Tell(u)[t] = [call[t] EXCEPT !.told = told]
    BY DEF Tell
  <2>3. call'[t].pc = "store"
    <3> HIDE DEF told
    <3> QED
      BY <1>1, <2>1, <2>2 DEF CallType
  <2> QED
    BY <1>2, <2>1, <2>3 DEF Signal
<1>3. CASE Store(t)
  <2>1. call'[t] = [call[t] EXCEPT !.pc = "flag"] /\ call[t].pc = "store"
    BY <1>1, <1>3 DEF Store, Goto
  <2>2. call'[t].pc = "flag" /\ call'[t].uri = call[t].uri /\ call'[t].text = call[t].text
    BY <1>1, <2>1 DEF CallType
  <2> QED
    BY <1>3, <2>1, <2>2 DEF Store, Put
<1>4. CASE TakeFlag(t)
  <2> DEFINE u == call[t].uri
  <2>1. PICK f : /\ call' = [call EXCEPT ![t].pc = "read", ![t].flag = f]
                 /\ cancel_flags' = Put(cancel_flags, u, f)
    BY <1>4 DEF TakeFlag
  <2>2. call'[t] = [call[t] EXCEPT !.pc = "read", !.flag = f]
    BY <1>1, <2>1
  <2>3. call'[t].pc = "read" /\ call'[t].uri = u /\ call'[t].text = call[t].text
    BY <1>1, <2>2 DEF CallType
  <2>4. DOMAIN cancel_flags' = DOMAIN cancel_flags \cup {u}
    BY <2>1 DEF Put
  <2>5. call[t].pc = "flag" /\ UNCHANGED <<open_documents, diagnostics_cache>>
    BY <1>4 DEF TakeFlag
  <2> QED
    BY <2>3, <2>4, <2>5
<1>5. ASSUME NEW x, NEW k, Finish(t, Diag(x, k)), Analyzing(t),
             x = open_documents[call[t].uri],
             UNCHANGED <<open_documents, diagnostics_cache, cancel_flags>>
      PROVE  Synced(t)'
  <2>1. call'[t] = [call[t] EXCEPT !.pc = "cache", !.diags = Diag(x, k)]
    BY <1>1, <1>5 DEF Finish
  <2>2. call'[t].pc = "cache" /\ call'[t].uri = call[t].uri /\ call'[t].diags.text = x
    BY <1>1, <2>1 DEF CallType, Diag
  <2> QED
    BY <1>5, <2>2 DEF Analyzing
<1>6. CASE ReadText(t)
  <2> DEFINE u == call[t].uri
             x == IF call[t].text = Empty /\ u \in DOMAIN open_documents
                  THEN open_documents[u] ELSE call[t].text
  <2>1. /\ call[t].pc = "read" /\ Analyzing(t)
        /\ UNCHANGED <<open_documents, diagnostics_cache, cancel_flags>>
    BY <1>6 DEF ReadText, Analyzing
  <2>2. x = open_documents[u]
    BY <2>1
  <2>3. CASE x = Empty /\ Finish(t, Diag(Empty, "error"))
    BY <1>5, <2>1, <2>2, <2>3
  <2>4. CASE call' = [call EXCEPT ![t].pc = "check1", ![t].text = x]
    <3>1. call'[t] = [call[t] EXCEPT !.pc = "check1", !.text = x]
      BY <1>1, <2>4
    <3> HIDE DEF x
    <3>2. call'[t].pc = "check1" /\ call'[t].uri = u /\ call'[t].text = x
      BY <1>1, <3>1 DEF CallType
    <3> QED
      BY <2>1, <2>2, <3>2
  <2>5. IF x = Empty THEN Finish(t, Diag(Empty, "error"))
        ELSE call' = [call EXCEPT ![t].pc = "check1", ![t].text = x]
    BY <1>6 DEF ReadText
  <2> QED
    BY <2>3, <2>4, <2>5
<1>7. CASE Stop(t)
  <2>1. /\ call[t].pc \in {"check1", "check2", "check3"} /\ Analyzing(t)
        /\ UNCHANGED <<open_documents, diagnostics_cache, cancel_flags>>
        /\ \E k : Finish(t, Diag(call[t].text, k))
    BY <1>7 DEF Stop, Analyzing
  <2> QED
    BY <1>5, <2>1
<1>8. CASE GoOn(t)
  <2>1. /\ call[t].pc \in {"check1", "check2", "check3"} /\ Analyzing(t)
        /\ UNCHANGED <<open_documents, diagnostics_cache, cancel_flags>>
    BY <1>8 DEF GoOn, Analyzing
  <2>2. CASE \E k : Finish(t, Diag(call[t].text, k))
    BY <1>5, <2>1, <2>2
  <2>3. ASSUME NEW pc \in {"check2", "check3"}, Goto(t, pc)
        PROVE  Synced(t)'
    <3>1. call'[t] = [call[t] EXCEPT !.pc = pc]
      BY <1>1, <2>3 DEF Goto
    <3>2. call'[t].pc = pc /\ call'[t].uri = call[t].uri /\ call'[t].text = call[t].text
      BY <1>1, <3>1 DEF CallType
    <3> QED
      BY <2>1, <3>2
  <2> QED
    BY <1>8, <2>2, <2>3 DEF GoOn
<1>9. CASE CacheAndPublish(t)
  <2>1. call'[t].pc = "idle"
    BY <1>1, <1>9, IdleType DEF CacheAndPublish
  <2> QED
    BY <1>9, <2>1 DEF CacheAndPublish, Put
<1>10. CASE EraseDocument(t)
  <2>1. call'[t].pc = "idle"
    BY <1>1, <1>10, IdleType DEF EraseDocument
  <2> QED
    BY <1>10, <2>1 DEF EraseDocument, Erase, Restrict
<1> QED
  BY <1>2, <1>3, <1>4, <1>6, <1>7, <1>8, <1>9, <1>10 DEF Continue

(* A step of one call leaves the other calls where they are. *)
LEMMA OthersStay ==
  ASSUME IInv, NEW t \in Threads, Begin(t) \/ Continue(t), NEW s \in Threads, s # t
  PROVE  call'[s].pc = call[s].pc
<1>1. call \in [Threads -> CallType] /\ call[s] \in CallType
  BY DEF IInv, TypeOK
<1>2. CASE cancelRequest(t)
  <2> DEFINE told == call[s].told \/ Analyzing(s)
  <2>1. call'[s] = [call[s] EXCEPT !.told = told]
    BY <1>2 DEF cancelRequest
  <2> HIDE DEF told
  <2> QED
    BY <1>1, <2>1 DEF CallType
<1>3. CASE Signal(t)
  <2> DEFINE told == call[s].told \/ (Analyzing(s) /\ call[s].uri = call[t].uri)
  <2>1. call'[s] = [call[s] EXCEPT !.told = told]
    BY <1>3 DEF Signal, Tell
  <2> HIDE DEF told
  <2> QED
    BY <1>1, <2>1 DEF CallType
<1>4. CASE call'[s] = call[s]
  BY <1>4
<1>5. Begin(t) => cancelRequest(t) \/ call'[s] = call[s]
  BY <1>1 DEF Begin, did_open, did_change, did_save, did_close, Enter
<1>6. Continue(t) => Signal(t) \/ call'[s] = call[s]
  <2>1. Store(t) \/ TakeFlag(t) \/ ReadText(t) => call'[s] = call[s]
    BY <1>1 DEF Store, Goto, TakeFlag, ReadText, Finish
  <2>2. Stop(t) \/ GoOn(t) => call'[s] = call[s]
    BY <1>1 DEF Stop, GoOn, Finish, Goto
  <2>3. CacheAndPublish(t) \/ EraseDocument(t) => call'[s] = call[s]
    BY <1>1 DEF CacheAndPublish, EraseDocument
  <2> QED
    BY <2>1, <2>2, <2>3 DEF Continue
<1> QED
  BY <1>2, <1>3, <1>4, <1>5, <1>6

LEMMA StepSole == IInv /\ SoleInv /\ [Next]_vars => SoleInv'
<1> SUFFICES ASSUME IInv, SoleInv, [Next]_vars PROVE SoleInv'
  OBVIOUS
<1>1. CASE UNCHANGED vars
  <2>1. ASSUME NEW t \in Threads, Synced(t)
        PROVE  Synced(t)'
    <3>1. UNCHANGED <<open_documents, diagnostics_cache, cancel_flags, call>>
      BY <1>1 DEF vars
    <3> QED
      BY <2>1, <3>1 DEF Synced, Behind, At
  <2> QED
    BY <1>1, <2>1 DEF vars, SoleInv, At
<1>2. CASE Next
  <2> SUFFICES ASSUME NEW t \in Threads, callers' = {t}
               PROVE  (\A s \in Threads : s # t => At(s, "idle")') /\ Synced(t)'
    BY DEF SoleInv
  <2>1. callers = {t} /\ (Begin(t) \/ Continue(t))
    BY <1>2 DEF Next
  <2>2. Synced(t)'
    BY <2>1, BeginSynced, ContinueSynced DEF SoleInv
  <2>3. \A s \in Threads : s # t => At(s, "idle")'
    BY <2>1, OthersStay DEF SoleInv, At
  <2> QED
    BY <2>2, <2>3
<1> QED
  BY <1>1, <1>2

(* Where the server's thread alone calls, between calls the open documents *)
(* are those with a flag and those with diagnostics, and the diagnostics   *)
(* are for the open text (did_open, did_change, did_save, did_close), for  *)
(* every number of documents and calls.                                    *)
THEOREM MapsAlwaysAgree == Spec => []MapsAgree
<1>1. IInv /\ SoleInv => MapsAgree
  <2> SUFFICES ASSUME IInv, SoleInv, Cardinality(callers) = 1, \A s \in Threads : At(s, "idle")
               PROVE  /\ DOMAIN diagnostics_cache = DOMAIN open_documents
                      /\ DOMAIN cancel_flags = DOMAIN open_documents
                      /\ \A u \in DOMAIN open_documents :
                           diagnostics_cache[u].text = open_documents[u]
    BY DEF MapsAgree
  <2>1. callers \subseteq Threads /\ IsFiniteSet(callers)
    BY LspDocumentsAssumption, FS_Subset DEF IInv, TypeOK
  <2>2. PICK t \in Threads : callers = {t}
    <3>1. \E x : callers = {x}
      BY <2>1, FS_Singleton
    <3> QED
      BY <2>1, <3>1
  <2>3. Synced(t) /\ call[t].pc = "idle"
    BY <2>2 DEF SoleInv, At
  <2> QED
    BY <2>3 DEF Synced, Behind, Computing, AnalyzingPc, At
<1> QED
  BY InitInv, StepInv, InitSole, StepSole, <1>1, PTL DEF Spec
=============================================================================
