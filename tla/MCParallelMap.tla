--------------------------- MODULE MCParallelMap ---------------------------
(***************************************************************************)
(* ParallelMap for TLC: the same items are mapped twice, by one thread and *)
(* by several, as the crossing analysis does or does not (num_threads <= 1 *)
(* in CrossingAnalyzer::analyze), and the two answers are compared.        *)
(***************************************************************************)
EXTENDS ParallelMap

VARIABLES seq_results, seq_exception, seq_abort, seq_main, seq_at, seq_response

seqVars == <<seq_results, seq_exception, seq_abort, seq_main, seq_at, seq_response>>

(* A call with num_threads = 1: it has no workers. *)
Seq == INSTANCE ParallelMap WITH
  Requested <- 1,
  pc <- <<>>, mine <- <<>>, index <- 0, abort_flag <- seq_abort,
  first_exception <- seq_exception,
  results <- seq_results, main <- seq_main, at <- seq_at,
  response <- seq_response

MCInit == Init /\ Seq!Init

OneThread == Seq!CallerStep /\ UNCHANGED vars
SeveralThreads == seq_main # "loop" /\ Next /\ UNCHANGED seqVars

(* Both calls have answered; every thread then rests. *)
Done ==
  /\ main \in {"returned", "thrown"} /\ seq_main # "loop"
  /\ UNCHANGED <<vars, seqVars>>

MCNext == OneThread \/ SeveralThreads \/ Done

MCSpec ==
  /\ MCInit /\ [][MCNext]_<<vars, seqVars>>
  /\ Fairness /\ WF_seqVars(OneThread)

(* The number of threads does not show in the answer: the threaded call    *)
(* returns exactly when the sequential one does, with the same vector;     *)
(* the sequential one stops at the first item that fails and runs nothing  *)
(* behind it (the two branches of parallel_map).                           *)
ThreadsDoNotShow ==
  /\ main \in {"returned", "thrown"} =>
       /\ main = seq_main
       /\ main = "returned" => response = seq_response
  /\ Seq!SequentialStopsAtFirst
=============================================================================
