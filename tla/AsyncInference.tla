---------------------------- MODULE AsyncInference ----------------------------
(***************************************************************************)
(* camelo/control/async_inference.py: policy inference off the control     *)
(* thread.                                                                 *)
(*                                                                         *)
(* One worker thread owns the backend.  The control thread hands it an     *)
(* observation (submit), collects the chunk later (poll) and asks it to    *)
(* stop (close); two unbounded queues join the threads.  Each action is a  *)
(* call of one of them, atomic because it makes one queue operation.       *)
(*                                                                         *)
(* An observation is its sim time; the chunk that answers it carries that  *)
(* time as its t0, so a result is written with the same value.             *)
(***************************************************************************)
EXTENDS Integers, Sequences

CONSTANTS
  Observation,  \* what may be submitted
  STOP,         \* the sentinel that ends the worker
  NoItem

ASSUME RequestAssumption == STOP \notin Observation /\ NoItem \notin Observation

VARIABLES
  inFlight,   \* _in_flight, written by the control thread only
  dropped,    \* whether dropped_requests has counted anything
  requests,   \* _requests
  results,    \* _results
  worker,     \* the thread: not started, waiting, inferring, stopped by STOP
              \* or ended by an error
  item        \* the observation it infers from, or NoItem

inferenceVars == <<inFlight, dropped, requests, results, worker, item>>

Reply == [kind : {"chunk", "error"}, obs : Observation]

InferenceInit ==
  /\ inFlight = FALSE
  /\ dropped = FALSE
  /\ requests = <<>>
  /\ results = <<>>
  /\ worker = "none"
  /\ item = NoItem

\* AsyncInference(backend): the thread starts.
StartWorker ==
  /\ worker = "none"
  /\ worker' = "waiting"
  /\ UNCHANGED <<inFlight, dropped, requests, results, item>>

\* submit(): while a request is out another is dropped and counted, never
\* queued.
Submit(obs) ==
  /\ dropped' = (dropped \/ inFlight)
  /\ inFlight' = TRUE
  /\ requests' = IF inFlight THEN requests ELSE Append(requests, obs)
  /\ UNCHANGED <<results, worker, item>>

\* poll(): nothing yet, a chunk, or the worker's exception, re-raised.
PollEmpty ==
  /\ results = <<>>
  /\ UNCHANGED inferenceVars

Poll(kind) ==
  /\ results # <<>>
  /\ Head(results).kind = kind
  /\ results' = Tail(results)
  /\ inFlight' = FALSE
  /\ UNCHANGED <<dropped, requests, worker, item>>

\* close(): the sentinel goes behind whatever was asked before.
RequestStop ==
  /\ requests' = Append(requests, STOP)
  /\ UNCHANGED <<inFlight, dropped, results, worker, item>>

\* The worker takes the next item: it infers from it, or stops.
TakeRequest ==
  /\ worker = "waiting"
  /\ requests # <<>> /\ Head(requests) # STOP
  /\ requests' = Tail(requests)
  /\ worker' = "inferring"
  /\ item' = Head(requests)
  /\ UNCHANGED <<inFlight, dropped, results>>

TakeStop ==
  /\ worker = "waiting"
  /\ requests # <<>> /\ Head(requests) = STOP
  /\ requests' = Tail(requests)
  /\ worker' = "stopped"
  /\ UNCHANGED <<inFlight, dropped, results, item>>

\* backend.infer() returned a chunk, or raised: then the worker is done.
Done(kind) ==
  /\ worker = "inferring"
  /\ results' = Append(results, [kind |-> kind, obs |-> item])
  /\ item' = NoItem
  /\ UNCHANGED <<inFlight, dropped, requests>>

Answer == Done("chunk") /\ worker' = "waiting"

Fail == Done("error") /\ worker' = "failed"

Work == TakeRequest \/ TakeStop \/ Answer \/ Fail

-----------------------------------------------------------------------------

InferenceTypeOK ==
  /\ inFlight \in BOOLEAN
  /\ dropped \in BOOLEAN
  /\ requests \in Seq(Observation \cup {STOP})
  /\ results \in Seq(Reply)
  /\ worker \in {"none", "waiting", "inferring", "stopped", "failed"}
  /\ item \in Observation \cup {NoItem}
  /\ worker = "inferring" <=> item # NoItem

\* The request queue holds no request, or one, the sentinel last.
Idle ==
  /\ Len(requests) <= 1
  /\ Len(requests) = 1 => requests[1] = STOP

QueuedRequest ==
  /\ Len(requests) \in {1, 2}
  /\ requests[1] # STOP
  /\ Len(requests) = 2 => requests[2] = STOP

\* One request at a time: the flag, which only the control thread writes, is
\* up exactly when one request is queued, or with the worker, or answered
\* and not yet polled, and never two of these.  So no reply is ever made from
\* an observation older than the newest one asked about.
OneInFlight ==
  \/ ~inFlight /\ Idle /\ worker # "inferring" /\ results = <<>>
  \/ inFlight /\ QueuedRequest /\ worker # "inferring" /\ results = <<>>
  \/ inFlight /\ Idle /\ worker = "inferring" /\ results = <<>>
  \/ inFlight /\ Idle /\ worker # "inferring" /\ Len(results) = 1

\* Until close() no sentinel is queued, and the worker has not seen one.
NotClosed ==
  /\ \A i \in 1..Len(requests) : requests[i] # STOP
  /\ worker # "stopped"
=============================================================================
