----------------------------- MODULE RolloutParts -----------------------------
(***************************************************************************)
(* The two parts of a rollout at the ends of its loop (Rollout): the       *)
(* cameras, whose frames it observes (CameraStreams), and the executor,    *)
(* whose chunks it plays (ChunkExecutor).  Rollout takes from them that a  *)
(* dead camera's image grows old, and ChunkPlayer.  They share no state: a *)
(* behaviour is of one of them, and the other stands where it begins.      *)
(***************************************************************************)
EXTENDS ChunkExecutor, CameraQueues

CONSTANTS DrainPeriod, MaxImageAge, MaxAge  \* of CameraStreams

VARIABLES
  chosen,
  proc, drain, at, latest, timer, heard, parent, closer, writers

Streams == INSTANCE CameraStreams

ASSUME DrainAssumption == Streams!StreamAssumption

cameraVars == <<queue, started, proc, drain, at, latest, timer, heard, parent, closer, writers>>

allVars == <<chosen, vars, cameraVars>>

ChosenInit ==
  /\ chosen \in {"cameras", "executor"}
  /\ Init /\ Streams!Init
  /\ chosen = "cameras" => splice = "index" /\ leash = NoLeash /\ now = 0

OfCameras == chosen = "cameras" /\ UNCHANGED <<chosen, vars>>

OfExecutor == chosen = "executor" /\ UNCHANGED <<chosen, cameraVars>>

ChosenNext == (OfCameras /\ Streams!Next) \/ (OfExecutor /\ Next)

\* The cameras run under their own fairness; the executor owes nothing.
ChosenSpec ==
  /\ ChosenInit /\ [][ChosenNext]_allVars
  /\ WF_cameraVars(OfCameras /\ \E c \in Cameras : Streams!Boot(c))
  /\ SF_cameraVars(OfCameras /\ \E c \in Cameras : Streams!ReadEmpty(c))
  /\ WF_cameraVars(OfCameras /\ Streams!Drain) /\ WF_cameraVars(OfCameras /\ Streams!Teardown)
  /\ WF_cameraVars(OfCameras /\ Streams!Tick)

-----------------------------------------------------------------------------
\* Workers die, and sooner or later every camera whose worker has died is
\* reported stale, whether its queue was empty or the drain hangs on a message
\* cut short, unless the program ends (stale_image_ages).
CrashIsNoticed == Streams!CrashIsNoticed

\* Once close() has begun the program ends: the workers are reaped, and a
\* drain that hangs on a message cut short comes back.
CloseEnds == Streams!CloseEnds
=============================================================================
