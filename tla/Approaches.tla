------------------------------ MODULE Approaches ------------------------------
(***************************************************************************)
(* The two approaches to the table, of which a command line chooses one:   *)
(* by odometry (Approach), or by camera (PerceptionApproach).  The other   *)
(* stands where it begins.                                                 *)
(***************************************************************************)
EXTENDS Approach

CONSTANTS  \* of PerceptionApproach, Arrival and Standing for its Tol and SettleTicks
  Position, StartError, Noise, Lag, Profiles, Mirror, Reject, Blocked, Reach, Ahead, Arrival,
  Near, Standing, SpineTicks, Step, MaxBackoff, RimFrom

VARIABLES
  chosen,
  profile, camStage, up, hold, pos, moved, trail, heard, frame, unread, est, last,
  path, backoff, standing, coast, camWire

camera ==
  <<profile, camStage, up, hold, pos, moved, trail, heard, frame, unread, est, last,
    path, backoff, standing, coast, camWire>>

allVars == <<chosen, vars, camera>>

Camera == INSTANCE PerceptionApproach WITH
  Tol <- Arrival, SettleTicks <- Standing,
  stage <- camStage, settle <- standing, wire <- camWire

ASSUME CameraAssumption == Camera!PerceptionAssumption

-----------------------------------------------------------------------------
ChosenInit ==
  /\ chosen \in {"odometry", "camera"}
  /\ Init /\ Camera!Init
  /\ \/ chosen = "odometry" /\ ~up /\ ~heard /\ profile = (CHOOSE p \in Profiles : TRUE)
     \/ /\ chosen = "camera" /\ ~spine
        /\ pose = (CHOOSE p \in Pose : TRUE) /\ vel = (CHOOSE v \in Velocity : TRUE)

ByOdometry == chosen = "odometry" /\ UNCHANGED <<chosen, camera>>

ByCamera == chosen = "camera" /\ UNCHANGED <<chosen, vars>>

ChosenNext == (ByOdometry /\ Next) \/ (ByCamera /\ Camera!Next)

\* The chosen one runs under its own fairness.
ChosenSpec ==
  /\ ChosenInit /\ [][ChosenNext]_allVars
  /\ WF_allVars(ByOdometry /\ Tick) /\ WF_allVars(ByOdometry /\ Clock)
  /\ WF_allVars(ByCamera /\ Camera!Tick) /\ WF_allVars(ByCamera /\ Camera!OdomStarts)
  /\ SF_allVars(ByCamera /\ Camera!Move)

-----------------------------------------------------------------------------
\* run_approach: "Always stop the base at approach exit (timeout, error, or
\* done)": the approach ends, in whatever stage it is stuck, as long as the
\* simulation clock goes on, and leaves no token on the wire.
OdometryEndsStopped == chosen = "odometry" => EndsStopped

\* The camera's fused estimate is never further off than the rough start or
\* one lock could put it: no frame is fused twice.
CameraIsNear == Camera!EstimateIsNear

\* Once the camera's approach has a path, its navigation ends, if the rear rim
\* comes into view while the retreated target is within one leg of the goal:
\* the base does not hunt between the retreat and the path that leads back.
CameraArrives == chosen = "camera" /\ Camera!RimInReach => Camera!NavigateEnds

\* approach_perception_based.py:102-104, of the retreat: "Capped so a detector
\* that never finds the rim (bad lighting, whatever) can't retreat the base
\* indefinitely - past the cap, settle at the nominal goal anyway".
PastTheCapSettles == chosen = "camera" => Camera!NavigateEnds
=============================================================================
