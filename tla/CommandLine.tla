----------------------------- MODULE CommandLine -----------------------------
(***************************************************************************)
(* camelo/cli.py with the seams it resolves flags for: what the command    *)
(* line of scripts/run_policy.py is refused for, and what is built from    *)
(* it.  A command line maps options to values.  An option has the classes  *)
(* of values the program tells apart, its default first; "ok" and "bad"    *)
(* are a value that parses and one that does not.  Options that only name  *)
(* files, or set numbers, are left out.                                    *)
(***************************************************************************)
EXTENDS Naturals, Sequences, TLC

PolicyOptions ==
  [ world          |-> <<"sim", "real">>,
    adapter        |-> <<"dummy", "heuristic", "lerobot", "unknown">>,
    actionLayout   |-> <<"none", "canonical", "s27a15">>,
    cameraMap      |-> <<"none", "ok", "bad">>,
    stateLayout    |-> <<"none", "canonical", "s27a15">>,
    gripperCommand |-> <<"none", "knuckle_rad">>,
    captionDrift   |-> <<"off", "on">>,
    backend        |-> <<"local", "remote">>,
    dummyObs       |-> <<"off", "on">> ]

InferenceOptions ==
  [ async         |-> <<"auto", "on", "off">>,
    splice        |-> <<"auto", "index", "nearest", "offset">>,
    leash         |-> <<"auto", "0", "0.3">>,
    timeBase      |-> <<"observation", "arrival">> ]

ModelOptions ==
  [ inferenceSteps |-> <<"none", "4">>,
    cameras        |-> <<"all", "head", "unknown">>,
    indexMode      |-> <<"none", "progress">> ]

WireOptions ==
  [ wireSize    |-> <<"none", "ok", "unknown camera", "bad">>,
    wireQuality |-> <<"90", "70", "bad">> ]

ApproachOptions ==
  [ skipApproach |-> <<"off", "on">>,
    approach     |-> <<"pose", "perception">>,
    startXyYaw   |-> <<"none", "ok", "bad">>,
    profile      |-> <<"none", "rig", "no rig section", "bad">>,
    approachOnly |-> <<"off", "on">> ]

ArmOptions ==
  [ startPose       |-> <<"none", "benchmark", "task2", "file", "bad">>,
    startPoseCheck  |-> <<"on", "off">>,
    arms            |-> <<"both", "left", "bad">>,
    wait            |-> <<"auto", "on", "off">>,
    activate        |-> <<"off", "on">>,
    release         |-> <<"on", "off">>,
    keepalive       |-> <<"10", "0">>,
    gelloDirections |-> <<"ok", "bad">>,
    wrench          |-> <<"on", "off">>,
    allowShape      |-> <<"off", "on">> ]

GuardOptions ==
  [ imageAge  |-> <<"auto", "0", "2">>,
    stateAge  |-> <<"auto", "0", "2">>,
    latch     |-> <<"none", "ok", "bad">>,
    latchNear |-> <<"none", "ok", "bad">> ]

Options == PolicyOptions @@ InferenceOptions @@ ModelOptions @@ WireOptions
             @@ ApproachOptions @@ ArmOptions @@ GuardOptions

Option == DOMAIN Options

Values(o) == {Options[o][i] : i \in 1..Len(Options[o])}

Default(o) == Options[o][1]

\* argparse: what was not typed has its default.
Parse(typed) == [o \in Option |-> IF o \in DOMAIN typed THEN typed[o] ELSE Default(o)]

IsReal(a) == a.world = "real"

-----------------------------------------------------------------------------
(* The policy: adapter, wire, action space.                                *)

Layout == "s27a15"

Canonical == "canonical20"

\* What a checkpoint may emit: the two vectors the code knows, another of each
\* one's width, or one of neither.
Emitted == {Layout, Canonical, "other 15", "other 20", "other"}

\* s27a15.ACTION_DIM and contracts.ACTION_DIM.
Width(emitted) ==
  CASE emitted \in {Layout, "other 15"} -> 15
    [] emitted \in {Canonical, "other 20"} -> 20
    [] OTHER -> 16

RealLayout(a) == Layout \in {a.actionLayout, a.stateLayout}

ModelFree(a) == a.adapter \in {"dummy", "heuristic"}

\* DummyAdapter takes none of the keywords the s27a15 flags become.
AdapterRefused(a) ==
  \/ a.cameraMap = "bad" /\ ~ModelFree(a)
  \/ a.gripperCommand # "none" /\ (~RealLayout(a) \/ a.adapter = "dummy")
  \/ a.captionDrift = "on" /\ (~RealLayout(a) \/ a.adapter = "dummy")
  \/ a.inferenceSteps # "none" /\ ModelFree(a)
  \/ a.indexMode # "none" /\ a.adapter # "heuristic"
  \/ a.adapter = "unknown"

\* What the adapters this one may be emit (all but the dummy are external).
AdapterSpaces(a) ==
  IF ModelFree(a) \/ ~RealLayout(a) THEN {Canonical}
  ELSE IF a.actionLayout = a.stateLayout THEN {Layout} ELSE {Layout, Canonical}

\* parse_wire_image_size: with --backend remote it is given the cameras.
WireSizeRefused(a) ==
  \/ a.wireSize = "bad"
  \/ a.wireSize = "unknown camera" /\ a.backend = "remote"

WireRefused(a) == a.wireQuality = "bad" \/ WireSizeRefused(a)

WireTouched(a) == a.wireSize # "none" \/ a.wireQuality # Default("wireQuality")

CamerasRefused(a) == a.cameras = "unknown"

BackendRefused(a) ==
  IF a.backend = "remote"
  THEN a.inferenceSteps # "none" \/ CamerasRefused(a) \/ WireRefused(a)
  ELSE WireTouched(a) \/ AdapterRefused(a)

\* action_space_from_args, and layout_for_args of --dummy-obs.
Declared(a) == IF RealLayout(a) THEN Layout ELSE Canonical

-----------------------------------------------------------------------------
(* The rollout's machinery.                                                *)

Async(a) ==
  \/ a.async = "on"
  \/ a.async = "auto" /\ a.backend = "remote" /\ IsReal(a)

ChunkSplice(a) ==
  IF a.splice # "auto" THEN a.splice ELSE IF Async(a) THEN "nearest" ELSE "index"

\* leash_rad_from_args: U-32, on by default on the real robot only.
LeashRad(a) ==
  IF a.leash # "auto" THEN a.leash ELSE IF IsReal(a) THEN "0.15" ELSE "0"

MaxImageAge(a) ==
  IF ~IsReal(a) THEN "0" ELSE IF a.imageAge = "auto" THEN "0.5" ELSE a.imageAge

MaxStateAge(a) ==
  IF ~IsReal(a) THEN "0" ELSE IF a.stateAge = "auto" THEN "0.2" ELSE a.stateAge

ImageGuarded(a) == MaxImageAge(a) # "0"

StateGuarded(a) == MaxStateAge(a) # "0"

Leashed(a) == LeashRad(a) # "0"

\* parse_gripper_latch_spec.
LatchSpecRefused(a) == a.latch = "bad"

\* parse_gripper_latch_near_spec, resolve_gripper_latch_near_pose.
LatchNearRefused(a) == a.latchNear = "bad"

\* --gripper-latch-near needs --gripper-latch.
LatchRefused(a) ==
  IF a.latch = "none" THEN a.latchNear # "none"
  ELSE LatchSpecRefused(a) \/ LatchNearRefused(a)

-----------------------------------------------------------------------------
(* The arms and the base.                                                  *)

ArmsRefused(a) == a.arms = "bad"

\* make_start_pose_from_args: the simulation's poses are refused on the real
\* robot whether or not the check is waived; no pose needs the waiver.
StartPoseRefused(a) ==
  \/ a.startPose = "bad"
  \/ IsReal(a) /\ a.startPose \in {"benchmark", "task2"}
  \/ IsReal(a) /\ a.startPose = "none" /\ a.startPoseCheck # "off"

StartPose(a) == IF a.startPose = "benchmark" THEN "none" ELSE a.startPose

Waits(a) == a.wait = "on" \/ (a.wait = "auto" /\ IsReal(a))

UsesControllers(a) == Waits(a) \/ a.activate = "on"

KeepsAlive(a) == IsReal(a) /\ a.keepalive # "0"

GelloRefused(a) == a.gelloDirections = "bad"

StartXyYawRefused(a) == a.startXyYaw = "bad"

\* The base controller make_approach_from_args means to build, or "none".
ApproachOf(a) ==
  IF a.skipApproach = "on" \/ (IsReal(a) /\ a.approach = "pose") THEN "none"
  ELSE a.approach

\* load_profile raises on what it cannot read.
ProfileRefused(a) == a.profile = "bad"

ApproachRefused(a) ==
  /\ ApproachOf(a) = "perception"
  /\ \/ IsReal(a) /\ a.profile \in {"none", "no rig section"}
     \/ ProfileRefused(a)
     \/ StartXyYawRefused(a)

-----------------------------------------------------------------------------
(* The observation.                                                        *)

Stream == {"joints", "gripper", "wrench", "images"}

\* The groups a real observation is not complete without.
RigGroups(a) ==
  {"joints", "gripper"} \cup IF a.wrench = "on" THEN {"wrench"} ELSE {}

\* ObsCollector.get_obs: with --dummy-obs no camera is subscribed.
Needed(a) ==
  {"joints"} \cup (IF a.dummyObs = "off" THEN {"images"} ELSE {})
    \cup (IF IsReal(a) THEN RigGroups(a) ELSE {})
=============================================================================
