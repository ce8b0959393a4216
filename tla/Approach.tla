-------------------------------- MODULE Approach --------------------------------
(***************************************************************************)
(* The approach by odometry (ApproachController in                         *)
(* camelo/control/approach.py) and the loop that runs it before a rollout  *)
(* (run_approach in camelo/runner/episode_runner.py): wait for the spine,  *)
(* drive the base along its waypoints, walk the arms down their legs, trim *)
(* the base (PulseTrim), hand over.                                        *)
(*                                                                         *)
(* The world delivers odometry and joint states, and advances the          *)
(* simulation clock, between the ticks of the loop.  Joint states are      *)
(* slower than the loop: a tick may look at one it has seen before.        *)
(* Velocities are as the loop reads them: one that is not finite is read   *)
(* as rest.                                                                *)
(***************************************************************************)
EXTENDS Integers, Sequences, FiniteSets

CONSTANTS
  Stages,       \* build_stages: the stages in order, "done" the last
  Axes,         \* the axes of the base, in the order the code visits them
  Pose,         \* errors odometry may report: functions on the axes
  Velocity,     \* velocities it may report
  Tolerance,    \* arrival tolerance of each waypoint: a sequence
  StopLim,      \* below it an axis counts as stopped
  SettleTicks,  \* ticks of arrival at the last waypoint
  Legs,         \* number of legs of arm_path
  ArmTol,       \* arrival tolerance of a leg
  ArmFar,       \* error of the arms when a leg far off is commanded
  ArmSettle,    \* settle_ticks of a leg
  JointPeriod,  \* ticks that look at a joint state, if the next comes in time
  Timeout,      \* the approach's time, by the simulation clock
  None

Axis == {Axes[i] : i \in 1..Len(Axes)}

Stage == {Stages[i] : i \in 1..Len(Stages)}

ASSUME ApproachAssumption ==
  /\ Axes \in Seq(Axis) /\ Axes # <<>> /\ None \notin Axis
  /\ Pose \subseteq [Axis -> Int] /\ Pose # {}
  /\ Velocity \subseteq [Axis -> Int] /\ Velocity # {}
  /\ Stages \in Seq({"spine", "navigate", "place_arms", "fine", "start_pose", "done"})
  /\ Len(Stages) >= 2 /\ Stages[Len(Stages)] = "done"
  /\ \A i, j \in 1..Len(Stages) : Stages[i] = Stages[j] => i = j
  /\ Tolerance \in Seq(Nat) /\ Tolerance # <<>>
  /\ StopLim \in Nat /\ SettleTicks \in Nat \ {0}
  /\ Legs \in Nat \ {0} /\ ArmTol \in Nat /\ ArmFar \in Nat /\ ArmTol < ArmFar
  /\ ArmSettle \in Nat /\ JointPeriod \in Nat \ {0} /\ JointPeriod <= ArmSettle
  /\ Timeout \in Nat \ {0}

VARIABLES
  stage,   \* of the controller
  wp,      \* the waypoint it drives to
  settle,  \* _settle_left: ticks it has stood at the last one
  leg,     \* the leg of the arm path
  held,    \* _arm_hold_ticks: ticks the leg has been in tolerance
  span,    \* _arm_hold_span: least and greatest error over them
  arms,    \* the leg the arms are commanded to; 0, to stay as found
  wire,    \* the pedal token published: <<axis, sign>>, or None
  result,  \* of run_approach
  pose,    \* the newest odometry: the error of each axis to the waypoint
  vel,     \* and its velocity
  spine,   \* whether the spine is measured to be up
  arm,     \* the arms' error to the leg commanded
  seen,    \* the one in the newest joint state
  age,     \* ticks that have looked at that joint state, up to JointPeriod
  clock,   \* simulation time since the start
  steady,  \* history: looks in a row that found the base at rest at the goal
  looks,   \* history: joint states the window of a leg has looked at
  late     \* history: one of them was looked at for longer

control == <<stage, wp, settle, leg, held, span, arms>>

base == <<pose, vel>>

joints == <<arm, seen, age>>

history == <<steady, looks, late>>

vars == <<control, wire, result, base, spine, joints, clock, history>>

Magnitude(x) == IF x < 0 THEN -x ELSE x

Sign(x) == IF x < 0 THEN -1 ELSE 1

LastWp == Len(Tolerance)

NextStage ==
  LET i == CHOOSE j \in 1..Len(Stages) : Stages[j] = stage
  IN IF i < Len(Stages) THEN Stages[i + 1] ELSE "done"

-----------------------------------------------------------------------------
\* The world.

Running == result = "running"

\* The other stages do not look at odometry: what comes then is as if it came
\* when they end.
Odom ==
  /\ Running /\ stage \in {"spine", "navigate", "fine"}
  /\ pose' \in Pose /\ vel' \in Velocity
  /\ UNCHANGED <<control, wire, result, spine, joints, clock, history>>

SpineMoves ==
  /\ Running /\ stage = "spine"
  /\ spine' = ~spine
  /\ UNCHANGED <<control, wire, result, base, joints, clock, history>>

\* The arms come closer to the leg they are commanded to.
ArmsMove ==
  /\ Running /\ arms \in 1..Legs /\ arm > 0
  /\ arm' = arm - 1
  /\ UNCHANGED <<control, wire, result, base, spine, seen, age, clock, history>>

JointState ==
  /\ Running
  /\ seen' = arm /\ age' = 0
  /\ looks' = IF held > 0 /\ looks < 2 /\ age > 0 THEN looks + 1 ELSE looks
  /\ UNCHANGED <<control, wire, result, base, spine, arm, clock, steady, late>>

Clock ==
  /\ Running /\ clock < Timeout /\ clock # -2
  /\ clock' = clock + 1
  /\ UNCHANGED <<control, wire, result, base, spine, joints, history>>

\* Someone resets the simulation; a tick of the loop falls into it.
Rebase ==
  /\ Running /\ clock >= 0
  /\ clock' = -2
  /\ UNCHANGED <<control, wire, result, base, spine, joints, history>>

-----------------------------------------------------------------------------
\* One tick of run_approach: its checks, and what every step leaves behind.

\* Mutant: only the drive is timed.
TimedOutDriving == clock >= Timeout /\ stage = "navigate"

TimedOut == clock >= Timeout

Rebased == clock < -1

\* Nothing makes the loop wait for a joint state that is late.
Timely == age < JointPeriod

Ticks == Running /\ stage # "done" /\ ~TimedOut /\ ~Rebased

InTolerance(a) == Magnitude(pose[a]) <= Tolerance[wp]

Stopped(a) == Magnitude(vel[a]) <= StopLim

AtGoal == wp = LastWp /\ \A a \in Axis : InTolerance(a) /\ Stopped(a)

Send(token) ==
  /\ wire' = token
  /\ age' = IF Timely THEN age + 1 ELSE age
  /\ late' = (held' > 0 /\ (late \/ ~Timely))
  /\ UNCHANGED <<result, base, spine, clock>>

Publish(token) ==
  /\ steady' = IF AtGoal THEN (IF steady < SettleTicks THEN steady + 1 ELSE steady) ELSE 0
  /\ Send(token)

\* _ensure_arm_cmd: until their first leg the arms are held as found.
HoldArms == UNCHANGED arms

\* step, when the arms are not measured, or the base that is to be driven:
\* the tick looks no further, and what was counted stays.  Unmeasured arms
\* are sent to joint zero.
Unmeasured ==
  /\ Ticks
  /\ arm' \in {arm, ArmFar}
  /\ UNCHANGED <<control, seen, steady, looks>>
  /\ Send(None)

Spine ==
  /\ Ticks /\ stage = "spine"
  /\ stage' = IF spine THEN NextStage ELSE stage
  /\ HoldArms
  /\ UNCHANGED <<wp, settle, leg, held, span, arm, seen, looks>>
  /\ Publish(None)

-----------------------------------------------------------------------------
\* Navigating.

\* AxisDrive._wants: full speed unless the base, let go now, coasts into the
\* tolerance (at velocity v it coasts v further).
Wants(a) ==
  LET closing == vel[a] * Sign(pose[a])
  IN /\ ~InTolerance(a)
     /\ closing <= 0 \/ Magnitude(pose[a]) - closing > Tolerance[wp]

\* The axis furthest out of those that want to move; of equals, the first.
Leading(a) ==
  \E i \in 1..Len(Axes) :
    /\ Axes[i] = a /\ Wants(a)
    /\ \A j \in 1..Len(Axes) :
         Wants(Axes[j]) =>
           /\ Magnitude(pose[Axes[j]]) <= Magnitude(pose[a])
           /\ j < i => Magnitude(pose[Axes[j]]) < Magnitude(pose[a])

DriveToken ==
  IF \E a \in Axis : Leading(a)
  THEN LET a == CHOOSE x \in Axis : Leading(x) IN <<a, Sign(pose[a])>>
  ELSE None

WaypointOk ==
  \A a \in Axis : InTolerance(a) /\ (wp = LastWp => Stopped(a))

Navigating == Ticks /\ stage = "navigate" /\ HoldArms

PassWaypoint ==
  /\ Navigating /\ WaypointOk /\ wp < LastWp
  /\ wp' = wp + 1
  /\ UNCHANGED <<stage, settle, leg, held, span, arm, seen, looks>>
  /\ Publish(None)

Settle ==
  /\ Navigating /\ WaypointOk /\ wp = LastWp
  /\ IF settle + 1 >= SettleTicks
     THEN settle' = 0 /\ stage' = NextStage
     ELSE settle' = settle + 1 /\ UNCHANGED stage
  /\ UNCHANGED <<wp, leg, held, span, arm, seen, looks>>
  /\ Publish(None)

\* Mutant: ticks at the goal are counted, in a row or not.
DriveOn ==
  /\ Navigating /\ ~WaypointOk
  /\ UNCHANGED <<stage, wp, settle, leg, held, span, arm, seen, looks>>
  /\ Publish(DriveToken)

Drive ==
  /\ Navigating /\ ~WaypointOk
  /\ settle' = 0
  /\ UNCHANGED <<stage, wp, leg, held, span, arm, seen, looks>>
  /\ Publish(DriveToken)

-----------------------------------------------------------------------------
\* Placing the arms.

\* The leg is commanded on every tick: the arms set out for it on its first,
\* from where they stand, which may be there already; the joint state that
\* this tick and the next ones look at predates the command.
Command ==
  /\ arms' = leg
  /\ IF arms = leg THEN UNCHANGED <<arm, seen>>
     ELSE arm' \in {0, ArmTol, ArmFar} /\ seen' = arm'

\* What a tick judges.
Measured == seen'

Least(x, y) == IF x < y THEN x ELSE y

Greatest(x, y) == IF x > y THEN x ELSE y

NewSpan ==
  IF held = 0 THEN <<Measured, Measured>>
  ELSE <<Least(span[1], Measured), Greatest(span[2], Measured)>>

Placing == Ticks /\ stage = "place_arms" /\ Command

OffLeg ==
  /\ Placing /\ Measured > ArmTol
  /\ held' = 0 /\ looks' = 0
  /\ UNCHANGED <<stage, wp, settle, leg, span>>
  /\ Publish(None)

\* Mutant: the settle window is one tick short.
WindowShort == held + 1 >= ArmSettle

WindowOver == held + 1 > ArmSettle

OnLeg ==
  /\ Placing /\ Measured <= ArmTol /\ ~WindowOver
  /\ held' = held + 1 /\ span' = NewSpan
  /\ looks' = IF held = 0 THEN 1 ELSE looks
  /\ UNCHANGED <<stage, wp, settle, leg>>
  /\ Publish(None)

\* The arms are still converging: a new window.
StillMoving ==
  /\ Placing /\ Measured <= ArmTol /\ WindowOver /\ NewSpan[1] # NewSpan[2]
  /\ held' = 0 /\ span' = NewSpan /\ looks' = 0
  /\ UNCHANGED <<stage, wp, settle, leg>>
  /\ Publish(None)

LegDone ==
  /\ Placing /\ Measured <= ArmTol /\ WindowOver /\ NewSpan[1] = NewSpan[2]
  /\ held' = 0 /\ span' = NewSpan
  /\ IF leg < Legs THEN leg' = leg + 1 /\ UNCHANGED stage
     ELSE stage' = NextStage /\ UNCHANGED leg
  /\ UNCHANGED <<wp, settle, looks>>
  /\ Publish(None)

-----------------------------------------------------------------------------
\* The fine trim, as PulseTrim promises it, and the handover.

Trim(token) ==
  /\ Ticks /\ stage = "fine" /\ HoldArms
  /\ stage' \in {stage, NextStage}
  /\ stage' # stage => token = None /\ \A a \in Axis : Stopped(a)
  /\ UNCHANGED <<wp, settle, leg, held, span, arm, seen, looks>>
  /\ Publish(token)

\* What is off at the handover is logged; the policy starts anyway.
StartPose ==
  /\ Ticks /\ stage = "start_pose"
  /\ stage' = NextStage
  /\ UNCHANGED <<wp, settle, leg, held, span, arms, arm, seen, looks>>
  /\ Publish(None)

\* run_approach's finally: the base is stopped however the loop ends.
SafeStop == wire' = None

Ends(how) ==
  /\ Running
  /\ result' = how
  /\ SafeStop
  /\ UNCHANGED <<control, base, spine, joints, clock, history>>

Finish == stage = "done" /\ Ends("done")

TimeoutError == stage # "done" /\ TimedOut /\ Ends("timeout")

RebaseError == stage # "done" /\ Rebased /\ Ends("rebased")

Over == ~Running /\ UNCHANGED vars

Token == Axis \X {-1, 1} \cup {None}

Tick ==
  \/ Unmeasured \/ Spine
  \/ PassWaypoint \/ Settle \/ Drive
  \/ OffLeg \/ OnLeg \/ StillMoving \/ LegDone
  \/ \E token \in Token : Trim(token)
  \/ StartPose
  \/ Finish \/ TimeoutError \/ RebaseError

World == Odom \/ SpineMoves \/ ArmsMove \/ JointState \/ Clock \/ Rebase

Init ==
  /\ stage = Stages[1] /\ wp = 1 /\ settle = 0
  /\ leg = 1 /\ held = 0 /\ span = <<0, 0>> /\ arms = 0
  /\ wire = None /\ result = "running"
  /\ pose \in Pose /\ vel \in Velocity /\ spine \in BOOLEAN
  /\ arm = ArmFar /\ seen = ArmFar /\ age = 0
  /\ clock = 0
  /\ steady = 0 /\ looks = 0 /\ late = FALSE

Next == Tick \/ World \/ Over

\* The loop runs and the simulation clock goes on, whatever the robot does.
Spec == Init /\ [][Next]_vars /\ WF_vars(Tick) /\ WF_vars(Clock)

-----------------------------------------------------------------------------
TypeOK ==
  /\ stage \in Stage /\ wp \in 1..LastWp /\ settle \in 0..SettleTicks
  /\ leg \in 1..Legs /\ held \in 0..ArmSettle
  /\ span \in (0..ArmFar) \X (0..ArmFar)
  /\ arms \in 0..Legs
  /\ wire \in Token
  /\ result \in {"running", "done", "timeout", "rebased"}
  /\ pose \in Pose /\ vel \in Velocity /\ spine \in BOOLEAN
  /\ arm \in 0..ArmFar /\ seen \in 0..ArmFar /\ age \in 0..JointPeriod
  /\ clock \in -2..Timeout
  /\ steady \in 0..SettleTicks /\ looks \in 0..2 /\ late \in BOOLEAN

\* The arms are not lowered beside a base that still moves: navigate ends only
\* when as many looks in a row as it asks for found the base at rest in the
\* tolerance of the last waypoint, however often it got there and left.  A
\* velocity that is not finite counts as rest (approach.py:1306-1308).
BaseRestsBeforeArms ==
  [][stage = "navigate" /\ stage' # stage => steady' >= SettleTicks]_vars

\* _step_place_arms: "The first ticks' measured state predates the command
\* (joints report at ~10 Hz against a 50 Hz loop)": a leg is accepted on two
\* joint states at least, unless one was late, which nothing in the approach
\* looks at; and the arms had not moved between them.
LegIsSettled ==
  [][leg' # leg \/ (stage = "place_arms" /\ stage' # stage)
       => (looks >= 2 \/ late \/ ~Timely) /\ span'[1] = span'[2] /\ span'[2] <= ArmTol]_vars

\* run_approach: "Always stop the base at approach exit (timeout, error, or
\* done)": the approach ends, in whatever stage it is stuck, as long as the
\* simulation clock goes on, and leaves no token on the wire.
EndsStopped == <>[](result # "running" /\ wire = None)

\* The parts the induction needs beside the types.  What the loop has counted
\* at the last waypoint, the base has stood there.
SettleIsSteady ==
  settle > 0 => stage = "navigate" /\ wp = LastWp /\ settle <= steady

\* A window that has looked at one joint state only is no older than it.
WindowIsLooked ==
  held > 0 => span[2] <= ArmTol /\ looks >= 1 /\ (looks = 1 /\ ~late => held <= age)

IInv == TypeOK /\ SettleIsSteady /\ WindowIsLooked
=============================================================================
