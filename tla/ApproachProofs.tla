---------------------------- MODULE ApproachProofs ----------------------------
(***************************************************************************)
(* What holds of the approach by odometry for every list of stages, every  *)
(* path of waypoints and legs, and every tolerance and settle time: its    *)
(* types, that the arms are not lowered beside a moving base, and that a   *)
(* leg is accepted on joint states that agree.  And of the approach by     *)
(* camera, for every noise, gate and mirror distance: its types, and how   *)
(* far off its estimate may be.                                            *)
(***************************************************************************)
EXTENDS Approaches, TLAPS

USE ApproachAssumption

-----------------------------------------------------------------------------
\* What the ticks compute.

LEMMA FirstIndexes == /\ 1 \in 1..Len(Stages) /\ Len(Stages) \in 1..Len(Stages)
                      /\ 1 \in 1..LastWp /\ LastWp \in Nat /\ 1 \in 1..Legs
BY DEF LastWp

LEMMA StageType == ASSUME stage \in Stage PROVE NextStage \in Stage
<1>1. PICK k \in 1..Len(Stages) : Stages[k] = stage
  BY DEF Stage
<1> DEFINE i == CHOOSE j \in 1..Len(Stages) : Stages[j] = stage
<1>2. i \in 1..Len(Stages)
  BY <1>1
<1>3. NextStage = IF i < Len(Stages) THEN Stages[i + 1] ELSE "done"
  BY DEF NextStage
<1>4. "done" \in Stage
  BY FirstIndexes DEF Stage
<1> HIDE DEF i
<1>5. CASE i < Len(Stages)
  <2>1. i + 1 \in 1..Len(Stages)
    BY <1>2, <1>5
  <2> QED
    BY <1>3, <1>5, <2>1 DEF Stage
<1> QED
  BY <1>3, <1>4, <1>5

LEMMA SignType == \A x \in Int : Sign(x) \in {-1, 1}
BY DEF Sign

LEMMA DriveType == ASSUME TypeOK PROVE DriveToken \in Token
<1>1. CASE \E a \in Axis : Leading(a)
  <2> DEFINE a == CHOOSE x \in Axis : Leading(x)
  <2>1. a \in Axis
    BY <1>1
  <2>2. DriveToken = <<a, Sign(pose[a])>>
    BY <1>1 DEF DriveToken
  <2> HIDE DEF a
  <2>3. pose[a] \in Int
    BY <2>1 DEF TypeOK
  <2> QED
    BY <2>1, <2>2, <2>3, SignType DEF Token
<1> QED
  BY <1>1 DEF DriveToken, Token

LEMMA CommandType ==
  ASSUME TypeOK, Command
  PROVE  /\ arms' \in 0..Legs /\ arm' \in 0..ArmFar /\ seen' \in 0..ArmFar
         /\ Measured \in 0..ArmFar
<1>1. 0 \in 0..ArmFar /\ ArmTol \in 0..ArmFar /\ ArmFar \in 0..ArmFar
  OBVIOUS
<1>2. arm' \in 0..ArmFar /\ seen' \in 0..ArmFar
  BY <1>1 DEF TypeOK, Command
<1>3. leg \in 1..Legs /\ arms' = leg
  BY DEF TypeOK, Command
<1> QED
  BY <1>1, <1>2, <1>3 DEF Measured

LEMMA SpanType ==
  ASSUME TypeOK, Measured \in 0..ArmFar
  PROVE  /\ NewSpan \in (0..ArmFar) \X (0..ArmFar)
         /\ NewSpan[2] = Measured \/ (held # 0 /\ NewSpan[2] = span[2])
<1>1. span[1] \in 0..ArmFar /\ span[2] \in 0..ArmFar
  BY DEF TypeOK
<1>2. CASE held = 0
  BY <1>2 DEF NewSpan
<1>3. CASE held # 0
  <2>1. NewSpan = <<Least(span[1], Measured), Greatest(span[2], Measured)>>
    BY <1>3 DEF NewSpan
  <2>2. Least(span[1], Measured) \in 0..ArmFar
    BY <1>1 DEF Least
  <2>3. Greatest(span[2], Measured) \in {span[2], Measured}
    BY DEF Greatest
  <2> QED
    BY <1>1, <1>3, <2>1, <2>2, <2>3
<1> QED
  BY <1>2, <1>3

-----------------------------------------------------------------------------
\* The inductive invariant.

LEMMA InitInv == Init => IInv
<1> SUFFICES ASSUME Init
             PROVE  IInv
  OBVIOUS
<1>1. Stages[1] \in Stage /\ None \in Token /\ ArmFar \in 0..ArmFar
  BY FirstIndexes DEF Stage, Token
<1>2. <<0, 0>> \in (0..ArmFar) \X (0..ArmFar)
  OBVIOUS
<1>3. 0 \in 0..SettleTicks /\ 0 \in 0..ArmSettle /\ 0 \in 0..Legs /\ 0 \in 0..JointPeriod
      /\ 0 \in -2..Timeout
  OBVIOUS
<1>4. late \in BOOLEAN /\ spine \in BOOLEAN
  BY Zenon DEF Init
<1>5. /\ stage = Stages[1] /\ wp = 1 /\ settle = 0 /\ leg = 1 /\ held = 0 /\ span = <<0, 0>>
      /\ arms = 0 /\ wire = None /\ result = "running" /\ pose \in Pose /\ vel \in Velocity
      /\ arm = ArmFar /\ seen = ArmFar /\ age = 0 /\ clock = 0 /\ steady = 0 /\ looks = 0
  BY DEF Init
<1>6. 0 \in 0..2
  OBVIOUS
<1>7. TypeOK
  BY <1>1, <1>2, <1>3, <1>4, <1>5, <1>6, FirstIndexes DEF TypeOK
<1> QED
  BY <1>5, <1>7 DEF IInv, SettleIsSteady, WindowIsLooked

\* A window not late has seen the joint state one tick longer.
LEMMA SendCounts ==
  ASSUME age \in 0..JointPeriod, NEW token, Send(token)
  PROVE  /\ age' \in 0..JointPeriod /\ late' \in BOOLEAN
         /\ held' > 0 /\ ~late' => ~late /\ age' = age + 1
<1>1. age' = (IF age < JointPeriod THEN age + 1 ELSE age)
  BY DEF Send, Timely
<1>2. age' \in 0..JointPeriod /\ (age < JointPeriod => age' = age + 1)
  BY <1>1
<1>3. late' = (held' > 0 /\ (late \/ ~(age < JointPeriod)))
  BY DEF Send, Timely
<1>4. late' \in BOOLEAN
  BY <1>3
<1>5. ASSUME held' > 0, ~late' PROVE ~late /\ age < JointPeriod
  BY <1>3, <1>5, Zenon
<1> QED
  BY <1>2, <1>4, <1>5

\* What a tick that looks leaves behind.
LEMMA PublishType ==
  ASSUME TypeOK, Ticks, NEW token \in Token, Publish(token)
  PROVE  /\ wire' \in Token /\ age' \in 0..JointPeriod /\ late' \in BOOLEAN
         /\ held' > 0 /\ ~late' => ~late /\ age' = age + 1
         /\ UNCHANGED <<result, pose, vel, spine, clock>>
         /\ steady' \in 0..SettleTicks
         /\ AtGoal => steady' > steady \/ steady' = SettleTicks
<1>1. age \in 0..JointPeriod /\ steady \in 0..SettleTicks
  BY DEF TypeOK
<1>2. Send(token)
  BY DEF Publish
<1>3. /\ age' \in 0..JointPeriod /\ late' \in BOOLEAN
      /\ held' > 0 /\ ~late' => ~late /\ age' = age + 1
  BY <1>1, <1>2, SendCounts
<1>4. steady' \in 0..SettleTicks /\ (AtGoal => steady' > steady \/ steady' = SettleTicks)
  BY <1>1 DEF Publish
<1> QED
  BY <1>2, <1>3, <1>4 DEF Send, base

LEMMA WorldStep == ASSUME IInv, World PROVE IInv'
<1> USE DEF IInv
<1>1. CASE Odom
  BY <1>1 DEF Odom, control, joints, history, TypeOK, SettleIsSteady, WindowIsLooked
<1>2. CASE SpineMoves
  BY <1>2 DEF SpineMoves, control, base, joints, history, TypeOK, SettleIsSteady, WindowIsLooked
<1>3. CASE ArmsMove
  <2>1. arm - 1 \in 0..ArmFar
    BY <1>3 DEF ArmsMove, TypeOK
  <2> QED
    BY <1>3, <2>1 DEF ArmsMove, control, base, history, TypeOK, SettleIsSteady, WindowIsLooked
<1>4. CASE JointState
  <2>1. /\ UNCHANGED <<stage, wp, settle, leg, held, span, arms, wire, result, pose, vel, spine,
                       arm, clock, steady, late>>
        /\ seen' = arm /\ age' = 0
    BY <1>4 DEF JointState, control, base
  <2>2. age \in 0..JointPeriod /\ looks \in 0..2 /\ held \in 0..ArmSettle
    BY DEF TypeOK
  <2>3. looks' = IF held > 0 /\ looks < 2 /\ age > 0 THEN looks + 1 ELSE looks
    BY <1>4 DEF JointState
  <2>4. looks' \in 0..2
    BY <2>2, <2>3
  <2>5. TypeOK'
    BY <2>1, <2>4 DEF TypeOK
  <2>6. held > 0 => looks' >= 1 /\ (looks' >= 2 \/ late)
    BY <2>2, <2>3 DEF WindowIsLooked
  <2>7. WindowIsLooked'
    BY <2>1, <2>4, <2>6 DEF WindowIsLooked
  <2> QED
    BY <2>1, <2>5, <2>7 DEF SettleIsSteady
<1>5. CASE Clock
  <2>1. clock' \in -2..Timeout
    BY <1>5 DEF Clock, TypeOK
  <2> QED
    BY <1>5, <2>1 DEF Clock, control, base, joints, history, TypeOK, SettleIsSteady, WindowIsLooked
<1>6. CASE Rebase
  <2>1. clock' \in -2..Timeout
    BY <1>6 DEF Rebase, TypeOK
  <2> QED
    BY <1>6, <2>1 DEF Rebase, control, base, joints, history, TypeOK, SettleIsSteady, WindowIsLooked
<1> QED
  BY <1>1, <1>2, <1>3, <1>4, <1>5, <1>6 DEF World

\* A tick outside of the last waypoint and of the legs: it counts nothing.
LEMMA PlainTick ==
  ASSUME IInv, Ticks, NEW token \in Token, Publish(token),
         UNCHANGED <<settle, leg, held, span, looks, seen>>, arms' \in 0..Legs, arm' \in 0..ArmFar,
         stage' \in Stage, wp' \in 1..LastWp,
         settle > 0 => FALSE
  PROVE  IInv'
<1> USE DEF IInv
<1>1. /\ wire' \in Token /\ age' \in 0..JointPeriod /\ late' \in BOOLEAN
      /\ held' > 0 /\ ~late' => ~late /\ age' = age + 1
      /\ UNCHANGED <<result, pose, vel, spine, clock>> /\ steady' \in 0..SettleTicks
  BY PublishType
<1>2. TypeOK'
  BY <1>1 DEF TypeOK
<1>3. age \in 0..JointPeriod /\ held \in 0..ArmSettle
  BY DEF TypeOK
<1>4. WindowIsLooked'
  BY <1>1, <1>3 DEF WindowIsLooked
<1> QED
  BY <1>2, <1>4 DEF SettleIsSteady

\* A tick that places the arms.
LEMMA PlacingTick ==
  ASSUME IInv, Placing, Publish(None),
         UNCHANGED <<wp, settle>>, stage' \in Stage, leg' \in 1..Legs,
         held' \in 0..ArmSettle, looks' \in 0..2,
         span' \in (0..ArmFar) \X (0..ArmFar),
         held' > 0 => /\ span'[2] <= ArmTol /\ looks' >= 1
                      /\ looks' = 1 /\ ~late => held' <= age + 1
  PROVE  IInv'
<1> USE DEF IInv
<1>1. Ticks /\ Command /\ stage = "place_arms" /\ None \in Token
  BY DEF Placing, Token
<1>2. /\ wire' \in Token /\ age' \in 0..JointPeriod /\ late' \in BOOLEAN
      /\ held' > 0 /\ ~late' => ~late /\ age' = age + 1
      /\ UNCHANGED <<result, pose, vel, spine, clock>> /\ steady' \in 0..SettleTicks
  BY <1>1, PublishType
<1>3. arms' \in 0..Legs /\ arm' \in 0..ArmFar /\ seen' \in 0..ArmFar
  BY <1>1, CommandType
<1>4. TypeOK'
  BY <1>2, <1>3 DEF TypeOK
<1>5. WindowIsLooked'
  BY <1>2 DEF WindowIsLooked
<1>6. ~(settle > 0)
  BY <1>1 DEF SettleIsSteady
<1> QED
  BY <1>4, <1>5, <1>6 DEF SettleIsSteady

\* What the ticks that place the arms find.
LEMMA PlacingFinds ==
  ASSUME IInv, Placing
  PROVE  /\ Measured \in 0..ArmFar
         /\ NewSpan \in (0..ArmFar) \X (0..ArmFar)
         /\ Measured <= ArmTol => NewSpan[2] <= ArmTol
         /\ age \in 0..JointPeriod
         /\ held \in 0..ArmSettle /\ looks \in 0..2
<1>1. TypeOK /\ Command /\ Ticks
  BY DEF IInv, Placing
<1>2. Measured \in 0..ArmFar
  BY <1>1, CommandType
<1>3. /\ NewSpan \in (0..ArmFar) \X (0..ArmFar)
      /\ NewSpan[2] = Measured \/ (held # 0 /\ NewSpan[2] = span[2])
  BY <1>1, <1>2, SpanType
<1>4. age \in 0..JointPeriod /\ held \in 0..ArmSettle /\ looks \in 0..2
  BY <1>1 DEF TypeOK
<1>5. held # 0 => span[2] <= ArmTol
  BY <1>4 DEF IInv, WindowIsLooked
<1> QED
  BY <1>2, <1>3, <1>4, <1>5

\* The window closes on two joint states, for one in time is not looked at for
\* as long.
LEMMA WindowEnds == ASSUME IInv, Placing, WindowOver PROVE looks >= 2 \/ late \/ ~Timely
<1> SUFFICES ASSUME ~late, Timely PROVE looks >= 2
  OBVIOUS
<1>1. held + 1 > ArmSettle /\ held \in Int /\ looks \in 0..2
  BY PlacingFinds DEF WindowOver
<1>2. looks >= 1 /\ (looks = 1 => held <= age)
  BY <1>1 DEF IInv, WindowIsLooked
<1>3. age < JointPeriod /\ age \in Int
  BY PlacingFinds DEF Timely
<1> QED
  BY <1>1, <1>2, <1>3

LEMMA TickStep == ASSUME IInv, Tick PROVE IInv'
<1> USE DEF IInv
<1>1. None \in Token /\ TypeOK
  BY DEF Token
<1>2. CASE Unmeasured
  <2>1. /\ UNCHANGED <<stage, wp, settle, leg, held, span, arms, steady, looks, seen>>
        /\ wire' = None /\ UNCHANGED <<result, pose, vel, spine, clock>>
    BY <1>2 DEF Unmeasured, Send, control, base
  <2>2. /\ age \in 0..JointPeriod /\ age' \in 0..JointPeriod /\ held \in 0..ArmSettle
        /\ late' \in BOOLEAN /\ (held' > 0 /\ ~late' => ~late /\ age' = age + 1)
    <3>1. age \in 0..JointPeriod /\ held \in 0..ArmSettle
      BY DEF TypeOK
    <3> QED
      BY <1>2, <3>1, SendCounts DEF Unmeasured
  <2>3. arm' \in 0..ArmFar
    <3>1. arm \in 0..ArmFar /\ ArmFar \in 0..ArmFar
      BY DEF TypeOK
    <3> QED
      BY <1>2, <3>1 DEF Unmeasured
  <2>4. TypeOK'
    BY <1>1, <2>1, <2>2, <2>3 DEF TypeOK
  <2> QED
    BY <2>1, <2>2, <2>4 DEF SettleIsSteady, WindowIsLooked
<1>3. CASE Spine
  <2>1. stage' \in Stage /\ ~(settle > 0)
    BY <1>3, StageType DEF Spine, TypeOK, SettleIsSteady
  <2> QED
    BY <1>1, <1>3, <2>1, PlainTick DEF Spine, HoldArms, TypeOK
<1>4. CASE PassWaypoint
  <2>1. wp' \in 1..LastWp /\ ~(settle > 0)
    BY <1>4, FirstIndexes DEF PassWaypoint, TypeOK, SettleIsSteady
  <2> QED
    BY <1>1, <1>4, <2>1, PlainTick DEF PassWaypoint, Navigating, HoldArms, TypeOK
<1>5. CASE Settle
  <2>1. /\ UNCHANGED <<wp, leg, held, span, arm, arms, seen, looks>>
        /\ Ticks /\ stage = "navigate" /\ WaypointOk /\ wp = LastWp /\ Publish(None)
    BY <1>5 DEF Settle, Navigating, HoldArms
  <2>2. AtGoal
    BY <2>1 DEF AtGoal, WaypointOk
  <2>3. /\ wire' \in Token /\ age' \in 0..JointPeriod /\ late' \in BOOLEAN
        /\ held' > 0 /\ ~late' => ~late /\ age' = age + 1
        /\ UNCHANGED <<result, pose, vel, spine, clock>> /\ steady' \in 0..SettleTicks
        /\ steady' > steady \/ steady' = SettleTicks
    BY <1>1, <2>1, <2>2, PublishType
  <2>4. settle \in 0..SettleTicks /\ steady \in 0..SettleTicks /\ (settle > 0 => settle <= steady)
        /\ held \in 0..ArmSettle /\ age \in 0..JointPeriod
    BY DEF TypeOK, SettleIsSteady
  <2>5. WindowIsLooked'
    BY <2>1, <2>3, <2>4 DEF WindowIsLooked
  <2>6. CASE settle + 1 >= SettleTicks
    <3>1. settle' = 0 /\ stage' \in Stage
      BY <1>5, <2>6, StageType DEF Settle, TypeOK
    <3> QED
      BY <2>1, <2>3, <2>5, <3>1 DEF TypeOK, SettleIsSteady
  <2>7. CASE ~(settle + 1 >= SettleTicks)
    <3>1. settle' = settle + 1 /\ stage' = stage
      BY <1>5, <2>7 DEF Settle
    <3>2. settle' \in 0..SettleTicks /\ settle' <= steady'
      BY <2>3, <2>4, <2>7, <3>1
    <3>3. TypeOK'
      BY <2>1, <2>3, <3>1, <3>2 DEF TypeOK
    <3> QED
      BY <2>1, <2>5, <3>1, <3>2, <3>3 DEF SettleIsSteady
  <2> QED
    BY <2>6, <2>7
<1>6. CASE Drive
  <2>1. /\ UNCHANGED <<stage, wp, leg, held, span, arm, arms, seen, looks>> /\ settle' = 0
        /\ Ticks /\ Publish(DriveToken)
    BY <1>6 DEF Drive, Navigating, HoldArms
  <2>2. /\ wire' \in Token /\ age' \in 0..JointPeriod /\ late' \in BOOLEAN
        /\ held' > 0 /\ ~late' => ~late /\ age' = age + 1
        /\ UNCHANGED <<result, pose, vel, spine, clock>> /\ steady' \in 0..SettleTicks
    BY <1>1, <2>1, DriveType, PublishType
  <2>3. TypeOK'
    BY <2>1, <2>2 DEF TypeOK
  <2>4. age \in 0..JointPeriod /\ held \in 0..ArmSettle
    BY DEF TypeOK
  <2> QED
    BY <2>1, <2>2, <2>3, <2>4 DEF SettleIsSteady, WindowIsLooked
<1>7. CASE OffLeg
  <2>1. Placing
    BY <1>7 DEF OffLeg
  <2> QED
    BY <1>7, <2>1, PlacingTick DEF OffLeg, TypeOK
<1>8. CASE OnLeg
  <2>1. Placing /\ Measured <= ArmTol /\ ~(held + 1 > ArmSettle)
    BY <1>8 DEF OnLeg, WindowOver
  <2>2. /\ held' = held + 1 /\ span' = NewSpan /\ looks' = (IF held = 0 THEN 1 ELSE looks)
        /\ UNCHANGED <<stage, wp, settle, leg>> /\ Publish(None)
    BY <1>8 DEF OnLeg
  <2>3. /\ NewSpan \in (0..ArmFar) \X (0..ArmFar) /\ NewSpan[2] <= ArmTol
        /\ age \in 0..JointPeriod /\ held \in 0..ArmSettle /\ looks \in 0..2
    BY <2>1, PlacingFinds
  <2>4. held' \in 0..ArmSettle /\ looks' \in 0..2
    BY <2>1, <2>2, <2>3
  <2>5. looks' >= 1 /\ (looks' = 1 /\ ~late => held' <= age + 1)
    <3>1. held > 0 => looks >= 1 /\ (looks = 1 /\ ~late => held <= age)
      BY DEF WindowIsLooked
    <3> QED
      BY <2>2, <2>3, <3>1
  <2> QED
    BY <2>1, <2>2, <2>3, <2>4, <2>5, PlacingTick DEF TypeOK
<1>9. CASE StillMoving
  <2>1. Placing
    BY <1>9 DEF StillMoving
  <2>2. NewSpan \in (0..ArmFar) \X (0..ArmFar)
    BY <2>1, PlacingFinds
  <2> QED
    BY <1>9, <2>1, <2>2, PlacingTick DEF StillMoving, TypeOK
<1>10. CASE LegDone
  <2>1. Placing
    BY <1>10 DEF LegDone
  <2>2. NewSpan \in (0..ArmFar) \X (0..ArmFar)
    BY <2>1, PlacingFinds
  <2>3. stage' \in Stage /\ leg' \in 1..Legs
    <3>1. leg \in 1..Legs /\ stage \in Stage
      BY DEF TypeOK
    <3>2. CASE leg < Legs
      BY <1>10, <3>1, <3>2 DEF LegDone
    <3>3. CASE ~(leg < Legs)
      BY <1>10, <3>1, <3>3, StageType DEF LegDone
    <3> QED
      BY <3>2, <3>3
  <2> QED
    BY <1>10, <2>1, <2>2, <2>3, PlacingTick DEF LegDone, TypeOK
<1>11. ASSUME NEW token \in Token, Trim(token)
       PROVE  IInv'
  <2>1. stage' \in Stage /\ ~(settle > 0)
    BY <1>11, StageType DEF Trim, TypeOK, SettleIsSteady
  <2> QED
    BY <1>11, <2>1, PlainTick DEF Trim, HoldArms, TypeOK
<1>12. CASE StartPose
  <2>1. stage' \in Stage /\ ~(settle > 0)
    BY <1>12, StageType DEF StartPose, TypeOK, SettleIsSteady
  <2> QED
    BY <1>1, <1>12, <2>1, PlainTick DEF StartPose, TypeOK
<1>13. CASE Finish \/ TimeoutError \/ RebaseError
  <2>1. /\ UNCHANGED <<stage, wp, settle, leg, held, span, arms, pose, vel, spine, arm, seen, age,
                       clock, steady, looks, late>>
        /\ wire' = None /\ result' \in {"running", "done", "timeout", "rebased"}
    BY <1>13
       DEF Finish, TimeoutError, RebaseError, Ends, SafeStop, control, base, joints, history
  <2> QED
    BY <1>1, <2>1 DEF TypeOK, SettleIsSteady, WindowIsLooked
<1> QED
  BY <1>2, <1>3, <1>4, <1>5, <1>6, <1>7, <1>8, <1>9, <1>10, <1>11, <1>12, <1>13 DEF Tick

LEMMA NextInv == IInv /\ [Next]_vars => IInv'
<1> SUFFICES ASSUME IInv, [Next]_vars
             PROVE  IInv'
  OBVIOUS
<1>1. CASE Tick
  BY <1>1, TickStep
<1>2. CASE World
  BY <1>2, WorldStep
<1>3. CASE UNCHANGED vars
  BY <1>3
     DEF vars, control, base, joints, history, IInv, TypeOK, SettleIsSteady, WindowIsLooked
<1> QED
  BY <1>1, <1>2, <1>3 DEF Next, Over

-----------------------------------------------------------------------------
LEMMA Inductive == Spec => []IInv
BY InitInv, NextInv, PTL DEF Spec

\* The approach is type-correct for every list of stages, path and tolerance.
THEOREM ApproachTypeCorrect == Spec => []TypeOK
<1>1. IInv => TypeOK
  BY DEF IInv
<1> QED
  BY <1>1, Inductive, PTL

\* Navigation ends after SettleTicks looks in a row at a base at rest at the
\* goal: what the loop counts, the base has stood.
THEOREM BaseRests == Spec => BaseRestsBeforeArms
<1>1. ASSUME IInv, [Next]_vars
      PROVE  [stage = "navigate" /\ stage' # stage => steady' >= SettleTicks]_vars
  <2> SUFFICES ASSUME stage = "navigate", stage' # stage
               PROVE  steady' >= SettleTicks
    OBVIOUS
  <2>1. Settle
    BY <1>1
       DEF Next, Tick, World, Over, vars, control, Odom, SpineMoves, ArmsMove, JointState, Clock,
           Rebase, Unmeasured, Spine, PassWaypoint, Drive, Placing, OffLeg, OnLeg, StillMoving,
           LegDone, Trim, StartPose, Finish, TimeoutError, RebaseError, Ends
  <2>2. settle + 1 >= SettleTicks /\ Ticks /\ Publish(None) /\ AtGoal
    BY <2>1 DEF Settle, Navigating, AtGoal, WaypointOk
  <2>3. steady' \in 0..SettleTicks /\ (steady' > steady \/ steady' = SettleTicks)
    BY <1>1, <2>2, PublishType DEF IInv, Token
  <2>4. settle \in 0..SettleTicks /\ steady \in 0..SettleTicks /\ (settle > 0 => settle <= steady)
    BY <1>1 DEF IInv, TypeOK, SettleIsSteady
  <2> QED
    BY <2>2, <2>3, <2>4
<1> QED
  BY <1>1, Inductive, PTL DEF Spec, BaseRestsBeforeArms

\* A leg is accepted on two joint states at least, all of the same error: a
\* joint state in time is not looked at for as long as the window.
THEOREM LegsAreSettled == Spec => LegIsSettled
<1>1. ASSUME IInv, [Next]_vars
      PROVE  [leg' # leg \/ (stage = "place_arms" /\ stage' # stage)
                => (looks >= 2 \/ late \/ ~Timely) /\ span'[1] = span'[2] /\ span'[2] <= ArmTol]_vars
  <2> SUFFICES ASSUME leg' # leg \/ (stage = "place_arms" /\ stage' # stage)
               PROVE  (looks >= 2 \/ late \/ ~Timely) /\ span'[1] = span'[2] /\ span'[2] <= ArmTol
    OBVIOUS
  <2>1. LegDone
    BY <1>1
       DEF Next, Tick, World, Over, vars, control, Odom, SpineMoves, ArmsMove, JointState, Clock,
           Rebase, Unmeasured, Spine, Navigating, PassWaypoint, Settle, Drive, OffLeg, OnLeg,
           StillMoving, Trim, StartPose, Finish, TimeoutError, RebaseError, Ends
  <2>2. Placing /\ WindowOver /\ span' = NewSpan /\ NewSpan[1] = NewSpan[2] /\ Measured <= ArmTol
    BY <2>1 DEF LegDone
  <2>3. (looks >= 2 \/ late \/ ~Timely) /\ NewSpan[2] <= ArmTol
    BY <1>1, <2>2, WindowEnds, PlacingFinds
  <2> QED
    BY <2>2, <2>3
<1> QED
  BY <1>1, Inductive, PTL DEF Spec, LegIsSettled

-----------------------------------------------------------------------------
\* The approach by camera.

HIDE ApproachAssumption

\* The greatest error there is bounds them all.
LEMMA ErrorsAreBounded ==
  /\ Camera!MaxError \in Nat
  /\ \A x \in Camera!Errors : x \in Int /\ Camera!Magnitude(x) <= Camera!MaxError
<1>1. \A x \in Camera!Errors : x \in Int /\ Camera!Magnitude(x) \in Nat
  <2>1. \A x \in Camera!Errors : x \in Int
    BY CameraAssumption DEF Camera!PerceptionAssumption, Camera!Errors
  <2> QED
    BY <2>1 DEF Camera!Magnitude
<1>2. PICK e \in Camera!Errors :
        \A x \in Camera!Errors : Camera!Magnitude(x) <= Camera!Magnitude(e)
  BY CameraAssumption DEF Camera!PerceptionAssumption
<1> DEFINE M == {Camera!Magnitude(x) : x \in Camera!Errors}
<1>3. \E m \in M : \A x \in Camera!Errors : Camera!Magnitude(x) <= m
  BY <1>2
<1>4. Camera!MaxError \in M /\ \A x \in Camera!Errors : Camera!Magnitude(x) <= Camera!MaxError
  BY <1>3 DEF Camera!MaxError
<1> QED
  BY <1>1, <1>4

\* A number between two that are near is near.
LEMMA BetweenIsNear ==
  ASSUME NEW x \in Int, NEW y \in Int, NEW at \in Int, NEW e \in Nat,
         Camera!Magnitude(x - at) <= e, Camera!Magnitude(y - at) <= e,
         NEW z \in Camera!Between(x, y)
  PROVE  z \in Int /\ Camera!Magnitude(z - at) <= e
BY DEF Camera!Between, Camera!Magnitude

\* What is fused is as near as what was, or as a lock of this tick.
LEMMA UpdateIsNear ==
  ASSUME Camera!IInv, NEW lock \in Camera!Locks, Camera!Update(lock)
  PROVE  /\ est' \in Int /\ last' = pos /\ last' \in Int
         /\ Camera!Magnitude(est' - last') <= Camera!MaxError
         /\ unread' = FALSE
<1> DEFINE E == Camera!MaxError
<1>1. PICK start \in StartError : est' \in Camera!Corrected(lock, Camera!Predicted(start))
  BY DEF Camera!Update
<1> DEFINE p == Camera!Predicted(start)
<1>2. pos \in Int /\ E \in Nat /\ last' = pos /\ unread' = FALSE
  BY ErrorsAreBounded, CameraAssumption
  DEF Camera!IInv, Camera!TypeOK, Camera!PerceptionAssumption, Camera!Update
<1>3. p \in Int /\ Camera!Magnitude(p - pos) <= E
  <2>1. start \in Int /\ Camera!Magnitude(start) <= E
    BY ErrorsAreBounded DEF Camera!Errors
  <2>2. CASE est = None
    <3>1. p = pos + start /\ p - pos = start
      BY <1>2, <2>1, <2>2 DEF Camera!Predicted
    <3> QED
      BY <1>2, <2>1, <3>1
  <2>3. CASE est # None
    <3>1. est \in Int /\ last \in Int /\ Camera!Magnitude(est - last) <= E
      BY <2>3 DEF Camera!IInv, Camera!TypeOK, Camera!EstimateIsNear
    <3>2. p = est + (pos - last) /\ p - pos = est - last
      BY <1>2, <2>3, <3>1 DEF Camera!Predicted
    <3> QED
      BY <1>2, <3>1, <3>2
  <2> QED
    BY <2>2, <2>3
<1> HIDE DEF p, E
<1>4. CASE lock = None \/ Camera!Rejected(lock, p)
  BY <1>1, <1>2, <1>3, <1>4 DEF Camera!Corrected, p, E
<1>5. CASE lock # None /\ ~Camera!Rejected(lock, p)
  <2>1. Camera!FreshHead /\ lock \in {frame + n : n \in Noise} \cup {frame + Mirror}
    BY <1>5 DEF Camera!Locks
  <2>2. Lag \in Nat /\ frame \in Int /\ frame - pos \in -Lag..Lag
    <3>1. frame \in Position
      BY <2>1 DEF Camera!FreshHead, Camera!IInv, Camera!TypeOK
    <3>2. frame \in Int /\ Lag \in Nat
      BY <3>1, CameraAssumption DEF Camera!PerceptionAssumption
    <3>3. Camera!Magnitude(frame - pos) <= Lag
      BY <1>2, <2>1, <3>2
      DEF Camera!FreshHead, Camera!IInv, Camera!UnreadIsRecent, Camera!Magnitude
    <3> QED
      BY <1>2, <3>2, <3>3 DEF Camera!Magnitude
  <2>3. CASE \E n \in Noise : lock = frame + n
    <3>1. PICK n \in Noise : lock = frame + n
      BY <2>3
    <3>2. n \in Int
      BY <3>1, CameraAssumption DEF Camera!PerceptionAssumption
    <3>3. n + (frame - pos) \in Camera!Errors
      <4>1. n + (frame - pos) \in n - Lag .. n + Lag
        BY <1>2, <2>2, <3>2
      <4> QED
        BY <3>1, <4>1 DEF Camera!Errors
    <3>4. Camera!Magnitude(n + (frame - pos)) <= E
      BY <3>3, ErrorsAreBounded DEF E
    <3>5. lock \in Int /\ lock - pos = n + (frame - pos)
      BY <1>2, <2>2, <3>1, <3>2
    <3>6. est' \in Camera!Between(p, lock)
      BY <1>1, <1>5 DEF Camera!Corrected, p
    <3>7. Camera!Magnitude(lock - pos) <= E
      BY <3>4, <3>5
    <3>8. est' \in Int /\ Camera!Magnitude(est' - pos) <= E
      BY <1>2, <1>3, <3>5, <3>6, <3>7, BetweenIsNear
    <3> QED
      BY <1>2, <3>8 DEF E
  <2>4. CASE lock = frame + Mirror
    <3>1. /\ Mirror \in Int /\ Reject \in Int /\ lock \in Int
          /\ Camera!Magnitude(Mirror) > Reject + E + Lag
      BY <2>2, <2>4, CameraAssumption DEF Camera!PerceptionAssumption, E
    <3>2. lock - p = Mirror + (frame - pos) - (p - pos)
      BY <1>2, <1>3, <2>2, <2>4, <3>1
    <3>3. p - pos \in Int /\ -E <= p - pos /\ p - pos <= E
      BY <1>2, <1>3 DEF Camera!Magnitude
    <3>4. Camera!Magnitude(Mirror + (frame - pos) - (p - pos)) > Reject
      <4> DEFINE d == frame - pos
                 q == p - pos
      <4>1. d \in -Lag..Lag /\ q \in Int /\ -E <= q /\ q <= E
        BY <2>2, <3>3
      <4> HIDE DEF d, q
      <4>2. Camera!Magnitude(Mirror + d - q) > Reject
        BY <1>2, <2>2, <3>1, <4>1 DEF Camera!Magnitude
      <4> QED
        BY <4>2 DEF d, q
    <3>5. Camera!Rejected(lock, p)
      BY <3>2, <3>4 DEF Camera!Rejected
    <3> QED
      BY <1>5, <3>5
  <2> QED
    BY <2>1, <2>3, <2>4
<1> QED
  BY <1>4, <1>5

\* Where the base was is one tick longer ago after a tick.
LEMMA TickedTrail ==
  ASSUME Camera!IInv, Camera!Ticked
  PROVE  /\ profile' \in Profiles /\ trail' \in [1..Lag -> Position] /\ Camera!TrailIsNear'
         /\ moved' = FALSE /\ UNCHANGED <<up, pos, heard, frame>>
<1>1. /\ trail \in [1..Lag -> Position] /\ pos \in Position /\ profile \in Profiles
      /\ Lag \in Nat \ {0} /\ Position \subseteq Int
  BY CameraAssumption DEF Camera!IInv, Camera!TypeOK, Camera!PerceptionAssumption
<1>2. /\ moved' = FALSE /\ UNCHANGED <<profile, up, pos, heard, frame>>
      /\ trail' = [i \in 1..Lag |-> IF i = 1 THEN pos ELSE trail[i - 1]]
  BY DEF Camera!Ticked
<1>3. trail' \in [1..Lag -> Position]
  BY <1>1, <1>2
<1>4. ASSUME NEW i \in 1..Lag PROVE Camera!Magnitude(trail'[i] - pos') <= i - 1
  <2>1. CASE i = 1
    BY <1>1, <1>2, <2>1 DEF Camera!Magnitude
  <2>2. CASE i # 1
    <3>0. i - 1 \in 1..Lag
      BY <1>1, <2>2
    <3>1. trail'[i] = trail[i - 1] /\ pos' = pos /\ trail[i - 1] \in Int
      BY <1>1, <1>2, <2>2, <3>0
    <3>2. Camera!Magnitude(trail[i - 1] - pos) <= (IF moved THEN i - 1 ELSE (i - 1) - 1)
      BY <3>0 DEF Camera!IInv, Camera!TrailIsNear
    <3> QED
      BY <1>1, <3>0, <3>1, <3>2 DEF Camera!Magnitude
  <2> QED
    BY <2>1, <2>2
<1>5. Camera!TrailIsNear'
  BY <1>2, <1>4 DEF Camera!TrailIsNear
<1> QED
  BY <1>1, <1>2, <1>3, <1>5

\* A tick that updates the filter keeps the invariant, whatever it decides of
\* the drive.
LEMMA UpdateStep ==
  ASSUME Camera!IInv, NEW lock \in Camera!Locks, Camera!Update(lock), Camera!Ticked,
         hold' = hold, camStage' \in {"navigate", "place_arms", "done"},
         path' \in [to : Int, all : BOOLEAN] \cup {None},
         backoff' \in 0..MaxBackoff, standing' \in 0..Standing - 1,
         coast' \in BOOLEAN, camWire' \in {-1, 1, None}
  PROVE  Camera!IInv'
<1>1. /\ est' \in Int /\ last' = pos /\ last' \in Int
      /\ Camera!Magnitude(est' - last') <= Camera!MaxError
      /\ unread' = FALSE
  BY UpdateIsNear
<1>2. None \notin Int
  BY CameraAssumption DEF Camera!PerceptionAssumption
<1>3. /\ profile' \in Profiles /\ trail' \in [1..Lag -> Position] /\ Camera!TrailIsNear'
      /\ moved' = FALSE /\ UNCHANGED <<up, pos, heard, frame>>
  BY TickedTrail
<1>4. Camera!TypeOK'
  <2>1. est' \in Int \cup {None} /\ last' \in Int \cup {None} /\ (est' = None <=> last' = None)
    BY <1>1, <1>2
  <2> QED
    BY <1>1, <1>3, <2>1, Zenon DEF Camera!IInv, Camera!TypeOK
<1>5. Camera!UnreadIsRecent'
  BY <1>1, Zenon DEF Camera!UnreadIsRecent
<1>6. Camera!EstimateIsNear'
  BY <1>1 DEF Camera!EstimateIsNear
<1> QED
  BY <1>3, <1>4, <1>5, <1>6 DEF Camera!IInv

\* The path that is fitted, or kept, and the target on it.
LEMMA ReplanType ==
  ASSUME Camera!TypeOK, est' \in Int, Camera!Replan
  PROVE  /\ path' \in [to : Int, all : BOOLEAN] \cup {None}
         /\ path' # None => Camera!Error \in Int
<1>0. Ahead \in Nat /\ MaxBackoff \in Nat /\ None \notin Int
  BY CameraAssumption DEF Camera!PerceptionAssumption
<1>1. path' \in [to : Int, all : BOOLEAN] \cup {None}
  <2>1. CASE est' \in Blocked
    BY <2>1 DEF Camera!TypeOK, Camera!Replan
  <2>2. CASE est' \notin Blocked /\ Camera!Magnitude(est') < Reach
    <3>1. path' = [to |-> 0, all |-> TRUE]
      BY <2>2 DEF Camera!Replan
    <3> QED
      BY <3>1
  <2>3. CASE est' \notin Blocked /\ ~(Camera!Magnitude(est') < Reach)
    <3>1. path' = [to |-> est' - Camera!Sign(est') * Ahead, all |-> FALSE]
      BY <2>3 DEF Camera!Replan
    <3>2. est' - Camera!Sign(est') * Ahead \in Int
      BY <1>0 DEF Camera!Sign
    <3> QED
      BY <3>1, <3>2
  <2> QED
    BY <2>1, <2>2, <2>3
<1>2. ASSUME path' # None PROVE Camera!Error \in Int
  <2>1. path'.to \in Int /\ backoff \in Int
    BY <1>0, <1>1, <1>2 DEF Camera!TypeOK
  <2>2. Camera!Target \in Int
    BY <2>1 DEF Camera!Target
  <2> QED
    BY <2>2 DEF Camera!Error
<1> QED
  BY <1>1, <1>2

\* The invariant is kept by each step of the base, the world and the loop.
LEMMA CameraStep == Camera!IInv /\ [Camera!Next]_(Camera!vars) => Camera!IInv'
<1> SUFFICES ASSUME Camera!IInv, [Camera!Next]_(Camera!vars) PROVE Camera!IInv'
  OBVIOUS
<1> USE DEF Camera!IInv, Camera!filter, Camera!nav, Camera!world
<1>0. /\ Position \subseteq Int /\ Lag \in Nat \ {0}
      /\ SpineTicks \in Nat \ {0} /\ Standing \in Nat \ {0}
      /\ Step \in Nat \ {0} /\ MaxBackoff \in Nat /\ None \notin Int
  BY CameraAssumption DEF Camera!PerceptionAssumption
<1>1. CASE Camera!SpineMoves
  <2>1. /\ up' \in BOOLEAN
        /\ UNCHANGED <<profile, camStage, hold, pos, moved, trail, heard, frame, unread, est, last,
                       path, backoff, standing, coast, camWire>>
    BY <1>1, Zenon DEF Camera!SpineMoves, Camera!TypeOK
  <2>2. Camera!TypeOK'
    BY <2>1, ZenonT(60) DEF Camera!TypeOK
  <2>3. Camera!TrailIsNear' /\ Camera!UnreadIsRecent' /\ Camera!EstimateIsNear'
    BY <2>1, Zenon DEF Camera!TrailIsNear, Camera!UnreadIsRecent, Camera!EstimateIsNear
  <2> QED
    BY <2>2, <2>3
<1>2. CASE Camera!Move
  <2>1. /\ pos' = pos + camWire /\ pos' \in Position /\ camWire \in {-1, 1} /\ ~moved
        /\ UNCHANGED <<profile, camStage, hold, up, trail, heard, frame, unread, est, last, path,
                       backoff, standing, coast, camWire>>
    BY <1>2 DEF Camera!Move, Camera!TypeOK
  <2>2. moved' = TRUE
    BY <1>2 DEF Camera!Move
  <2>3. Camera!TypeOK'
    BY <2>1, <2>2, ZenonT(40) DEF Camera!TypeOK
  <2>4. Camera!UnreadIsRecent'
    <3> SUFFICES ASSUME unread PROVE frame # None /\ Camera!Magnitude(frame - pos') <= Lag
      BY <2>1, <2>2, Zenon DEF Camera!UnreadIsRecent
    <3>1. frame # None /\ Camera!Magnitude(frame - pos) <= Lag - 1
      BY <2>1, Zenon DEF Camera!UnreadIsRecent
    <3>2. frame \in Int /\ pos \in Int
      BY <1>0, <3>1 DEF Camera!TypeOK
    <3> QED
      BY <1>0, <2>1, <3>1, <3>2 DEF Camera!Magnitude
  <2>5. Camera!TrailIsNear'
    <3>1. ASSUME NEW i \in 1..Lag PROVE Camera!Magnitude(trail[i] - pos') <= i
      <4>1. Camera!Magnitude(trail[i] - pos) <= i - 1
        BY <2>1, Zenon DEF Camera!TrailIsNear
      <4>2. trail[i] \in Int /\ pos \in Int
        BY <1>0 DEF Camera!TypeOK
      <4> QED
        BY <1>0, <2>1, <4>1, <4>2 DEF Camera!Magnitude
    <3> QED
      BY <2>1, <2>2, <3>1, Zenon DEF Camera!TrailIsNear
  <2> QED
    BY <2>1, <2>3, <2>4, <2>5, Zenon DEF Camera!EstimateIsNear
<1>3. CASE Camera!OdomStarts
  <2>1. /\ heard' \in BOOLEAN
        /\ UNCHANGED <<profile, camStage, hold, up, pos, moved, trail, frame, unread, est, last,
                       path, backoff, standing, coast, camWire>>
    BY <1>3, Zenon DEF Camera!OdomStarts
  <2>2. Camera!TypeOK'
    BY <2>1, ZenonT(60) DEF Camera!TypeOK
  <2>3. Camera!TrailIsNear' /\ Camera!UnreadIsRecent' /\ Camera!EstimateIsNear'
    BY <2>1, Zenon DEF Camera!TrailIsNear, Camera!UnreadIsRecent, Camera!EstimateIsNear
  <2> QED
    BY <2>2, <2>3
<1>4. CASE Camera!NewFrame
  <2>1. /\ frame' \in {pos} \cup {trail[i] : i \in 1..Lag} /\ unread' = TRUE
        /\ UNCHANGED <<profile, camStage, hold, up, pos, moved, trail, heard, est, last, path,
                       backoff, standing, coast, camWire>>
    BY <1>4, Zenon DEF Camera!NewFrame
  <2>2. pos \in Position /\ trail \in [1..Lag -> Position]
    BY DEF Camera!TypeOK
  <2>3. frame' \in Position
    BY <2>1, <2>2
  <2>4. Camera!TypeOK'
    BY <2>1, <2>3, Zenon DEF Camera!TypeOK
  <2>5. Camera!Magnitude(frame' - pos) <= (IF moved THEN Lag ELSE Lag - 1)
    <3>1. CASE frame' = pos
      BY <1>0, <2>2, <3>1 DEF Camera!Magnitude
    <3>2. CASE \E i \in 1..Lag : frame' = trail[i]
      <4>1. PICK i \in 1..Lag : frame' = trail[i]
        BY <3>2
      <4>2. Camera!Magnitude(trail[i] - pos) <= (IF moved THEN i ELSE i - 1)
        BY <4>1 DEF Camera!TrailIsNear
      <4>3. trail[i] \in Int /\ pos \in Int
        BY <1>0, <2>2
      <4> QED
        BY <1>0, <4>1, <4>2, <4>3 DEF Camera!Magnitude
    <3> QED
      BY <2>1, <3>1, <3>2
  <2>6. frame' # None
    BY <1>0, <2>3
  <2>7. Camera!UnreadIsRecent' /\ Camera!TrailIsNear' /\ Camera!EstimateIsNear'
    BY <2>1, <2>5, <2>6, Zenon
    DEF Camera!UnreadIsRecent, Camera!TrailIsNear, Camera!EstimateIsNear
  <2> QED
    BY <2>4, <2>7
<1>5. CASE Camera!Spine
  <2>0. /\ profile' \in Profiles /\ trail' \in [1..Lag -> Position] /\ Camera!TrailIsNear'
        /\ moved' = FALSE /\ UNCHANGED <<up, pos, heard, frame>>
    BY <1>5, TickedTrail DEF Camera!Spine
  <2>1. /\ camStage = "spine" /\ camWire' = None /\ unread' = FALSE
        /\ UNCHANGED <<est, last, path, backoff, standing, coast>>
    BY <1>5 DEF Camera!Spine
  <2>2. /\ hold' \in 0..SpineTicks /\ (camStage' = "spine" => hold' < SpineTicks)
        /\ camStage' \in {"spine", "navigate"}
    BY <1>0, <1>5 DEF Camera!Spine, Camera!TypeOK
  <2>3. Camera!TypeOK'
    BY <2>0, <2>1, <2>2, Zenon DEF Camera!TypeOK
  <2>4. Camera!UnreadIsRecent' /\ Camera!EstimateIsNear'
    BY <2>1, Zenon DEF Camera!UnreadIsRecent, Camera!EstimateIsNear
  <2> QED
    BY <2>0, <2>3, <2>4
<1>6. CASE Camera!Blind
  <2>0. /\ profile' \in Profiles /\ trail' \in [1..Lag -> Position] /\ Camera!TrailIsNear'
        /\ moved' = FALSE /\ UNCHANGED <<up, pos, heard, frame>>
    BY <1>6, TickedTrail DEF Camera!Blind
  <2>1. /\ camWire' = None /\ unread' = FALSE
        /\ UNCHANGED <<camStage, hold, est, last, path, backoff, standing, coast>>
    BY <1>6 DEF Camera!Blind, Camera!Hold
  <2>2. Camera!TypeOK'
    BY <2>0, <2>1, Zenon DEF Camera!TypeOK
  <2>3. Camera!UnreadIsRecent' /\ Camera!EstimateIsNear'
    BY <2>1, Zenon DEF Camera!UnreadIsRecent, Camera!EstimateIsNear
  <2> QED
    BY <2>0, <2>2, <2>3
<1>7. CASE Camera!Refresh
  <2>1. PICK lock \in Camera!Locks : Camera!Update(lock)
    BY <1>7 DEF Camera!Refresh
  <2> QED
    BY <1>7, <2>1, UpdateStep DEF Camera!Refresh, Camera!TypeOK
<1>8. CASE Camera!NoPath \/ Camera!Advance \/ Camera!BackOff \/ Camera!Stand
  <2>1. PICK lock \in Camera!Locks : Camera!Update(lock)
    BY <1>8 DEF Camera!NoPath, Camera!Advance, Camera!BackOff, Camera!Stand, Camera!Following
  <2>2. camStage = "navigate" /\ Camera!Replan /\ Camera!Ticked /\ hold' = hold
    BY <1>8 DEF Camera!NoPath, Camera!Advance, Camera!BackOff, Camera!Stand, Camera!Following
  <2>3. /\ path' \in [to : Int, all : BOOLEAN] \cup {None}
        /\ path' # None => Camera!Error \in Int
    BY <2>1, <2>2, UpdateIsNear, ReplanType
  <2>4. CASE Camera!NoPath
    BY <2>1, <2>2, <2>3, <2>4, UpdateStep DEF Camera!NoPath, Camera!Hold, Camera!TypeOK
  <2>5. CASE Camera!Advance
    <3>1. coast' \in BOOLEAN
      BY <2>5, Zenon DEF Camera!Advance, Camera!Drive, Camera!TypeOK
    <3>2. camWire' \in {-1, 1, None} /\ standing' = 0 /\ UNCHANGED <<camStage, backoff>>
      BY <2>5 DEF Camera!Advance, Camera!Drive, Camera!Sign
    <3> QED
      BY <1>0, <2>1, <2>2, <2>3, <3>1, <3>2, UpdateStep DEF Camera!TypeOK
  <2>6. CASE Camera!BackOff
    <3>1. coast' \in BOOLEAN /\ camWire' = None
      BY <2>6, Zenon DEF Camera!BackOff, Camera!Retreat
    <3>2. backoff' \in 0..MaxBackoff /\ standing' = 0 /\ UNCHANGED camStage
      BY <1>0, <2>6 DEF Camera!BackOff, Camera!Retreat, Camera!TypeOK
    <3> QED
      BY <1>0, <2>1, <2>2, <2>3, <3>1, <3>2, UpdateStep DEF Camera!TypeOK
  <2>7. CASE Camera!Stand
    <3>1. coast' \in BOOLEAN /\ camWire' = None
      BY <2>7, Zenon DEF Camera!Stand, Camera!StandAtGoal
    <3>2. standing' \in 0..Standing - 1 /\ UNCHANGED backoff
          /\ camStage' \in {"navigate", "place_arms", "done"}
      BY <1>0, <2>2, <2>7 DEF Camera!Stand, Camera!StandAtGoal, Camera!AfterNavigate, Camera!TypeOK
    <3> QED
      BY <1>0, <2>1, <2>2, <2>3, <3>1, <3>2, UpdateStep DEF Camera!TypeOK
  <2> QED
    BY <1>8, <2>4, <2>5, <2>6, <2>7
<1>9. CASE UNCHANGED Camera!vars
  <2>1. UNCHANGED <<profile, camStage, hold, up, pos, moved, trail, heard, frame, unread, est, last,
                    path, backoff, standing, coast, camWire>>
    BY <1>9 DEF Camera!vars
  <2>2. Camera!TypeOK'
    BY <2>1, ZenonT(60) DEF Camera!TypeOK
  <2>3. Camera!TrailIsNear' /\ Camera!UnreadIsRecent' /\ Camera!EstimateIsNear'
    BY <2>1, Zenon DEF Camera!TrailIsNear, Camera!UnreadIsRecent, Camera!EstimateIsNear
  <2> QED
    BY <2>2, <2>3
<1> QED
  BY <1>1, <1>2, <1>3, <1>4, <1>5, <1>6, <1>7, <1>8, <1>9 DEF Camera!Next, Camera!Tick

LEMMA CameraInit == Camera!Init => Camera!IInv
<1> SUFFICES ASSUME Camera!Init PROVE Camera!IInv
  OBVIOUS
<1>0. /\ SpineTicks \in Nat \ {0} /\ Standing \in Nat \ {0} /\ MaxBackoff \in Nat
      /\ Position \subseteq Int /\ Lag \in Nat
  BY CameraAssumption DEF Camera!PerceptionAssumption
<1>1. 0 \in 0..SpineTicks /\ 0 < SpineTicks /\ 0 \in 0..MaxBackoff /\ 0 \in 0..Standing - 1
  BY <1>0
<1>2. /\ pos \in Position /\ moved = FALSE /\ trail = [i \in 1..Lag |-> pos]
      /\ profile \in Profiles /\ camStage \in {"spine", "navigate"} /\ hold = 0
  BY DEF Camera!Init
<1>3. trail \in [1..Lag -> Position]
  BY <1>2
<1>4. Camera!TypeOK
  BY <1>1, <1>2, <1>3, Zenon DEF Camera!Init, Camera!TypeOK
<1>5. Camera!TrailIsNear
  BY <1>0, <1>2 DEF Camera!TrailIsNear, Camera!Magnitude
<1>6. Camera!UnreadIsRecent /\ Camera!EstimateIsNear
  BY Zenon DEF Camera!Init, Camera!UnreadIsRecent, Camera!EstimateIsNear
<1> QED
  BY <1>4, <1>5, <1>6 DEF Camera!IInv

-----------------------------------------------------------------------------
\* What a command line chooses: in the composition each approach takes its own
\* steps or none, so what holds of it alone holds of it there.
THEOREM ChosenRunsAlone ==
  ChosenSpec =>
    /\ Init /\ [][Next]_vars
    /\ Camera!Init /\ [][Camera!Next]_(Camera!vars)
<1> USE DEF vars, control, base, joints, history, camera
<1>1. ChosenInit => Init /\ Camera!Init
  BY DEF ChosenInit
<1>2. [ChosenNext]_allVars => [Next]_vars
  BY DEF ChosenNext, ByOdometry, ByCamera, allVars
<1>3. [ChosenNext]_allVars => [Camera!Next]_(Camera!vars)
  BY DEF ChosenNext, ByOdometry, ByCamera, allVars, Camera!vars, Camera!world, Camera!filter, Camera!nav
<1> QED
  BY <1>1, <1>2, <1>3, PTL DEF ChosenSpec

LEMMA CameraInductive == ChosenSpec => []Camera!IInv
BY CameraInit, CameraStep, ChosenRunsAlone, PTL

\* The approach by camera is type-correct for every position, error and gate.
THEOREM CameraTypeCorrect == ChosenSpec => []Camera!TypeOK
<1>1. Camera!IInv => Camera!TypeOK
  BY DEF Camera!IInv
<1> QED
  BY <1>1, CameraInductive, PTL

\* The fused estimate is no further off than the rough start or one lock could
\* put it: a prediction carries the error along, a lock that is fused is of this
\* tick, and the mirror twin's is rejected.
THEOREM EstimateStaysNear == ChosenSpec => []CameraIsNear
<1>1. Camera!IInv => CameraIsNear
  BY DEF Camera!IInv, CameraIsNear
<1> QED
  BY <1>1, CameraInductive, PTL
=============================================================================
