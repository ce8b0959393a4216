--------------------------- MODULE PulseTrimProofs ---------------------------
(***************************************************************************)
(* What holds of the fine trim for every scale of errors and velocities,   *)
(* every gate and every time it is given: its types, that no token stays   *)
(* on the wire beyond the longest pulse, and that a handover follows a     *)
(* dwell at rest.                                                          *)
(***************************************************************************)
EXTENDS PulseTrim, TLAPS

USE TrimAssumption

-----------------------------------------------------------------------------
\* What the tick computes.

LEMMA MagnitudeType == ASSUME NEW x \in Int PROVE Magnitude(x) \in Nat
BY DEF Magnitude

\* Of three axes at most, one is furthest out of the gate.
LEMMA WorstAxisType == TypeOK => WorstAxis \in Axis
<1> SUFFICES ASSUME TypeOK
             PROVE  WorstAxis \in Axis
  OBVIOUS
<1> DEFINE E(i) == Magnitude(pose[Axes[i]])
           Worst(i) == \A j \in 1..Len(Axes) : E(j) <= E(i) /\ (j < i => E(j) < E(i))
<1>1. pose \in [Axis -> Int]
  BY DEF TypeOK
<1>2. \A i \in 1..Len(Axes) : Axes[i] \in Axis
  BY DEF Axis
<1>3. \A i \in 1..Len(Axes) : E(i) \in Int
  <2> SUFFICES ASSUME NEW i \in 1..Len(Axes)
               PROVE  E(i) \in Int
    OBVIOUS
  <2>1. pose[Axes[i]] \in Int
    BY <1>1, <1>2
  <2>2. Magnitude(pose[Axes[i]]) \in Nat
    BY <2>1, MagnitudeType
  <2> QED
    BY <2>2
<1> HIDE DEF E
<1>4. \E i \in 1..Len(Axes) : Worst(i)
  <2>1. CASE Len(Axes) = 1
    BY <2>1, <1>3
  <2>2. CASE Len(Axes) = 2
    BY <2>2, <1>3
  <2>3. CASE Len(Axes) = 3
    <3>1. E(1) \in Int /\ E(2) \in Int /\ E(3) \in Int
      BY <2>3, <1>3
    <3>2. \A j \in 1..Len(Axes) : j = 1 \/ j = 2 \/ j = 3
      BY <2>3
    <3>3. CASE E(2) <= E(1) /\ E(3) <= E(1)
      BY <2>3, <3>1, <3>2, <3>3, SMTT(30)
    <3>4. CASE E(1) < E(2) /\ E(3) <= E(2)
      BY <2>3, <3>1, <3>2, <3>4, SMTT(30)
    <3>5. CASE E(1) < E(3) /\ E(2) < E(3)
      BY <2>3, <3>1, <3>2, <3>5, SMTT(30)
    <3> QED
      BY <3>1, <3>3, <3>4, <3>5
  <2> QED
    BY <2>1, <2>2, <2>3
<1>5. PICK i \in 1..Len(Axes) : Worst(i)
  BY <1>4
<1>6. \E a \in Axis :
        \E k \in 1..Len(Axes) :
          /\ Axes[k] = a
          /\ \A j \in 1..Len(Axes) :
               /\ Magnitude(pose[Axes[j]]) <= Magnitude(pose[a])
               /\ j < k => Magnitude(pose[Axes[j]]) < Magnitude(pose[a])
  BY <1>2, <1>5 DEF E
<1> QED
  BY <1>6 DEF WorstAxis

\* A pulse is as long as the error asks for, within its bounds.
LEMMA HoldType == ASSUME TypeOK, NEW a \in Axis PROVE HoldFor(a) \in 1..HoldCap
<1> DEFINE raw == Magnitude(pose[a]) \div HoldUnit
<1>1. pose[a] \in Int
  BY DEF TypeOK
<1>2. Magnitude(pose[a]) \in Nat
  BY <1>1, MagnitudeType
<1>3. raw \in Int
  BY <1>2, SMTT(30)
<1>4. HoldFor(a) = IF raw < HoldFloor THEN HoldFloor ELSE IF raw > HoldCap THEN HoldCap ELSE raw
  BY DEF HoldFor
<1> HIDE DEF raw
<1> QED
  BY <1>3, <1>4, SMTT(30)

LEMMA SignType == \A x \in Int : Sign(x) \in {-1, 1} /\ -Sign(x) \in {-1, 1}
<1> SUFFICES ASSUME NEW x \in Int
             PROVE  Sign(x) \in {-1, 1} /\ -Sign(x) \in {-1, 1}
  OBVIOUS
<1>1. Sign(x) = -1 \/ Sign(x) = 1
  BY DEF Sign
<1> QED
  BY <1>1

LEMMA ClockType ==
  /\ MaxSince \in Nat /\ HoldCap <= MaxSince /\ DwellTime <= MaxSince
  /\ \A bound \in Nat : \A t \in 0..bound : Later(t, bound) \in 0..bound
<1>1. HoldCap \in Nat /\ StopTime \in Nat /\ DwellTime \in Nat
  BY TrimAssumption
<1>2. MaxSince \in Nat /\ HoldCap <= MaxSince /\ DwellTime <= MaxSince
  BY <1>1 DEF MaxSince
<1>3. ASSUME NEW bound \in Nat, NEW t \in 0..bound
      PROVE  Later(t, bound) \in 0..bound
  <2>1. Later(t, bound) = IF t < bound THEN t + 1 ELSE t
    BY DEF Later
  <2> QED
    BY <2>1
<1> QED
  BY <1>2, <1>3

-----------------------------------------------------------------------------
\* The inductive invariant.

LEMMA InitInv == Init => IInv
<1> SUFFICES ASSUME Init
             PROVE  IInv
  OBVIOUS
<1>1. TypeOK
  <2>1. /\ 0 \in 0..HoldCap /\ 0 \in 0..MaxSince /\ 0 \in 0..(HoldCap + 1)
        /\ 0 \in 0..DwellTime /\ StopTime \in 0..StopTime
    BY ClockType
  <2>2. None \in Token /\ "idle" \in Phase /\ None \in Axis \cup {None}
    BY DEF Token, Phase
  <2> QED
    BY <2>1, <2>2 DEF Init, TypeOK
<1>2. TokenIsTimed /\ AxisIsLocked /\ DwellIsRest /\ HandoverIsQuiet
  BY DEF Init, TokenIsTimed, AxisIsLocked, DwellIsRest, HandoverIsQuiet, Pressed
<1> QED
  BY <1>1, <1>2 DEF IInv

\* What each publication leaves behind.
LEMMA PublishType ==
  ASSUME IInv, NEW t \in Token, Publish(t)
  PROVE  /\ pose' \in Pose /\ vel' \in Velocity
         /\ wire' \in Token /\ wire' = t
         /\ driven' \in 0..(HoldCap + 1)
         /\ settled' \in 0..DwellTime
         /\ ticked' = TRUE
BY SMTT(30) DEF IInv, TypeOK, Publish

LEMMA FireType ==
  ASSUME IInv, ~Pressed, NEW a \in Axis, EnterFire(a)
  PROVE  IInv'
<1> USE DEF IInv
<1>1. pose[a] \in Int
  BY DEF TypeOK
<1>2. <<a, Sign(pose[a])>> \in Token /\ <<a, Sign(pose[a])>> # None
  BY <1>1, SignType, SMTT(30) DEF Token
<1>3. Publish(<<a, Sign(pose[a])>>)
  BY DEF EnterFire
<1>4. HoldFor(a) \in 1..HoldCap
  BY HoldType
<1>5. /\ pose' \in Pose /\ vel' \in Velocity
      /\ wire' = <<a, Sign(pose[a])>>
      /\ driven' \in 0..(HoldCap + 1) /\ settled' \in 0..DwellTime /\ ticked' = TRUE
  BY <1>2, <1>3, PublishType
<1>6. TypeOK'
  <2>1. /\ fresh' \in BOOLEAN /\ phase' \in Phase /\ locked' \in Axis \cup {None}
        /\ last' \in Axis \cup {None} /\ released' \in 0..StopTime
    BY DEF EnterFire, TypeOK, Phase
  <2>2. sign' \in {-1, 0, 1} /\ token' \in Token /\ wire' \in Token
    BY <1>1, <1>2, <1>5, SignType DEF EnterFire
  <2>3. hold' \in 0..HoldCap /\ since' \in 0..MaxSince
    BY <1>4, ClockType DEF EnterFire
  <2> QED
    BY <1>5, <2>1, <2>2, <2>3 DEF TypeOK
<1>7. driven' = 0
  BY <1>2, <1>3 DEF Publish, TokenIsTimed
<1>8. phase' = "fire" /\ locked' = a /\ token' = wire' /\ hold' \in 1..HoldCap /\ since' = 0
  BY <1>4, <1>5 DEF EnterFire
<1>9. TokenIsTimed'
  <2>1. Pressed' /\ token' # None /\ wire' = token'
    BY <1>2, <1>5, <1>8 DEF Pressed
  <2>2. driven' <= since' /\ since' <= hold' /\ since' < hold'
    BY <1>7, <1>8, TrimAssumption, SMTT(30)
  <2> QED
    BY <2>1, <2>2 DEF TokenIsTimed
<1> QED
  BY <1>6, <1>8, <1>9 DEF AxisIsLocked, DwellIsRest, HandoverIsQuiet

LEMMA BrakeType ==
  ASSUME IInv, phase = "guide", NEW a \in Axis, EnterBrake(a)
  PROVE  IInv'
<1> USE DEF IInv
<1> DEFINE t == <<a, IF Moving(a) THEN -Sign(vel[a]) ELSE Sign(pose[a])>>
<1>1. pose[a] \in Int /\ vel[a] \in Int
  BY DEF TypeOK
<1>2. t \in Token /\ t # None
  <2> DEFINE s == IF Moving(a) THEN -Sign(vel[a]) ELSE Sign(pose[a])
  <2>1. s \in {-1, 1}
    BY <1>1, SignType
  <2> HIDE DEF s
  <2>2. <<a, s>> \in Axis \X {-1, 1}
    BY <2>1
  <2>3. <<a, s>> \in Token /\ <<a, s>> # None
    BY <2>2, TrimAssumption DEF Token
  <2> QED
    BY <2>3 DEF s
<1>3. token' = t /\ Publish(t)
  BY DEF EnterBrake
<1> HIDE DEF t
<1>4. /\ pose' \in Pose /\ vel' \in Velocity /\ wire' = t
      /\ driven' \in 0..(HoldCap + 1) /\ settled' \in 0..DwellTime /\ ticked' = TRUE
  BY <1>2, <1>3, PublishType
<1>5. TypeOK'
  <2>1. /\ fresh' \in BOOLEAN /\ phase' \in Phase /\ locked' \in Axis \cup {None}
        /\ last' \in Axis \cup {None} /\ released' \in 0..StopTime /\ sign' \in {-1, 0, 1}
    BY DEF EnterBrake, TypeOK, Phase
  <2>2. hold' \in 0..HoldCap /\ since' \in 0..MaxSince
    BY ClockType DEF EnterBrake
  <2> QED
    BY <1>2, <1>3, <1>4, <2>1, <2>2 DEF TypeOK
<1>6. driven' = 0
  BY <1>2, <1>3 DEF Publish, TokenIsTimed, Pressed
<1>7. phase' = "brake" /\ locked' = a /\ hold' = HoldCap /\ since' = 0
  BY DEF EnterBrake
<1>8. TokenIsTimed'
  BY <1>2, <1>3, <1>4, <1>6, <1>7 DEF TokenIsTimed, Pressed
<1> QED
  BY <1>5, <1>7, <1>8 DEF AxisIsLocked, DwellIsRest, HandoverIsQuiet

\* A tick that leaves the wire empty.
LEMMA QuietType ==
  ASSUME IInv, Publish(None),
         phase' \in {"idle", "guide", "dwell", "done"},
         locked' \in Axis \cup {None}, sign' \in {-1, 0, 1}, token' \in Token,
         hold' = hold, since' \in {0, since}, fresh' \in BOOLEAN,
         last' \in Axis \cup {None}, released' \in 0..StopTime,
         phase' = "guide" => locked' \in Axis,
         phase' = "dwell" => since' = 0 \/ (phase = "dwell" /\ AtRest),
         phase' = "done" => settled' >= DwellTime
  PROVE  IInv'
<1> USE DEF IInv
<1>1. None \in Token
  BY DEF Token
<1>2. /\ pose' \in Pose /\ vel' \in Velocity /\ wire' = None
      /\ driven' \in 0..(HoldCap + 1) /\ settled' \in 0..DwellTime /\ ticked' = TRUE
  BY <1>1, PublishType
<1>3. hold' \in 0..HoldCap /\ since' \in 0..MaxSince /\ phase' \in Phase
  <2>1. 0 \in 0..MaxSince /\ since \in 0..MaxSince /\ hold \in 0..HoldCap
    BY ClockType DEF TypeOK
  <2> QED
    BY <2>1 DEF Phase
<1>4. TypeOK'
  BY <1>1, <1>2, <1>3 DEF TypeOK
<1>5. driven' = 0
  BY DEF Publish, TokenIsTimed, Pressed
<1>6. DwellIsRest'
  <2>1. CASE since' = 0
    BY <2>1, <1>2 DEF DwellIsRest
  <2>2. CASE phase = "dwell" /\ AtRest /\ since' = since
    BY <2>2 DEF DwellIsRest, Publish
  <2> QED
    BY <2>1, <2>2 DEF DwellIsRest
<1>7. TokenIsTimed'
  BY <1>2, <1>5 DEF TokenIsTimed, Pressed
<1>8. AxisIsLocked' /\ HandoverIsQuiet'
  BY <1>2 DEF AxisIsLocked, HandoverIsQuiet
<1> QED
  BY <1>4, <1>6, <1>7, <1>8

\* The clock: what is counted is counted on, a pulse to its hold at most.
LEMMA ClockStep == ASSUME IInv, Clock PROVE IInv'
<1> USE DEF IInv
<1>1. /\ since' \in 0..MaxSince /\ settled' \in 0..DwellTime /\ released' \in 0..StopTime
      /\ driven' \in 0..(HoldCap + 1)
  <2>1. Later(driven, HoldCap + 1) \in 0..(HoldCap + 1)
    <3>1. driven \in 0..(HoldCap + 1)
      BY DEF TypeOK
    <3> QED
      BY <3>1, SMTT(30) DEF Later
  <2>2. Later(since, MaxSince) \in 0..MaxSince
    BY ClockType DEF TypeOK
  <2>3. Later(settled, DwellTime) \in 0..DwellTime
    BY ClockType DEF TypeOK
  <2>4. Later(released, StopTime) \in 0..StopTime
    BY ClockType DEF TypeOK
  <2> QED
    BY <2>1, <2>2, <2>3, <2>4, SMTT(30) DEF Clock
<1>2. /\ UNCHANGED <<pose, vel, fresh, phase, locked, sign, token, hold, wire, last>>
      /\ ticked' = FALSE
  BY DEF Clock, odom
<1>3. TypeOK'
  BY <1>1, <1>2 DEF TypeOK
<1>4. TokenIsTimed'
  <2>1. CASE wire # None
    <3>1. Pressed /\ since < hold /\ driven <= since /\ hold \in 0..HoldCap
      BY <2>1 DEF TokenIsTimed, Clock, TypeOK
    <3>2. since' = since + 1
      BY <3>1, ClockType, SMTT(30) DEF Clock, Later, TypeOK
    <3>3. driven' <= driven + 1
      <4>1. driven \in 0..(HoldCap + 1) /\ HoldCap \in Nat
        BY TrimAssumption DEF TypeOK
      <4>2. driven' = IF wire = None THEN 0
                      ELSE IF driven < HoldCap + 1 THEN driven + 1 ELSE driven
        BY DEF Clock, Later
      <4> QED
        BY <4>1, <4>2
    <3>4. since \in Int /\ hold \in Int /\ driven \in Int /\ driven' \in Int
      BY <1>1, ClockType DEF TypeOK
    <3>5. driven' <= since' /\ since' <= hold
      BY <3>1, <3>2, <3>3, <3>4, SMTT(30)
    <3>6. Pressed' /\ token # None /\ wire = token
      BY <2>1, <3>1, <1>2 DEF TokenIsTimed, Pressed
    <3> QED
      BY <1>2, <3>5, <3>6 DEF TokenIsTimed
  <2>2. CASE wire = None
    BY <2>2, <1>2 DEF TokenIsTimed, Pressed, Clock
  <2> QED
    BY <2>1, <2>2
<1>5. DwellIsRest'
  <2> SUFFICES ASSUME phase = "dwell"
               PROVE  settled' >= since' \/ settled' >= DwellTime
    BY <1>2 DEF DwellIsRest
  <2>1. settled >= since \/ settled >= DwellTime
    BY DEF DwellIsRest
  <2>2. settled \in 0..DwellTime /\ since \in 0..MaxSince
    BY DEF TypeOK
  <2>3. settled' = IF settled < DwellTime THEN settled + 1 ELSE settled
    BY DEF Clock, Later
  <2>4. since' = IF since < MaxSince THEN since + 1 ELSE since
    BY DEF Clock, Later
  <2> QED
    BY <2>1, <2>2, <2>3, <2>4, ClockType
<1> QED
  BY <1>2, <1>3, <1>4, <1>5 DEF AxisIsLocked, HandoverIsQuiet, Clock

LEMMA OdomStep == ASSUME IInv, NEW p \in Pose, NEW v \in Velocity, Odom(p, v) PROVE IInv'
BY DEF IInv, Odom, trim, TypeOK, TokenIsTimed, AxisIsLocked, DwellIsRest, HandoverIsQuiet, Pressed

\* A tick that does not look lets the pedal go.
LEMMA BlindStep == ASSUME IInv, Blind PROVE IInv'
<1>1. /\ wire' = None /\ driven' = 0 /\ ticked' = TRUE /\ fresh' = TRUE
      /\ UNCHANGED <<pose, vel, phase, locked, sign, token, hold, since, settled, last, released>>
      /\ phase # "done"
  BY DEF Blind, trim
<1>2. None \in Token /\ 0 \in 0..(HoldCap + 1)
  BY DEF Token
<1>3. TypeOK'
  BY <1>1, <1>2 DEF IInv, TypeOK
<1> QED
  BY <1>1, <1>3 DEF IInv, TokenIsTimed, AxisIsLocked, DwellIsRest, HandoverIsQuiet, Pressed

\* A tick: a new pulse, a brake, one that holds the token, or one that leaves
\* the wire empty.
LEMMA TickStep == ASSUME IInv, Tick PROVE IInv'
<1> USE DEF IInv
<1>1. None \in Token
  BY DEF Token
<1>2. CASE HoldOn
  <2>1. UNCHANGED <<fresh, phase, since, last, released, locked, sign, token, hold>> /\ Publish(token)
    BY <1>2 DEF HoldOn, Rest
  <2>2. token # None /\ token \in Token /\ Pressed
    BY <1>2 DEF HoldOn, TokenIsTimed, TypeOK
  <2>3. /\ pose' \in Pose /\ vel' \in Velocity /\ wire' = token /\ driven' \in 0..(HoldCap + 1)
        /\ settled' \in 0..DwellTime /\ ticked' = TRUE
    BY <2>1, <2>2, PublishType
  <2>4. TypeOK'
    BY <2>1, <2>2, <2>3 DEF TypeOK
  <2>5. driven' <= since /\ since < hold
    <3>1. since \in 0..MaxSince /\ since < hold
      BY <1>2 DEF TypeOK, HoldOn
    <3>2. CASE token = wire
      BY <2>1, <2>2, <3>1, <3>2 DEF Publish, TokenIsTimed
    <3>3. CASE token # wire
      BY <2>1, <3>1, <3>3 DEF Publish
    <3> QED
      BY <3>2, <3>3
  <2>6. since <= hold
    BY <2>5 DEF TypeOK
  <2>7. TokenIsTimed'
    BY <2>1, <2>2, <2>3, <2>5, <2>6 DEF TokenIsTimed, Pressed
  <2> QED
    BY <1>2, <2>1, <2>4, <2>7 DEF HoldOn, Pressed, AxisIsLocked, DwellIsRest, HandoverIsQuiet
<1>3. CASE Release
  <2>1. phase' = "guide" /\ since' = 0 /\ fresh' = FALSE /\ last' = locked /\ released' = 0
    BY <1>3 DEF Release
  <2>2. UNCHANGED <<locked, sign, token, hold>> /\ Publish(None)
    BY <1>3 DEF Release, Rest
  <2>3. locked \in Axis /\ 0 \in 0..StopTime
    BY <1>3 DEF Release, Pressed, AxisIsLocked
  <2> QED
    BY <2>1, <2>2, <2>3, QuietType DEF TypeOK
<1>4. CASE GateReached
  BY <1>1, <1>4, QuietType DEF GateReached, EnterDwell, Rest, AxisIsLocked, TypeOK
<1>5. CASE GiveUpLock
  BY <1>5, QuietType DEF GiveUpLock, Guiding, TypeOK
<1>6. CASE Brake
  <2>1. phase = "guide" /\ locked \in Axis /\ EnterBrake(locked)
    BY <1>6 DEF Brake, Guiding, AxisIsLocked
  <2> QED
    BY <2>1, BrakeType
<1>7. CASE Coast
  BY <1>7, QuietType DEF Coast, Free, Guiding, Rest, AxisIsLocked, TypeOK
<1>8. CASE Observe
  BY <1>8, QuietType DEF Observe, Free, Guiding, Rest, AxisIsLocked, TypeOK
<1>9. CASE Repulse
  <2>1. phase = "guide" /\ ~Pressed /\ locked \in Axis
    BY <1>9 DEF Repulse, Free, Guiding, Pressed, AxisIsLocked
  <2>2. CASE fresh
    BY <1>9, <2>1, <2>2, FireType DEF Repulse
  <2>3. CASE ~fresh
    BY <1>9, <2>1, <2>3, QuietType DEF Repulse, Rest, TypeOK
  <2> QED
    BY <2>2, <2>3
<1>10. CASE Idle
  BY <1>10, QuietType DEF Idle, Rest, TypeOK
<1>11. CASE IdleInBand
  BY <1>1, <1>11, QuietType DEF IdleInBand, EnterDwell, TypeOK
<1>12. CASE Fire
  <2>1. ~Pressed /\ WorstAxis \in Axis /\ EnterFire(WorstAxis)
    BY <1>12, WorstAxisType DEF Fire, Pressed
  <2> QED
    BY <2>1, FireType
<1>13. CASE LeaveDwell
  BY <1>13, QuietType DEF LeaveDwell, Rest, TypeOK
<1>14. CASE Dwell
  <2>1. phase = "dwell" /\ AtRest /\ Publish(None)
    BY <1>14 DEF Dwell, Rest
  <2>2. phase' = "done" => settled' >= DwellTime
    BY <1>14, <2>1, SMTT(30) DEF Dwell, Publish, DwellIsRest, TypeOK
  <2> QED
    BY <1>14, <2>1, <2>2, QuietType DEF Dwell, Rest, TypeOK
<1> QED
  BY <1>2, <1>3, <1>4, <1>5, <1>6, <1>7, <1>8, <1>9, <1>10, <1>11, <1>12, <1>13, <1>14 DEF Tick

LEMMA NextInv == IInv /\ [Next]_vars => IInv'
<1> SUFFICES ASSUME IInv, [Next]_vars
             PROVE  IInv'
  OBVIOUS
<1>1. ASSUME NEW p \in Pose, NEW v \in Velocity, Odom(p, v)
      PROVE  IInv'
  BY <1>1, OdomStep
<1>2. CASE Clock
  BY <1>2, ClockStep
<1>3. CASE Tick
  BY <1>3, TickStep
<1>4. CASE Blind
  BY <1>4, BlindStep
<1>5. CASE UNCHANGED vars
  BY <1>5
     DEF vars, odom, trim, IInv, TypeOK, TokenIsTimed, AxisIsLocked, DwellIsRest,
         HandoverIsQuiet, Pressed
<1> QED
  BY <1>1, <1>2, <1>3, <1>4, <1>5 DEF Next, Over

-----------------------------------------------------------------------------
LEMMA Inductive == Spec => []IInv
BY InitInv, NextInv, PTL DEF Spec

\* The trim is type-correct for every scale, gate and time.
THEOREM TrimTypeCorrect == Spec => []TypeOK
<1>1. IInv => TypeOK
  BY DEF IInv
<1> QED
  BY <1>1, Inductive, PTL

\* No handover but after the loop has found the base at rest for the dwell.
THEOREM HandoversAreQuiet == Spec => []HandoverIsQuiet
<1>1. IInv => HandoverIsQuiet
  BY DEF IInv
<1> QED
  BY <1>1, Inductive, PTL

\* No token stays on the wire longer than the longest pulse: it is timed from
\* its first publication, and its hold is no longer.
THEOREM PulsesAreBounded == Spec => []PulseIsBounded
<1>1. IInv => PulseIsBounded
  <2> SUFFICES ASSUME IInv
               PROVE  driven <= HoldCap
    BY DEF PulseIsBounded
  <2>1. hold \in 0..HoldCap /\ since \in 0..MaxSince /\ driven \in 0..(HoldCap + 1)
    BY DEF IInv, TypeOK
  <2>2. driven = 0 \/ (driven <= since /\ since <= hold)
    BY DEF IInv, TokenIsTimed
  <2> QED
    BY <2>1, <2>2, ClockType
<1> QED
  BY <1>1, Inductive, PTL
=============================================================================
