----------------------- MODULE CommandPublisherProofs -----------------------
(***************************************************************************)
(* What holds of the publisher for every schedule of its three threads,    *)
(* every keep-alive period and lateness: its types, that no repeat steps   *)
(* back, and that neither stream starves while the keep-alive runs.  And   *)
(* what holds of the gripper on its way there, for every setting of its    *)
(* stages' thresholds and times.                                           *)
(***************************************************************************)
EXTENDS Commands, TLAPS

USE PublisherAssumption DEF Never

-----------------------------------------------------------------------------
\* The inductive invariant, part by part.

\* A speed is brought within the limits of the base that drives it.
LEMMA WireSpeedType ==
  ASSUME real \in BOOLEAN, NEW v \in Speed \cup {0}
  PROVE  WireSpeed(v) \in Twist
BY DEF WireSpeed, ClippedSpeed, Twist

LEMMA InitInv == Init => IInv
<1> SUFFICES ASSUME Init
             PROVE  IInv
  OBVIOUS
<1>1. TypeOK
  <2>1. at \in [Thread -> Place]
    BY DEF Init, Thread, Place
  <2>2. 0 \in Twist /\ read \in [Thread -> Twist]
    BY DEF Init, Twist
  <2>3. 0 \in Ordinal /\ 0 \in Age /\ Never \in Age
    BY DEF Ordinal, Age
  <2>4. due \in -MaxLate..KeepalivePeriod
    BY DEF Init
  <2>5. wire \in [arms : Ordinal, grips : Ordinal, base : Twist]
    BY <2>2, <2>3 DEF Init
  <2>6. zerosLeft \in 0..StopRepeats /\ twist \in Twist /\ lock \in {"free", "keepalive"}
    BY <2>2 DEF Init
  <2> QED
    BY <2>1, <2>2, <2>3, <2>4, <2>5, <2>6 DEF Init, TypeOK
<1>2. RepeatsAreNewest
  BY DEF Init, RepeatsAreNewest, Thread
<1>3. WakesInTime
  BY DEF Init, WakesInTime, Alive, Thread
<1> QED
  BY <1>1, <1>2, <1>3 DEF IInv

\* Every step keeps the types.
LEMMA TypeStep == IInv /\ [Next]_vars => TypeOK'
<1> SUFFICES ASSUME IInv, [Next]_vars
             PROVE  TypeOK'
  OBVIOUS
<1> USE DEF IInv
<1>1. CASE PublishArms
  BY <1>1 DEF PublishArms, SendArms, Puts, base, watchdogs, TypeOK, Thread, Place,
       Ordinal, Age, Twist
<1>2. ASSUME NEW v \in Speed, Publish(v)
      PROVE  TypeOK'
  BY <1>2 DEF Publish, SendArms, Puts, Goes, base, watchdogs, TypeOK, Thread, Place,
       Ordinal, Age, Twist
<1>3. CASE PublishGrippers
  BY <1>3 DEF PublishGrippers, Puts, Goes, control, base, watchdogs, TypeOK, Thread,
       Place, Ordinal, Age, Twist
<1>4. CASE SetTwist
  <2>1. real' = real /\ twist' = WireSpeed(asked) /\ asked \in Speed \cup {0}
    BY <1>4 DEF SetTwist, TypeOK
  <2>2. twist' \in Twist' /\ Twist' = Twist
    BY <2>1, WireSpeedType DEF TypeOK, Twist
  <2>3. read' \in [Thread -> Twist]'
    BY <1>4, <2>2 DEF SetTwist, TypeOK
  <2>4. asked' = 0 /\ loopAge' = 0 /\ stopping' = FALSE /\ 0 \in Age
    BY <1>4 DEF SetTwist, Age
  <2>5. at' \in [Thread -> Place]
    BY <1>4 DEF SetTwist, Goes, TypeOK, Thread, Place
  <2>6. UNCHANGED <<made, again, zerosLeft, bookkeeping, baseAge, watchdogs, wire>>
    BY <1>4 DEF SetTwist
  <2> QED
    BY <2>1, <2>2, <2>3, <2>4, <2>5, <2>6 DEF TypeOK, bookkeeping, watchdogs, Ordinal, Age
<1>5. CASE PublishBase
  BY <1>5 DEF PublishBase, Puts, SendBase, Goes, control, bookkeeping, watchdogs,
       TypeOK, Thread, Place, Ordinal, Age, Twist
<1>6. CASE ReadLast
  BY <1>6 DEF ReadLast, Goes, bookkeeping, base, watchdogs, TypeOK, Thread, Place,
       Ordinal, Age, Twist
<1>7. CASE RepeatLast
  BY <1>7 DEF RepeatLast, SendArms, Puts, Goes, base, watchdogs, TypeOK, Thread,
       Place, Ordinal, Age, Twist
<1>8. CASE SafeStop
  BY <1>8 DEF SafeStop, Goes, bookkeeping, watchdogs, TypeOK, Thread, Place,
       Ordinal, Age, Twist
<1>9. CASE SendZero
  BY <1>9 DEF SendZero, Puts, SendBase, Goes, bookkeeping, watchdogs, TypeOK,
       Thread, Place, Ordinal, Age, Twist, RepeatsAreNewest
<1>10. CASE Close
  BY <1>10 DEF Close, Goes, control, bookkeeping, base, TypeOK, Thread, Place,
       Ordinal, Age, Twist
<1>11. CASE Cancel
  BY <1>11 DEF Cancel, Goes, control, bookkeeping, base, TypeOK, Thread, Place,
       Ordinal, Age, Twist
<1>12. CASE Interrupted
  BY <1>12 DEF Interrupted, Goes, bookkeeping, watchdogs, TypeOK, Thread, Place,
       Ordinal, Age, Twist
<1>13. CASE TimerReads
  BY <1>13 DEF TimerReads, Goes, control, bookkeeping, TypeOK, Thread, Place,
       Ordinal, Age, Twist
<1>14. CASE TimerSends
  BY <1>14 DEF TimerSends, Puts, SendBase, Goes, control, bookkeeping, watchdogs,
       TypeOK, Thread, Place, Ordinal, Age, Twist
<1>15. CASE Wake
  BY <1>15 DEF Wake, Goes, NextDue, BaseIsOld, control, bookkeeping, TypeOK, Thread,
       Place, Ordinal, Age, Twist
<1>16. CASE BackstopBase
  BY <1>16 DEF BackstopBase, Puts, SendBase, Goes, control, bookkeeping, watchdogs,
       TypeOK, Thread, Place, Ordinal, Age, Twist
<1>17. CASE Enter
  BY <1>17 DEF Enter, Goes, control, base, watchdogs, TypeOK, Thread, Place,
       Ordinal, Age, Twist
<1>18. CASE Repeat
  BY <1>18 DEF Repeat, Goes, Quiet, control, base, watchdogs, TypeOK, Thread, Place,
       Ordinal, Age, Twist
<1>19. CASE End
  BY <1>19 DEF End, Goes, control, bookkeeping, base, watchdogs, TypeOK, Thread,
       Place, Ordinal, Age, Twist
<1>20. CASE Tick
  BY <1>20 DEF Tick, OnTime, Older, control, TypeOK, Thread, Place, Ordinal, Age, Twist
<1>21. CASE UNCHANGED vars
  BY <1>21 DEF vars, control, bookkeeping, base, watchdogs, TypeOK, Thread, Place,
       Ordinal, Age, Twist
<1> QED
  BY <1>1, <1>2, <1>3, <1>4, <1>5, <1>6, <1>7, <1>8, <1>9, <1>10, <1>11, <1>12,
       <1>13, <1>14, <1>15, <1>16, <1>17, <1>18, <1>19, <1>20, <1>21
  DEF Next, Control, Timer, Keepalive

\* Every step leaves the newest command on the wire.
LEMMA NewestStep == IInv /\ [Next]_vars => RepeatsAreNewest'
<1> SUFFICES ASSUME IInv, [Next]_vars
             PROVE  RepeatsAreNewest'
  OBVIOUS
<1> USE DEF IInv
<1>1. CASE PublishArms
  BY <1>1 DEF PublishArms, SendArms, Puts, base, watchdogs, TypeOK,
       RepeatsAreNewest, Thread, Ordinal
<1>2. ASSUME NEW v \in Speed, Publish(v)
      PROVE  RepeatsAreNewest'
  BY <1>2 DEF Publish, SendArms, Puts, Goes, base, watchdogs, TypeOK,
       RepeatsAreNewest, Thread, Ordinal
<1>3. CASE PublishGrippers
  BY <1>3 DEF PublishGrippers, Puts, Goes, control, base, watchdogs, TypeOK,
       RepeatsAreNewest, Thread, Ordinal
<1>4. CASE SetTwist
  BY <1>4 DEF SetTwist, Goes, bookkeeping, watchdogs, TypeOK, RepeatsAreNewest,
       Thread, Ordinal
<1>5. CASE PublishBase
  BY <1>5 DEF PublishBase, Puts, SendBase, Goes, control, bookkeeping, watchdogs,
       TypeOK, RepeatsAreNewest, Thread, Ordinal
<1>6. CASE ReadLast
  BY <1>6 DEF ReadLast, Goes, bookkeeping, base, watchdogs, TypeOK,
       RepeatsAreNewest, Thread, Ordinal
<1>7. CASE RepeatLast
  BY <1>7 DEF RepeatLast, SendArms, Puts, Goes, base, watchdogs, TypeOK,
       RepeatsAreNewest, Thread, Ordinal
<1>8. CASE SafeStop
  BY <1>8 DEF SafeStop, Goes, bookkeeping, watchdogs, TypeOK, RepeatsAreNewest,
       Thread, Ordinal
<1>9. CASE SendZero
  BY <1>9 DEF SendZero, Puts, SendBase, Goes, bookkeeping, watchdogs, TypeOK,
       RepeatsAreNewest, Thread, Ordinal
<1>10. CASE Close
  BY <1>10 DEF Close, Goes, control, bookkeeping, base, TypeOK, RepeatsAreNewest,
       Thread, Ordinal
<1>11. CASE Cancel
  BY <1>11 DEF Cancel, Goes, control, bookkeeping, base, TypeOK, RepeatsAreNewest,
       Thread, Ordinal
<1>12. CASE Interrupted
  BY <1>12 DEF Interrupted, Goes, bookkeeping, watchdogs, TypeOK, RepeatsAreNewest,
       Thread, Ordinal
<1>13. CASE TimerReads
  BY <1>13 DEF TimerReads, Goes, control, bookkeeping, TypeOK, RepeatsAreNewest,
       Thread, Ordinal
<1>14. CASE TimerSends
  BY <1>14 DEF TimerSends, Puts, SendBase, Goes, control, bookkeeping, watchdogs,
       TypeOK, RepeatsAreNewest, Thread, Ordinal
<1>15. CASE Wake
  BY <1>15 DEF Wake, Goes, NextDue, BaseIsOld, control, bookkeeping, TypeOK,
       RepeatsAreNewest, Thread, Ordinal
<1>16. CASE BackstopBase
  BY <1>16 DEF BackstopBase, Puts, SendBase, Goes, control, bookkeeping, watchdogs,
       TypeOK, RepeatsAreNewest, Thread, Ordinal
<1>17. CASE Enter
  BY <1>17 DEF Enter, Goes, control, base, watchdogs, TypeOK, RepeatsAreNewest,
       Thread, Ordinal
<1>18. CASE Repeat
  BY <1>18 DEF Repeat, Goes, Quiet, control, base, watchdogs, TypeOK,
       RepeatsAreNewest, Thread, Ordinal
<1>19. CASE End
  BY <1>19 DEF End, Goes, control, bookkeeping, base, watchdogs, TypeOK,
       RepeatsAreNewest, Thread, Ordinal
<1>20. CASE Tick
  BY <1>20 DEF Tick, OnTime, Older, control, TypeOK, RepeatsAreNewest, Thread, Ordinal
<1>21. CASE UNCHANGED vars
  BY <1>21 DEF vars, control, bookkeeping, base, watchdogs, TypeOK,
       RepeatsAreNewest, Thread, Ordinal
<1> QED
  BY <1>1, <1>2, <1>3, <1>4, <1>5, <1>6, <1>7, <1>8, <1>9, <1>10, <1>11, <1>12,
       <1>13, <1>14, <1>15, <1>16, <1>17, <1>18, <1>19, <1>20, <1>21
  DEF Next, Control, Timer, Keepalive

\* No step lets a silence outgrow what is left to the next wake.
LEMMA WakeStep == IInv /\ [Next]_vars => WakesInTime'
<1> SUFFICES ASSUME IInv, [Next]_vars
             PROVE  WakesInTime'
  OBVIOUS
<1> USE DEF IInv
<1>1. CASE PublishArms
  BY <1>1 DEF PublishArms, SendArms, Puts, base, watchdogs, TypeOK,
       RepeatsAreNewest, WakesInTime, Alive, Thread, Age, Ordinal
<1>2. ASSUME NEW v \in Speed, Publish(v)
      PROVE  WakesInTime'
  BY <1>2 DEF Publish, SendArms, Puts, Goes, base, watchdogs, TypeOK,
       RepeatsAreNewest, WakesInTime, Alive, Thread, Age, Ordinal
<1>3. CASE PublishGrippers
  BY <1>3 DEF PublishGrippers, Puts, Goes, control, base, watchdogs, TypeOK,
       RepeatsAreNewest, WakesInTime, Alive, Thread, Age, Ordinal
<1>4. CASE SetTwist
  BY <1>4 DEF SetTwist, Goes, bookkeeping, watchdogs, TypeOK, RepeatsAreNewest,
       WakesInTime, Alive, Thread, Age, Ordinal
<1>5. CASE PublishBase
  BY <1>5 DEF PublishBase, Puts, SendBase, Goes, control, bookkeeping, watchdogs,
       TypeOK, RepeatsAreNewest, WakesInTime, Alive, Thread, Age, Ordinal
<1>6. CASE ReadLast
  BY <1>6 DEF ReadLast, Goes, bookkeeping, base, watchdogs, TypeOK,
       RepeatsAreNewest, WakesInTime, Alive, Thread, Age, Ordinal
<1>7. CASE RepeatLast
  BY <1>7 DEF RepeatLast, SendArms, Puts, Goes, base, watchdogs, TypeOK,
       RepeatsAreNewest, WakesInTime, Alive, Thread, Age, Ordinal
<1>8. CASE SafeStop
  BY <1>8 DEF SafeStop, Goes, bookkeeping, watchdogs, TypeOK, RepeatsAreNewest,
       WakesInTime, Alive, Thread, Age, Ordinal
<1>9. CASE SendZero
  BY <1>9 DEF SendZero, Puts, SendBase, Goes, bookkeeping, watchdogs, TypeOK,
       RepeatsAreNewest, WakesInTime, Alive, Thread, Age, Ordinal
<1>10. CASE Close
  BY <1>10 DEF Close, Goes, control, bookkeeping, base, TypeOK, RepeatsAreNewest,
       WakesInTime, Alive, Thread, Age, Ordinal
<1>11. CASE Cancel
  BY <1>11 DEF Cancel, Goes, control, bookkeeping, base, TypeOK, RepeatsAreNewest,
       WakesInTime, Alive, Thread, Age, Ordinal
<1>12. CASE Interrupted
  BY <1>12 DEF Interrupted, Goes, bookkeeping, watchdogs, TypeOK, RepeatsAreNewest,
       WakesInTime, Alive, Thread, Age, Ordinal
<1>13. CASE TimerReads
  BY <1>13 DEF TimerReads, Goes, control, bookkeeping, TypeOK, RepeatsAreNewest,
       WakesInTime, Alive, Thread, Age, Ordinal
<1>14. CASE TimerSends
  BY <1>14 DEF TimerSends, Puts, SendBase, Goes, control, bookkeeping, watchdogs,
       TypeOK, RepeatsAreNewest, WakesInTime, Alive, Thread, Age, Ordinal
<1>15. CASE Wake
  BY <1>15 DEF Wake, Goes, NextDue, BaseIsOld, control, bookkeeping, TypeOK,
       RepeatsAreNewest, WakesInTime, Alive, Thread, Age, Ordinal
<1>16. CASE BackstopBase
  BY <1>16 DEF BackstopBase, Puts, SendBase, Goes, control, bookkeeping, watchdogs,
       TypeOK, RepeatsAreNewest, WakesInTime, Alive, Thread, Age, Ordinal
<1>17. CASE Enter
  BY <1>17 DEF Enter, Goes, control, base, watchdogs, TypeOK, RepeatsAreNewest,
       WakesInTime, Alive, Thread, Age, Ordinal
<1>18. CASE Repeat
  BY <1>18 DEF Repeat, Goes, Quiet, control, base, watchdogs, TypeOK,
       RepeatsAreNewest, WakesInTime, Alive, Thread, Age, Ordinal
<1>19. CASE End
  BY <1>19 DEF End, Goes, control, bookkeeping, base, watchdogs, TypeOK,
       RepeatsAreNewest, WakesInTime, Alive, Thread, Age, Ordinal
<1>20. CASE Tick
  BY <1>20 DEF Tick, OnTime, Older, control, TypeOK, RepeatsAreNewest, WakesInTime,
       Alive, Thread, Age, Ordinal
<1>21. CASE UNCHANGED vars
  BY <1>21 DEF vars, control, bookkeeping, base, watchdogs, TypeOK,
       RepeatsAreNewest, WakesInTime, Alive, Thread, Age, Ordinal
<1> QED
  BY <1>1, <1>2, <1>3, <1>4, <1>5, <1>6, <1>7, <1>8, <1>9, <1>10, <1>11, <1>12,
       <1>13, <1>14, <1>15, <1>16, <1>17, <1>18, <1>19, <1>20, <1>21
  DEF Next, Control, Timer, Keepalive

LEMMA Invariance == Spec => []IInv
<1>1. IInv /\ [Next]_vars => IInv'
  BY TypeStep, NewestStep, WakeStep DEF IInv
<1> QED
  BY <1>1, InitInv, PTL DEF Spec

-----------------------------------------------------------------------------
\* The properties.

\* Every variable of the publisher keeps its type; on the real robot no speed
\* beyond the limit is ever sent.
THEOREM PublisherTypeCorrect == Spec => []TypeOK
<1>1. IInv => TypeOK
  BY DEF IInv
<1> QED
  BY <1>1, Invariance, PTL

\* However long the control thread is blocked, the arm stream has no gap of
\* two keep-alive periods, the thread's own lateness aside.
THEOREM ArmsNeverStarve == Spec => []StreamNeverStarves
<1>1. IInv => StreamNeverStarves
  BY DEF IInv, WakesInTime, StreamNeverStarves
<1> QED
  BY <1>1, Invariance, PTL

\* The base's twist is repeated every period, with no help of the timer.
THEOREM BaseIsRepeated == Spec => []BaseNeverStarves
<1>1. IInv => BaseNeverStarves
  BY DEF IInv, WakesInTime, BaseNeverStarves
<1> QED
  BY <1>1, Invariance, PTL

\* Every publish is of the newest command, or leaves the wire as it is.
LEMMA BackStep ==
  IInv /\ [Next]_vars => wire'.arms >= wire.arms /\ wire'.grips >= wire.grips
<1> SUFFICES ASSUME IInv, [Next]_vars
             PROVE  wire'.arms >= wire.arms /\ wire'.grips >= wire.grips
  OBVIOUS
<1> USE DEF IInv, TypeOK, RepeatsAreNewest, Ordinal
<1>1. CASE PublishArms
  BY <1>1 DEF PublishArms, SendArms, Puts
<1>2. ASSUME NEW v \in Speed, Publish(v)
      PROVE  wire'.arms >= wire.arms /\ wire'.grips >= wire.grips
  BY <1>2 DEF Publish, SendArms, Puts, Goes
<1>3. CASE PublishGrippers
  BY <1>3 DEF PublishGrippers, Puts, Goes
<1>4. CASE PublishBase
  BY <1>4 DEF PublishBase, Puts, SendBase, Goes
<1>5. CASE RepeatLast
  BY <1>5 DEF RepeatLast, SendArms, Puts, Goes
<1>6. CASE SendZero
  BY <1>6 DEF SendZero, Puts, SendBase, Goes
<1>7. CASE TimerSends
  BY <1>7 DEF TimerSends, Puts, SendBase, Goes
<1>8. CASE BackstopBase
  BY <1>8 DEF BackstopBase, Puts, SendBase, Goes
<1>9. CASE Repeat
  BY <1>9 DEF Repeat, Goes, Quiet
<1>10. CASE SetTwist \/ ReadLast \/ SafeStop \/ Close \/ Cancel \/ Interrupted \/ TimerReads \/ Wake \/ Enter \/ End \/ Tick \/ UNCHANGED vars
  <2>1. wire' = wire
    BY <1>10 DEF vars, SetTwist, ReadLast, SafeStop, Close, Cancel, Interrupted,
         TimerReads, Wake, Enter, End, Tick
  <2> QED
    BY <2>1
<1> QED
  BY <1>1, <1>2, <1>3, <1>4, <1>5, <1>6, <1>7, <1>8, <1>9, <1>10
  DEF Next, Control, Timer, Keepalive

\* No repeat puts older arms or grippers on the wire than were there.
THEOREM RepeatsNeverStepBack == Spec => NeverStepsBack
BY BackStep, Invariance, PTL DEF Spec, NeverStepsBack

\* No step leaves a command that was made unsent.
LEMMA SentStep == IInv /\ CommandIsSent /\ [Next]_vars => CommandIsSent'
<1> SUFFICES ASSUME IInv, CommandIsSent, [Next]_vars
             PROVE  CommandIsSent'
  OBVIOUS
<1> USE DEF CommandIsSent
<1>t. /\ wire \in [arms : Ordinal, grips : Ordinal, base : Twist]
      /\ lastArms = wire.arms /\ lastArms \in Ordinal
  BY DEF IInv, TypeOK, RepeatsAreNewest
<1>1. CASE PublishArms \/ \E v \in Speed : Publish(v)
  BY <1>1, <1>t DEF PublishArms, Publish, SendArms, Puts
<1>2. CASE RepeatLast
  <2>1. again = wire.arms
    BY <1>2 DEF RepeatLast, IInv, RepeatsAreNewest
  <2> QED
    BY <1>2, <1>t, <2>1 DEF RepeatLast, SendArms, Puts
<1>3. CASE Repeat
  <2>1. keptArms = wire.arms
    BY <1>3 DEF Repeat, IInv, RepeatsAreNewest
  <2> QED
    BY <1>3, <1>t, <2>1 DEF Repeat, control
<1>4. CASE PublishGrippers \/ PublishBase \/ SendZero \/ TimerSends \/ BackstopBase
  <2>1. wire'.arms = wire.arms
    BY <1>4, <1>t
       DEF PublishGrippers, PublishBase, SendZero, TimerSends, BackstopBase, SendBase, Puts
  <2>2. made' = made
    BY <1>4 DEF PublishGrippers, PublishBase, SendZero, TimerSends, BackstopBase, control
  <2> QED
    BY <2>1, <2>2
<1>5. CASE \/ SetTwist \/ ReadLast \/ SafeStop \/ Close \/ Cancel \/ Interrupted
           \/ TimerReads \/ Wake \/ Enter \/ End \/ Tick
  <2>1. wire' = wire /\ made' = made
    BY <1>5 DEF SetTwist, ReadLast, SafeStop, Close, Cancel, Interrupted, TimerReads, Wake,
                Enter, End, Tick, control
  <2> QED
    BY <2>1
<1>6. CASE UNCHANGED vars
  BY <1>6 DEF vars, control
<1> QED
  BY <1>1, <1>2, <1>3, <1>4, <1>5, <1>6 DEF Next, Control, Timer, Keepalive

\* What the other end of the wire sees of a step is a step of the stream's, or
\* nothing.
LEMMA StreamStep ==
  IInv /\ CommandIsSent /\ IInv' /\ [Next]_vars => [Stream!StreamNext]_(Stream!streamVars)
<1> SUFFICES ASSUME IInv, CommandIsSent, IInv', [Next]_vars
             PROVE  Stream!StreamNext \/ UNCHANGED Stream!streamVars
  OBVIOUS
<1> USE DEF Ordinal
<1>t. /\ wire \in [arms : Ordinal, grips : Ordinal, base : Twist]
      /\ made \in Ordinal /\ lastArms = made /\ lastArms = wire.arms /\ lastGrips = wire.grips
      /\ at \in [Thread -> Place] /\ armAge \in Age
  BY DEF IInv, TypeOK, RepeatsAreNewest, CommandIsSent
<1>1. CASE PublishArms \/ \E v \in Speed : Publish(v)
  <2>1. wire'.arms = wire.arms + 1 /\ wire'.grips = wire.grips /\ armAge' = 0
    BY <1>1, <1>t DEF PublishArms, Publish, SendArms, Puts
  <2>2. Alive' <=> Alive
    BY <1>1, <1>t DEF PublishArms, Publish, Goes, Alive, watchdogs, Thread
  <2> QED
    BY <2>1, <2>2 DEF Stream!StreamNext, Stream!NewArms
<1>2. CASE PublishGrippers
  <2>1. wire'.arms = wire.arms /\ wire'.grips = wire.arms /\ armAge' = armAge
    BY <1>2, <1>t DEF PublishGrippers, Puts
  <2>2. Alive' <=> Alive
    BY <1>2, <1>t DEF PublishGrippers, Goes, Alive, watchdogs, Thread
  <2> QED
    BY <2>1, <2>2 DEF Stream!StreamNext, Stream!NewGrips
<1>3. CASE RepeatLast
  <2>1. again = lastArms /\ again # 0
    BY <1>3 DEF RepeatLast, IInv, RepeatsAreNewest
  <2>2. wire'.arms = wire.arms /\ wire'.grips = wire.grips /\ armAge' = 0
    BY <1>3, <1>t, <2>1 DEF RepeatLast, SendArms, Puts
  <2>3. Alive' <=> Alive
    BY <1>3, <1>t DEF RepeatLast, Goes, Alive, watchdogs, Thread
  <2> QED
    BY <1>t, <2>1, <2>2, <2>3 DEF Stream!StreamNext, Stream!Again
<1>4. CASE Repeat
  <2>1. keptArms = lastArms /\ keptGrips = lastGrips
    BY <1>4 DEF Repeat, IInv, RepeatsAreNewest
  <2>2. Alive' <=> Alive
    BY <1>4, <1>t DEF Repeat, Goes, Alive, watchdogs, Thread
  <2>3. CASE Quiet
    <3>1. wire'.arms = wire.arms /\ wire'.grips = wire.grips /\ armAge' = 0 /\ wire.arms # 0
      BY <1>4, <1>t, <2>1, <2>3 DEF Repeat, Quiet
    <3> QED
      BY <2>2, <3>1 DEF Stream!StreamNext, Stream!Again
  <2>4. CASE ~Quiet
    BY <1>4, <2>2, <2>4 DEF Repeat, Stream!streamVars
  <2> QED
    BY <2>3, <2>4
<1>5. CASE Close
  <2>1. wire' = wire /\ armAge' = armAge /\ ~Alive'
    BY <1>5 DEF Close, bookkeeping, Alive
  <2>2. CASE Alive
    BY <2>1, <2>2 DEF Stream!StreamNext, Stream!LetGo
  <2>3. CASE ~Alive
    <3>1. Alive' <=> Alive
      BY <2>1, <2>3
    <3> QED
      BY <2>1, <3>1 DEF Stream!streamVars
  <2> QED
    BY <2>2, <2>3
<1>6. CASE Tick
  <2>1. wire' = wire /\ (Alive' <=> Alive) /\ armAge' = Older(armAge)
    BY <1>6 DEF Tick, Alive
  <2>2. CASE armAge = Never \/ armAge >= MaxAge
    <3>1. armAge' = armAge
      BY <2>1, <2>2, <1>t DEF Older, Age
    <3> QED
      BY <2>1, <3>1 DEF Stream!streamVars
  <2>3. CASE armAge # Never /\ armAge < MaxAge
    <3>1. armAge \in Nat /\ armAge' = armAge + 1
      BY <2>1, <2>3, <1>t DEF Older, Age
    <3>2. wire.arms # 0
      BY <2>3, <1>t DEF IInv, WakesInTime
    <3>3. Alive => armAge' < 2 * KeepalivePeriod + MaxLate
      BY <2>1 DEF IInv, WakesInTime
    <3>4. /\ (IF armAge = Never THEN 0 ELSE armAge) = armAge
          /\ (IF armAge' = Never THEN 0 ELSE armAge') = armAge'
      BY <3>1
    <3>5. UNCHANGED <<wire.arms, wire.grips, Alive>>
      BY <2>1
    <3> QED
      BY <3>1, <3>2, <3>3, <3>4, <3>5 DEF Stream!StreamNext, Stream!Silence
  <2> QED
    BY <2>2, <2>3, <1>t DEF Age
<1>7. CASE SetTwist \/ ReadLast \/ SafeStop \/ Cancel \/ Interrupted
  <2>1. wire' = wire /\ armAge' = armAge /\ stopEvent' = stopEvent
    BY <1>7 DEF SetTwist, ReadLast, SafeStop, Cancel, Interrupted, bookkeeping, watchdogs
  <2>2. at'["keepalive"] = at["keepalive"]
    BY <1>7, <1>t DEF SetTwist, ReadLast, SafeStop, Cancel, Interrupted, Goes, Thread
  <2> QED
    BY <2>1, <2>2 DEF Stream!streamVars, Alive
<1>8. CASE PublishBase \/ SendZero \/ TimerSends \/ BackstopBase
  <2>1. wire'.arms = wire.arms /\ wire'.grips = wire.grips
    BY <1>8, <1>t DEF PublishBase, SendZero, TimerSends, BackstopBase, SendBase, Puts
  <2>2. armAge' = armAge /\ stopEvent' = stopEvent
    BY <1>8 DEF PublishBase, SendZero, TimerSends, BackstopBase, bookkeeping, watchdogs
  <2>3. Alive' <=> Alive
    BY <1>8, <1>t, <2>2
       DEF PublishBase, SendZero, TimerSends, BackstopBase, Goes, Alive, Thread, Place
  <2> QED
    BY <2>1, <2>2, <2>3 DEF Stream!streamVars
<1>9. CASE TimerReads \/ Wake \/ Enter
  <2>1. wire' = wire /\ armAge' = armAge /\ stopEvent' = stopEvent
    BY <1>9 DEF TimerReads, Wake, Enter, bookkeeping, watchdogs
  <2>2. Alive' <=> Alive
    BY <1>9, <1>t, <2>1 DEF TimerReads, Wake, Enter, Goes, Alive, Thread, Place
  <2> QED
    BY <2>1, <2>2 DEF Stream!streamVars
<1>10. CASE End
  <2>1. wire' = wire /\ armAge' = armAge /\ (Alive' <=> Alive)
    BY <1>10 DEF End, bookkeeping, watchdogs, Alive
  <2> QED
    BY <2>1 DEF Stream!streamVars
<1>11. CASE UNCHANGED vars
  BY <1>11 DEF vars, bookkeeping, watchdogs, Stream!streamVars, Alive
<1> QED
  BY <1>1, <1>2, <1>3, <1>4, <1>5, <1>6, <1>7, <1>8, <1>9, <1>10, <1>11
  DEF Next, Control, Timer, Keepalive

\* The publisher, with its three threads, implements the arm stream: every send
\* is the next command or the newest again, and the keep-alive bounds a silence.
THEOREM PublisherImplementsStream == Spec => ImplementsStream
<1>1. Init => Stream!StreamInit
  <2> SUFFICES ASSUME Init PROVE Stream!StreamInit
    OBVIOUS
  <2>1. wire.arms = 0 /\ wire.grips = 0 /\ armAge = Never
    BY DEF Init
  <2>2. Alive \in BOOLEAN
    BY DEF Alive
  <2> QED
    BY <2>1, <2>2 DEF Stream!StreamInit
<1>2. Init => CommandIsSent
  BY DEF Init, CommandIsSent
<1> QED
  BY <1>1, <1>2, SentStep, StreamStep, Invariance, PTL DEF Spec, ImplementsStream, Stream!StreamSpec

\* A stop is kept, and read as one.
LEMMA StopStep ==
  TypeOK /\ StopIsKept /\ [Next]_vars =>
    /\ StopIsKept'
    /\ stopping /\ stopping' => \A thread \in Thread : read'[thread] \in {read[thread], 0}
<1> SUFFICES ASSUME TypeOK, StopIsKept, [Next]_vars
             PROVE  /\ stopping' => twist' = 0
                    /\ stopping /\ stopping' =>
                         \A thread \in Thread : read'[thread] \in {read[thread], 0}
  BY DEF StopIsKept
<1>t. read \in [Thread -> Twist] /\ (stopping => twist = 0)
  BY DEF TypeOK, StopIsKept
<1>1. CASE SetTwist
  BY <1>1 DEF SetTwist
<1>2. CASE PublishBase \/ SendZero \/ TimerSends \/ BackstopBase
  <2>1. twist' = twist /\ stopping' = stopping
    BY <1>2 DEF PublishBase, SendZero, TimerSends, BackstopBase, SendBase, control
  <2>2. \E thread \in Thread : read' = [read EXCEPT ![thread] = 0]
    BY <1>2 DEF PublishBase, SendZero, TimerSends, BackstopBase, SendBase, Thread
  <2> QED
    BY <1>t, <2>1, <2>2
<1>3. CASE SafeStop \/ Interrupted
  <2>1. twist' \in {0, twist} /\ read' = [read EXCEPT !["control"] = 0]
    BY <1>3 DEF SafeStop, Interrupted
  <2>2. (SafeStop /\ twist' = 0) \/ (twist' = twist /\ stopping' = stopping)
    BY <1>3 DEF SafeStop, Interrupted
  <2> QED
    BY <1>t, <2>1, <2>2
<1>4. CASE TimerReads
  BY <1>4, <1>t DEF TimerReads, control
<1>5. CASE Wake
  BY <1>5, <1>t DEF Wake, control
<1>6. CASE \/ PublishArms \/ (\E v \in Speed : Publish(v)) \/ PublishGrippers
           \/ ReadLast \/ RepeatLast \/ Close \/ Cancel \/ Enter \/ Repeat \/ End \/ Tick
  <2>1. twist' = twist /\ stopping' = stopping /\ read' = read
    BY <1>6 DEF PublishArms, Publish, PublishGrippers, ReadLast, RepeatLast, Close, Cancel,
                Enter, Repeat, End, Tick, control, base
  <2> QED
    BY <1>t, <2>1
<1>7. CASE UNCHANGED vars
  BY <1>7, <1>t DEF vars, control, base
<1> QED
  BY <1>1, <1>2, <1>3, <1>4, <1>5, <1>6, <1>7 DEF Next, Control, Timer, Keepalive

\* After safe_stop no thread picks up a moving twist again, until the next
\* command: at most what each had read before is still to be sent.
THEOREM StopsAreRead == Spec => StopIsRead
<1>1. Init => StopIsKept
  BY DEF Init, StopIsKept
<1>2. TypeOK /\ StopIsKept /\ [Next]_vars =>
        [stopping /\ stopping' =>
           \A thread \in Thread : read'[thread] \in {read[thread], 0}]_vars
  BY StopStep
<1> QED
  BY <1>1, <1>2, StopStep, PublisherTypeCorrect, PTL DEF Spec, StopIsRead

-----------------------------------------------------------------------------
\* The gripper stages.

HIDE PublisherAssumption DEF Never

\* The assumption on the stages' constants, written out.
LEMMA StageFacts ==
  /\ Fraction \subseteq Nat
  /\ CloseBelow \in Nat /\ ReleaseAbove \in Nat
  /\ LatchedValue \in Nat /\ HalfOpen \in Nat \ {0}
  /\ HoldTime \in Nat /\ SustainTime \in Nat /\ DwellTime \in Nat
  /\ Horizon \in Nat
  /\ HoldTime + SustainTime < Horizon /\ DwellTime < Horizon
  /\ None \notin Int
BY GripperAssumption DEF Gripper!StageAssumption

USE DEF Gripper!Age, Gripper!Least

\* The latch's part of the invariant.
LatchInv ==
  /\ engaged \in BOOLEAN
  /\ engagedFor \in Gripper!Age /\ openFor \in Gripper!Age
  /\ notOpenFor \in 0..Horizon
  /\ engaged => engagedFor # None
  /\ openFor # None =>
       /\ engaged
       /\ openFor <= notOpenFor
       /\ Gripper!Least(Horizon, openFor + HoldTime) <= engagedFor

\* The latch's part of a tick.
LatchTick(v) ==
  /\ notOpenFor' = IF v > ReleaseAbove THEN notOpenFor ELSE 0
  /\ \/ /\ ~engaged
        /\ UNCHANGED <<engaged, engagedFor, openFor>>
     \/ /\ ~Gripper!Releases(v)
        /\ engaged' = TRUE
        /\ engagedFor' = Gripper!HeldFor
        /\ openFor' = Gripper!OpenRunAfter(v)
     \/ /\ Gripper!Releases(v)
        /\ engaged' = FALSE
        /\ openFor' = None
        /\ UNCHANGED engagedFor

\* One tick keeps the latch's part.
LEMMA LatchStep ==
  ASSUME NEW v \in Nat, LatchInv, LatchTick(v)
  PROVE  LatchInv'
<1> USE StageFacts
<1>1. CASE ~engaged /\ UNCHANGED <<engaged, engagedFor, openFor>>
  BY <1>1 DEF LatchInv, LatchTick
<1>2. CASE /\ ~Gripper!Releases(v)
           /\ engaged' = TRUE /\ engagedFor' = Gripper!HeldFor /\ openFor' = Gripper!OpenRunAfter(v)
  <2>1. CASE ~engaged
    <3>1. Gripper!HeldFor = 0 /\ Gripper!OpenRun = None
      BY <2>1 DEF Gripper!HeldFor, Gripper!OpenRun
    <3>2. openFor' \in {None, 0}
      BY <1>2, <3>1 DEF Gripper!OpenRunAfter
    <3>3. openFor' = 0 => HoldTime = 0 /\ v > ReleaseAbove
      BY <1>2, <3>1 DEF Gripper!OpenRunAfter, Gripper!Opens
    <3> QED BY <1>2, <3>1, <3>2, <3>3 DEF LatchInv, LatchTick
  <2>2. CASE engaged
    <3>1. Gripper!HeldFor = engagedFor /\ Gripper!OpenRun = openFor /\ Gripper!HeldFor \in 0..Horizon
      BY <2>2 DEF Gripper!HeldFor, Gripper!OpenRun, LatchInv
    <3>2. CASE Gripper!HeldFor < HoldTime
      <4>1. openFor = None
        BY <3>1, <3>2 DEF LatchInv
      <4> QED BY <1>2, <3>1, <3>2, <4>1 DEF Gripper!OpenRunAfter, LatchInv, LatchTick
    <3>3. CASE Gripper!HeldFor >= HoldTime /\ v > ReleaseAbove
      <4>1. openFor' = IF openFor = None THEN 0 ELSE openFor
        BY <1>2, <3>1, <3>3 DEF Gripper!OpenRunAfter, Gripper!Opens
      <4>2. notOpenFor' = notOpenFor
        BY <3>3 DEF LatchTick
      <4> QED BY <1>2, <3>1, <3>3, <4>1, <4>2 DEF LatchInv
    <3>4. CASE Gripper!HeldFor >= HoldTime /\ ~(v > ReleaseAbove)
      <4>1. openFor' = None
        BY <1>2, <3>1, <3>4 DEF Gripper!OpenRunAfter, Gripper!Opens
      <4> QED BY <1>2, <3>1, <3>4, <4>1 DEF LatchInv, LatchTick
    <3> QED BY <3>1, <3>2, <3>3, <3>4
  <2> QED BY <2>1, <2>2 DEF LatchInv
<1>3. CASE Gripper!Releases(v) /\ engaged' = FALSE /\ openFor' = None /\ UNCHANGED engagedFor
  <2>1. notOpenFor' \in 0..Horizon
    BY DEF LatchInv, LatchTick
  <2>2. engaged' \in BOOLEAN /\ ~engaged' /\ openFor' = None
    BY <1>3
  <2>3. engagedFor' \in Gripper!Age
    BY <1>3 DEF LatchInv
  <2> QED BY <2>1, <2>2, <2>3 DEF LatchInv
<1> QED BY <1>1, <1>2, <1>3 DEF LatchTick

\* The gate's part of the invariant.
GateInv ==
  /\ closed \in BOOLEAN
  /\ okFor \in Gripper!Age
  /\ missFor \in 0..Horizon
  /\ (okFor # None /\ ~closed) => okFor <= missFor

\* One tick keeps the gate's part.
LEMMA GateStep ==
  ASSUME NEW pad \in Gripper!PadReading, GateInv, Gripper!Gate(pad)
  PROVE  GateInv'
<1> USE StageFacts
<1>1. closed' \in BOOLEAN
  BY DEF GateInv, Gripper!Gate
<1>2. CASE ~Gripper!Measures(pad)
  <2>1. okFor' = okFor /\ missFor' = missFor
    BY <1>2 DEF Gripper!Gate
  <2>2. closed' = closed
    BY <1>2 DEF Gripper!Gate, Gripper!Fires, GateInv
  <2> QED BY <1>1, <2>1, <2>2 DEF GateInv
<1>3. CASE Gripper!Measures(pad) /\ Gripper!Ok(pad)
  <2>1. okFor' = (IF okFor = None THEN 0 ELSE okFor) /\ missFor' = missFor /\ ~closed
    BY <1>3 DEF Gripper!Gate, Gripper!RunOf, Gripper!Measures
  <2> QED BY <1>1, <2>1 DEF GateInv
<1>4. CASE Gripper!Measures(pad) /\ ~Gripper!Ok(pad)
  <2>1. okFor' = None /\ missFor' = 0
    BY <1>4 DEF Gripper!Gate, Gripper!RunOf
  <2> QED BY <1>1, <2>1 DEF GateInv
<1> QED BY <1>2, <1>3, <1>4

\* The observer's part of the invariant.
ObserverInv ==
  /\ sent \in Fraction \cup {0, LatchedValue, None}
  /\ closeAny \in BOOLEAN /\ closeInEnv \in BOOLEAN /\ openedOnce \in BOOLEAN
  /\ (sent # None /\ sent >= HalfOpen) => openedOnce
  /\ Gripper!CloseIsAnEdge

\* One reading keeps the observer's part.
LEMMA ObserverStep ==
  ASSUME NEW value \in Fraction \cup {0, LatchedValue}, NEW pad \in Gripper!PadReading,
         ObserverInv, Gripper!Observe(value, pad)
  PROVE  ObserverInv'
<1> USE StageFacts
<1>1. sent' \in Fraction \cup {0, LatchedValue, None}
  BY DEF Gripper!Observe
<1>2. closeAny' \in BOOLEAN /\ closeInEnv' \in BOOLEAN /\ openedOnce' \in BOOLEAN
  BY DEF Gripper!Observe, ObserverInv
<1>3. sent' >= HalfOpen => openedOnce'
  BY DEF Gripper!Observe
<1>4. closeInEnv' => closeAny'
  BY DEF Gripper!Observe, ObserverInv, Gripper!CloseIsAnEdge
<1>5. Gripper!Closing(value) => openedOnce
  BY DEF Gripper!Closing, ObserverInv
<1>6. closeAny' => openedOnce'
  BY <1>5 DEF Gripper!Observe, ObserverInv, Gripper!CloseIsAnEdge
<1> QED BY <1>1, <1>2, <1>2, <1>3, <1>4, <1>6 DEF ObserverInv, Gripper!CloseIsAnEdge

\* The rest of the invariant.
RestInv ==
  /\ config \in Gripper!Config
  /\ policy \in Fraction \cup {None}
  /\ rows \in 0..2

\* The invariant is its four parts.
LEMMA Parts == Gripper!IInv <=> LatchInv /\ GateInv /\ ObserverInv /\ RestInv
  BY DEF Gripper!IInv, Gripper!TypeOK, Gripper!RunsAreClean, LatchInv, GateInv,
       ObserverInv, RestInv

\* A tick is a step of each part.
LEMMA TickParts ==
  ASSUME Gripper!IInv, NEW v \in Fraction, NEW fresh \in {0, 1}, NEW pad \in Gripper!PadReading,
         NEW near \in BOOLEAN, Gripper!Tick(v, fresh, pad, near)
  PROVE  /\ Gripper!Gated(v) \in Nat
         /\ LatchTick(Gripper!Gated(v))
         /\ \E value \in Fraction \cup {0, LatchedValue} : Gripper!Observe(value, pad)
<1> USE StageFacts
<1>1. Gripper!Gated(v) \in Fraction \cup {0}
  BY DEF Gripper!Gated
<1>2. Gripper!Gated(v) \in Nat
  BY DEF Gripper!Gated
<1> DEFINE g == Gripper!Gated(v)
<1>3. Gripper!Least(g, LatchedValue) \in Fraction \cup {0, LatchedValue}
  BY <1>1
<1>4. notOpenFor' = IF g > ReleaseAbove THEN notOpenFor ELSE 0
  BY DEF Gripper!Tick, Gripper!Given
<1>5. CASE Gripper!LatchPasses(g, pad, near)
  BY <1>1, <1>2, <1>4, <1>5 DEF Gripper!LatchPasses, LatchTick
<1>6. CASE Gripper!LatchHolds(g, pad, near)
  BY <1>1, <1>2, <1>3, <1>4, <1>6 DEF Gripper!LatchHolds, LatchTick
<1>7. CASE Gripper!LatchReleases(g, pad)
  BY <1>1, <1>2, <1>4, <1>7 DEF Gripper!LatchReleases, LatchTick
<1> QED BY <1>5, <1>6, <1>7 DEF Gripper!Tick

\* A tick with a command keeps the invariant.
LEMMA TickKeeps ==
  ASSUME Gripper!IInv, NEW v \in Fraction, NEW fresh \in {0, 1}, NEW pad \in Gripper!PadReading,
         NEW near \in BOOLEAN, Gripper!Tick(v, fresh, pad, near)
  PROVE  Gripper!IInv'
<1> USE StageFacts
<1>1. LatchInv /\ GateInv /\ ObserverInv /\ RestInv
  BY Parts
<1>2. Gripper!Gated(v) \in Nat /\ LatchTick(Gripper!Gated(v))
  BY TickParts
<1>3. LatchInv'
  BY <1>1, <1>2, LatchStep
<1>4. GateInv'
  BY <1>1, GateStep DEF Gripper!Tick
<1>5. ObserverInv'
  BY <1>1, TickParts, ObserverStep
<1>6. RestInv'
  <2>1. rows' \in 0..2
    BY <1>1 DEF Gripper!Tick, Gripper!Given, RestInv
  <2> QED BY <1>1, <2>1 DEF Gripper!Tick, RestInv
<1>7. (LatchInv /\ GateInv /\ ObserverInv /\ RestInv)' <=> Gripper!IInv'
  BY Parts, PTL
<1> QED BY <1>3, <1>4, <1>5, <1>6, <1>7

\* So does the clock, saturation included.
LEMMA ElapseKeeps == ASSUME Gripper!IInv, Gripper!Elapse PROVE Gripper!IInv'
<1> USE StageFacts
<1>1. LatchInv /\ GateInv /\ ObserverInv /\ RestInv
  BY Parts
<1>2. LatchInv'
  <2>1. engagedFor' \in Gripper!Age /\ openFor' \in Gripper!Age /\ notOpenFor' \in 0..Horizon
    BY <1>1 DEF Gripper!Elapse, Gripper!Older, LatchInv
  <2>2. openFor' # None => openFor # None
    BY DEF Gripper!Elapse, Gripper!Older
  <2>3. engaged => engagedFor' # None
    BY <1>1 DEF Gripper!Elapse, Gripper!Older, LatchInv
  <2>4. openFor # None => openFor' <= notOpenFor'
    BY <1>1 DEF Gripper!Elapse, Gripper!Older, LatchInv
  <2>5. openFor # None => Gripper!Least(Horizon, openFor' + HoldTime) <= engagedFor'
    BY <1>1 DEF Gripper!Elapse, Gripper!Older, LatchInv
  <2> QED BY <1>1, <2>1, <2>2, <2>3, <2>4, <2>5 DEF LatchInv, Gripper!Elapse
<1>3. GateInv'
  BY <1>1 DEF Gripper!Elapse, Gripper!Older, GateInv
<1>4. ObserverInv' /\ RestInv'
  BY <1>1 DEF Gripper!Elapse, Gripper!observerVars, ObserverInv, RestInv,
       Gripper!CloseIsAnEdge
<1>7. (LatchInv /\ GateInv /\ ObserverInv /\ RestInv)' <=> Gripper!IInv'
  BY Parts, PTL
<1> QED BY <1>2, <1>3, <1>4, <1>7

\* So does the reset between episodes.
LEMMA NextEpisodeKeeps == ASSUME Gripper!IInv, Gripper!NextEpisode PROVE Gripper!IInv'
<1> USE StageFacts
<1>1. LatchInv' /\ RestInv'
  BY Parts DEF Gripper!NextEpisode, Gripper!latchVars, LatchInv, RestInv
<1>2. GateInv'
  <2>1. okFor' = None /\ missFor' = 0 /\ closed' \in BOOLEAN
    BY DEF Gripper!NextEpisode
  <2>2. okFor' \in Gripper!Age /\ missFor' \in 0..Horizon
    BY <2>1
  <2> QED BY <2>1, <2>2 DEF GateInv
<1>3. ObserverInv'
  BY DEF Gripper!NextEpisode, ObserverInv, Gripper!CloseIsAnEdge
<1>4. (LatchInv /\ GateInv /\ ObserverInv /\ RestInv)' <=> Gripper!IInv'
  BY Parts, PTL
<1> QED BY <1>1, <1>2, <1>3, <1>4

\* It holds at the start.
LEMMA InitGives == Gripper!Init => Gripper!IInv
<1> SUFFICES ASSUME Gripper!Init PROVE Gripper!IInv
  OBVIOUS
<1> USE StageFacts DEF Gripper!Init
<1>1. LatchInv /\ RestInv
  <2>1. engaged \in BOOLEAN /\ ~engaged /\ engagedFor \in Gripper!Age
    OBVIOUS
  <2>2. openFor = None /\ openFor \in Gripper!Age /\ notOpenFor \in 0..Horizon
    OBVIOUS
  <2> QED BY <2>1, <2>2 DEF LatchInv, RestInv
<1>2. GateInv
  <2>1. okFor = None /\ missFor = 0 /\ closed \in BOOLEAN
    OBVIOUS
  <2>2. okFor \in Gripper!Age /\ missFor \in 0..Horizon
    BY <2>1
  <2> QED BY <2>1, <2>2 DEF GateInv
<1>3. ObserverInv
  BY DEF ObserverInv, Gripper!CloseIsAnEdge
<1> QED BY <1>1, <1>2, <1>3, Parts

\* Every step keeps it.
LEMMA NextKeeps == Gripper!IInv /\ [Gripper!Next]_Gripper!vars => Gripper!IInv'
<1> SUFFICES ASSUME Gripper!IInv, [Gripper!Next]_Gripper!vars PROVE Gripper!IInv'
  OBVIOUS
<1>1. CASE Gripper!Commanded
  <2>1. PICK pad \in Gripper!PadReading, near \in BOOLEAN : Gripper!Step(pad, near) \/ Gripper!Hold(pad, near)
    BY <1>1 DEF Gripper!Commanded
  <2>2. CASE Gripper!Step(pad, near)
    BY <2>2, TickKeeps DEF Gripper!Step
  <2>3. CASE Gripper!Hold(pad, near)
    <3>1. policy \in Fraction
      BY <2>3 DEF Gripper!Hold, Gripper!IInv, Gripper!TypeOK
    <3> QED BY <2>3, <3>1, TickKeeps DEF Gripper!Hold
  <2> QED BY <2>1, <2>2, <2>3
<1>2. CASE Gripper!Elapse
  BY <1>2, ElapseKeeps
<1>3. CASE Gripper!NextEpisode
  BY <1>3, NextEpisodeKeeps
<1>4. CASE UNCHANGED Gripper!vars
  BY <1>4 DEF Gripper!vars, Gripper!gateVars, Gripper!latchVars,
       Gripper!observerVars, Gripper!IInv, Gripper!TypeOK, Gripper!RunsAreClean,
       Gripper!CloseIsAnEdge
<1> QED BY <1>1, <1>2, <1>3, <1>4 DEF Gripper!Next

\* The inductive invariant: types, clean runs, and closes that are edges.
THEOREM StageInvariant == GripperSpec => []Gripper!IInv
  BY InitGives, NextKeeps, PTL DEF GripperSpec, Gripper!Spec

\* TypeOK holds of every reachable state.
THEOREM StageTypeCorrect == GripperSpec => []Gripper!TypeOK
  BY StageInvariant, PTL DEF Gripper!IInv

\* A close the observer counts is an edge of the episode's own commands.
THEOREM ClosesAreEdges == GripperSpec => []CloseIsAnEdge
  BY StageInvariant, PTL DEF Gripper!IInv, CloseIsAnEdge

\* A tick that commands, with its row or its repeat.
LEMMA CommandedTick ==
  ASSUME Gripper!IInv, Gripper!Commanded
  PROVE  \E v \in Fraction, fresh \in {0, 1}, pad \in Gripper!PadReading, near \in BOOLEAN :
           Gripper!Tick(v, fresh, pad, near)
<1>1. PICK pad \in Gripper!PadReading, near \in BOOLEAN : Gripper!Step(pad, near) \/ Gripper!Hold(pad, near)
  BY DEF Gripper!Commanded
<1>2. CASE Gripper!Step(pad, near)
  BY <1>2 DEF Gripper!Step
<1>3. CASE Gripper!Hold(pad, near)
  BY <1>3 DEF Gripper!Hold, Gripper!IInv, Gripper!TypeOK
<1> QED BY <1>1, <1>2, <1>3

\* The latch releases only what it held long enough, for openings alone.
THEOREM ReleasesAreEarned == GripperSpec => ReleaseIsEarned
<1> DEFINE A == (engaged /\ ~engaged') =>
                  /\ engagedFor >= HoldTime + SustainTime
                  /\ notOpenFor >= SustainTime
<1>1. Gripper!IInv /\ [Gripper!Next]_Gripper!vars => [A]_Gripper!vars
  <2> SUFFICES ASSUME Gripper!IInv, Gripper!Next, engaged, ~engaged'
               PROVE  engagedFor >= HoldTime + SustainTime /\ notOpenFor >= SustainTime
    BY DEF Gripper!vars
  <2>1. Gripper!Commanded
    BY DEF Gripper!Next, Gripper!Elapse, Gripper!NextEpisode, Gripper!latchVars
  <2>2. PICK v \in Fraction, fresh \in {0, 1}, pad \in Gripper!PadReading, near \in BOOLEAN :
          Gripper!Tick(v, fresh, pad, near)
    BY <2>1, CommandedTick
  <2>3. openFor # None /\ openFor >= SustainTime
    BY <2>2 DEF Gripper!Tick, Gripper!LatchPasses, Gripper!LatchHolds,
         Gripper!LatchReleases, Gripper!Releases
  <2>4. /\ openFor \in 0..Horizon /\ engagedFor \in 0..Horizon /\ notOpenFor \in 0..Horizon
        /\ openFor <= notOpenFor
        /\ Gripper!Least(Horizon, openFor + HoldTime) <= engagedFor
    BY <2>3 DEF Gripper!IInv, Gripper!TypeOK, Gripper!RunsAreClean
  <2> QED BY <2>3, <2>4, StageFacts
<1> QED BY <1>1, StageInvariant, PTL DEF GripperSpec, Gripper!Spec, ReleaseIsEarned,
       Gripper!ReleaseIsEarned

\* The gate closes only after the dwell without a measured miss.
THEOREM DwellsAreReal == GripperSpec => DwellIsReal
<1> DEFINE A == (~closed /\ closed') => missFor' >= Gripper!Dwell
<1>1. Gripper!IInv /\ [Gripper!Next]_Gripper!vars => [A]_Gripper!vars
  <2> SUFFICES ASSUME Gripper!IInv, Gripper!Next, ~closed, closed' PROVE missFor' >= Gripper!Dwell
    BY DEF Gripper!vars
  <2>1. Gripper!Commanded
    BY DEF Gripper!Next, Gripper!Elapse, Gripper!NextEpisode, Gripper!latchVars
  <2>2. PICK v \in Fraction, fresh \in {0, 1}, pad \in Gripper!PadReading, near \in BOOLEAN :
          Gripper!Tick(v, fresh, pad, near)
    BY <2>1, CommandedTick
  <2>3. Gripper!Fires(pad) /\ missFor' = missFor
    BY <2>2 DEF Gripper!Tick, Gripper!Gate, Gripper!Fires
  <2>4. Gripper!RunOf(pad) >= Gripper!Dwell /\ Gripper!RunOf(pad) = IF okFor = None THEN 0 ELSE okFor
    BY <2>3 DEF Gripper!Fires, Gripper!RunOf
  <2>5. Gripper!Dwell \in Nat
    BY StageFacts DEF Gripper!Dwell
  <2>6. missFor \in 0..Horizon /\ okFor \in Gripper!Age /\ (okFor # None => okFor <= missFor)
    BY DEF Gripper!IInv, Gripper!TypeOK, Gripper!RunsAreClean
  <2> QED BY <2>3, <2>4, <2>5, <2>6, StageFacts
<1> QED BY <1>1, StageInvariant, PTL DEF GripperSpec, Gripper!Spec, DwellIsReal,
       Gripper!DwellIsReal

\* A close the gate forced is a close the observer sees.
THEOREM ForcedClosesAreSeen == GripperSpec => GateCloseIsSeen
<1> DEFINE A == (~closed /\ closed' /\ sent # None /\ sent >= HalfOpen) =>
                  /\ closeAny'
                  /\ config.gate \in {"entry", "dwell"} => closeInEnv'
<1>1. Gripper!IInv /\ [Gripper!Next]_Gripper!vars => [A]_Gripper!vars
  <2> SUFFICES ASSUME Gripper!IInv, Gripper!Next, ~closed, closed', sent # None, sent >= HalfOpen
               PROVE  closeAny' /\ (config.gate \in {"entry", "dwell"} => closeInEnv')
    BY DEF Gripper!vars
  <2>1. Gripper!Commanded
    BY DEF Gripper!Next, Gripper!Elapse, Gripper!NextEpisode, Gripper!latchVars
  <2>2. PICK v \in Fraction, fresh \in {0, 1}, pad \in Gripper!PadReading, near \in BOOLEAN :
          Gripper!Tick(v, fresh, pad, near)
    BY <2>1, CommandedTick
  <2>3. Gripper!Fires(pad)
    BY <2>2 DEF Gripper!Tick, Gripper!Gate
  <2>4. Gripper!Gated(v) = 0
    BY DEF Gripper!Gated
  <2>5. Gripper!Observe(0, pad)
    <3>1. Gripper!Least(0, LatchedValue) = 0
      BY StageFacts
    <3> QED BY <2>2, <2>4, <3>1 DEF Gripper!Tick, Gripper!LatchPasses,
           Gripper!LatchHolds, Gripper!LatchReleases
  <2>6. Gripper!Closing(0)
    BY StageFacts DEF Gripper!Closing
  <2>7. config.gate \in {"entry", "dwell"} => pad.seen /\ pad.ball
    BY <2>3 DEF Gripper!Fires, Gripper!Measures, Gripper!Ok
  <2> QED BY <2>5, <2>6, <2>7 DEF Gripper!Observe
<1> QED BY <1>1, StageInvariant, PTL DEF GripperSpec, Gripper!Spec, GateCloseIsSeen,
       Gripper!GateCloseIsSeen
=============================================================================
