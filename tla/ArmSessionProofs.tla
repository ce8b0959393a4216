--------------------------- MODULE ArmSessionProofs ---------------------------
(* Proofs about the arm session, for every command line and every timing. *)
EXTENDS ArmSession, SequenceTheorems, TLAPS

\* The selected arms are arms.
LEMMA SelectedArm ==
  ASSUME options \in Options
  PROVE  /\ options.arms \in Seq(Side) /\ Len(options.arms) \in Nat \ {0}
         /\ \A i \in 1..Len(options.arms) : options.arms[i] \in Side /\ options.arms[i] \in Selected
         /\ Selected \subseteq Side
         /\ options.activate \in BOOLEAN /\ options.wait \in BOOLEAN /\ options.release \in BOOLEAN
<1>1. options \in Option /\ Len(options.arms) > 0
  BY SessionAssumption
<1>2. options.arms \in Seq(Side)
  BY <1>1 DEF Option
<1>3. Len(options.arms) \in Nat \ {0}
  BY <1>1, <1>2
<1>4. \A i \in 1..Len(options.arms) : options.arms[i] \in Side
  BY <1>2
<1> QED BY <1>1, <1>2, <1>3, <1>4 DEF Option, Selected

LEMMA ClockRange ==
  ASSUME ClockType
  PROVE  /\ MaxClock \in Nat /\ 0 \in 0..MaxClock
         /\ Least(clock + 1, MaxClock) \in 0..MaxClock
         /\ iteration \in -PollTicks..MaxClock /\ clock \in -PollTicks..MaxClock
  BY SessionAssumption DEF ClockType, MaxClock, Least

LEMMA EmptyRequests ==
  <<>> \in Seq({"on", "off"}) /\ <<>> \in Seq({"on"})
  BY EmptySeq

LEMMA InitInv == Init => IInv
<1> SUFFICES ASSUME Init PROVE IInv
  OBVIOUS
<1> USE SessionAssumption DEF Init
<1>1. TypeOK
  <2>1. CallType
    BY DEF CallType, Calling
  <2>2. ClockType
    BY DEF ClockType, MaxClock
  <2>3. SessionType
    <3>1. interrupts \in 0..MaxInterrupts
      OBVIOUS
    <3> QED BY <3>1 DEF SessionType
  <2>4. WireType
    BY DEF WireType
  <2>5. ArmsType
    BY DEF ArmsType
  <2>6. SwitchesType
    BY EmptyRequests DEF SwitchesType
  <2> QED BY <2>1, <2>2, <2>3, <2>4, <2>5, <2>6 DEF TypeOK, PC
<1>2. StreamInv
  BY DEF StreamInv, HoldPhase, TeardownPhase, UsesControllers
<1>3. AskedInv
  BY EmptyRequests DEF AskedInv
<1>4. PollInv /\ ReleaseInv /\ QueueInv /\ ConfirmInv
  BY DEF PollInv, ReleaseInv, QueueInv, ConfirmInv, AfterRelease, TeardownPhase, Newest
<1>5. LaunchSurvives /\ RolloutOnActiveArms /\ ActivationIsTakenBack /\ ConfirmedMeansReleased
  BY DEF LaunchSurvives, RolloutOnActiveArms, ActivationIsTakenBack, ConfirmedMeansReleased
<1> QED BY <1>1, <1>2, <1>3, <1>4, <1>5 DEF IInv

-----------------------------------------------------------------------------
\* Type correctness.

LEMMA SendType ==
  ASSUME TypeOK, NEW i \in 1..Len(options.arms), NEW wanted \in {"on", "off"},
         NEW q \in [Side -> Seq({"on", "off"})], Send(i, wanted, q)
  PROVE  SwitchesType'
<1>1. options.arms[i] \in Side
  BY SelectedArm DEF TypeOK
<1>2. Append(q[options.arms[i]], wanted) \in Seq({"on", "off"})
  BY <1>1, AppendProperties
<1> QED BY <1>1, <1>2 DEF Send, TypeOK, SwitchesType

LEMMA FirstSendType ==
  ASSUME TypeOK, NEW wanted \in {"on", "off"}, Send(1, wanted, requests)
  PROVE  SwitchesType'
<1>1. 1 \in 1..Len(options.arms)
  BY SelectedArm DEF TypeOK
<1>2. requests \in [Side -> Seq({"on", "off"})]
  BY DEF TypeOK, SwitchesType
<1> QED BY <1>1, <1>2, SendType

\* A first call is to the first selected arm.
LEMMA FirstCallType ==
  ASSUME TypeOK
  PROVE  NewCall \in Call /\ NewCall.arm \in 1..Len(options.arms)
  BY SelectedArm, SessionAssumption DEF TypeOK, NewCall, CallTo, Call

\* A step that only moves the control thread, outside its calls, keeps the types.
LEMMA MoveOnType ==
  ASSUME TypeOK, pc \notin Calling, pc' \in PC \ Calling,
         UNCHANGED <<options, call, progress, wire, arms, switches, slow, interrupts>>,
         discovered' \in BOOLEAN, UNCHANGED session
  PROVE  TypeOK'
  BY DEF TypeOK, CallType, ClockType, SessionType, WireType, ArmsType, SwitchesType, progress,
         wire, arms, switches, session

\* What polling or sleeping does to the types.
LEMMA PollOrSleepType ==
  ASSUME TypeOK, NEW start \in 0..MaxClock, PollOrSleep(start), UNCHANGED options
  PROVE  pc' \in PC /\ CallType' /\ lastPoll' \in -PollTicks..MaxClock /\ pc' \in {"polling", "asleep"}
<1>1. start \in -PollTicks..MaxClock
  BY ClockRange, SessionAssumption DEF TypeOK
<1>2. lastPoll' \in -PollTicks..MaxClock
  BY <1>1 DEF PollOrSleep, TypeOK, ClockType
<1> QED BY <1>2, FirstCallType DEF PollOrSleep, CallType, Calling, PC, HoldPhase

\* switch()'s steps keep the types of what they change.
LEMMA SwitchReturnsType ==
  ASSUME TypeOK, pc \in {"activating", "deactivating"}, NEW ok \in BOOLEAN,
         NEW q \in [Side -> Seq({"on", "off"})], SwitchReturns(ok, q),
         UNCHANGED <<options, iteration>>
  PROVE  /\ pc' \in PC /\ CallType' /\ SwitchesType'
         /\ clock' \in 0..MaxClock /\ lastPoll' \in -PollTicks..MaxClock
<1> DEFINE last == call.arm = Len(options.arms)
           good == call.ok /\ ok
           again == ~last \/ (~good /\ ~call.strict)
<1>1. call \in Call /\ call.arm \in 1..Len(options.arms) /\ Len(options.arms) \in Nat \ {0}
  BY SelectedArm DEF TypeOK, CallType, Calling
<1>2. CASE again
  <2>1. call' \in Call /\ call'.arm \in 1..Len(options.arms)
    <3>1. CASE last
      <4>1. call' = CallTo(1, TRUE, TRUE, TRUE)
        BY <1>2, <3>1 DEF SwitchReturns
      <4> QED BY <4>1, <1>1, SessionAssumption DEF CallTo, Call
    <3>2. CASE ~last
      <4>1. call' = CallTo(call.arm + 1, call.strict, good, TRUE)
        BY <1>2, <3>2 DEF SwitchReturns
      <4>2. good \in BOOLEAN /\ call.strict \in BOOLEAN
        BY <1>1 DEF Call
      <4>3. call.arm + 1 \in 1..Len(options.arms) /\ call.arm + 1 \in Nat
        BY <1>1, <3>2
      <4> HIDE DEF good
      <4> QED BY <4>1, <4>2, <4>3, SessionAssumption DEF CallTo, Call
    <3> QED BY <3>1, <3>2
  <2>2. SwitchesType'
    <3>1. CASE pc = "activating"
      BY <3>1, <1>2, <2>1, SendType DEF SwitchReturns
    <3>2. CASE pc = "deactivating"
      BY <3>2, <1>2, <2>1, SendType DEF SwitchReturns
    <3> QED BY <3>1, <3>2
  <2>3. pc' = pc /\ clock' = clock /\ lastPoll' = lastPoll
    BY <1>2 DEF SwitchReturns
  <2> QED BY <2>1, <2>2, <2>3 DEF TypeOK, CallType, Calling, ClockType
<1>3. CASE ~again
  <2>1. SwitchesType'
    BY <1>3 DEF SwitchReturns, TypeOK, SwitchesType
  <2>2. CASE pc = "activating"
    BY <1>3, <2>1, <2>2, PollOrSleepType DEF SwitchReturns, TypeOK, ClockType
  <2>3. CASE pc = "deactivating"
    BY <1>3, <2>1, <2>3, ClockRange DEF SwitchReturns, TypeOK, ClockType, CallType, Calling, PC, TeardownPhase
  <2> QED BY <2>2, <2>3
<1> QED BY <1>2, <1>3

\* states()'s steps keep the types of what they change.
LEMMA ListReturnsType ==
  ASSUME TypeOK, pc \in {"polling", "confirming"}, NEW state, ListReturns(state),
         UNCHANGED <<options, progress, discovered, aborted, wire, arms, switches, slow, interrupts>>
  PROVE  TypeOK'
<1> USE DEF ListReturns, Polled
<1> DEFINE ok == IF pc = "polling" THEN AllActive(state) ELSE NoneActive(state)
<1>1. call \in Call /\ call.arm \in 1..Len(options.arms) /\ Len(options.arms) \in Nat \ {0}
  BY SelectedArm DEF TypeOK, CallType, Calling
<1>2. ok \in BOOLEAN /\ (call.heard /\ state # None) \in BOOLEAN
  BY <1>1 DEF AllActive, NoneActive, Call
<1>3. CASE call.arm < Len(options.arms)
  <2>1. call' = CallTo(call.arm + 1, FALSE, ok, call.heard /\ state # None)
    BY <1>3
  <2>2. call.arm + 1 \in 1..Len(options.arms) /\ call.arm + 1 \in Nat
    BY <1>1, <1>3
  <2>3. call' \in Call /\ call'.arm \in 1..Len(options.arms)
    BY <1>1, <1>2, <2>1, <2>2, SessionAssumption DEF CallTo, Call
  <2>4. pc' = pc /\ UNCHANGED <<activated, reference, confirmed, heard>>
    BY <1>3
  <2>5. CallType'
    BY <2>3, <2>4 DEF CallType, Calling
  <2>6. ClockType' /\ WireType' /\ ArmsType' /\ SwitchesType'
    BY DEF TypeOK, ClockType, WireType, ArmsType, SwitchesType, progress, wire, arms, switches
  <2>7. SessionType'
    BY <2>4 DEF TypeOK, SessionType, progress
  <2> QED BY <2>4, <2>5, <2>6, <2>7 DEF TypeOK
<1>4. CASE ~(call.arm < Len(options.arms))
  <2>1. call' = None /\ pc' \in PC \ Calling
    BY <1>4 DEF PC, Calling, HoldPhase, TeardownPhase
  <2>2. activated' \in BOOLEAN /\ confirmed' \in BOOLEAN /\ heard' \in BOOLEAN
    BY <1>4, <1>2 DEF TypeOK, SessionType
  <2>3. reference' = None \/ reference' \in [Side -> 0..MaxMoves]
    BY <1>4 DEF TypeOK, SessionType, WireType
  <2> QED BY <2>1, <2>2, <2>3 DEF TypeOK, CallType, ClockType, SessionType, WireType, ArmsType, SwitchesType, progress, wire, arms, switches
<1> QED BY <1>3, <1>4

\* What Serve does to the manager of one arm.
LEMMA ServeType ==
  ASSUME TypeOK, NEW s \in Side, requests[s] # <<>>
  PROVE  /\ Head(requests[s]) \in {"on", "off"}
         /\ [requests EXCEPT ![s] = Tail(@)] \in [Side -> Seq({"on", "off"})]
<1>1. requests \in [Side -> Seq({"on", "off"})]
  BY DEF TypeOK, SwitchesType
<1>2. Head(requests[s]) \in {"on", "off"} /\ Tail(requests[s]) \in Seq({"on", "off"})
  BY <1>1, HeadTailProperties
<1> QED BY <1>1, <1>2

LEMMA TypeStep == TypeOK /\ [Next]_vars => TypeOK'
<1> SUFFICES ASSUME TypeOK, [Next]_vars PROVE TypeOK'
  OBVIOUS
<1> USE DEF CallType, ClockType, SessionType, WireType, ArmsType, SwitchesType,
            progress, session, wire, arms, switches, Calling
<1>1. CASE Start
  BY <1>1 DEF Start, TypeOK, PC
<1>2. CASE PrepareRaises
  BY <1>2, MoveOnType DEF PrepareRaises, TypeOK, PC
<1>3. CASE FirstHold
  <2>1. WireType'
    BY <1>3, SessionAssumption DEF FirstHold, TypeOK
  <2>2. SessionType'
    BY <1>3 DEF FirstHold, TypeOK
  <2>3. pc' \in PC /\ CallType'
    BY <1>3 DEF FirstHold, TypeOK, PC, HoldPhase
  <2> QED BY <1>3, <2>1, <2>2, <2>3 DEF FirstHold, TypeOK
<1>4. CASE WaitForServices
  BY <1>4 DEF WaitForServices, TypeOK, PC, HoldPhase
<1>5. CASE Iterate
  <2>1. /\ pc = "hold" /\ iteration' = clock /\ clock' = clock /\ silence' = 0
        /\ published' = pose /\ still' \in {0, still} /\ switched' \in {TRUE, switched}
        /\ UNCHANGED <<options, discovered, session, stream, arms, slow, interrupts>>
    BY <1>5 DEF Iterate
  <2>2. SessionType' /\ ArmsType'
    BY <2>1 DEF TypeOK
  <2>5. WireType'
    BY <2>1, SessionAssumption DEF TypeOK
  <2>3. /\ pc' \in PC /\ CallType' /\ SwitchesType' /\ lastPoll' \in -PollTicks..MaxClock
    <3>1. CASE PollOrSleep(clock) /\ UNCHANGED switches
      BY <3>1, <2>1, PollOrSleepType DEF TypeOK
    <3>2. CASE pc' = "activating" /\ call' = NewCall /\ Send(1, "on", requests) /\ UNCHANGED lastPoll
      <4>1. SwitchesType'
        BY <3>2, FirstSendType
      <4> QED BY <4>1, <3>2, <2>1, FirstCallType DEF TypeOK, PC, HoldPhase
    <3>3. CASE pc' = "teardown" /\ UNCHANGED <<call, switched, lastPoll, switches>>
      BY <3>3, <2>1 DEF TypeOK, PC
    <3> QED BY <1>5, <3>1, <3>2, <3>3 DEF Iterate
  <2>4. ClockType'
    BY <2>1, <2>3 DEF TypeOK
  <2> QED BY <2>1, <2>2, <2>3, <2>4, <2>5 DEF TypeOK
<1>6. CASE HoldTimesOut
  BY <1>6, MoveOnType DEF HoldTimesOut, TypeOK, PC
<1>7. CASE SwitchTimesOut
  <2>1. requests \in [Side -> Seq({"on", "off"})] /\ FALSE \in BOOLEAN
    BY DEF TypeOK
  <2>2. /\ pc' \in PC /\ CallType' /\ SwitchesType'
        /\ clock' \in 0..MaxClock /\ lastPoll' \in -PollTicks..MaxClock
    BY <1>7, <2>1, SwitchReturnsType DEF SwitchTimesOut
  <2> QED BY <1>7, <2>2 DEF SwitchTimesOut, TypeOK
<1>8. CASE ListAnswers
  BY <1>8, ListReturnsType DEF ListAnswers
<1>9. CASE ListTimesOut
  BY <1>9, ListReturnsType DEF ListTimesOut
<1>10. CASE EndRollout
  BY <1>10, MoveOnType DEF EndRollout, TypeOK, PC
<1>11. CASE Shutdown
  <2>1. CASE MustRelease
    <3>1. SwitchesType'
      BY <1>11, <2>1, FirstSendType DEF Shutdown
    <3>2. silence' \in 0..LivenessTicks
      BY <1>11, <2>1, SessionAssumption DEF Shutdown, RepeatLast, TypeOK
    <3> QED BY <1>11, <2>1, <3>1, <3>2, FirstCallType DEF Shutdown, TypeOK, PC, TeardownPhase
  <2>2. CASE ~MustRelease
    BY <1>11, <2>2 DEF Shutdown, TypeOK, PC
  <2> QED BY <2>1, <2>2
<1>12. CASE Confirm
  <2>1. silence' \in 0..LivenessTicks
    <3>1. silence' \in {0, silence}
      BY <1>12 DEF Confirm, RepeatLast
    <3> QED BY <3>1, SessionAssumption DEF TypeOK
  <2> QED BY <1>12, <2>1, FirstCallType DEF Confirm, TypeOK, PC, TeardownPhase
<1>13. CASE SafeStop
  BY <1>13, MoveOnType DEF SafeStop, TypeOK, PC
<1>14. CASE Close
  BY <1>14 DEF Close, TypeOK, PC
<1>15. CASE CallRaises
  <2>1. call' = None /\ pc' \in {"teardown", "exit"} /\ stream' \in {stream, "ended"}
    BY <1>15 DEF CallRaises, Throw
  <2>2. aborted' \in BOOLEAN
    BY <1>15 DEF CallRaises, Throw, TypeOK
  <2>3. SessionType'
    BY <1>15, <2>2 DEF CallRaises, TypeOK
  <2>4. WireType' /\ CallType' /\ pc' \in PC
    BY <1>15, <2>1 DEF CallRaises, TypeOK, PC
  <2> QED BY <1>15, <2>3, <2>4 DEF CallRaises, TypeOK
<1>16. CASE Interrupt
  <2>1. call' = None /\ pc' \in {"teardown", "exit"} /\ stream' \in {stream, "ended"}
    BY <1>16 DEF Interrupt, Throw
  <2>3. aborted' \in BOOLEAN
    BY <1>16 DEF Interrupt, Throw, TypeOK
  <2>2. interrupts' \in 0..MaxInterrupts
    BY <1>16, SessionAssumption DEF Interrupt, TypeOK
  <2>4. SessionType'
    BY <1>16, <2>2, <2>3 DEF Interrupt, TypeOK
  <2>5. WireType' /\ CallType' /\ pc' \in PC
    BY <1>16, <2>1 DEF Interrupt, TypeOK, PC
  <2> QED BY <1>16, <2>4, <2>5 DEF Interrupt, TypeOK
<1>17. CASE Tick
  <2>1. clock' \in 0..MaxClock /\ iteration' \in 0..MaxClock /\ lastPoll' \in -PollTicks..MaxClock
    BY <1>17, ClockRange DEF Tick, TypeOK
  <2>2. silence' \in 0..LivenessTicks /\ still' \in 0..WindowTicks + 1
    <3>1. silence' \in {0, Least(silence + 1, LivenessTicks)} /\ still' = Least(still + 1, WindowTicks + 1)
      BY <1>17 DEF Tick
    <3> QED BY <3>1, SessionAssumption DEF TypeOK, Least
  <2>3. CallType' /\ pc' \in PC
    <3>1. CASE call = None
      BY <3>1, <1>17 DEF Tick, TypeOK, PC, HoldPhase, TeardownPhase
    <3>2. CASE call # None
      <4>1. pc \in Calling /\ call \in Call /\ call.blocked < CallTicks /\ pc' = pc
        BY <3>2, <1>17 DEF Tick, TypeOK
      <4>2. call' = [call EXCEPT !.blocked = @ + 1]
        BY <3>2, <1>17 DEF Tick
      <4>3. call.blocked + 1 \in 0..CallTicks
        BY <4>1, SessionAssumption DEF Call
      <4>4. call' \in Call /\ call'.arm = call.arm
        BY <4>1, <4>2, <4>3 DEF Call
      <4> QED BY <4>1, <4>4, <1>17 DEF Tick, TypeOK
    <3> QED BY <3>1, <3>2
  <2>4. ArmsType'
    BY <1>17 DEF Tick, TypeOK
  <2>5. SwitchesType'
    BY <1>17, EmptyRequests DEF Tick, TypeOK
  <2> QED BY <1>17, <2>1, <2>2, <2>3, <2>4, <2>5 DEF Tick, TypeOK
<1>18. ASSUME NEW s \in Side, Serve(s) PROVE TypeOK'
  <2> DEFINE rest == [requests EXCEPT ![s] = Tail(@)]
  <2>1. rest \in [Side -> Seq({"on", "off"})]
    BY <1>18, ServeType DEF Serve
  <2>2. /\ pc' \in PC /\ CallType' /\ SwitchesType'
        /\ clock' \in 0..MaxClock /\ lastPoll' \in -PollTicks..MaxClock
    <3>1. CASE requests' = rest /\ UNCHANGED <<pc, call, clock, lastPoll, asked>>
      BY <3>1, <2>1, <1>18 DEF Serve, TypeOK
    <3>2. CASE pc \in {"activating", "deactivating"} /\ \E ok \in BOOLEAN : SwitchReturns(ok, rest)
      BY <3>2, <2>1, <1>18, SwitchReturnsType DEF Serve
    <3> QED BY <1>18, <3>1, <3>2 DEF Serve, Accepts
  <2>3. ArmsType'
    BY <1>18 DEF Serve, TypeOK
  <2> QED BY <1>18, <2>2, <2>3 DEF Serve, TypeOK
<1>19. ASSUME NEW s \in Side, OperatorActivates(s) PROVE TypeOK'
  BY <1>19 DEF OperatorActivates, TypeOK
<1>20. ASSUME NEW s \in Side, Move(s) PROVE TypeOK'
  <2>1. pose[s] + 1 \in 0..MaxMoves
    BY <1>20, SessionAssumption DEF Move, TypeOK
  <2>2. ArmsType'
    BY <1>20, <2>1 DEF Move, TypeOK
  <2> QED BY <1>20, <2>2 DEF Move, TypeOK
<1>21. CASE UNCHANGED vars
  BY <1>21 DEF vars, TypeOK
<1> QED BY <1>1, <1>2, <1>3, <1>4, <1>5, <1>6, <1>7, <1>8, <1>9, <1>10, <1>11, <1>12, <1>13,
           <1>14, <1>15, <1>16, <1>17, <1>18, <1>19, <1>20, <1>21 DEF Next, Control

-----------------------------------------------------------------------------
\* Where the control thread goes from a service call.

LEMMA SwitchReturnsTo ==
  ASSUME pc \in {"activating", "deactivating"}, NEW ok, NEW q, SwitchReturns(ok, q)
  PROVE  /\ pc = "activating" => pc' \in {"activating", "polling", "asleep"}
         /\ pc = "deactivating" => pc' \in {"deactivating", "confirm"}
  BY DEF SwitchReturns, PollOrSleep

LEMMA ListReturnsTo ==
  ASSUME pc \in {"polling", "confirming"}, NEW state, ListReturns(state)
  PROVE  /\ pc = "polling" => pc' \in {"polling", "asleep", "teardown", "rollout"}
         /\ pc = "confirming" => pc' \in {"confirming", "resting", "stop"}
  BY DEF ListReturns, Polled

LEMMA ServeEffect ==
  ASSUME NEW s \in Side, Serve(s)
  PROVE  /\ \/ pc' = pc /\ requests' = [requests EXCEPT ![s] = Tail(@)] /\ UNCHANGED <<call, asked>>
            \/ pc \in {"activating", "deactivating"}
                 /\ \E ok \in BOOLEAN : SwitchReturns(ok, [requests EXCEPT ![s] = Tail(@)])
         /\ \/ UNCHANGED controller
            \/ Head(requests[s]) = "on" /\ Fresh /\ controller' = [controller EXCEPT ![s] = "active"]
            \/ Head(requests[s]) # "on" /\ controller' = [controller EXCEPT ![s] = "inactive"]
         /\ UNCHANGED <<options, discovered, session, wire>>
  BY DEF Serve, Accepts

\* What no step changes, and who changes the controllers.
LEMMA OptionsStay == [Next]_vars => options' = options
  BY DEF Next, Control, vars, Start, PrepareRaises, FirstHold, WaitForServices, Iterate, HoldTimesOut,
     SwitchTimesOut, ListAnswers, ListTimesOut, EndRollout, Shutdown, Confirm, SafeStop, Close,
     CallRaises, Interrupt, Tick, Serve, OperatorActivates, Move

LEMMA ControllersChange ==
  [Next]_vars => \/ UNCHANGED controller \/ Tick
                 \/ \E s \in Side : Serve(s) \/ OperatorActivates(s)
  BY DEF Next, Control, vars, arms, Start, PrepareRaises, FirstHold, WaitForServices, Iterate, HoldTimesOut,
     SwitchTimesOut, ListAnswers, ListTimesOut, EndRollout, Shutdown, Confirm, SafeStop, Close,
     CallRaises, Interrupt, Move

LEMMA EndedStays == IInv /\ [Next]_vars => (stream = "ended" => stream' = "ended")
  BY DEF IInv, StreamInv, Next, Control, vars, wire, Start, PrepareRaises, FirstHold, WaitForServices,
     Iterate, HoldTimesOut, SwitchTimesOut, ListAnswers, ListTimesOut, EndRollout, Shutdown, Confirm,
     SafeStop, Close, CallRaises, Throw, Interrupt, Tick, Serve, OperatorActivates, Move, HoldPhase

\* The stream's life.
LEMMA StreamStep == IInv /\ [Next]_vars => StreamInv'
<1> SUFFICES ASSUME IInv, [Next]_vars PROVE StreamInv'
  OBVIOUS
<1>0. TypeOK /\ StreamInv /\ LivenessTicks \in Nat \ {0}
  BY SessionAssumption DEF IInv
<1> USE DEF StreamInv, HoldPhase, TeardownPhase, UsesControllers, session, wire, arms
<1>1. CASE Start
  BY <1>0, <1>1 DEF Start, GapRefused
<1>2. CASE PrepareRaises \/ WaitForServices \/ HoldTimesOut \/ EndRollout \/ SafeStop \/ Close
  BY <1>0, <1>2 DEF PrepareRaises, WaitForServices, HoldTimesOut, EndRollout, SafeStop, Close
<1>3. CASE FirstHold
  BY <1>0, <1>3 DEF FirstHold
<1>4. CASE Iterate
  BY <1>0, <1>4 DEF Iterate, PollOrSleep
<1>5. CASE SwitchTimesOut
  BY <1>0, <1>5, SwitchReturnsTo DEF SwitchTimesOut
<1>6. CASE ListAnswers \/ ListTimesOut
  BY <1>0, <1>6, ListReturnsTo DEF ListAnswers, ListTimesOut
<1>7. CASE Shutdown
  BY <1>0, <1>7 DEF Shutdown, MustRelease, RepeatLast
<1>8. CASE Confirm
  BY <1>0, <1>8 DEF Confirm, RepeatLast
<1>9. CASE CallRaises \/ Interrupt
  BY <1>0, <1>9 DEF CallRaises, Interrupt, Throw, TypeOK, CallType, Calling
<1>10. CASE Tick
  BY <1>0, <1>10 DEF Tick, TypeOK, CallType, Calling, WireType, ArmsType, Least
<1>11. ASSUME NEW s \in Side, Serve(s) PROVE StreamInv'
  <2>1. \/ pc' = pc
        \/ pc = "activating" /\ pc' \in {"activating", "polling", "asleep"}
        \/ pc = "deactivating" /\ pc' \in {"deactivating", "confirm"}
    BY <1>11, ServeEffect, SwitchReturnsTo
  <2>2. stream = "none" => \A t \in Side : controller'[t] = "inactive"
    <3> SUFFICES ASSUME stream = "none" PROVE \A t \in Side : controller'[t] = "inactive"
      OBVIOUS
    <3>1. ~Fresh
      BY <1>0 DEF Fresh
    <3>2. controller' \in {controller, [controller EXCEPT ![s] = "inactive"]}
      BY <1>11, <3>1, ServeEffect
    <3> QED BY <1>0, <3>2 DEF TypeOK, ArmsType
  <2> QED BY <1>0, <1>11, <2>1, <2>2, ServeEffect
<1>12. ASSUME NEW s \in Side, OperatorActivates(s) PROVE StreamInv'
  BY <1>0, <1>12 DEF OperatorActivates
<1>13. ASSUME NEW s \in Side, Move(s) PROVE StreamInv'
  BY <1>0, <1>13 DEF Move
<1>14. CASE UNCHANGED vars
  BY <1>0, <1>14 DEF vars
<1> QED BY <1>1, <1>2, <1>3, <1>4, <1>5, <1>6, <1>7, <1>8, <1>9, <1>10, <1>11, <1>12, <1>13, <1>14
        DEF Next, Control

\* What a request leaves behind.
LEMMA SendOn ==
  ASSUME TypeOK, NEW i \in 1..Len(options.arms), NEW q \in [Side -> Seq({"on"})], Send(i, "on", q)
  PROVE  requests' \in [Side -> Seq({"on"})] /\ \A s \in Side : asked'[s] \in {asked[s], "on"}
<1>1. options.arms[i] \in Side
  BY SelectedArm DEF TypeOK
<1>2. Append(q[options.arms[i]], "on") \in Seq({"on"})
  BY <1>1, AppendProperties
<1> QED BY <1>1, <1>2 DEF Send, TypeOK, SwitchesType

LEMMA SendOff ==
  ASSUME TypeOK, NEW i \in 1..Len(options.arms), NEW q, Send(i, "off", q)
  PROVE  /\ asked'[options.arms[i]] = "off"
         /\ \A s \in Side : asked'[s] \in {asked[s], "off"}
  BY SelectedArm DEF Send, TypeOK, SwitchesType

\* What has been asked of the arms.
LEMMA AskedStep == IInv /\ [Next]_vars => AskedInv'
<1> SUFFICES ASSUME IInv, [Next]_vars PROVE AskedInv'
  OBVIOUS
<1>0. TypeOK /\ TypeOK' /\ AskedInv /\ StreamInv
  BY TypeStep DEF IInv
<1> USE DEF AskedInv, BeforeTeardown, HoldPhase, UsesControllers, switches
<1>1. CASE UNCHANGED switches /\ UNCHANGED options /\ (pc' \in BeforeTeardown => pc \in BeforeTeardown)
            /\ (pc' \in {"activating", "start"} => pc' = pc)
  BY <1>0, <1>1
<1>2. CASE UNCHANGED vars \/ Start \/ PrepareRaises \/ WaitForServices \/ FirstHold \/ HoldTimesOut \/ EndRollout
             \/ Confirm \/ SafeStop \/ Close \/ CallRaises \/ Interrupt \/ (\E s \in Side : OperatorActivates(s) \/ Move(s))
  BY <1>1, <1>2 DEF vars, Start, PrepareRaises, WaitForServices, FirstHold, HoldTimesOut, EndRollout,
     Confirm, SafeStop, Close, CallRaises, Interrupt, Throw, OperatorActivates, Move
<1>3. CASE ListAnswers \/ ListTimesOut
  BY <1>1, <1>3, ListReturnsTo DEF ListAnswers, ListTimesOut
<1>4. CASE Iterate
  <2>1. CASE UNCHANGED switches /\ pc' \notin {"activating", "start"}
    BY <1>1, <1>4, <2>1 DEF Iterate
  <2>2. CASE options.activate /\ pc' = "activating" /\ Send(1, "on", requests)
    <3>1. requests \in [Side -> Seq({"on"})]
      BY <1>0, <1>4 DEF Iterate, TypeOK, SwitchesType
    <3>2. requests' \in [Side -> Seq({"on"})] /\ \A s \in Side : asked'[s] \in {asked[s], "on"}
      BY <1>0, <2>2, <3>1, SendOn, SelectedArm DEF TypeOK
    <3> QED BY <1>0, <1>4, <2>2, <3>2 DEF Iterate
  <2> QED BY <1>4, <2>1, <2>2 DEF Iterate, PollOrSleep
<1>5. CASE Shutdown
  <2>1. CASE UNCHANGED switches
    BY <1>1, <1>5, <2>1 DEF Shutdown
  <2>2. CASE Send(1, "off", requests) /\ pc' = "deactivating"
    BY <1>0, <1>5, <2>2, SendOff, SelectedArm DEF Shutdown, TypeOK
  <2> QED BY <1>5, <2>1, <2>2 DEF Shutdown
<1>6. CASE Tick
  <2>1. requests' \in [Side -> Seq({"on"})] \/ pc \notin BeforeTeardown
    BY <1>0, <1>6, EmptyRequests DEF Tick, TypeOK, SwitchesType
  <2> QED BY <1>0, <1>6, <2>1 DEF Tick
<1>7. ASSUME NEW q \in [Side -> Seq({"on", "off"})], NEW ok \in BOOLEAN,
             pc \in {"activating", "deactivating"}, SwitchReturns(ok, q),
             pc = "activating" => q \in [Side -> Seq({"on"})], UNCHANGED options
      PROVE  AskedInv'
  <2>1. CASE UNCHANGED asked /\ requests' = q
    BY <1>0, <1>7, <2>1, SwitchReturnsTo
  <2>2. CASE pc = "activating" /\ pc' = pc /\ call'.arm \in 1..Len(options.arms) /\ Send(call'.arm, "on", q)
    <3>1. options.activate /\ options'.activate
      BY <1>0, <1>7, <2>2
    <3>2. requests' \in [Side -> Seq({"on"})] /\ \A s \in Side : asked'[s] \in {asked[s], "on"}
      BY <1>0, <1>7, <2>2, SendOn
    <3> QED BY <2>2, <3>1, <3>2
  <2>3. CASE pc = "deactivating" /\ pc' = pc /\ call'.arm \in 1..Len(options.arms) /\ Send(call'.arm, "off", q)
    BY <1>0, <1>7, <2>3, SendOff
  <2> QED BY <1>0, <1>7, <2>1, <2>2, <2>3 DEF SwitchReturns, TypeOK, CallType, Calling
<1>8. CASE SwitchTimesOut
  BY <1>0, <1>7, <1>8 DEF SwitchTimesOut, TypeOK, SwitchesType
<1>9. ASSUME NEW s \in Side, Serve(s) PROVE AskedInv'
  <2> DEFINE rest == [requests EXCEPT ![s] = Tail(@)]
  <2>1. rest \in [Side -> Seq({"on", "off"})] /\ requests[s] # <<>>
    BY <1>0, <1>9, ServeType DEF Serve
  <2>2. pc \in BeforeTeardown => rest \in [Side -> Seq({"on"})]
    BY <1>0, <2>1, HeadTailProperties DEF TypeOK, SwitchesType
  <2>3. CASE pc' = pc /\ requests' = rest /\ UNCHANGED <<call, asked>>
    BY <1>0, <1>9, <2>2, <2>3, ServeEffect
  <2>4. CASE pc \in {"activating", "deactivating"} /\ \E ok \in BOOLEAN : SwitchReturns(ok, rest)
    BY <1>7, <1>9, <2>1, <2>2, <2>4, ServeEffect
  <2> QED BY <1>9, <2>3, <2>4, ServeEffect
<1> QED BY <1>1, <1>2, <1>3, <1>4, <1>5, <1>6, <1>8, <1>9 DEF Next, Control

-----------------------------------------------------------------------------
\* The controllers.

\* A controller starves only once the stream has ended, or where the program
\* does not use controllers.
LEMMA NobodyStarves ==
  ASSUME IInv, Tick, UsesControllers, stream # "ended"
  PROVE  controller' = controller /\ requests' = requests
<1>0. TypeOK /\ StreamInv /\ LivenessTicks \in Nat \ {0}
  BY SessionAssumption DEF IInv
<1>1. CASE stream = "live"
  <2>1. pc # "start" /\ pc # "exit"
    BY <1>0, <1>1 DEF StreamInv
  <2>2. options.keepalive
    BY <1>0, <2>1 DEF StreamInv
  <2>3. silence' = 0
    BY <1>1, <2>2 DEF Tick
  <2> QED BY <1>0, <2>3 DEF Tick, TypeOK, ArmsType, SwitchesType
<1>2. CASE stream = "none"
  <2>1. \A s \in Side : controller[s] # "active"
    BY <1>0, <1>2 DEF StreamInv
  <2> QED BY <1>0, <2>1 DEF Tick, TypeOK, ArmsType, SwitchesType
<1> QED BY <1>0, <1>1, <1>2 DEF TypeOK, WireType

LEMMA LaunchStep == IInv /\ [Next]_vars => LaunchSurvives'
<1> SUFFICES ASSUME IInv, [Next]_vars, UsesControllers', stream' # "ended" PROVE \A t \in Side : controller'[t] # "down"
  BY DEF LaunchSurvives
<1>0. /\ TypeOK /\ options' = options /\ UsesControllers
      /\ stream # "ended" => \A t \in Side : controller[t] # "down"
  BY OptionsStay DEF IInv, LaunchSurvives, UsesControllers
<1>1. stream # "ended"
  BY <1>0, EndedStays
<1>2. CASE UNCHANGED controller
  BY <1>0, <1>1, <1>2
<1>3. CASE Tick
  BY <1>0, <1>1, <1>3, NobodyStarves
<1>4. ASSUME NEW s \in Side, Serve(s) \/ OperatorActivates(s) PROVE \A t \in Side : controller'[t] # "down"
  <2>1. controller' \in {controller, [controller EXCEPT ![s] = "active"], [controller EXCEPT ![s] = "inactive"]}
    BY <1>4, ServeEffect DEF OperatorActivates
  <2> QED BY <1>0, <1>1, <2>1 DEF TypeOK, ArmsType
<1> QED BY <1>2, <1>3, <1>4, ControllersChange

\* Before the teardown an active arm stays active.
LEMMA ActiveStays ==
  ASSUME IInv, [Next]_vars, UsesControllers, pc \in BeforeTeardown
  PROVE  \A t \in Side : controller[t] = "active" => controller'[t] = "active"
<1>0. TypeOK /\ StreamInv /\ AskedInv
  BY DEF IInv
<1>1. CASE UNCHANGED controller
  BY <1>1
<1>2. CASE Tick
  <2>1. stream # "ended"
    BY <1>0 DEF StreamInv, BeforeTeardown, HoldPhase
  <2> QED BY <1>2, <2>1, NobodyStarves
<1>3. ASSUME NEW s \in Side, Serve(s) PROVE \A t \in Side : controller[t] = "active" => controller'[t] = "active"
  <2>1. requests[s] \in Seq({"on"}) /\ requests[s] # <<>>
    BY <1>0, <1>3 DEF AskedInv, Serve
  <2>2. Head(requests[s]) = "on"
    BY <2>1, HeadTailProperties
  <2>3. controller' \in {controller, [controller EXCEPT ![s] = "active"]}
    BY <1>3, <2>2, ServeEffect
  <2> QED BY <1>0, <2>3 DEF TypeOK, ArmsType
<1>4. ASSUME NEW s \in Side, OperatorActivates(s) PROVE \A t \in Side : controller[t] = "active" => controller'[t] = "active"
  BY <1>0, <1>4 DEF OperatorActivates, TypeOK, ArmsType
<1> QED BY <1>1, <1>2, <1>3, <1>4, ControllersChange

\* A poll goes from arm to arm.
LEMMA PollGoesOn ==
  ASSUME IInv, [Next]_vars, pc' = "polling"
  PROVE  \/ call'.arm = 1
         \/ pc = "polling" /\ call'.arm = call.arm /\ call'.ok = call.ok
         \/ /\ pc = "polling" /\ call'.arm = call.arm + 1
            /\ call'.ok => call.ok /\ controller[options.arms[call.arm]] = "active"
<1>0. TypeOK /\ (pc = "polling" => call \in Call)
  BY DEF IInv, TypeOK, CallType, Calling
<1>1. CASE pc = "polling" /\ call' = call
  BY <1>1
<1>2. CASE Iterate
  BY <1>2 DEF Iterate, PollOrSleep, NewCall, CallTo
<1>3. CASE SwitchTimesOut
  BY <1>3 DEF SwitchTimesOut, SwitchReturns, PollOrSleep, NewCall, CallTo
<1>4. ASSUME NEW s \in Side, Serve(s) PROVE call'.arm = 1 \/ (pc = "polling" /\ call' = call)
  <2>1. CASE pc' = pc /\ UNCHANGED call
    BY <2>1
  <2>2. ASSUME pc \in {"activating", "deactivating"},
               NEW ok \in BOOLEAN, SwitchReturns(ok, [requests EXCEPT ![s] = Tail(@)])
        PROVE  call'.arm = 1
    BY <2>2 DEF SwitchReturns, PollOrSleep, NewCall, CallTo
  <2> QED BY <1>4, <2>1, <2>2, ServeEffect
<1>5. ASSUME NEW state, pc \in {"polling", "confirming"}, ListReturns(state),
             state = "active" => controller[options.arms[call.arm]] = "active"
      PROVE  /\ pc = "polling" /\ call'.arm = call.arm + 1
             /\ call'.ok => call.ok /\ controller[options.arms[call.arm]] = "active"
  <2>1. pc = "polling" /\ call.arm < Len(options.arms)
    BY <1>5 DEF ListReturns, Polled
  <2>2. call'.arm = call.arm + 1 /\ call'.ok = AllActive(state)
    BY <1>5, <2>1 DEF ListReturns, CallTo
  <2> QED BY <1>5, <2>1, <2>2 DEF AllActive
<1>6. CASE ListAnswers \/ ListTimesOut
  <2>1. CASE ListAnswers
    BY <1>5, <2>1 DEF ListAnswers
  <2>2. CASE ListTimesOut
    BY <1>5, <2>2, SessionAssumption DEF ListTimesOut
  <2> QED BY <1>6, <2>1, <2>2
<1>7. CASE Tick
  <2>1. pc = "polling" /\ call' = [call EXCEPT !.blocked = @ + 1]
    BY <1>0, <1>7, SessionAssumption DEF Tick, IInv, TypeOK, CallType, Calling
  <2> QED BY <1>0, <2>1 DEF Call
<1>8. CASE UNCHANGED vars \/ \E s \in Side : OperatorActivates(s) \/ Move(s)
  BY <1>1, <1>8 DEF vars, OperatorActivates, Move
<1>9. ~(Start \/ PrepareRaises \/ FirstHold \/ WaitForServices \/ HoldTimesOut \/ EndRollout
         \/ Shutdown \/ Confirm \/ SafeStop \/ Close \/ CallRaises \/ Interrupt)
  BY DEF Start, PrepareRaises, FirstHold, WaitForServices, HoldTimesOut, EndRollout,
         Shutdown, Confirm, SafeStop, Close, CallRaises, Interrupt, Throw
<1> QED BY <1>2, <1>3, <1>4, <1>6, <1>7, <1>8, <1>9 DEF Next, Control

LEMMA PollStep == IInv /\ [Next]_vars => PollInv'
<1> SUFFICES ASSUME IInv, [Next]_vars, pc' = "polling", call'.ok,
                    NEW i \in 1..call'.arm - 1
             PROVE  controller'[options'.arms[i]] = "active"
  BY DEF PollInv
<1>0. TypeOK /\ TypeOK' /\ StreamInv' /\ options' = options /\ PollInv
  BY TypeStep, StreamStep, OptionsStay DEF IInv
<1>1. call'.arm \in 1..Len(options.arms) /\ i \in 1..Len(options.arms)
  BY <1>0, SelectedArm DEF TypeOK, CallType, Calling, Call
<1>2. UsesControllers
  BY <1>0 DEF StreamInv, HoldPhase, UsesControllers
<1>3. pc = "polling" /\ controller[options.arms[i]] = "active"
  <2>1. pc = "polling" => call.arm \in Nat
    BY <1>0 DEF TypeOK, CallType, Calling, Call
  <2>2. ~(call'.arm = 1)
    BY <1>1
  <2>3. pc = "polling" /\ call.ok
    BY <2>2, PollGoesOn
  <2>4. i \in 1..call.arm - 1 \/ (i = call.arm /\ controller[options.arms[call.arm]] = "active")
    BY <1>1, <2>1, <2>2, <2>3, PollGoesOn
  <2> QED BY <1>0, <2>3, <2>4 DEF PollInv
<1>4. pc \in BeforeTeardown
  BY <1>3 DEF BeforeTeardown, HoldPhase
<1> QED BY <1>0, <1>1, <1>2, <1>3, <1>4, ActiveStays, SelectedArm DEF TypeOK

\* A rollout that waited for its arms starts when the last of them has
\* answered active.
LEMMA RolloutStep == IInv /\ [Next]_vars => RolloutOnActiveArms'
<1> SUFFICES ASSUME IInv, [Next]_vars, pc' = "rollout", UsesControllers'
             PROVE  activated' /\ \A s \in Selected' : controller'[s] = "active"
  BY DEF RolloutOnActiveArms
<1>0. /\ TypeOK /\ options' = options /\ UsesControllers /\ Selected' = Selected
      /\ PollInv /\ RolloutOnActiveArms
  BY OptionsStay DEF IInv, UsesControllers, Selected
<1>1. CASE pc = "rollout"
  <2>1. activated /\ \A s \in Selected : controller[s] = "active"
    BY <1>0, <1>1 DEF RolloutOnActiveArms
  <2>2. \A s \in Selected : controller'[s] = "active"
    BY <1>0, <1>1, <2>1, ActiveStays, SelectedArm DEF TypeOK, BeforeTeardown
  <2>3. activated' = activated
    BY <1>1 DEF Next, Control, vars, session, Start, PrepareRaises, FirstHold, WaitForServices, Iterate,
       HoldTimesOut, SwitchTimesOut, ListAnswers, ListTimesOut, EndRollout, Shutdown, Confirm,
       SafeStop, Close, CallRaises, Interrupt, Tick, Serve, OperatorActivates, Move
  <2> QED BY <1>0, <2>1, <2>2, <2>3
<1>2. CASE pc # "rollout"
  <2>1. ListAnswers \/ ListTimesOut
    BY <1>0, <1>2, SwitchReturnsTo, ServeEffect DEF Next, Control, vars, Start, PrepareRaises, FirstHold,
       WaitForServices, Iterate, PollOrSleep, HoldTimesOut, SwitchTimesOut, EndRollout, Shutdown, Confirm,
       SafeStop, Close, CallRaises, Throw, Interrupt, Tick, OperatorActivates, Move
  <2>2. pc = "polling" /\ call \in Call /\ call.arm \in 1..Len(options.arms)
    BY <1>0, <2>1, ListReturnsTo DEF ListAnswers, ListTimesOut, TypeOK, CallType, Calling
  <2>3. /\ call.ok /\ controller[options.arms[call.arm]] = "active" /\ activated'
        /\ ~(call.arm < Len(options.arms)) /\ UNCHANGED controller
    BY <1>2, <2>1, <2>2, SessionAssumption DEF ListAnswers, ListTimesOut, ListReturns, Polled, AllActive, arms
  <2>4. call.arm = Len(options.arms) /\ Len(options.arms) \in Nat
    BY <1>0, <2>2, <2>3, SelectedArm DEF TypeOK
  <2>5. \A i \in 1..Len(options.arms) : controller[options.arms[i]] = "active"
    BY <1>0, <2>2, <2>3, <2>4 DEF PollInv
  <2> QED BY <1>0, <2>3, <2>5 DEF Selected
<1> QED BY <1>1, <1>2
-----------------------------------------------------------------------------
\* The release.

\* The call of a deactivation that goes on, and what it has asked by then.
LEMMA DeactivationGoesOn ==
  ASSUME IInv, pc = "deactivating", NEW ok \in BOOLEAN, NEW q, SwitchReturns(ok, q), UNCHANGED options
  PROVE  /\ pc' = "deactivating" => \A i \in 1..Len(options.arms) :
              (call'.strict \/ i <= call'.arm) => asked'[options.arms[i]] # "on"
         /\ pc' # "deactivating" => \A i \in 1..Len(options.arms) : asked'[options.arms[i]] # "on"
<1>0. /\ TypeOK /\ call \in Call /\ call.arm \in 1..Len(options.arms) /\ Len(options.arms) \in Nat \ {0}
      /\ \A i \in 1..Len(options.arms) :
           (call.strict \/ i <= call.arm) => asked[options.arms[i]] # "on"
      /\ \A i \in 1..Len(options.arms) : options.arms[i] \in Side
  BY SelectedArm DEF IInv, TypeOK, CallType, Calling, ReleaseInv
<1> DEFINE last == call.arm = Len(options.arms)
<1>1. CASE pc' = "deactivating"
  <2>1. \/ last /\ call' = CallTo(1, TRUE, TRUE, TRUE)
        \/ ~last /\ call' = CallTo(call.arm + 1, call.strict, call.ok /\ ok, TRUE)
    BY <1>1 DEF SwitchReturns
  <2>2. Send(call'.arm, "off", q)
    BY <1>1 DEF SwitchReturns
  <2>3. call'.arm \in 1..Len(options.arms)
    BY <1>0, <2>1 DEF CallTo
  <2>4. asked'[options.arms[call'.arm]] = "off" /\ \A s \in Side : asked'[s] \in {asked[s], "off"}
    BY <1>0, <2>2, <2>3, SendOff
  <2>5. \A i \in 1..Len(options.arms) :
          (call'.strict \/ i <= call'.arm) => i = call'.arm \/ call.strict \/ i <= call.arm
    <3>1. CASE last
      BY <1>0, <3>1
    <3>2. CASE ~last
      <4>1. call'.arm = call.arm + 1 /\ call'.strict = call.strict
        BY <2>1, <3>2 DEF CallTo
      <4> QED BY <1>0, <4>1 DEF Call
    <3> QED BY <3>1, <3>2
  <2> QED BY <1>0, <1>1, <2>4, <2>5
<1>2. CASE pc' # "deactivating"
  <2>1. last /\ asked' = asked
    BY <1>2 DEF SwitchReturns
  <2> QED BY <1>0, <1>2, <2>1
<1> QED BY <1>1, <1>2

LEMMA ReleaseStep == IInv /\ [Next]_vars => ReleaseInv'
<1> SUFFICES ASSUME IInv, [Next]_vars PROVE ReleaseInv'
  OBVIOUS
<1>0. TypeOK /\ StreamInv /\ AskedInv /\ ReleaseInv /\ options' = options /\ Selected' = Selected
  BY OptionsStay DEF IInv, Selected
<1>1. \A s \in Selected : \E i \in 1..Len(options.arms) : s = options.arms[i]
  BY DEF Selected
<1>2. \A i \in 1..Len(options.arms) : options.arms[i] \in Side /\ options.arms[i] \in Selected
  BY <1>0, SelectedArm DEF TypeOK
<1> USE DEF ReleaseInv, AfterRelease
<1>3. CASE /\ UNCHANGED <<asked, aborted>>
           /\ pc' = "deactivating" => pc = "deactivating" /\ call'.arm = call.arm /\ call'.strict = call.strict
           /\ pc' \in AfterRelease => pc \in AfterRelease
           /\ pc = "exit" => pc' = "exit"
  BY <1>0, <1>3
<1>4. CASE UNCHANGED vars \/ PrepareRaises \/ FirstHold \/ WaitForServices \/ HoldTimesOut
             \/ EndRollout \/ Confirm \/ SafeStop \/ Close \/ (\E s \in Side : OperatorActivates(s) \/ Move(s))
  BY <1>3, <1>4 DEF vars, session, switches, PrepareRaises, FirstHold, WaitForServices, HoldTimesOut, EndRollout,
     Confirm, SafeStop, Close, OperatorActivates, Move, HoldPhase
<1>5. CASE Start
  BY <1>0, <1>1, <1>2, <1>5 DEF Start, AskedInv, session, switches
<1>6. CASE Iterate
  <2>1. pc' \in {"activating", "polling", "asleep", "teardown"} /\ ~aborted'
    BY <1>0, <1>6 DEF Iterate, PollOrSleep, session
  <2> QED BY <2>1
<1>7. CASE ListAnswers \/ ListTimesOut
  <2>1. UNCHANGED <<asked, aborted>> /\ pc \in {"polling", "confirming"}
    BY <1>7 DEF ListAnswers, ListTimesOut, switches
  <2>2. \/ pc = "polling" /\ pc' \in {"polling", "asleep", "teardown", "rollout"}
        \/ pc = "confirming" /\ pc' \in {"confirming", "resting", "stop"}
    BY <1>7, <2>1, ListReturnsTo DEF ListAnswers, ListTimesOut
  <2> QED BY <1>3, <2>1, <2>2
<1>8. CASE Shutdown
  <2>1. CASE MustRelease
    <3>1. pc' = "deactivating" /\ ~call'.strict /\ call'.arm = 1 /\ Send(1, "off", requests) /\ ~aborted'
      BY <1>0, <1>8, <2>1 DEF Shutdown, NewCall, CallTo, session
    <3>2. asked'[options.arms[1]] = "off"
      BY <1>0, <3>1, SendOff, SelectedArm DEF TypeOK
    <3>3. \A i \in 1..Len(options.arms) : i <= 1 => i = 1
      BY <1>0, SelectedArm DEF TypeOK
    <3> QED BY <1>0, <3>1, <3>2, <3>3
  <2>2. CASE ~MustRelease
    <3>1. pc' = "stop" /\ UNCHANGED <<asked, aborted>> /\ ~aborted
      BY <1>0, <1>8, <2>2 DEF Shutdown, switches, session
    <3>2. options.release => ~options.activate
      BY <2>2 DEF MustRelease, UsesControllers
    <3> QED BY <1>0, <1>1, <1>2, <3>1, <3>2 DEF AskedInv
  <2> QED BY <2>1, <2>2
<1>9. ASSUME pc \in {"activating", "deactivating"}, NEW ok \in BOOLEAN, NEW q, SwitchReturns(ok, q),
             UNCHANGED aborted
      PROVE  ReleaseInv'
  <2>1. CASE pc = "activating"
    BY <1>0, <1>9, <2>1, SwitchReturnsTo
  <2>2. CASE pc = "deactivating"
    <3>1. pc' \in {"deactivating", "confirm"} /\ ~aborted'
      BY <1>0, <1>9, <2>2, SwitchReturnsTo
    <3> QED BY <1>0, <1>1, <1>9, <2>2, <3>1, DeactivationGoesOn
  <2> QED BY <1>9, <2>1, <2>2
<1>10. CASE SwitchTimesOut
  BY <1>9, <1>10 DEF SwitchTimesOut, session
<1>11. ASSUME NEW s \in Side, Serve(s) PROVE ReleaseInv'
  <2>1. UNCHANGED aborted
    BY <1>11, ServeEffect DEF session
  <2>2. CASE pc' = pc /\ UNCHANGED <<call, asked>>
    BY <1>3, <2>1, <2>2
  <2> QED BY <1>9, <1>11, <2>1, <2>2, ServeEffect
<1>12. CASE Tick
  <2>1. UNCHANGED <<asked, aborted>> /\ (pc' = pc \/ pc' \in {"hold", "confirm"})
    BY <1>12 DEF Tick, session
  <2>2. pc' = "confirm" => pc = "resting" \/ pc = "confirm"
    BY <1>12 DEF Tick
  <2>3. pc' = "hold" => pc = "asleep" \/ pc = "hold"
    BY <1>12 DEF Tick
  <2>4. pc = "exit" => pc' = "exit"
    BY <1>12 DEF Tick
  <2>5. pc = "deactivating" => call'.arm = call.arm /\ call'.strict = call.strict
    <3> SUFFICES ASSUME pc = "deactivating" PROVE call'.arm = call.arm /\ call'.strict = call.strict
      OBVIOUS
    <3>1. call \in Call /\ call # None
      BY <1>0, <1>12 DEF Tick, TypeOK, CallType, Calling
    <3>2. call' = [call EXCEPT !.blocked = @ + 1]
      BY <1>12, <3>1 DEF Tick
    <3> QED BY <3>1, <3>2 DEF Call
  <2> QED BY <1>3, <2>1, <2>2, <2>3, <2>4, <2>5
<1>13. CASE CallRaises \/ Interrupt
  <2>1. Throw /\ UNCHANGED asked /\ pc # "exit"
    BY <1>0, <1>13 DEF CallRaises, Interrupt, switches, TypeOK, CallType, Calling
  <2>2. CASE pc' = "teardown"
    BY <1>0, <2>1, <2>2 DEF Throw
  <2>3. CASE pc' = "exit" /\ aborted' = (aborted \/ pc \notin {"stop", "close"})
    BY <1>0, <2>1, <2>3
  <2> QED BY <2>1, <2>2, <2>3 DEF Throw
<1> QED BY <1>4, <1>5, <1>6, <1>7, <1>8, <1>10, <1>11, <1>12, <1>13 DEF Next, Control

-----------------------------------------------------------------------------
\* What is left in the managers' queues.

\* Serving the oldest request leaves the newest one, or nothing.
LEMMA NewestOfTail ==
  ASSUME NEW S, NEW q \in Seq(S), q # <<>>
  PROVE  /\ Newest(Tail(q)) \in {Newest(q), "nothing"}
         /\ Tail(q) = <<>> => Head(q) = Newest(q)
<1>1. Len(q) \in Nat \ {0} /\ Head(q) = q[1]
  BY EmptySeq, LenProperties
<1>2. Tail(q) \in Seq(S) /\ Len(Tail(q)) = Len(q) - 1 /\ \A i \in 1..Len(q) - 1 : Tail(q)[i] = q[i + 1]
  BY HeadTailProperties
<1>3. CASE Tail(q) = <<>>
  <2>1. Len(Tail(q)) = 0
    BY <1>2, <1>3, EmptySeq
  <2>2. Len(q) - 1 = 0
    BY <1>2, <2>1
  <2>3. Len(q) = 1
    BY <1>1, <2>2
  <2> QED BY <1>1, <1>3, <2>3 DEF Newest
<1>4. CASE Tail(q) # <<>>
  <2>1. Len(Tail(q)) # 0
    BY <1>2, <1>4, EmptySeq
  <2>2. Len(Tail(q)) \in 1..Len(q) - 1
    BY <1>1, <1>2, <2>1
  <2>3. Tail(q)[Len(Tail(q))] = q[Len(q)]
    BY <1>1, <1>2, <2>2
  <2> QED BY <1>4, <2>3 DEF Newest
<1> QED BY <1>3, <1>4

LEMMA NewestOfAppend ==
  ASSUME NEW S, NEW q \in Seq(S), NEW w \in S
  PROVE  Newest(Append(q, w)) = w
<1>1. Len(q) \in Nat /\ Len(Append(q, w)) = Len(q) + 1 /\ Append(q, w)[Len(q) + 1] = w
      /\ Append(q, w) \in Seq(S)
  BY AppendProperties, LenProperties
<1>2. Append(q, w) # <<>>
  BY <1>1, EmptySeq
<1> QED BY <1>1, <1>2 DEF Newest

LEMMA NewestOfNone == Newest(<<>>) = "nothing"
  BY DEF Newest

\* No later than the queues of now.
Follows(q) == \A s \in Side : Newest(q[s]) \in {Newest(requests[s]), "nothing"}

LEMMA RestFollows ==
  ASSUME TypeOK, NEW t \in Side, requests[t] # <<>>
  PROVE  Follows([requests EXCEPT ![t] = Tail(@)])
<1>1. requests \in [Side -> Seq({"on", "off"})]
  BY DEF TypeOK, SwitchesType
<1> QED BY <1>1, NewestOfTail DEF Follows

\* A request asked of an arm is the newest in its queue, unless it reached
\* nobody, before anything was discovered or activated.
LEMMA SendKeepsQueue ==
  ASSUME TypeOK, QueueInv, NEW i \in 1..Len(options.arms), NEW w \in {"on", "off"},
         NEW q \in [Side -> Seq({"on", "off"})], Follows(q), Send(i, w, q),
         w = "on" => discovered, discovered' = discovered,
         pc' \in {"hold", "activating", "polling", "asleep"} => discovered
  PROVE  QueueInv'
<1> DEFINE t == options.arms[i]
<1>1. t \in Side
  BY SelectedArm DEF TypeOK
<1>2. asked' = [asked EXCEPT ![t] = w] /\ asked \in [Side -> {"nothing", "on", "off"}]
  BY DEF Send, TypeOK, SwitchesType
<1>3. \A s \in Side : Newest(q[s]) = "on" => asked[s] = "on"
  BY DEF Follows, QueueInv
<1>4. ~discovered' => \A s \in Side : asked'[s] # "on"
  BY <1>1, <1>2 DEF QueueInv
<1>5. CASE requests' = [q EXCEPT ![t] = Append(@, w)]
  <2>1. Newest(requests'[t]) = w
    BY <1>1, <1>5, NewestOfAppend
  <2> QED BY <1>1, <1>2, <1>3, <1>4, <1>5, <2>1 DEF QueueInv
<1>6. CASE ~discovered /\ requests' = q
  <2>1. \A s \in Side : Newest(q[s]) # "on"
    BY <1>3, <1>6 DEF QueueInv
  <2> QED BY <1>4, <1>6, <2>1 DEF QueueInv
<1> QED BY <1>5, <1>6 DEF Send

\* No step leaves an activation at the end of a queue that was not the last
\* thing asked.
LEMMA QueueStep == IInv /\ [Next]_vars => QueueInv'
<1> SUFFICES ASSUME IInv, [Next]_vars PROVE QueueInv'
  OBVIOUS
<1>0. TypeOK /\ QueueInv /\ options' = options /\ 1 \in 1..Len(options.arms)
  BY OptionsStay, SelectedArm DEF IInv, TypeOK
<1>1. requests \in [Side -> Seq({"on", "off"})] /\ Follows(requests)
  BY <1>0 DEF TypeOK, SwitchesType, Follows
<1> DEFINE Holding == {"hold", "activating", "polling", "asleep"}
<1>2. CASE UNCHANGED <<switches, discovered>> /\ (pc' \in Holding => pc \in Holding)
  BY <1>0, <1>2 DEF QueueInv, switches
<1>3. CASE UNCHANGED vars \/ Start \/ PrepareRaises \/ FirstHold \/ HoldTimesOut \/ EndRollout
             \/ Confirm \/ SafeStop \/ Close \/ CallRaises \/ Interrupt
             \/ (\E s \in Side : OperatorActivates(s) \/ Move(s))
  BY <1>2, <1>3 DEF vars, Start, PrepareRaises, FirstHold, HoldTimesOut, EndRollout,
     Confirm, SafeStop, Close, CallRaises, Interrupt, Throw, OperatorActivates, Move
<1>4. CASE ListAnswers \/ ListTimesOut
  BY <1>2, <1>4, ListReturnsTo DEF ListAnswers, ListTimesOut
<1>5. CASE WaitForServices
  BY <1>0, <1>5 DEF WaitForServices, QueueInv, switches
<1>6. CASE Iterate
  <2>1. pc = "hold" /\ discovered /\ UNCHANGED discovered
    BY <1>0, <1>6 DEF Iterate, QueueInv
  <2>2. UNCHANGED switches \/ Send(1, "on", requests)
    BY <1>6 DEF Iterate
  <2> QED BY <1>0, <1>1, <1>2, <2>1, <2>2, SendKeepsQueue
<1>7. CASE Shutdown
  <2>1. pc' \notin Holding /\ UNCHANGED discovered
    BY <1>7 DEF Shutdown
  <2>2. UNCHANGED switches \/ Send(1, "off", requests)
    BY <1>7 DEF Shutdown
  <2> QED BY <1>0, <1>1, <1>2, <2>1, <2>2, SendKeepsQueue
<1>8. ASSUME NEW q \in [Side -> Seq({"on", "off"})], Follows(q), NEW ok \in BOOLEAN,
             pc \in {"activating", "deactivating"}, SwitchReturns(ok, q), UNCHANGED discovered
      PROVE  QueueInv'
  <2>1. pc = "activating" => discovered
    BY <1>0 DEF QueueInv
  <2>2. pc' \in Holding => discovered
    BY <1>8, <2>1, SwitchReturnsTo
  <2>3. CASE requests' = q /\ UNCHANGED asked
    BY <1>0, <1>8, <2>2, <2>3 DEF QueueInv, Follows
  <2>4. CASE pc = "activating" /\ call'.arm \in 1..Len(options.arms) /\ Send(call'.arm, "on", q)
    BY <1>0, <1>8, <2>1, <2>2, <2>4, SendKeepsQueue
  <2>5. CASE pc = "deactivating" /\ call'.arm \in 1..Len(options.arms) /\ Send(call'.arm, "off", q)
    BY <1>0, <1>8, <2>2, <2>5, SendKeepsQueue
  <2>6. TypeOK'
    BY TypeStep DEF IInv
  <2> QED BY <1>0, <1>8, <2>3, <2>4, <2>5, <2>6 DEF SwitchReturns, TypeOK, CallType, Calling
<1>9. CASE SwitchTimesOut
  BY <1>1, <1>8, <1>9 DEF SwitchTimesOut
<1>10. ASSUME NEW s \in Side, Serve(s) PROVE QueueInv'
  <2> DEFINE rest == [requests EXCEPT ![s] = Tail(@)]
  <2>1. rest \in [Side -> Seq({"on", "off"})] /\ Follows(rest) /\ UNCHANGED discovered
    BY <1>0, <1>10, ServeType, RestFollows DEF Serve
  <2>2. CASE pc' = pc /\ requests' = rest /\ UNCHANGED asked
    BY <1>0, <2>1, <2>2 DEF QueueInv, Follows
  <2> QED BY <1>8, <1>10, <2>1, <2>2, ServeEffect
<1>11. CASE Tick
  <2>1. \A s \in Side : requests'[s] = requests[s] \/ requests'[s] = <<>>
    BY <1>11 DEF Tick
  <2>2. \A s \in Side : Newest(requests'[s]) \in {Newest(requests[s]), "nothing"}
    BY <2>1, NewestOfNone
  <2>3. pc' \in Holding => pc \in Holding
    BY <1>11 DEF Tick
  <2>4. UNCHANGED <<asked, discovered>>
    BY <1>11 DEF Tick
  <2> QED BY <1>0, <2>2, <2>3, <2>4 DEF QueueInv
<1> QED BY <1>3, <1>4, <1>5, <1>6, <1>7, <1>9, <1>10, <1>11 DEF Next, Control

-----------------------------------------------------------------------------
\* The confirmation.

\* An arm with nothing left to serve, or a deactivation last, is not active
\* when all is served.
LEMMA SettledStays ==
  ASSUME IInv, [Next]_vars, pc \in {"confirming", "stop", "close", "exit"},
         NEW t \in Side, Newest(requests[t]) # "on", SettledArm(t)
  PROVE  SettledArm(t)'
<1>0. TypeOK
  BY DEF IInv
<1>1. CASE UNCHANGED <<controller, requests>>
  BY <1>1 DEF SettledArm
<1>2. CASE Tick
  BY <1>2 DEF Tick, SettledArm
<1>3. ASSUME NEW s \in Side, Serve(s) PROVE SettledArm(t)'
  <2>1. /\ requests' = [requests EXCEPT ![s] = Tail(@)]
        /\ controller' \in {controller, [controller EXCEPT ![s] = "active"], [controller EXCEPT ![s] = "inactive"]}
    BY <1>3, ServeEffect
  <2>2. CASE s # t
    BY <1>0, <2>1, <2>2 DEF TypeOK, ArmsType, SwitchesType, SettledArm
  <2>3. CASE s = t /\ requests'[t] = <<>>
    <3>1. requests[t] # <<>> /\ requests[t] \in Seq({"on", "off"}) /\ Tail(requests[t]) = <<>>
      BY <1>0, <1>3, <2>1, <2>3 DEF Serve, TypeOK, SwitchesType
    <3>2. Head(requests[t]) # "on"
      BY <3>1, NewestOfTail
    <3>3. controller'[t] = "inactive"
      BY <1>0, <1>3, <2>3, <3>2 DEF Serve, Accepts, TypeOK, ArmsType
    <3> QED BY <3>3 DEF SettledArm
  <2>4. CASE s = t /\ requests'[t] # <<>>
    BY <2>4 DEF SettledArm
  <2> QED BY <2>2, <2>3, <2>4
<1>4. CASE CallRaises \/ Interrupt \/ Confirm \/ SafeStop \/ Close \/ ListAnswers \/ ListTimesOut
  BY <1>1, <1>4 DEF CallRaises, Interrupt, Confirm, SafeStop, Close, ListAnswers, ListTimesOut, arms, switches
<1>5. CASE UNCHANGED vars
  BY <1>1, <1>5 DEF vars, arms, switches
<1>6. ~(Start \/ PrepareRaises \/ FirstHold \/ WaitForServices \/ Iterate \/ HoldTimesOut \/ SwitchTimesOut
         \/ EndRollout \/ Shutdown \/ \E s \in Side : OperatorActivates(s) \/ Move(s))
  BY DEF Start, PrepareRaises, FirstHold, WaitForServices, Iterate, HoldTimesOut, SwitchTimesOut,
         EndRollout, Shutdown, OperatorActivates, Move, HoldPhase
<1> QED BY <1>2, <1>3, <1>4, <1>5, <1>6 DEF Next, Control

\* Once the release has been asked, no activation is served last.
LEMMA ReleasedQueues ==
  ASSUME TypeOK, ReleaseInv, QueueInv, pc \in AfterRelease, options.release, ~aborted,
         NEW s \in Selected
  PROVE  s \in Side /\ Newest(requests[s]) # "on"
  BY SelectedArm DEF ReleaseInv, QueueInv, TypeOK

\* Where the confirmation is made, and that it follows a release.
LEMMA ConfirmPlace ==
  IInv /\ [Next]_vars =>
    /\ confirmed' => pc' \in {"stop", "close", "exit"} /\ options'.release /\ ~aborted'
    /\ pc' \in TeardownPhase => options'.release
<1> SUFFICES ASSUME IInv, [Next]_vars
             PROVE  /\ confirmed' => pc' \in {"stop", "close", "exit"} /\ options'.release /\ ~aborted'
                    /\ pc' \in TeardownPhase => options'.release
  OBVIOUS
<1>0. TypeOK /\ ConfirmInv /\ ReleaseInv /\ options' = options
  BY OptionsStay DEF IInv
<1> USE DEF TeardownPhase
<1>1. CASE /\ UNCHANGED <<confirmed, aborted>>
           /\ pc \in {"stop", "close", "exit"} => pc' \in {"stop", "close", "exit"}
           /\ pc' \in TeardownPhase => pc \in TeardownPhase
  BY <1>0, <1>1 DEF ConfirmInv
<1>2. CASE ListAnswers \/ ListTimesOut
  <2>1. ASSUME pc \in {"polling", "confirming"}, NEW state, ListReturns(state), UNCHANGED aborted
        PROVE  /\ confirmed' => pc' \in {"stop", "close", "exit"} /\ options'.release /\ ~aborted'
               /\ pc' \in TeardownPhase => options'.release
    <3>1. ~confirmed /\ ~aborted
      BY <1>0, <2>1 DEF ConfirmInv, ReleaseInv
    <3>2. CASE pc = "polling"
      BY <2>1, <3>1, <3>2 DEF ListReturns, Polled
    <3>3. CASE pc = "confirming"
      <4>1. options.release
        BY <1>0, <3>3 DEF ConfirmInv
      <4>2. confirmed' => pc' = "stop"
        BY <2>1, <3>1, <3>3 DEF ListReturns, Polled
      <4> QED BY <1>0, <2>1, <3>1, <4>1, <4>2
    <3> QED BY <2>1, <3>2, <3>3
  <2> QED BY <1>2, <2>1 DEF ListAnswers, ListTimesOut
<1>3. CASE CallRaises \/ Interrupt
  <2>1. Throw /\ UNCHANGED confirmed
    BY <1>3 DEF CallRaises, Interrupt
  <2>2. confirmed => pc \in {"stop", "close", "exit"} /\ options.release /\ ~aborted
    BY <1>0 DEF ConfirmInv
  <2>3. pc' \in {"teardown", "exit"}
    BY <2>1 DEF Throw
  <2>4. confirmed => pc \in {"stop", "close"}
    BY <1>0, <1>3, <2>2 DEF CallRaises, Interrupt, TypeOK, CallType, Calling
  <2>5. confirmed => pc' = "exit" /\ ~aborted'
    BY <2>1, <2>2, <2>4 DEF Throw, HoldPhase
  <2> QED BY <1>0, <2>1, <2>2, <2>3, <2>5
<1>4. CASE Tick
  BY <1>1, <1>4 DEF Tick, session
<1>5. ASSUME pc \in {"activating", "deactivating"}, NEW ok, NEW q, SwitchReturns(ok, q), UNCHANGED session
      PROVE  /\ confirmed' => pc' \in {"stop", "close", "exit"} /\ options'.release /\ ~aborted'
             /\ pc' \in TeardownPhase => options'.release
  <2>1. ~confirmed' /\ (pc' \in TeardownPhase => pc = "deactivating")
    BY <1>0, <1>5, SwitchReturnsTo DEF ConfirmInv, session
  <2>2. pc = "deactivating" => options.release
    BY <1>0 DEF ConfirmInv
  <2> QED BY <1>0, <2>1, <2>2
<1>6. CASE SwitchTimesOut
  BY <1>5, <1>6 DEF SwitchTimesOut
<1>7. ASSUME NEW s \in Side, Serve(s)
      PROVE  /\ confirmed' => pc' \in {"stop", "close", "exit"} /\ options'.release /\ ~aborted'
             /\ pc' \in TeardownPhase => options'.release
  <2>1. CASE pc' = pc
    BY <1>1, <1>7, <2>1, ServeEffect DEF session
  <2> QED BY <1>5, <1>7, <2>1, ServeEffect
<1>8. CASE UNCHANGED vars \/ Start \/ PrepareRaises \/ FirstHold \/ WaitForServices \/ Iterate \/ HoldTimesOut
             \/ EndRollout \/ Shutdown \/ Confirm \/ SafeStop \/ Close
             \/ \E s \in Side : OperatorActivates(s) \/ Move(s)
  BY <1>0, <1>1, <1>8 DEF ConfirmInv, MustRelease, vars, session, Start, PrepareRaises, FirstHold, WaitForServices, Iterate, PollOrSleep,
     HoldTimesOut, EndRollout, Shutdown, Confirm, SafeStop, Close, OperatorActivates, Move
<1> QED BY <1>2, <1>3, <1>4, <1>6, <1>7, <1>8 DEF Next, Control

\* How far the confirmation has come.
LEMMA ConfirmStep == IInv /\ [Next]_vars => ConfirmInv'
<1> SUFFICES ASSUME IInv, [Next]_vars PROVE ConfirmInv'
  OBVIOUS
<1>0. TypeOK /\ TypeOK' /\ ConfirmInv /\ ReleaseInv /\ QueueInv /\ options' = options
  BY TypeStep, OptionsStay DEF IInv
<1>1. ASSUME pc' = "confirming", call'.ok, call'.heard, NEW i \in 1..call'.arm - 1
      PROVE  SettledArm(options.arms[i])'
  <2>1. call'.arm \in 1..Len(options.arms) /\ call'.arm # 1 /\ call'.arm \in Nat
    BY <1>0, <1>1, SelectedArm DEF TypeOK, CallType, Calling, Call
  <2>2. options.arms[i] \in Selected /\ options.arms[i] \in Side
    BY <1>0, <1>1, <2>1, SelectedArm DEF TypeOK
  <2>3. SUFFICES pc = "confirming" /\ SettledArm(options.arms[i])
    <3>1. options.release /\ ~aborted /\ pc \in AfterRelease
      BY <1>0, <2>3 DEF ConfirmInv, ReleaseInv, AfterRelease, TeardownPhase
    <3>2. Newest(requests[options.arms[i]]) # "on"
      BY <1>0, <2>2, <3>1, ReleasedQueues
    <3> QED BY <1>0, <2>2, <2>3, <3>2, SettledStays DEF SettledArm
  <2>4. ASSUME pc = "confirming", call'.arm = call.arm, call'.ok = call.ok, call'.heard = call.heard
        PROVE  pc = "confirming" /\ SettledArm(options.arms[i])
    BY <1>0, <1>1, <2>4 DEF ConfirmInv
  <2>5. ASSUME pc \in {"polling", "confirming"}, NEW state, ListReturns(state),
               state # None => state = controller[options.arms[call.arm]]
        PROVE  pc = "confirming" /\ SettledArm(options.arms[i])
    <3>1. pc = "confirming" /\ call.arm < Len(options.arms)
      BY <1>1, <2>5 DEF ListReturns, Polled
    <3>2. call'.arm = call.arm + 1 /\ NoneActive(state) /\ call.heard /\ state # None
      <4>1. call' = CallTo(call.arm + 1, FALSE, NoneActive(state), call.heard /\ state # None)
        BY <2>5, <3>1 DEF ListReturns
      <4> QED BY <1>1, <4>1 DEF CallTo
    <3>3. call.ok /\ call.heard /\ state # "active" /\ state # None
      BY <1>1, <3>2 DEF NoneActive
    <3>4. call.arm \in 1..Len(options.arms) /\ call.arm \in Nat /\ options.arms[call.arm] \in Side
      BY <1>0, <3>1, SelectedArm DEF TypeOK, CallType, Calling, Call
    <3>5. SettledArm(options.arms[call.arm])
      BY <2>5, <3>3 DEF SettledArm
    <3>6. i = call.arm \/ i \in 1..call.arm - 1
      BY <1>1, <3>2, <3>4
    <3> QED BY <1>0, <3>1, <3>3, <3>5, <3>6 DEF ConfirmInv
  <2>6. CASE ListAnswers
    BY <2>5, <2>6 DEF ListAnswers
  <2>7. CASE ListTimesOut
    BY <2>5, <2>7 DEF ListTimesOut
  <2>8. CASE Confirm
    BY <1>1, <2>1, <2>8 DEF Confirm, NewCall, CallTo
  <2>9. CASE Tick
    <3>1. pc = "confirming" /\ call # None /\ call \in Call
      BY <1>0, <1>1, <2>9 DEF Tick, TypeOK, CallType, Calling
    <3>2. call' = [call EXCEPT !.blocked = @ + 1]
      BY <2>9, <3>1 DEF Tick
    <3>3. call'.arm = call.arm /\ call'.ok = call.ok /\ call'.heard = call.heard
      BY <3>1, <3>2 DEF Call
    <3> QED BY <2>4, <3>1, <3>3
  <2>10. ASSUME NEW s \in Side, Serve(s)
         PROVE  pc = "confirming" /\ SettledArm(options.arms[i])
    <3>1. pc = "confirming" /\ call' = call
      BY <1>1, <2>10, ServeEffect, SwitchReturnsTo
    <3> QED BY <2>4, <3>1
  <2>11. CASE UNCHANGED vars \/ \E s \in Side : OperatorActivates(s) \/ Move(s)
    BY <1>1, <2>4, <2>11 DEF vars, OperatorActivates, Move
  <2>12. CASE SwitchTimesOut
    BY <1>1, <2>12, SwitchReturnsTo DEF SwitchTimesOut
  <2>13. ~(Start \/ PrepareRaises \/ FirstHold \/ WaitForServices \/ Iterate \/ HoldTimesOut \/ EndRollout
            \/ Shutdown \/ SafeStop \/ Close \/ CallRaises \/ Interrupt)
    BY <1>1 DEF Start, PrepareRaises, FirstHold, WaitForServices, Iterate, PollOrSleep, HoldTimesOut, EndRollout,
           Shutdown, SafeStop, Close, CallRaises, Interrupt, Throw
  <2> QED BY <2>6, <2>7, <2>8, <2>9, <2>10, <2>11, <2>12, <2>13 DEF Next, Control
<1> QED BY <1>0, <1>1, ConfirmPlace DEF ConfirmInv, SettledArm

\* A confirmation that every arm answered is the last word on each of them,
\* when it is made and from then on.
LEMMA ConfirmedStep == IInv /\ [Next]_vars => ConfirmedMeansReleased'
<1> SUFFICES ASSUME IInv, [Next]_vars, confirmed', heard', NEW s \in Selected
             PROVE  Newest(requests'[s]) # "on" /\ SettledArm(s)'
  BY OptionsStay DEF ConfirmedMeansReleased, Selected, SettledArm
<1>0. /\ TypeOK /\ TypeOK' /\ ConfirmInv /\ ReleaseInv /\ ReleaseInv' /\ QueueInv /\ QueueInv' /\ s \in Side
      /\ options' = options /\ Selected' = Selected
      /\ (confirmed /\ heard) => SettledArm(s)
  BY SelectedArm, TypeStep, ReleaseStep, QueueStep, OptionsStay DEF IInv, TypeOK, ConfirmedMeansReleased, Selected
<1>1. Newest(requests'[s]) # "on"
  <2>1. pc' \in {"stop", "close", "exit"} /\ options'.release /\ ~aborted'
    BY ConfirmPlace
  <2>2. asked'[s] # "on"
    BY <1>0, <2>1 DEF ReleaseInv, AfterRelease
  <2> QED BY <1>0, <2>2 DEF QueueInv
<1>2. CASE confirmed /\ heard
  <2>1. pc \in {"stop", "close", "exit"} /\ options.release /\ ~aborted
    BY <1>0, <1>2 DEF ConfirmInv
  <2>2. Newest(requests[s]) # "on"
    BY <1>0, <2>1, ReleasedQueues DEF AfterRelease
  <2> QED BY <1>0, <1>1, <1>2, <2>1, <2>2, SettledStays
<1>3. CASE ~(confirmed /\ heard)
  <2>1. ListAnswers \/ ListTimesOut
    BY <1>3, ServeEffect DEF Next, Control, vars, session, Start, PrepareRaises, FirstHold, WaitForServices, Iterate,
       HoldTimesOut, SwitchTimesOut, EndRollout, Shutdown, Confirm, SafeStop, Close, CallRaises, Interrupt, Tick,
       OperatorActivates, Move
  <2>2. ASSUME pc \in {"polling", "confirming"}, NEW state, ListReturns(state), UNCHANGED <<controller, requests>>,
               state # None => state = controller[options.arms[call.arm]]
        PROVE  SettledArm(s)'
    <3>1. call \in Call /\ call.arm \in 1..Len(options.arms) /\ Len(options.arms) \in Nat
      BY <1>0, <2>2, SelectedArm DEF TypeOK, CallType, Calling
    <3>2. pc = "confirming" /\ ~(call.arm < Len(options.arms))
      BY <1>0, <1>3, <2>2 DEF ListReturns, Polled, ConfirmInv
    <3>3. NoneActive(state) /\ call.heard /\ state # None
      BY <2>2, <3>2 DEF ListReturns, Polled
    <3>4. call.ok /\ state # "active"
      BY <3>3 DEF NoneActive
    <3>5. options.arms[call.arm] \in Side /\ call.arm = Len(options.arms)
      BY <1>0, <3>1, <3>2, SelectedArm DEF TypeOK
    <3>6. SettledArm(options.arms[call.arm])
      BY <2>2, <3>3, <3>4 DEF SettledArm
    <3>7. PICK i \in 1..Len(options.arms) : s = options.arms[i]
      BY DEF Selected
    <3>8. i = call.arm \/ i \in 1..call.arm - 1
      BY <3>1, <3>5, <3>7
    <3>9. SettledArm(s)
      BY <1>0, <3>2, <3>3, <3>4, <3>6, <3>7, <3>8 DEF ConfirmInv
    <3> QED BY <2>2, <3>9 DEF SettledArm
  <2>3. CASE ListAnswers
    BY <1>1, <2>2, <2>3 DEF ListAnswers, arms, switches
  <2>4. CASE ListTimesOut
    BY <1>1, <2>2, <2>4 DEF ListTimesOut, arms, switches
  <2> QED BY <2>1, <2>3, <2>4
<1> QED BY <1>1, <1>2, <1>3

-----------------------------------------------------------------------------
\* The reference of a gello rollout.

LEMMA ReferenceInit == Init => ReferenceInv
<1> SUFFICES ASSUME Init PROVE ReferenceInv
  OBVIOUS
<1>1. ReferenceIsThePose
  BY DEF Init, ReferenceIsThePose
<1>2. PollsInTime
  BY SessionAssumption DEF Init, PollsInTime
<1>3. PublishedSince
  BY DEF Init, PublishedSince, HoldPhase
<1> QED BY <1>1, <1>2, <1>3 DEF ReferenceInv

\* The numbers the argument is about.
LEMMA ReferenceTypes ==
  ASSUME TypeOK
  PROVE  /\ Selected \subseteq Side
         /\ \A s \in Side : published[s] \in Int /\ pose[s] \in Int /\ captured[s] \in Int
         /\ clock \in Int /\ lastPoll \in Int /\ iteration \in Int /\ still \in Int
         /\ PollTicks \in Int /\ PollTicks > 0 /\ WindowTicks \in Int /\ PollTicks <= WindowTicks
<1>1. Selected \subseteq Side
  BY SelectedArm DEF TypeOK
<1>2. clock \in Int /\ lastPoll \in Int /\ iteration \in Int
  BY ClockRange, SessionAssumption DEF TypeOK, ClockType
<1>3. still \in Int
  BY SessionAssumption DEF TypeOK, WireType
<1>4. \A s \in Side : published[s] \in 0..MaxMoves /\ pose[s] \in 0..MaxMoves /\ captured[s] \in 0..MaxMoves
  BY DEF TypeOK, WireType, ArmsType
<1>5. \A n \in 0..MaxMoves : n \in Int
  BY SessionAssumption
<1>6. \A s \in Side : published[s] \in Int /\ pose[s] \in Int /\ captured[s] \in Int
  BY <1>4, <1>5
<1> QED BY <1>1, <1>2, <1>3, <1>6, SessionAssumption

LEMMA OneArmStays == [Next]_vars /\ OneArm' => OneArm
<1>1. [Next]_vars => (slow => slow')
  BY DEF Next, Control, vars, Start, PrepareRaises, FirstHold, WaitForServices, Iterate, HoldTimesOut,
     SwitchTimesOut, ListAnswers, ListTimesOut, EndRollout, Shutdown, Confirm, SafeStop, Close,
     CallRaises, Interrupt, Tick, Serve, OperatorActivates, Move
<1> QED BY <1>1, OptionsStay DEF OneArm

\* Of one selected arm, the call that is out is to it, and is the last.
LEMMA OnlyCall ==
  ASSUME TypeOK, OneArm, pc \in Calling
  PROVE  call.arm = 1 /\ ~(call.arm < Len(options.arms)) /\ call.arm = Len(options.arms)
         /\ \A s \in Selected : s = options.arms[call.arm]
<1>1. call.arm \in 1..1 /\ Len(options.arms) = 1
  BY DEF TypeOK, CallType, OneArm
<1>2. \A s \in Selected : \E i \in 1..1 : s = options.arms[i]
  BY <1>1 DEF Selected
<1> QED BY <1>1, <1>2

\* A step out of the hold, or outside of it.
LEMMA LeavesHold ==
  ASSUME ReferenceInv, pc' \in PC \ (HoldPhase \cup {"start", "prepare"}), OneArm' => OneArm,
         UNCHANGED <<options, activated, reference, captured, pose>>
  PROVE  ReferenceInv'
<1>1. ReferenceIsThePose'
  BY DEF ReferenceInv, ReferenceIsThePose, Selected
<1>2. PollsInTime' /\ PublishedSince'
  BY DEF PollsInTime, PublishedSince, HoldPhase
<1> QED BY <1>1, <1>2 DEF ReferenceInv

\* What the managers and the operator do to an arm.
LEMMA Captures ==
  ASSUME NEW s \in Side, Serve(s) \/ OperatorActivates(s), TypeOK
  PROVE  \A r \in Side :
           /\ captured'[r] \in {captured[r], pose[r]}
           /\ controller'[r] = "active" =>
                captured'[r] = pose[r] \/ (controller[r] = "active" /\ captured'[r] = captured[r])
<1>1. \/ UNCHANGED <<controller, captured>>
      \/ /\ controller' = [controller EXCEPT ![s] = "active"]
         /\ captured' = [captured EXCEPT ![s] = pose[s]]
      \/ controller' = [controller EXCEPT ![s] = "inactive"] /\ UNCHANGED captured
  BY DEF Serve, OperatorActivates
<1>2. controller \in [Side -> {"inactive", "active", "down"}] /\ captured \in [Side -> 0..MaxMoves]
  BY DEF TypeOK, ArmsType
<1> QED BY <1>1, <1>2

\* An arm captured anew has its pose, the others what they had: with the
\* control thread's counters where they were, or a poll begun.
LEMMA CapturesInTime ==
  ASSUME TypeOK, ReferenceInv, OneArm, pc \in HoldPhase,
         pc' = pc \/ pc' \in {"polling", "asleep"},
         pc' = "polling" => (pc = "polling" \/ pc = "activating"),
         pc' \in HoldPhase,
         pc' = "polling" \/ lastPoll' = lastPoll,
         UNCHANGED <<options, clock, published, still, pose>>,
         pc' \in {"services", "activating", "polling"} => published = pose,
         \A r \in Side :
           /\ captured'[r] \in {captured[r], pose[r]}
           /\ controller'[r] = "active" =>
                captured'[r] = pose[r] \/ (controller[r] = "active" /\ captured'[r] = captured[r]),
         pc # "polling" \/ pc' = "polling"
  PROVE  PublishedSince'
<1>1. \A s \in Selected : published[s] <= pose[s]
  BY DEF ReferenceInv, PublishedSince
<1>2. ASSUME NEW s \in Selected, controller'[s] = "active"
      PROVE  /\ captured'[s] <= pose[s]
             /\ captured'[s] < published[s] =>
                  still <= IF pc' = "polling" THEN PollTicks ELSE clock - lastPoll'
  <2>1. CASE captured'[s] = pose[s]
    BY <1>1, <2>1, ReferenceTypes
  <2>2. CASE controller[s] = "active" /\ captured'[s] = captured[s]
    <3>1. /\ captured[s] <= pose[s]
          /\ captured[s] < published[s] =>
               still <= IF pc = "polling" THEN PollTicks ELSE clock - lastPoll
      BY <2>2 DEF ReferenceInv, PublishedSince
    <3>2. pc \in {"services", "hold", "activating", "polling", "asleep"} => clock - lastPoll <= PollTicks
      BY DEF ReferenceInv, PollsInTime
    <3> QED BY <2>2, <3>1, <3>2, ReferenceTypes DEF HoldPhase
  <2> QED BY <1>2, <2>1, <2>2, ReferenceTypes
<1>3. Selected' = Selected
  BY DEF Selected
<1> QED BY <1>1, <1>2, <1>3 DEF PublishedSince

\* A controller's activation outside the hold is at the pose of the reference.
LEMMA CapturesThePose ==
  ASSUME TypeOK, ReferenceInv, OneArm' => OneArm,
         pc' \in HoldPhase => pc \in HoldPhase, pc' \notin {"start", "prepare"} \/ pc' = pc,
         UNCHANGED <<options, activated, reference, pose>>,
         \A r \in Side : captured'[r] \in {captured[r], pose[r]}
  PROVE  ReferenceIsThePose'
<1>1. Selected' = Selected /\ Selected \subseteq Side
  BY SelectedArm DEF Selected, TypeOK
<1> QED BY <1>1 DEF ReferenceInv, ReferenceIsThePose

\* switch() goes on, or hands over to a poll, or to the sleep.
LEMMA SwitchInTime ==
  ASSUME TypeOK, ReferenceInv, OneArm, pc = "activating", NEW ok, NEW q, SwitchReturns(ok, q),
         UNCHANGED <<options, iteration, published, pose>>
  PROVE  /\ PollsInTime' /\ clock' = clock
         /\ pc' \in {"activating", "polling", "asleep"}
         /\ pc' = "polling" \/ lastPoll' = lastPoll
<1>1. /\ lastPoll <= clock /\ clock - lastPoll <= PollTicks
      /\ clock < HoldTicks /\ iteration = clock
  BY DEF ReferenceInv, PollsInTime
<1>2. CASE pc' = pc /\ UNCHANGED <<clock, lastPoll>> /\ call'.blocked = 0
  BY <1>1, <1>2 DEF PollsInTime
<1>3. CASE PollOrSleep(iteration) /\ UNCHANGED clock
  <2>1. CASE iteration - lastPoll >= PollTicks
    <3>1. pc' = "polling" /\ call' = NewCall /\ lastPoll' = clock /\ clock' = clock /\ iteration' = clock
      BY <1>1, <1>3, <2>1 DEF PollOrSleep
    <3>2. call'.blocked = 0 /\ call'.ok
      BY <3>1 DEF NewCall, CallTo
    <3> QED BY <1>1, <3>1, <3>2, ReferenceTypes DEF PollsInTime
  <2>2. CASE ~(iteration - lastPoll >= PollTicks)
    <3>1. pc' = "asleep" /\ lastPoll' = lastPoll /\ clock' = clock /\ iteration' = clock
      BY <1>1, <1>3, <2>2 DEF PollOrSleep
    <3> QED BY <1>1, <2>2, <3>1, ReferenceTypes DEF PollsInTime
  <2> QED BY <2>1, <2>2
<1>4. \/ pc' = pc /\ UNCHANGED <<clock, lastPoll>> /\ call'.blocked = 0
      \/ PollOrSleep(iteration) /\ UNCHANGED clock
  BY DEF SwitchReturns, CallTo
<1> QED BY <1>2, <1>3, <1>4 DEF PollOrSleep

\* The steps to the hold's first pose.
LEMMA StartReference ==
  ASSUME IInv, ReferenceInv, OneArm' => OneArm, Start \/ FirstHold \/ WaitForServices
  PROVE  ReferenceInv'
<1>1. CASE Start
  <2>1. ReferenceIsThePose'
    BY <1>1 DEF Start, session, ReferenceInv, ReferenceIsThePose
  <2>2. OneArm' => PollsInTime'
    BY <1>1 DEF Start, progress, ReferenceInv, PollsInTime
  <2>3. PublishedSince'
    BY <1>1 DEF Start, PublishedSince, HoldPhase
  <2> QED BY <2>1, <2>2, <2>3 DEF ReferenceInv
<1>2. CASE FirstHold
  <2>1. ReferenceIsThePose'
    BY <1>2 DEF FirstHold, ReferenceInv, ReferenceIsThePose
  <2>2. OneArm' => PollsInTime'
    <3> SUFFICES ASSUME OneArm' PROVE PollsInTime'
      OBVIOUS
    <3>1. clock' = 0 /\ lastPoll' = -PollTicks /\ pc' \in {"services", "rollout"}
      BY <1>2 DEF FirstHold, progress, ReferenceInv, PollsInTime
    <3> QED BY <3>1, SessionAssumption DEF PollsInTime
  <2>3. PublishedSince'
    <3>1. /\ \A s \in Side : controller'[s] = "inactive"
          /\ published' = pose /\ pose' = pose /\ options' = options
          /\ pc' \in {"services", "rollout"}
      BY <1>2 DEF FirstHold, arms, IInv, StreamInv
    <3>2. Selected' \subseteq Side
      BY <3>1, SelectedArm DEF IInv, TypeOK, Selected
    <3>3. \A s \in Selected' : published'[s] <= pose'[s]
      BY <3>1, <3>2, ReferenceTypes DEF IInv
    <3> QED BY <3>1, <3>2, <3>3 DEF PublishedSince
  <2> QED BY <2>1, <2>2, <2>3 DEF ReferenceInv
<1>3. CASE WaitForServices
  <2>1. ReferenceIsThePose'
    BY <1>3 DEF WaitForServices, session, ReferenceInv, ReferenceIsThePose, HoldPhase
  <2>2. OneArm' => PollsInTime'
    BY <1>3 DEF WaitForServices, progress, ReferenceInv, PollsInTime
  <2>3. OneArm' => PublishedSince'
    BY <1>3 DEF WaitForServices, progress, wire, arms, ReferenceInv, PublishedSince, HoldPhase, Selected
  <2> QED BY <2>1, <2>2, <2>3 DEF ReferenceInv
<1> QED BY <1>1, <1>2, <1>3

\* A new pose is published: the stillness begins anew.
LEMMA IterateReference ==
  ASSUME IInv, ReferenceInv, OneArm' => OneArm, Iterate
  PROVE  ReferenceInv'
<1>1. /\ pc = "hold" /\ clock < HoldTicks /\ iteration' = clock /\ clock' = clock
      /\ published' = pose /\ pose' = pose /\ options' = options
      /\ captured' = captured /\ controller' = controller /\ activated' = activated
      /\ still' = IF published' = published THEN still ELSE 0
      /\ \/ pc' = "activating" /\ lastPoll' = lastPoll /\ call' = NewCall
         \/ pc' = "teardown"
         \/ PollOrSleep(clock)
  BY DEF Iterate, session, arms
<1>2. ReferenceIsThePose'
  BY <1>1 DEF ReferenceInv, ReferenceIsThePose, HoldPhase
<1>3. ASSUME OneArm' PROVE PollsInTime' /\ PublishedSince'
  <2>1. lastPoll <= clock /\ clock - lastPoll <= PollTicks
    BY <1>1, <1>3 DEF ReferenceInv, PollsInTime
  <2>2. CASE pc' = "teardown"
    BY <2>2 DEF PollsInTime, PublishedSince, HoldPhase
  <2>3. CASE pc' # "teardown"
    <3>1. \/ pc' = "activating" /\ lastPoll' = lastPoll /\ call' = NewCall
          \/ pc' = "polling" /\ lastPoll' = clock /\ call' = NewCall
          \/ pc' = "asleep" /\ lastPoll' = lastPoll /\ ~(clock - lastPoll >= PollTicks)
      BY <1>1, <2>3 DEF PollOrSleep
    <3>2. NewCall.blocked = 0 /\ NewCall.ok
      BY DEF NewCall, CallTo
    <3>3. PollsInTime'
      BY <1>1, <2>1, <3>1, <3>2, ReferenceTypes DEF IInv, PollsInTime
    <3>4. Selected' = Selected /\ Selected \subseteq Side
      BY <1>1, ReferenceTypes DEF IInv, Selected
    <3>5. ASSUME NEW s \in Selected, controller[s] = "active"
          PROVE  /\ captured[s] <= pose[s]
                 /\ captured[s] < pose[s] =>
                      still' <= IF pc' = "polling" THEN PollTicks ELSE clock - lastPoll'
      <4>1. /\ captured[s] <= pose[s]
            /\ captured[s] < published[s] => still <= clock - lastPoll
        BY <1>1, <1>3, <3>5 DEF ReferenceInv, PublishedSince, HoldPhase
      <4>2. CASE published' = published
        BY <1>1, <2>1, <3>1, <4>1, <4>2, ReferenceTypes DEF IInv
      <4>3. CASE published' # published
        BY <1>1, <2>1, <3>1, <4>1, <4>3, ReferenceTypes DEF IInv
      <4> QED BY <4>2, <4>3
    <3>6. \A s \in Selected : pose[s] <= pose[s]
      BY <3>4, ReferenceTypes DEF IInv
    <3> QED BY <1>1, <3>3, <3>4, <3>5, <3>6 DEF PublishedSince
  <2> QED BY <2>2, <2>3
<1> QED BY <1>2, <1>3 DEF ReferenceInv

\* A call of the hold that times out has taken time.
LEMMA TimeoutReference ==
  ASSUME IInv, ReferenceInv, OneArm' => OneArm, SwitchTimesOut \/ (ListTimesOut /\ pc = "polling")
  PROVE  ReferenceInv'
<1>1. OneArm' => pc \notin {"activating", "polling"}
  <2>1. call.blocked >= CallTicks
    BY DEF SwitchTimesOut, ListTimesOut
  <2> QED BY <2>1, SessionAssumption DEF ReferenceInv, PollsInTime
<1>2. CASE SwitchTimesOut /\ pc = "deactivating"
  <2>1. pc' \in {"deactivating", "confirm"}
    BY <1>2, SwitchReturnsTo DEF SwitchTimesOut
  <2> QED BY <1>2, <2>1, LeavesHold DEF SwitchTimesOut, session, arms, PC, HoldPhase, TeardownPhase
<1>3. CASE SwitchTimesOut /\ pc = "activating"
  <2>1. ~activated' /\ ~OneArm'
    BY <1>1, <1>3 DEF SwitchTimesOut, session, ReferenceInv, ReferenceIsThePose, HoldPhase
  <2> QED BY <2>1 DEF ReferenceInv, ReferenceIsThePose
<1>4. CASE ListTimesOut /\ pc = "polling"
  <2>1. ~OneArm'
    BY <1>1, <1>4
  <2>2. ~activated
    BY <1>4 DEF ReferenceInv, ReferenceIsThePose, HoldPhase
  <2>3. activated' => pc' = "rollout"
    BY <1>4, <2>2 DEF ListTimesOut, ListReturns, Polled
  <2> QED BY <2>1, <2>3 DEF ReferenceInv, ReferenceIsThePose, HoldPhase
<1> QED BY <1>2, <1>3, <1>4 DEF SwitchTimesOut, ListTimesOut

\* A poll that finds the arm active in a stream that stood still for a window
\* finds it at the pose of its capture.
LEMMA PollReference ==
  ASSUME IInv, ReferenceInv, OneArm' => OneArm, pc = "polling", ListAnswers
  PROVE  ReferenceInv'
<1>1. /\ ListReturns(controller[options.arms[call.arm]])
      /\ UNCHANGED <<options, clock, lastPoll, published, still, controller, captured, pose>>
  BY DEF ListAnswers, progress, wire, arms
<1>2. ~activated
  BY DEF ReferenceInv, ReferenceIsThePose, HoldPhase
<1>3. activated' => pc' = "rollout"
  BY <1>1, <1>2 DEF ListReturns, Polled
<1>4. CASE ~OneArm'
  BY <1>3, <1>4 DEF ReferenceInv, ReferenceIsThePose, HoldPhase
<1>5. CASE OneArm'
  <2>1. /\ ~(call.arm < Len(options.arms))
        /\ \A s \in Selected : s = options.arms[call.arm]
        /\ Selected' = Selected /\ Selected \subseteq Side
    BY <1>1, <1>5, OnlyCall, ReferenceTypes DEF IInv, Calling, Selected
  <2>2. /\ call.ok /\ lastPoll = clock /\ clock < HoldTicks /\ published = pose
        /\ \A s \in Selected : published[s] <= pose[s]
        /\ \A s \in Selected : controller[s] = "active" =>
             captured[s] <= pose[s] /\ (captured[s] < published[s] => still <= PollTicks)
    BY <1>5 DEF ReferenceInv, PollsInTime, PublishedSince, HoldPhase
  <2>3. Polled(AllActive(controller[options.arms[call.arm]]))
    BY <1>1, <2>1 DEF ListReturns
  <2>4. CASE controller[options.arms[call.arm]] # "active"
    <3>1. pc' = "asleep" /\ activated' = activated
      BY <2>3, <2>4 DEF Polled, AllActive
    <3>2. PollsInTime'
      BY <1>1, <2>2, <3>1, ReferenceTypes DEF IInv, PollsInTime
    <3>3. PublishedSince'
      BY <1>1, <2>1, <2>2, <2>4, <3>1 DEF PublishedSince
    <3> QED BY <1>2, <3>1, <3>2, <3>3 DEF ReferenceInv, ReferenceIsThePose
  <2>5. CASE controller[options.arms[call.arm]] = "active"
    <3>1. \/ pc' = "teardown" /\ activated' = activated
          \/ ~Moved /\ pc' = "rollout" /\ activated' /\ reference' = published
      BY <2>2, <2>3, <2>5 DEF Polled, AllActive
    <3>2. PollsInTime' /\ PublishedSince'
      BY <3>1 DEF PollsInTime, PublishedSince, HoldPhase
    <3>3. ASSUME NEW s \in Selected, ~Moved
          PROVE  captured[s] = pose[s]
      <4>1. still > WindowTicks
        BY <1>5, <3>3, ReferenceTypes DEF IInv, Moved, OneArm
      <4>2. captured[s] <= pose[s] /\ ~(captured[s] < pose[s])
        BY <2>1, <2>2, <2>5, <4>1, ReferenceTypes DEF IInv
      <4> QED BY <2>1, <4>2, ReferenceTypes DEF IInv
    <3>4. ReferenceIsThePose'
      BY <1>1, <1>2, <2>1, <2>2, <3>1, <3>3 DEF ReferenceIsThePose, HoldPhase
    <3> QED BY <3>2, <3>4 DEF ReferenceInv
  <2> QED BY <2>4, <2>5
<1> QED BY <1>4, <1>5

\* The iteration's sleep is over, or a call has begun to take time.
LEMMA TickReference ==
  ASSUME IInv, ReferenceInv, OneArm' => OneArm, Tick
  PROVE  ReferenceInv'
<1>1. pc \in {"asleep", "resting", "rollout", "exit"} \cup Calling
  BY DEF Tick, IInv, TypeOK, CallType
<1>2. /\ UNCHANGED <<options, activated, reference, captured, pose, lastPoll, published>>
      /\ still' = Least(still + 1, WindowTicks + 1)
      /\ slow' = (slow \/ pc \in {"activating", "polling"})
  BY DEF Tick, session
<1>3. CASE pc \in {"activating", "polling"}
  <2>1. ~activated' /\ ~OneArm'
    BY <1>2, <1>3 DEF ReferenceInv, ReferenceIsThePose, HoldPhase, OneArm
  <2> QED BY <2>1 DEF ReferenceInv, ReferenceIsThePose
<1>4. CASE pc \in {"resting", "rollout", "exit", "deactivating", "confirming"}
  <2>1. pc' \in {"confirm", "rollout", "exit", "deactivating", "confirming"}
    BY <1>4 DEF Tick
  <2> QED BY <1>2, <2>1, LeavesHold DEF PC, HoldPhase, TeardownPhase
<1>5. CASE pc = "asleep"
  <2>1. ~activated'
    BY <1>2, <1>5 DEF ReferenceInv, ReferenceIsThePose, HoldPhase
  <2>2. pc' = "hold" /\ clock' = Least(clock + 1, MaxClock)
    BY <1>5 DEF Tick
  <2>3. ASSUME OneArm' PROVE PollsInTime' /\ PublishedSince'
    <3>1. lastPoll <= clock /\ clock - lastPoll < PollTicks /\ clock < HoldTicks
      BY <1>5, <2>3 DEF ReferenceInv, PollsInTime
    <3>2. clock' = clock + 1
      BY <2>2, <3>1, ReferenceTypes, SessionAssumption DEF IInv, Least, MaxClock
    <3>3. still' <= still + 1
      BY <1>2, ReferenceTypes, SessionAssumption DEF IInv, Least
    <3>4. PollsInTime'
      BY <1>2, <2>2, <3>1, <3>2, ReferenceTypes DEF IInv, PollsInTime
    <3>5. Selected' = Selected /\ Selected \subseteq Side
      BY <1>2, ReferenceTypes DEF IInv, Selected
    <3>6. ASSUME NEW s \in Selected, controller'[s] = "active"
          PROVE  /\ captured[s] <= pose[s]
                 /\ captured[s] < published[s] => still' <= clock' - lastPoll
      <4>1. controller[s] = "active"
        BY <3>5, <3>6 DEF Tick
      <4>2. /\ captured[s] <= pose[s]
            /\ captured[s] < published[s] => still <= clock - lastPoll
        BY <1>5, <2>3, <4>1 DEF ReferenceInv, PublishedSince, HoldPhase
      <4>3. still' \in Int
        BY <1>2, ReferenceTypes, SessionAssumption DEF IInv, Least
      <4> QED BY <3>2, <3>3, <4>2, <4>3, ReferenceTypes DEF IInv
    <3>7. \A s \in Selected : published[s] <= pose[s]
      BY <1>5, <2>3 DEF ReferenceInv, PublishedSince, HoldPhase
    <3>8. PublishedSince'
      BY <1>2, <2>2, <3>5, <3>6, <3>7 DEF PublishedSince
    <3> QED BY <3>4, <3>8
  <2> QED BY <2>1, <2>3 DEF ReferenceInv, ReferenceIsThePose
<1> QED BY <1>1, <1>3, <1>4, <1>5 DEF Calling

\* A manager serves a request, or an operator activates an arm.
LEMMA CaptureReference ==
  ASSUME IInv, ReferenceInv, OneArm' => OneArm, NEW s \in Side, Serve(s) \/ OperatorActivates(s)
  PROVE  ReferenceInv'
<1>1. UNCHANGED <<options, iteration, activated, reference, published, still, pose>>
  BY DEF Serve, OperatorActivates, progress, session, wire
<1>2. \/ UNCHANGED <<pc, call, clock, lastPoll>>
      \/ /\ pc \in {"activating", "deactivating"}
         /\ \E ok \in BOOLEAN : SwitchReturns(ok, [requests EXCEPT ![s] = Tail(@)])
  BY DEF Serve, OperatorActivates, progress, Accepts
<1>3. TypeOK
  BY DEF IInv
<1>4. \A r \in Side :
        /\ captured'[r] \in {captured[r], pose[r]}
        /\ controller'[r] = "active" =>
             captured'[r] = pose[r] \/ (controller[r] = "active" /\ captured'[r] = captured[r])
  BY <1>3, Captures
<1>5. CASE UNCHANGED <<pc, call, clock, lastPoll>>
  <2>1. ReferenceIsThePose'
    BY <1>1, <1>3, <1>4, <1>5, CapturesThePose
  <2>2. OneArm' => PollsInTime'
    BY <1>1, <1>5 DEF ReferenceInv, PollsInTime
  <2>3. ASSUME OneArm', pc \in HoldPhase PROVE PublishedSince'
    <3>1. pc' \in {"services", "activating", "polling"} => published = pose
      BY <1>5, <2>3 DEF ReferenceInv, PublishedSince
    <3> QED BY <1>1, <1>3, <1>4, <1>5, <2>3, <3>1, CapturesInTime
  <2>4. pc \notin HoldPhase => PublishedSince'
    BY <1>5 DEF PublishedSince, HoldPhase
  <2> QED BY <2>1, <2>2, <2>3, <2>4 DEF ReferenceInv
<1>6. ASSUME NEW ok \in BOOLEAN, SwitchReturns(ok, [requests EXCEPT ![s] = Tail(@)]),
             pc = "activating"
      PROVE  ReferenceInv'
  <2>1. ~activated'
    BY <1>1, <1>6 DEF ReferenceInv, ReferenceIsThePose, HoldPhase
  <2>2. ASSUME OneArm' PROVE PollsInTime' /\ PublishedSince'
    <3>1. /\ PollsInTime' /\ clock' = clock
          /\ pc' \in {"activating", "polling", "asleep"}
          /\ pc' = "polling" \/ lastPoll' = lastPoll
      BY <1>1, <1>3, <1>6, <2>2, SwitchInTime
    <3>2. published = pose
      BY <1>6, <2>2 DEF ReferenceInv, PublishedSince
    <3>3. pc \in HoldPhase /\ pc' \in HoldPhase
      BY <1>6, <3>1 DEF HoldPhase
    <3> QED BY <1>1, <1>3, <1>4, <1>6, <2>2, <3>1, <3>2, <3>3, CapturesInTime
  <2> QED BY <2>1, <2>2 DEF ReferenceInv, ReferenceIsThePose
<1>7. ASSUME NEW ok \in BOOLEAN, SwitchReturns(ok, [requests EXCEPT ![s] = Tail(@)]),
             pc = "deactivating"
      PROVE  ReferenceInv'
  <2>1. pc' \in {"deactivating", "confirm"}
    BY <1>7, SwitchReturnsTo
  <2>2. ReferenceIsThePose'
    BY <1>1, <1>3, <1>4, <2>1, CapturesThePose DEF HoldPhase
  <2>3. PollsInTime' /\ PublishedSince'
    BY <2>1 DEF PollsInTime, PublishedSince, HoldPhase
  <2> QED BY <2>2, <2>3 DEF ReferenceInv
<1> QED BY <1>2, <1>5, <1>6, <1>7

\* An arm moves while it is held.
LEMMA MoveReference ==
  ASSUME IInv, ReferenceInv, OneArm' => OneArm, NEW s \in Side, Move(s)
  PROVE  ReferenceInv'
<1>1. /\ pc = "asleep" \/ (pc \in {"activating", "polling"} /\ call.blocked > 0)
      /\ pose' = [pose EXCEPT ![s] = @ + 1]
      /\ UNCHANGED <<options, pc, call, clock, iteration, lastPoll, activated, reference,
                     published, still, controller, captured>>
  BY DEF Move, progress, session, wire
<1>2. ~activated'
  BY <1>1 DEF ReferenceInv, ReferenceIsThePose, HoldPhase
<1>3. ASSUME OneArm' PROVE PollsInTime' /\ PublishedSince'
  <2>1. PollsInTime /\ PublishedSince
    BY <1>3 DEF ReferenceInv
  <2>2. pc = "asleep"
    BY <1>1, <2>1, SessionAssumption DEF PollsInTime
  <2>3. PollsInTime'
    BY <1>1, <2>1 DEF PollsInTime
  <2>4. \A r \in Side : pose'[r] \in Int /\ pose[r] <= pose'[r]
    <3>1. pose \in [Side -> 0..MaxMoves]
      BY DEF IInv, TypeOK, ArmsType
    <3> QED BY <1>1, <3>1, ReferenceTypes DEF IInv
  <2>5. Selected' = Selected /\ Selected \subseteq Side
    BY <1>1, ReferenceTypes DEF IInv, Selected
  <2>6. \A r \in Selected :
          /\ published[r] <= pose[r]
          /\ controller[r] = "active" =>
               captured[r] <= pose[r] /\ (captured[r] < published[r] => still <= clock - lastPoll)
    BY <2>1, <2>2 DEF PublishedSince, HoldPhase
  <2>7. \A r \in Selected :
          /\ published[r] <= pose'[r]
          /\ controller[r] = "active" => captured[r] <= pose'[r]
    BY <2>4, <2>5, <2>6, ReferenceTypes DEF IInv
  <2> QED BY <1>1, <2>2, <2>3, <2>5, <2>6, <2>7 DEF PublishedSince
<1> QED BY <1>2, <1>3 DEF ReferenceInv, ReferenceIsThePose

LEMMA ReferenceStep == IInv /\ ReferenceInv /\ [Next]_vars => ReferenceInv'
<1> SUFFICES ASSUME IInv, ReferenceInv, [Next]_vars PROVE ReferenceInv'
  OBVIOUS
<1>1. OneArm' => OneArm
  BY OneArmStays
<1>2. CASE UNCHANGED vars
  BY <1>2 DEF vars, progress, session, wire, arms, ReferenceInv, ReferenceIsThePose, PollsInTime,
     PublishedSince, OneArm, Selected
<1>3. CASE PrepareRaises \/ HoldTimesOut \/ EndRollout \/ Shutdown \/ Confirm \/ SafeStop \/ Close
  <2>1. pc' \in {"teardown", "deactivating", "stop", "confirming", "close", "exit"}
    BY <1>3 DEF PrepareRaises, HoldTimesOut, EndRollout, Shutdown, Confirm, SafeStop, Close
  <2>2. UNCHANGED <<options, activated, reference, captured, pose>>
    BY <1>3 DEF PrepareRaises, HoldTimesOut, EndRollout, Shutdown, Confirm, SafeStop, Close, session, arms
  <2> QED BY <1>1, <2>1, <2>2, LeavesHold DEF PC, HoldPhase, TeardownPhase
<1>4. CASE CallRaises \/ Interrupt
  <2>1. pc' \in {"teardown", "exit"} /\ UNCHANGED <<options, activated, reference, captured, pose>>
    BY <1>4 DEF CallRaises, Interrupt, Throw, arms
  <2> QED BY <1>1, <2>1, LeavesHold DEF PC, HoldPhase
<1>5. CASE pc = "confirming" /\ (ListAnswers \/ ListTimesOut)
  <2>1. /\ pc' \in {"confirming", "stop", "resting"}
        /\ UNCHANGED <<options, activated, reference, captured, pose>>
    BY <1>5 DEF ListAnswers, ListTimesOut, ListReturns, Polled, arms
  <2> QED BY <1>1, <2>1, LeavesHold DEF PC, HoldPhase, TeardownPhase
<1>6. CASE ListAnswers /\ pc = "polling"
  BY <1>1, <1>6, PollReference
<1>7. CASE SwitchTimesOut \/ (ListTimesOut /\ pc = "polling")
  BY <1>1, <1>7, TimeoutReference
<1>8. CASE Start \/ FirstHold \/ WaitForServices
  BY <1>1, <1>8, StartReference
<1>9. CASE Iterate
  BY <1>1, <1>9, IterateReference
<1>10. CASE Tick
  BY <1>1, <1>10, TickReference
<1>11. ASSUME NEW s \in Side, Serve(s) \/ OperatorActivates(s) \/ Move(s)
       PROVE  ReferenceInv'
  BY <1>1, <1>11, CaptureReference, MoveReference
<1> QED BY <1>2, <1>3, <1>4, <1>5, <1>6, <1>7, <1>8, <1>9, <1>10, <1>11
         DEF Next, Control, ListAnswers, ListTimesOut

-----------------------------------------------------------------------------
\* The invariant, and the properties it was made for.

LEMMA NextInv == IInv /\ [Next]_vars => IInv'
<1> SUFFICES ASSUME IInv, [Next]_vars PROVE IInv'
  OBVIOUS
<1>1. TypeOK' /\ StreamInv' /\ AskedInv' /\ PollInv' /\ ReleaseInv' /\ QueueInv' /\ ConfirmInv'
  BY TypeStep, StreamStep, AskedStep, PollStep, ReleaseStep, QueueStep, ConfirmStep DEF IInv
<1>2. LaunchSurvives' /\ RolloutOnActiveArms' /\ ConfirmedMeansReleased'
  BY LaunchStep, RolloutStep, ConfirmedStep
<1>3. ActivationIsTakenBack'
  BY <1>1 DEF ActivationIsTakenBack, StreamInv, ReleaseInv, AfterRelease
<1> QED BY <1>1, <1>2, <1>3 DEF IInv

LEMMA Invariance == Spec => []IInv
  BY InitInv, NextInv, PTL DEF Spec

\* Every variable of the session keeps its type, and a call in flight is to
\* one of the selected arms, for every command line and every timing.
THEOREM SessionTypeCorrect == Spec => []TypeOK
<1>1. IInv => TypeOK
  BY DEF IInv
<1> QED BY <1>1, Invariance, PTL

\* No controller of a program that waits for its arms, or activates them,
\* starves while the publisher is open: the keep-alive that
\* keepalive_gap_report insists on outlives every blocking call.
THEOREM LaunchHolds == Spec => []LaunchSurvives
<1>1. IInv => LaunchSurvives
  BY DEF IInv
<1> QED BY <1>1, Invariance, PTL

\* The arms that hold_until_activated found active one after the other are
\* active together when the rollout starts and until it ends.
THEOREM RolloutHolds == Spec => []RolloutOnActiveArms
<1>1. IInv => RolloutOnActiveArms
  BY DEF IInv
<1> QED BY <1>1, Invariance, PTL

\* shutdown() asks every arm the program may have activated to deactivate
\* before the stream ends, whichever step the run failed in.
THEOREM TakenBackHolds == Spec => []ActivationIsTakenBack
<1>1. IInv => ActivationIsTakenBack
  BY DEF IInv
<1> QED BY <1>1, Invariance, PTL

\* When wait_until(active=False) returns on answers alone, what each manager
\* still has to serve ends in a deactivation, and an arm whose manager has
\* nothing to serve is not active, from then on: however late an activation
\* that timed out is served, it does not stand.
THEOREM ReleasedHolds == Spec => []ConfirmedMeansReleased
<1>1. IInv => ConfirmedMeansReleased
  BY DEF IInv
<1> QED BY <1>1, Invariance, PTL

\* With one arm, and service calls that answer at once, the (q0, g0) that
\* capture_activation_reference takes for a gello rollout are the ones the
\* arm's controller took in on_activate, for every timing of the polls, the
\* window and the arm's moves.
THEOREM ReferenceHolds == Spec => []ReferenceIsTheControllers
<1>1. Init => IInv /\ ReferenceInv
  BY InitInv, ReferenceInit
<1>2. IInv /\ ReferenceInv /\ [Next]_vars => (IInv /\ ReferenceInv)'
  BY NextInv, ReferenceStep
<1>3. IInv /\ ReferenceInv => ReferenceIsTheControllers
  BY DEF ReferenceInv, ReferenceIsThePose, ReferenceIsTheControllers, OneArm
<1> QED BY <1>1, <1>2, <1>3, PTL DEF Spec

=============================================================================
