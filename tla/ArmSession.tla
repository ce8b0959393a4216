------------------------------ MODULE ArmSession ------------------------------
(***************************************************************************)
(* camelo/runner/real_arms.py with camelo/ros/arm_activation.py: the       *)
(* choreography around a rollout on the real arms, as scripts/run_policy   *)
(* runs it.  Verify, hold the measured pose on the command stream, have    *)
(* the arm controllers activated (by this program or by an operator), run, *)
(* deactivate while the stream is still up, and only then end the stream.  *)
(*                                                                         *)
(* Four actors: the control thread, which blocks in service calls; the     *)
(* publisher's keep-alive, which repeats the last pose while it blocks;    *)
(* the controller manager of each arm (external); and the people: one may  *)
(* activate an arm, press Ctrl+C, or push an arm that is being held.       *)
(*                                                                         *)
(* Time is counted in ticks, a tick per iteration of the hold loop; what   *)
(* the control thread computes takes none.  An arm's pose is the number of *)
(* times it has moved by more than ACTIVATION_DRIFT_TOL_RAD.               *)
(***************************************************************************)
EXTENDS Integers, Sequences

CONSTANTS
  Side,           \* the arms' names
  Options,        \* the command lines to consider
  PollTicks,      \* ACTIVATION_POLL_S
  WindowTicks,    \* activation_window_s: the poll interval and a margin
  LeadTicks,      \* ACTIVATION_STREAM_LEAD_S
  HoldTicks,      \* hold_timeout_s
  ConfirmTicks,   \* SWITCH_CONFIRM_TIMEOUT_S
  CallTicks,      \* call_timeout_s
  LivenessTicks,  \* the 2.0 s without a sample a controller tolerates
  MaxInterrupts,  \* bound on the Ctrl+C presses
  MaxMoves,       \* bound on an arm's moves while it is held
  None

\* A command line: the selected arms in order (--arms), --wait-for-activation,
\* --activate-arms, --deactivate-on-exit, a --keepalive-hz above 0, and
\* --arm-command-frame gello.
Option == [arms : Seq(Side), wait : BOOLEAN, activate : BOOLEAN,
           release : BOOLEAN, keepalive : BOOLEAN, gello : BOOLEAN]

ASSUME SessionAssumption ==
  /\ \A o \in Options : o \in Option /\ Len(o.arms) > 0
  /\ PollTicks \in Nat \ {0}
  /\ WindowTicks \in Nat /\ WindowTicks >= PollTicks
  /\ LeadTicks \in Nat
  /\ HoldTicks \in Nat
  /\ ConfirmTicks \in Nat
  /\ CallTicks \in Nat \ {0}
  /\ LivenessTicks \in Nat \ {0}
  /\ MaxInterrupts \in Nat
  /\ MaxMoves \in Nat
  /\ None \notin {"inactive", "active", "down"}

VARIABLES
  options,     \* the command line
  pc,          \* where the control thread is
  call,        \* the service call it blocks in, or None
  clock,       \* ticks since the hold, or the confirmation, began
  iteration,   \* clock at the start of the hold loop's iteration
  lastPoll,    \* last_poll
  switched,    \* the activation switch has been made
  discovered,  \* wait_for_services succeeded
  activated,   \* RealArmSession.activated
  reference,   \* the published pose taken as (q0, g0) at activation, or None
  confirmed,   \* what deactivate_controllers returned
  heard,       \* every arm's state in the last poll was an answer, not a timeout
  aborted,     \* an exception cut the teardown before the arms were released
  stream,      \* nothing published yet, live, or ended with the publisher
  silence,     \* ticks since the last sample, LivenessTicks at most
  published,   \* the poses of the last sample
  still,       \* ticks since they last changed, WindowTicks + 1 at most
  controller,  \* the state of each arm's joint_impedance_controller
  captured,    \* the pose each controller took as its q0 in on_activate
  requests,    \* switch requests each controller manager has yet to serve
  asked,       \* the last switch requested of each arm
  pose,        \* the arms' measured poses
  slow,        \* a service call made during the hold took time
  interrupts   \* the Ctrl+C presses so far

progress == <<clock, iteration, lastPoll, switched>>

session == <<activated, reference, confirmed, heard, aborted>>

wire == <<stream, silence, published, still>>

arms == <<controller, captured, pose>>

switches == <<requests, asked>>

vars == <<options, pc, call, progress, discovered, session, wire, arms, switches, slow, interrupts>>

Selected == {options.arms[i] : i \in 1..Len(options.arms)}

\* run_policy builds an ArmControllers only when it has activation to do.
UsesControllers == options.wait \/ options.activate

HoldPhase == {"services", "hold", "activating", "polling", "asleep"}

TeardownPhase == {"deactivating", "confirm", "confirming", "resting"}

Calling == {"activating", "polling", "deactivating", "confirming"}

PC == {"start", "prepare", "rollout", "teardown", "stop", "close", "exit"}
        \cup HoldPhase \cup TeardownPhase

Least(a, b) == IF a < b THEN a ELSE b

MaxClock == HoldTicks + ConfirmTicks

Init ==
  /\ options \in Options
  /\ pc = "start"
  /\ call = None
  /\ clock = 0 /\ iteration = 0 /\ lastPoll = -PollTicks /\ switched = FALSE
  /\ discovered = FALSE
  /\ activated = FALSE /\ reference = None
  /\ confirmed = FALSE /\ heard = FALSE /\ aborted = FALSE
  /\ stream = "none"
  /\ silence = LivenessTicks
  /\ published = [s \in Side |-> 0]
  /\ still = WindowTicks + 1
  /\ controller = [s \in Side |-> "inactive"]
  /\ captured = [s \in Side |-> 0]
  /\ pose = [s \in Side |-> 0]
  /\ requests = [s \in Side |-> <<>>]
  /\ asked = [s \in Side |-> "nothing"]
  /\ slow = FALSE
  /\ interrupts = 0

-----------------------------------------------------------------------------
\* Starting and holding.

\* Mutant: a run without a keep-alive thread may activate.
NeverRefuses == FALSE

\* keepalive_gap_report(): nothing would publish across the blocking calls.
GapRefused == UsesControllers /\ ~options.keepalive

Start ==
  /\ pc = "start"
  /\ pc' = IF GapRefused THEN "exit" ELSE "prepare"
  /\ stream' = IF GapRefused THEN "ended" ELSE stream
  /\ UNCHANGED <<options, call, progress, discovered, session, silence, published, still,
                 arms, switches, slow, interrupts>>

\* verify(), check_state_liveness() or the warm-up raises.
PrepareRaises ==
  /\ pc = "prepare"
  /\ pc' = "teardown"
  /\ UNCHANGED <<options, call, progress, discovered, session, wire, arms, switches, slow, interrupts>>

\* hold_until_activated(), to its first publish; with no controllers the
\* reference is taken at once and the rollout starts.
FirstHold ==
  /\ pc = "prepare"
  /\ stream' = "live" /\ silence' = 0 /\ published' = pose
  /\ IF UsesControllers
     THEN pc' = "services" /\ UNCHANGED reference
     ELSE pc' = "rollout" /\ reference' = pose
  /\ UNCHANGED <<options, call, progress, discovered, activated, confirmed, heard, aborted,
                 still, arms, switches, slow, interrupts>>

\* wait_for_services(): all of them before any switch, or TimeoutError.
WaitForServices ==
  /\ pc = "services"
  /\ \/ pc' = "hold" /\ discovered' = TRUE
     \/ pc' = "teardown" /\ UNCHANGED discovered
  /\ UNCHANGED <<options, call, progress, session, wire, arms, switches, slow, interrupts>>

\* A call to the i-th selected arm: STRICT or not, what the answers before it
\* amount to, and whether every one of them was an answer.
CallTo(i, strict, ok, heard_) ==
  [arm |-> i, strict |-> strict, ok |-> ok, heard |-> heard_, blocked |-> 0]

NewCall == CallTo(1, FALSE, TRUE, TRUE)

\* A switch request to the i-th selected arm's controller manager, whose
\* other requests are q.  Without discovery it may reach nobody.
Send(i, wanted, q) ==
  LET s == options.arms[i]
  IN  /\ asked' = [asked EXCEPT ![s] = wanted]
      /\ \/ requests' = [q EXCEPT ![s] = Append(@, wanted)]
         \/ ~discovered /\ requests' = q

\* The end of an iteration that began at `start`: list_controllers when a poll
\* is due, then sleep.
PollOrSleep(start) ==
  IF start - lastPoll >= PollTicks
  THEN pc' = "polling" /\ call' = NewCall /\ lastPoll' = start
  ELSE pc' = "asleep" /\ call' = None /\ UNCHANGED lastPoll

\* One iteration of the hold loop, up to the first call it blocks in: publish
\* the pose; once the stream leads by LeadTicks, check its cadence (which may
\* raise PublishCadenceTooLow) and switch.
Iterate ==
  /\ pc = "hold"
  /\ clock < HoldTicks
  /\ iteration' = clock
  /\ silence' = 0
  /\ published' = pose
  /\ still' = IF published' = published THEN still ELSE 0
  /\ IF options.activate /\ ~switched /\ clock >= LeadTicks
     THEN \/ /\ pc' = "activating" /\ call' = NewCall /\ switched' = TRUE
             /\ Send(1, "on", requests)
             /\ UNCHANGED lastPoll
          \/ /\ pc' = "teardown"
             /\ UNCHANGED <<call, switched, lastPoll, switches>>
     ELSE PollOrSleep(clock) /\ UNCHANGED <<switched, switches>>
  /\ UNCHANGED <<options, clock, discovered, session, stream, arms, slow, interrupts>>

\* Mutant: the hold is not bounded.
NeverExpires == FALSE

HoldExpired == clock >= HoldTicks

\* TimeoutError; its message polls the states once more, to no effect.
HoldTimesOut ==
  /\ pc = "hold"
  /\ HoldExpired
  /\ pc' = "teardown"
  /\ UNCHANGED <<options, call, progress, discovered, session, wire, arms, switches, slow, interrupts>>

-----------------------------------------------------------------------------
\* The blocking service calls.  switch() asks every arm BEST_EFFORT and, when
\* one of them did not answer ok, every arm again STRICT; states() asks every
\* arm for its state.

\* switch()'s call to its current arm has answered `ok`, or timed out; the
\* managers have the requests q.
SwitchReturns(ok, q) ==
  LET good  == call.ok /\ ok
      last  == call.arm = Len(options.arms)
      again == ~last \/ (~good /\ ~call.strict)
  IN  IF again
      THEN /\ call' = IF last THEN CallTo(1, TRUE, TRUE, TRUE)
                    ELSE CallTo(call.arm + 1, call.strict, good, TRUE)
           /\ Send(call'.arm, IF pc = "activating" THEN "on" ELSE "off", q)
           /\ UNCHANGED <<pc, clock, lastPoll>>
      ELSE /\ requests' = q /\ UNCHANGED asked
           /\ IF pc = "activating"
              THEN PollOrSleep(iteration) /\ UNCHANGED clock
              ELSE pc' = "confirm" /\ call' = None /\ clock' = 0 /\ UNCHANGED lastPoll

\* on_activate accepts only a recent sample.
Fresh == silence < LivenessTicks

Accepts(s, wanted) == controller[s] # "down" /\ (wanted = "on" => Fresh)

\* External: the manager of arm s serves its oldest request.  BEST_EFFORT
\* (tolerant) and STRICT differ in what they answer for an arm already there.
Serve(s) ==
  /\ requests[s] # <<>>
  /\ controller[s] # "down"
  /\ LET wanted == Head(requests[s])
         there  == controller[s] = IF wanted = "on" THEN "active" ELSE "inactive"
         awaited == /\ pc \in {"activating", "deactivating"}
                    /\ options.arms[call.arm] = s
                    /\ Len(requests[s]) = 1
         ok == IF there THEN ~call.strict ELSE Accepts(s, wanted)
         rest == [requests EXCEPT ![s] = Tail(@)]
     IN  /\ IF there \/ ~Accepts(s, wanted) THEN UNCHANGED <<controller, captured>>
            ELSE IF wanted = "on"
            THEN /\ controller' = [controller EXCEPT ![s] = "active"]
                 /\ captured' = [captured EXCEPT ![s] = pose[s]]
            ELSE controller' = [controller EXCEPT ![s] = "inactive"] /\ UNCHANGED captured
         /\ IF awaited THEN SwitchReturns(ok, rest)
            ELSE requests' = rest /\ UNCHANGED <<pc, call, clock, lastPoll, asked>>
  /\ UNCHANGED <<options, iteration, switched, discovered, session, wire, pose, slow, interrupts>>

\* The call times out after CallTicks; the request may still be served.
SwitchTimesOut ==
  /\ pc \in {"activating", "deactivating"}
  /\ call.blocked >= CallTicks
  /\ SwitchReturns(FALSE, requests)
  /\ UNCHANGED <<options, iteration, switched, discovered, session, wire, arms, slow, interrupts>>

\* Mutant: one active arm is enough.
AnyActive(state) == call.ok \/ state = "active"

\* What hold_until_activated waits for: every selected arm "active".
AllActive(state) == call.ok /\ state = "active"

\* Mutant: the last arm's state decides.
LastArmDown(state) == state # "active"

\* What wait_until(active=False) waits for, by the code: no arm "active", a
\* state that could not be had among them.
NoneActive(state) == call.ok /\ state # "active"

\* Mutant: the drift guard warns in every frame.
WarnsOnly == FALSE

\* capture_activation_reference(): in the gello frame it raises unless the
\* stream has stood still for a whole window.
Moved == options.gello /\ still <= WindowTicks

\* Every arm has been polled.
Polled(ok) ==
  IF pc = "polling"
  THEN /\ IF ~ok THEN pc' = "asleep" /\ UNCHANGED <<activated, reference>>
          ELSE IF Moved THEN pc' = "teardown" /\ UNCHANGED <<activated, reference>>
          ELSE pc' = "rollout" /\ activated' = TRUE /\ reference' = published
       /\ UNCHANGED confirmed
  ELSE /\ pc' = IF ok THEN "stop" ELSE "resting"
       /\ confirmed' = ok
       /\ UNCHANGED <<activated, reference>>

\* states()'s call to its current arm has answered `state`, or timed out.
ListReturns(state) ==
  LET ok  == IF pc = "polling" THEN AllActive(state) ELSE NoneActive(state)
      all == call.heard /\ state # None
  IN  IF call.arm < Len(options.arms)
      THEN /\ call' = CallTo(call.arm + 1, FALSE, ok, all)
           /\ UNCHANGED <<pc, activated, reference, confirmed, heard>>
      ELSE call' = None /\ heard' = all /\ Polled(ok)

\* A manager answers with the state its controller is in, whatever switches
\* it has yet to serve: they are calls of another service.
ListAnswers ==
  /\ pc \in {"polling", "confirming"}
  /\ LET s == options.arms[call.arm]
     IN  controller[s] # "down" /\ ListReturns(controller[s])
  /\ UNCHANGED <<options, progress, discovered, aborted, wire, arms, switches, slow, interrupts>>

ListTimesOut ==
  /\ pc \in {"polling", "confirming"}
  /\ call.blocked >= CallTicks
  /\ ListReturns(None)
  /\ UNCHANGED <<options, progress, discovered, aborted, wire, arms, switches, slow, interrupts>>

-----------------------------------------------------------------------------
\* The rollout and the teardown.

\* run_rollout returns, or one of its guards raises.
EndRollout ==
  /\ pc = "rollout"
  /\ pc' = "teardown"
  /\ UNCHANGED <<options, call, progress, discovered, session, wire, arms, switches, slow, interrupts>>

\* Mutant: only arms the run has seen active are released.
MustReleaseActivated == options.release /\ UsesControllers /\ activated

\* shutdown()'s condition.
MustRelease == options.release /\ UsesControllers /\ (activated \/ options.activate)

RepeatLast == silence' = IF stream = "live" THEN 0 ELSE silence

\* shutdown(), to its first service call; SIGINT is ignored from there until
\* the confirmation is over.
Shutdown ==
  /\ pc = "teardown"
  /\ IF MustRelease
     THEN /\ pc' = "deactivating" /\ call' = NewCall
          /\ RepeatLast
          /\ Send(1, "off", requests)
     ELSE pc' = "stop" /\ UNCHANGED <<call, silence, switches>>
  /\ UNCHANGED <<options, progress, discovered, session, stream, published, still, arms, slow, interrupts>>

\* wait_until(active=False)'s next poll, or its deadline.
Confirm ==
  /\ pc = "confirm"
  /\ IF clock < ConfirmTicks
     THEN pc' = "confirming" /\ call' = NewCall /\ RepeatLast
     ELSE pc' = "stop" /\ UNCHANGED <<call, silence>>
  /\ UNCHANGED <<options, progress, discovered, session, stream, published, still, arms,
                 switches, slow, interrupts>>

\* safe_stop(): the arms keep being repeated.
SafeStop ==
  /\ pc = "stop"
  /\ pc' = "close"
  /\ UNCHANGED <<options, call, progress, discovered, session, wire, arms, switches, slow, interrupts>>

\* backend.close, collector.close, publisher.close: the stream ends, as it
\* does with the process when the first of them raises.
Close ==
  /\ pc = "close"
  /\ pc' = "exit"
  /\ stream' = "ended"
  /\ UNCHANGED <<options, call, progress, discovered, session, silence, published, still, arms,
                 switches, slow, interrupts>>

\* An exception in the control thread: before the teardown it leads there;
\* inside it, past safe_stop and out of the process, closing nothing.
Throw ==
  /\ call' = None
  /\ IF pc \in HoldPhase \cup {"prepare", "rollout"}
     THEN pc' = "teardown" /\ UNCHANGED <<stream, aborted>>
     ELSE /\ pc' = "exit" /\ stream' = "ended"
          /\ aborted' = (aborted \/ pc \notin {"stop", "close"})

\* A service call raises.
CallRaises ==
  /\ call # None
  /\ Throw
  /\ UNCHANGED <<options, progress, discovered, activated, reference, confirmed, heard, silence,
                 published, still, arms, switches, slow, interrupts>>

\* Ctrl+C, which sigint_deferred() ignores while the arms are released.
Interrupt ==
  /\ interrupts < MaxInterrupts
  /\ pc \notin TeardownPhase \cup {"start", "exit"}
  /\ interrupts' = interrupts + 1
  /\ Throw
  /\ UNCHANGED <<options, progress, discovered, activated, reference, confirmed, heard, silence,
                 published, still, arms, switches, slow>>

-----------------------------------------------------------------------------
\* Time and people.

\* A tick passes while the control thread waits.  A live stream with a
\* keep-alive carries a sample in every tick, and so does a rollout that
\* keeps its rate; an active controller that has had none for LivenessTicks
\* shuts its arm launch down.
Tick ==
  /\ \/ pc \in {"asleep", "resting", "rollout", "exit"}
     \/ call # None /\ call.blocked < CallTicks
  /\ pc' = CASE pc = "asleep" -> "hold" [] pc = "resting" -> "confirm" [] OTHER -> pc
  /\ clock' = IF pc \in {"rollout", "exit"} THEN clock ELSE Least(clock + 1, MaxClock)
  /\ call' = IF call = None THEN None ELSE [call EXCEPT !.blocked = @ + 1]
  /\ still' = Least(still + 1, WindowTicks + 1)
  /\ \/ stream = "live" /\ (options.keepalive \/ pc = "rollout") /\ silence' = 0
     \/ ~(stream = "live" /\ options.keepalive) /\ silence' = Least(silence + 1, LivenessTicks)
  /\ LET dies(s) == controller[s] = "active" /\ silence' = LivenessTicks
     IN  /\ controller' = [s \in Side |-> IF dies(s) THEN "down" ELSE controller[s]]
         /\ requests' = [s \in Side |-> IF dies(s) THEN <<>> ELSE requests[s]]
  /\ slow' = (slow \/ pc \in {"activating", "polling"})
  /\ UNCHANGED <<options, iteration, lastPoll, switched, discovered, session, stream, published,
                 captured, pose, asked, interrupts>>

\* External: an operator activates an arm from the station.
OperatorActivates(s) ==
  /\ pc \in HoldPhase \cup {"rollout"}
  /\ controller[s] = "inactive"
  /\ Fresh
  /\ controller' = [controller EXCEPT ![s] = "active"]
  /\ captured' = [captured EXCEPT ![s] = pose[s]]
  /\ UNCHANGED <<options, pc, call, progress, discovered, session, wire, pose, switches, slow, interrupts>>

\* A held arm is pushed, or sags, which takes time: between two iterations of
\* the hold, or in a call that blocks.
Move(s) ==
  /\ pc = "asleep" \/ (pc \in {"activating", "polling"} /\ call.blocked > 0)
  /\ options.gello
  /\ pose[s] < MaxMoves
  /\ pose' = [pose EXCEPT ![s] = @ + 1]
  /\ UNCHANGED <<options, pc, call, progress, discovered, session, wire, controller, captured,
                 switches, slow, interrupts>>

Control ==
  \/ Start \/ PrepareRaises \/ FirstHold \/ WaitForServices \/ Iterate \/ HoldTimesOut
  \/ SwitchTimesOut \/ ListAnswers \/ ListTimesOut
  \/ EndRollout \/ Shutdown \/ Confirm \/ SafeStop \/ Close

Next ==
  \/ Control
  \/ CallRaises
  \/ Interrupt
  \/ Tick
  \/ \E s \in Side : Serve(s) \/ OperatorActivates(s) \/ Move(s)

Fairness ==
  /\ WF_vars(Control)
  /\ WF_vars(Tick)

Spec == Init /\ [][Next]_vars /\ Fairness

-----------------------------------------------------------------------------
\* Properties.

Call == [arm : Nat, strict : BOOLEAN, ok : BOOLEAN, heard : BOOLEAN, blocked : 0..CallTicks]

\* The control thread has a call to one of the selected arms exactly while it
\* blocks in one.
CallType ==
  IF pc \in Calling
  THEN call \in Call /\ call.arm \in 1..Len(options.arms)
  ELSE call = None

ClockType ==
  /\ clock \in 0..MaxClock /\ iteration \in 0..MaxClock
  /\ lastPoll \in -PollTicks..MaxClock

SessionType ==
  /\ switched \in BOOLEAN /\ discovered \in BOOLEAN /\ activated \in BOOLEAN
  /\ confirmed \in BOOLEAN /\ heard \in BOOLEAN /\ aborted \in BOOLEAN /\ slow \in BOOLEAN
  /\ reference = None \/ reference \in [Side -> 0..MaxMoves]
  /\ interrupts \in 0..MaxInterrupts

WireType ==
  /\ stream \in {"none", "live", "ended"}
  /\ silence \in 0..LivenessTicks /\ still \in 0..WindowTicks + 1
  /\ published \in [Side -> 0..MaxMoves]

ArmsType ==
  /\ controller \in [Side -> {"inactive", "active", "down"}]
  /\ captured \in [Side -> 0..MaxMoves] /\ pose \in [Side -> 0..MaxMoves]

SwitchesType ==
  /\ requests \in [Side -> Seq({"on", "off"})]
  /\ asked \in [Side -> {"nothing", "on", "off"}]

\* Every variable holds a value of its kind, and the control thread has a call
\* to one of the selected arms exactly while it blocks in one.
TypeOK ==
  /\ options \in Options /\ pc \in PC
  /\ CallType /\ ClockType /\ SessionType /\ WireType /\ ArmsType /\ SwitchesType

\* While a program that waits for its arms, or activates them, keeps its
\* publisher open, no controller starves: not across five seconds of a
\* blocked service call, not while one arm is active and the other's call is
\* still in flight.
LaunchSurvives ==
  (UsesControllers /\ stream # "ended") => \A s \in Side : controller[s] # "down"

\* A rollout that waited for its arms runs on arms that are all active, to
\* its end: polled one after the other, they are active together.
RolloutOnActiveArms ==
  (pc = "rollout" /\ UsesControllers) =>
    activated /\ \A s \in Selected : controller[s] = "active"

\* When the stream has ended, no arm has an activation of this program's as
\* the last thing asked of it: whatever was raised in between, each was asked
\* to deactivate after it.  Only an exception inside the teardown, or
\* --no-deactivate-on-exit, ends the run otherwise.
ActivationIsTakenBack ==
  (stream = "ended" /\ options.release /\ ~aborted) =>
    \A s \in Selected : asked[s] # "on"

\* The last of the switches a manager has yet to serve.
Newest(q) == IF q = <<>> THEN "nothing" ELSE q[Len(q)]

\* An arm whose manager has nothing left to serve is not active.
SettledArm(s) == requests[s] = <<>> => controller[s] # "active"

\* A deactivation confirmed by an answer from every arm is the last word:
\* once its manager has nothing of this program's left to serve an arm is not
\* active, and until then what is served last is a deactivation, so that an
\* activation that timed out and comes late does not stand.  That it may come
\* after the stream ended is what StopsOnceConfirmed is about.
ConfirmedMeansReleased ==
  (confirmed /\ heard) =>
    \A s \in Selected : Newest(requests[s]) # "on" /\ SettledArm(s)

\* With one selected arm and service calls that answer at once, the (q0, g0)
\* that a gello rollout maps its commands with are the ones the controller
\* took in on_activate.
ReferenceIsTheControllers ==
  (activated /\ options.gello /\ Len(options.arms) = 1 /\ ~slow) =>
    \A s \in Selected : captured[s] = reference[s]

\* Every run ends, whatever the managers answer and whoever forgets to
\* activate an arm.
Terminates == <>(pc = "exit")

\* The comment on ACTIVATION_POLL_S (real_arms.py) and the header of
\* arm_stream.py: on_activate fired at most a poll interval before it was
\* noticed, so a stream that stood still for the window has the controllers'
\* own (q0, g0).
ReferenceWithinOnePoll ==
  (activated /\ options.gello) => \A s \in Selected : captured[s] = reference[s]

\* The comment in run_policy.py's try: an operator may have activated one arm
\* before something raised, and that arm still needs deactivating.
OperatorsArmIsReleased ==
  (stream = "ended" /\ options.release /\ UsesControllers /\ ~aborted) =>
    \A s \in Selected : controller[s] = "active" => asked[s] = "off"

\* The header of real_arms.py: only once list_controllers confirms that the
\* controller is no longer active does the publisher stop (or, by the error it
\* logs, once it has not confirmed in time).  An arm that has not answered
\* counts as no longer active, and one that has may yet be activated by a
\* switch that timed out: list_controllers does not wait for it.
StopsOnceConfirmed ==
  (stream = "ended" /\ confirmed) => \A s \in Selected : controller[s] # "active"

\* The same where every arm answered.
StopsOnceAnswered ==
  (stream = "ended" /\ confirmed /\ heard) => \A s \in Selected : controller[s] # "active"

\* wait_for_services' comment, activate_arms.py's rule: all of the selected
\* arms' services are discovered before any switch.
SwitchesAfterDiscovery ==
  (\E s \in Side : asked[s] # "nothing") => discovered

-----------------------------------------------------------------------------
\* What makes the safety properties inductive.

BeforeTeardown == {"start", "prepare", "rollout"} \cup HoldPhase

AfterRelease == {"confirm", "confirming", "resting", "stop", "close", "exit"}

\* The stream's life: nothing can be active before it is live, and a program
\* that uses controllers has a keep-alive behind it.
StreamInv ==
  /\ pc \in {"start", "prepare"} => stream = "none"
  /\ pc \in HoldPhase \cup {"rollout"} => stream = "live"
  /\ pc = "exit" <=> stream = "ended"
  /\ pc \in HoldPhase \cup TeardownPhase => UsesControllers
  /\ (UsesControllers /\ pc \notin {"start", "exit"}) => options.keepalive
  /\ stream = "none" => silence = LivenessTicks /\ \A s \in Side : controller[s] = "inactive"

\* Nothing is deactivated before the teardown, only a program told to activate
\* asks for it, and not before it has started.
AskedInv ==
  /\ pc = "activating" => options.activate
  /\ pc = "start" => \A s \in Side : asked[s] = "nothing"
  /\ \A s \in Side :
       /\ pc \in BeforeTeardown => requests[s] \in Seq({"on"})
       /\ asked[s] = "on" => options.activate

\* How far a poll for activation has come.
PollInv ==
  (pc = "polling" /\ call.ok) =>
    \A i \in 1..call.arm - 1 : controller[options.arms[i]] = "active"

\* How far the release has come.
ReleaseInv ==
  /\ pc = "deactivating" =>
       \A i \in 1..Len(options.arms) :
         (call.strict \/ i <= call.arm) => asked[options.arms[i]] # "on"
  /\ (pc \in AfterRelease /\ options.release /\ ~aborted) =>
       \A s \in Selected : asked[s] # "on"
  /\ aborted => pc = "exit"

\* A switch that is on its way is the last one asked, or nothing is known of
\* the managers yet and no activation was asked.
QueueInv ==
  /\ \A s \in Side : Newest(requests[s]) = "on" => asked[s] = "on"
  /\ ~discovered => \A s \in Side : asked[s] # "on"
  /\ pc \in {"hold", "activating", "polling", "asleep"} => discovered

\* How far a poll for the confirmation has come.
ConfirmInv ==
  /\ confirmed => pc \in {"stop", "close", "exit"} /\ options.release /\ ~aborted
  /\ pc \in TeardownPhase => options.release
  /\ (pc = "confirming" /\ call.ok /\ call.heard) =>
       \A i \in 1..call.arm - 1 : SettledArm(options.arms[i])

IInv ==
  /\ TypeOK
  /\ StreamInv /\ AskedInv /\ PollInv /\ ReleaseInv /\ QueueInv /\ ConfirmInv
  /\ LaunchSurvives /\ RolloutOnActiveArms /\ ActivationIsTakenBack /\ ConfirmedMeansReleased

\* For the reference of a gello rollout: one selected arm, and calls that have
\* answered at once.
OneArm == options.gello /\ Len(options.arms) = 1 /\ ~slow

\* No poll is overdue, and a call has taken no time.
PollsInTime ==
  /\ pc \in {"start", "prepare", "services"} => clock = 0 /\ lastPoll = -PollTicks
  /\ pc \in {"services", "hold", "activating", "polling", "asleep"} =>
       lastPoll <= clock /\ clock - lastPoll <= PollTicks
  /\ pc = "asleep" => clock - lastPoll < PollTicks
  /\ pc \in {"activating", "polling", "asleep"} => clock < HoldTicks
  /\ pc \in {"activating", "polling"} => call.blocked = 0 /\ iteration = clock
  /\ pc = "polling" => call.ok /\ lastPoll = clock

\* What is published is no newer than the pose, and is the pose where the hold
\* loop does not wait.  A pose published after the arm's activation, and other
\* than the one its controller took, is no older than the last poll.
PublishedSince ==
  /\ pc \in {"services", "activating", "polling"} => published = pose
  /\ pc \in HoldPhase => \A s \in Selected : published[s] <= pose[s]
  /\ pc \in HoldPhase => \A s \in Selected :
       controller[s] = "active" =>
         /\ captured[s] <= pose[s]
         /\ captured[s] < published[s] =>
              still <= IF pc = "polling" THEN PollTicks ELSE clock - lastPoll

\* An arm once seen active has the pose of its capture, and keeps it.
ReferenceIsThePose ==
  activated =>
    /\ pc \notin {"start", "prepare"} \cup HoldPhase
    /\ OneArm => \A s \in Selected : captured[s] = pose[s] /\ reference[s] = pose[s]

ReferenceInv == ReferenceIsThePose /\ (OneArm => PollsInTime /\ PublishedSince)
=============================================================================
