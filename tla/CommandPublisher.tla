--------------------------- MODULE CommandPublisher ---------------------------
(***************************************************************************)
(* camelo/ros/command_publisher.py: the commands of the control loop, and  *)
(* their repeats, on the wire.                                             *)
(*                                                                         *)
(* Three threads publish.  The control thread publishes what the executor  *)
(* commands; the keep-alive thread of a real run repeats the last arm and  *)
(* gripper command once nothing was sent for a period, and the base twist; *)
(* the base-repeat timer, a callback of the ROS executor, repeats the      *)
(* twist.  Arms and grippers go out under _cmd_lock; _twist is read and    *)
(* published without it.                                                   *)
(*                                                                         *)
(* One time unit is the base repeat period.  An arm or gripper command is  *)
(* its ordinal among those the control thread has made, a twist is a speed *)
(* along one axis (a pedal token in sim, NONE being 0).  The joint values, *)
(* their frame, the arms a run does not drive and the telemetry are data   *)
(* that no thread tells apart.  A local of a call is 0 outside of it.      *)
(***************************************************************************)
EXTENDS Integers

CONSTANTS
  Speed,            \* the speeds the policy may ask for
  MaxSpeed,         \* REAL_BASE_MAX_LINEAR_MPS
  KeepalivePeriod,  \* 1 / keepalive_hz
  MaxLate,          \* how late the keep-alive thread is scheduled
  StopRepeats,      \* zeros that safe_stop sends
  BaseTimeout,      \* REAL_BASE_CMD_TIMEOUT_S, the base controller's own
  MaxCommands,      \* bound on the commands made
  MaxAge            \* where ages stop being counted

ASSUME PublisherAssumption ==
  /\ Speed \subseteq Int
  /\ MaxSpeed \in Nat
  /\ KeepalivePeriod \in Nat \ {0}
  /\ MaxLate \in Nat
  /\ StopRepeats \in Nat \ {0}
  /\ BaseTimeout \in Nat
  /\ MaxCommands \in Nat
  /\ MaxAge \in Nat

VARIABLES
  real,        \* topics.world, fixed at construction
  at,          \* where each thread is
  made,        \* how many arm commands the control thread has made
  asked,       \* the speed of the command it is publishing
  again,       \* the arms it read to repeat
  zerosLeft,   \* repeats safe_stop has yet to send
  stopping,    \* safe_stop was called, and no command since
  loopAge,     \* time since the control thread last set the twist
  lastArms,    \* _last_arm_wire, 0 when None
  lastGrips,   \* _last_grippers, 0 when None
  armAge,      \* time since _last_arm_pub
  twist,       \* _twist, or _token
  read,        \* the twist each thread has read, to publish it
  baseAge,     \* time since _last_base_pub
  lock,        \* who is inside _cmd_lock from one step to the next
  keptArms,    \* what the keep-alive read under the lock
  keptGrips,
  due,         \* time until the keep-alive's next wake; below 0 it is late
  stopEvent,   \* _keepalive_stop
  timerReady,  \* the base-repeat timer is due, and not cancelled
  wire         \* the newest arms, grippers and twist on the wire

control == <<made, asked, again, zerosLeft, stopping>>

bookkeeping == <<lastArms, lastGrips, armAge, lock, keptArms, keptGrips>>

base == <<twist, read, baseAge, loopAge>>

watchdogs == <<due, stopEvent, timerReady>>

vars == <<real, at, control, bookkeeping, base, watchdogs, wire>>

Thread == {"control", "keepalive", "timer"}

Never == -1

Goes(thread, place) == at' = [at EXCEPT ![thread] = place]

Puts(field, value) == wire' = [wire EXCEPT ![field] = value]

-----------------------------------------------------------------------------

\* CommandPublisher(): on the real robot, with a keep-alive rate, the thread
\* starts; the timer always does.
Init ==
  /\ real \in BOOLEAN
  /\ \E started \in IF real THEN {"wait", "off"} ELSE {"off"} :
       at = [thread \in Thread |-> IF thread = "control" THEN "idle"
                                   ELSE IF thread = "timer" THEN "wait" ELSE started]
  /\ made = 0 /\ asked = 0 /\ again = 0 /\ zerosLeft = 0
  /\ stopping = FALSE
  /\ lastArms = 0 /\ lastGrips = 0 /\ armAge = Never
  /\ lock = "free" /\ keptArms = 0 /\ keptGrips = 0
  /\ twist = 0 /\ read = [thread \in Thread |-> 0]
  /\ baseAge = Never /\ loopAge = 0
  /\ due = KeepalivePeriod
  /\ stopEvent = FALSE
  /\ timerReady = FALSE
  /\ wire = [arms |-> 0, grips |-> 0, base |-> 0]

-----------------------------------------------------------------------------
\* The base: _repeat_base, called by every thread.

\* What goes on the wire is the twist the thread read, however long ago.
SendBase(thread) ==
  /\ Puts("base", read[thread])
  /\ read' = [read EXCEPT ![thread] = 0]
  /\ baseAge' = 0
  /\ UNCHANGED <<twist, loopAge>>

\* clip_base_twist.
ClippedSpeed(v) == IF v > MaxSpeed THEN MaxSpeed ELSE IF v < -MaxSpeed THEN -MaxSpeed ELSE v

WireSpeed(v) == IF real THEN ClippedSpeed(v) ELSE v

-----------------------------------------------------------------------------
\* The control thread.

\* _publish_arm_wire: the publish and its bookkeeping, under the lock.
SendArms(arms) ==
  /\ lock = "free"
  /\ Puts("arms", arms)
  /\ lastArms' = arms
  /\ armAge' = 0

\* publish_arms, or the hold phase's publish_arms_unmapped: arms only.
PublishArms ==
  /\ at["control"] = "idle" /\ made < MaxCommands
  /\ made' = made + 1
  /\ SendArms(made')
  /\ UNCHANGED <<real, at, asked, again, zerosLeft, stopping, lastGrips, lock, keptArms,
                 keptGrips, base, watchdogs>>

\* publish(command): the arms,
Publish(v) ==
  /\ at["control"] = "idle" /\ made < MaxCommands
  /\ made' = made + 1
  /\ asked' = v
  /\ SendArms(made')
  /\ Goes("control", "grippers")
  /\ UNCHANGED <<real, again, zerosLeft, stopping, lastGrips, lock, keptArms, keptGrips,
                 base, watchdogs>>

\* the grippers,
PublishGrippers ==
  /\ at["control"] = "grippers"
  /\ lock = "free"
  /\ Puts("grips", made)
  /\ lastGrips' = made
  /\ Goes("control", "twist")
  /\ UNCHANGED <<real, control, lastArms, armAge, lock, keptArms, keptGrips, base, watchdogs>>

\* and the base.
SetTwist ==
  /\ at["control"] = "twist"
  /\ twist' = WireSpeed(asked)
  /\ read' = [read EXCEPT !["control"] = twist']
  /\ loopAge' = 0
  /\ stopping' = FALSE
  /\ asked' = 0
  /\ Goes("control", "base")
  /\ UNCHANGED <<real, made, again, zerosLeft, bookkeeping, baseAge, watchdogs, wire>>

PublishBase ==
  /\ at["control"] = "base"
  /\ SendBase("control")
  /\ Goes("control", "idle")
  /\ UNCHANGED <<real, control, bookkeeping, watchdogs>>

\* repeat_last_arm_command: the last arms are read, then published.
ReadLast ==
  /\ at["control"] = "idle"
  /\ lock = "free" /\ lastArms # 0
  /\ again' = lastArms
  /\ Goes("control", "repeat")
  /\ UNCHANGED <<real, made, asked, zerosLeft, stopping, bookkeeping, base, watchdogs, wire>>

RepeatLast ==
  /\ at["control"] = "repeat"
  /\ SendArms(again)
  /\ again' = 0
  /\ Goes("control", "idle")
  /\ UNCHANGED <<real, made, asked, zerosLeft, stopping, lastGrips, lock, keptArms, keptGrips, base, watchdogs>>

\* Ctrl+C in the middle of a call: what was not published yet is not.
Interrupted ==
  /\ at["control"] \in {"grippers", "twist", "base", "repeat", "stop"}
  /\ asked' = 0 /\ again' = 0 /\ zerosLeft' = 0
  /\ read' = [read EXCEPT !["control"] = 0]
  /\ Goes("control", "idle")
  /\ UNCHANGED <<real, made, stopping, bookkeeping, twist, baseAge, loopAge, watchdogs, wire>>

\* Mutant: zeros are sent, and the repeats keep the twist they had.
SafeStopKeepsTwist ==
  /\ at["control"] = "idle"
  /\ read' = [read EXCEPT !["control"] = 0]
  /\ loopAge' = 0
  /\ stopping' = TRUE
  /\ zerosLeft' = StopRepeats
  /\ Goes("control", "stop")
  /\ UNCHANGED <<real, made, asked, again, bookkeeping, twist, baseAge, watchdogs, wire>>

\* safe_stop.
SafeStop ==
  /\ at["control"] = "idle"
  /\ twist' = 0
  /\ read' = [read EXCEPT !["control"] = 0]
  /\ loopAge' = 0
  /\ stopping' = TRUE
  /\ zerosLeft' = StopRepeats
  /\ Goes("control", "stop")
  /\ UNCHANGED <<real, made, asked, again, bookkeeping, baseAge, watchdogs, wire>>

SendZero ==
  /\ at["control"] = "stop"
  /\ SendBase("control")
  /\ zerosLeft' = zerosLeft - 1
  /\ Goes("control", IF zerosLeft = 1 THEN "idle" ELSE "stop")
  /\ UNCHANGED <<real, made, asked, again, stopping, bookkeeping, watchdogs>>

\* close(): the keep-alive is stopped, and joined for at most 2 s; then the
\* timer is cancelled, a callback already running excepted.
Close ==
  /\ at["control"] = "idle"
  /\ stopEvent' = TRUE
  /\ Goes("control", "join")
  /\ UNCHANGED <<real, control, bookkeeping, base, due, timerReady, wire>>

Cancel ==
  /\ at["control"] = "join"
  /\ timerReady' = FALSE
  /\ Goes("control", "closed")
  /\ UNCHANGED <<real, control, bookkeeping, base, due, stopEvent, wire>>

-----------------------------------------------------------------------------
\* The base-repeat timer.

TimerReads ==
  /\ at["timer"] = "wait" /\ timerReady
  /\ timerReady' = FALSE
  /\ read' = [read EXCEPT !["timer"] = twist]
  /\ Goes("timer", "base")
  /\ UNCHANGED <<real, control, bookkeeping, twist, baseAge, loopAge, due, stopEvent, wire>>

TimerSends ==
  /\ at["timer"] = "base"
  /\ SendBase("timer")
  /\ Goes("timer", "wait")
  /\ UNCHANGED <<real, control, bookkeeping, watchdogs>>

-----------------------------------------------------------------------------
\* The keep-alive thread.

\* The schedule is absolute; a wake later than the next one re-bases it.
NextDue == IF due + KeepalivePeriod <= 0 THEN KeepalivePeriod ELSE due + KeepalivePeriod

\* The base backstop: the timer may starve, this thread does not.
BaseIsOld == baseAge # Never /\ baseAge >= 1

\* A wake; if the base is old its twist is read at once.
Wake ==
  /\ at["keepalive"] = "wait"
  /\ ~stopEvent /\ due <= 0
  /\ due' = NextDue
  /\ IF BaseIsOld
     THEN read' = [read EXCEPT !["keepalive"] = twist] /\ Goes("keepalive", "base")
     ELSE UNCHANGED read /\ Goes("keepalive", "lock")
  /\ UNCHANGED <<real, control, bookkeeping, twist, baseAge, loopAge, stopEvent, timerReady, wire>>

BackstopBase ==
  /\ at["keepalive"] = "base"
  /\ SendBase("keepalive")
  /\ Goes("keepalive", "lock")
  /\ UNCHANGED <<real, control, bookkeeping, watchdogs>>

\* Mutant: the last command is read before the lock is taken.
ReadUnlocked ==
  /\ at["keepalive"] = "lock" /\ lock = "free"
  /\ keptArms' = lastArms
  /\ keptGrips' = lastGrips
  /\ Goes("keepalive", "repeat")
  /\ UNCHANGED <<real, control, lastArms, lastGrips, armAge, lock, base, watchdogs, wire>>

\* Under the lock: the last command is read,
Enter ==
  /\ at["keepalive"] = "lock" /\ lock = "free"
  /\ lock' = "keepalive"
  /\ keptArms' = lastArms
  /\ keptGrips' = lastGrips
  /\ Goes("keepalive", "repeat")
  /\ UNCHANGED <<real, control, lastArms, lastGrips, armAge, base, watchdogs, wire>>

\* Mutant: a command one period old is not old enough.
QuietLonger == keptArms # 0 /\ armAge > KeepalivePeriod

\* the clock is read again, and if the loop has gone quiet
Quiet == keptArms # 0 /\ armAge >= KeepalivePeriod

\* the arms are repeated, and the grippers if any were commanded.
Repeat ==
  /\ at["keepalive"] = "repeat"
  /\ IF Quiet
     THEN /\ wire' = [arms  |-> keptArms,
                      grips |-> IF keptGrips = 0 THEN wire.grips ELSE keptGrips,
                      base  |-> wire.base]
          /\ lastArms' = keptArms
          /\ lastGrips' = keptGrips
          /\ armAge' = 0
     ELSE UNCHANGED <<wire, lastArms, lastGrips, armAge>>
  /\ keptArms' = 0 /\ keptGrips' = 0
  /\ lock' = "free"
  /\ Goes("keepalive", "wait")
  /\ UNCHANGED <<real, control, base, watchdogs>>

End ==
  /\ at["keepalive"] = "wait" /\ stopEvent
  /\ Goes("keepalive", "ended")
  /\ UNCHANGED <<real, control, bookkeeping, base, watchdogs, wire>>

-----------------------------------------------------------------------------
\* Time.

Older(age) == IF age # Never /\ age < MaxAge THEN age + 1 ELSE age

\* The keep-alive thread is scheduled at most MaxLate late and its round is
\* short; the executor's timer, and the control thread, may wait for ever.
OnTime ==
  /\ at["keepalive"] \in {"wait", "off", "ended"}
  /\ at["keepalive"] = "wait" => due > -MaxLate /\ ~stopEvent

Tick ==
  /\ OnTime
  /\ armAge' = Older(armAge)
  /\ baseAge' = Older(baseAge)
  /\ loopAge' = Older(loopAge)
  /\ due' = IF at["keepalive"] = "wait" THEN due - 1 ELSE due
  /\ timerReady' = (at["control"] # "closed")
  /\ UNCHANGED <<real, at, control, lastArms, lastGrips, lock, keptArms, keptGrips, twist, read,
                 stopEvent, wire>>

Control ==
  \/ PublishArms \/ (\E v \in Speed : Publish(v)) \/ PublishGrippers \/ SetTwist \/ PublishBase
  \/ ReadLast \/ RepeatLast
  \/ SafeStop \/ SendZero
  \/ Close \/ Cancel \/ Interrupted

Timer == TimerReads \/ TimerSends

Keepalive == Wake \/ BackstopBase \/ Enter \/ Repeat \/ End

Next == Control \/ Timer \/ Keepalive \/ Tick

\* A call, once made, returns; so does a callback, and the timer is served
\* now and then.
Fairness ==
  /\ WF_vars(PublishGrippers \/ SetTwist \/ PublishBase \/ RepeatLast \/ SendZero \/ Cancel)
  /\ WF_vars(Timer)
  /\ WF_vars(Keepalive)
  /\ WF_vars(Tick)

Spec == Init /\ [][Next]_vars /\ Fairness

-----------------------------------------------------------------------------
\* Properties.

Twist == IF real THEN -MaxSpeed..MaxSpeed ELSE Speed \cup {0}

Age == Never..MaxAge

Ordinal == 0..MaxCommands

Place == {"idle", "grippers", "twist", "base", "repeat", "stop", "join", "closed",
          "wait", "off", "lock", "ended"}

\* Every variable holds a value of its kind; on the real robot no twist
\* beyond the base's limits is kept, read or sent.
TypeOK ==
  /\ real \in BOOLEAN
  /\ at \in [Thread -> Place]
  /\ made \in Ordinal /\ again \in Ordinal
  /\ asked \in Speed \cup {0}
  /\ zerosLeft \in 0..StopRepeats
  /\ stopping \in BOOLEAN
  /\ lastArms \in Ordinal /\ lastGrips \in Ordinal
  /\ keptArms \in Ordinal /\ keptGrips \in Ordinal
  /\ armAge \in Age /\ baseAge \in Age /\ loopAge \in Age
  /\ twist \in Twist
  /\ read \in [Thread -> Twist]
  /\ lock \in {"free", "keepalive"}
  /\ due \in -MaxLate..KeepalivePeriod
  /\ stopEvent \in BOOLEAN /\ timerReady \in BOOLEAN
  /\ wire \in [arms : Ordinal, grips : Ordinal, base : Twist]

\* Arms and grippers never step back: no repeat, of the keep-alive or of a
\* service call, puts an older command on the wire after a newer one.
NeverStepsBack == [][wire'.arms >= wire.arms /\ wire'.grips >= wire.grips]_vars

Alive == at["keepalive"] \notin {"off", "ended"} /\ ~stopEvent

\* The stream as the other end of the wire sees it.
Stream == INSTANCE ArmStream WITH
  Gap <- 2 * KeepalivePeriod + MaxLate,
  arms <- wire.arms, grips <- wire.grips,
  age <- IF armAge = Never THEN 0 ELSE armAge,
  kept <- Alive

\* The three threads together keep the stream's promise: however they
\* interleave, each command is sent once and in order, every other send
\* repeats the newest, and no silence outgrows the keep-alive.
ImplementsStream == Stream!StreamSpec

\* While the keep-alive runs, the arm stream has no gap of two periods, its
\* own lateness aside, however long the control thread is blocked: what
\* ArmSession takes for granted of the stream.
StreamNeverStarves ==
  (Alive /\ armAge # Never) => armAge < 2 * KeepalivePeriod + MaxLate

\* ... and the base's twist is repeated every period, whether or not the
\* executor serves the timer.
BaseNeverStarves ==
  (Alive /\ baseAge # Never) => baseAge <= KeepalivePeriod + MaxLate

\* The base controller drives on the newest twist, until its own timeout.
BaseMoves == wire.base # 0 /\ baseAge <= BaseTimeout

\* After safe_stop the base comes to rest and stays there, close() or not: a
\* repeat that read the twist before may still send it after the zeros, and
\* is overtaken by the next one, or ages out.
StopIsFinal == (<>[]stopping) => <>[]~BaseMoves

\* Once safe_stop was called, and until the next command, no thread reads a
\* twist that moves the base: what is still sent was read before.
StopIsRead ==
  [][stopping /\ stopping' =>
       \A thread \in Thread : read'[thread] \in {read[thread], 0}]_vars

\* Inductive: the keep-alive's repeat is what is on the wire already, ...
RepeatsAreNewest ==
  /\ lastArms = wire.arms /\ lastGrips = wire.grips
  /\ lastArms <= made /\ lastGrips <= made
  /\ lock = "keepalive" <=> at["keepalive"] = "repeat"
  /\ lock = "keepalive" => keptArms = lastArms /\ keptGrips = lastGrips
  /\ at["control"] = "repeat" => again = lastArms /\ again # 0
  /\ at["control"] = "stop" => zerosLeft > 0
  /\ at["keepalive"] \in {"wait", "off", "base", "lock", "repeat", "ended"}

\* ... and what a silence may still grow by is what is left to the next wake.
WakesInTime ==
  /\ armAge = Never <=> lastArms = 0
  /\ Alive /\ at["keepalive"] = "wait" =>
       /\ armAge + due < 2 * KeepalivePeriod
       /\ baseAge + due <= KeepalivePeriod
  /\ Alive => armAge < 2 * KeepalivePeriod + MaxLate
  /\ Alive => baseAge <= KeepalivePeriod + MaxLate
  /\ Alive /\ at["keepalive"] \in {"lock", "repeat"} => baseAge <= 0

IInv == TypeOK /\ RepeatsAreNewest /\ WakesInTime

\* Inductive: what the threads read once safe_stop was called.
StopIsKept == stopping => twist = 0

\* Inductive with it: a command is on the wire as soon as it is made.
CommandIsSent == wire.arms = made

\* "Nothing new is ever commanded here - a repeat cannot move the robot": no
\* repeat of the keep-alive tells the base to drive once the control thread
\* has said nothing for the base controller's own timeout.
RepeatCannotMove ==
  [][(at["keepalive"] = "base" /\ at'["keepalive"] # "base" /\ loopAge > BaseTimeout)
       => wire'.base = 0]_vars
=============================================================================
