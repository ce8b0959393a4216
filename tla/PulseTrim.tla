------------------------------- MODULE PulseTrim -------------------------------
(***************************************************************************)
(* The fine base trim of the approach (PulseSettleTrim in                  *)
(* camelo/control/approach.py): after the arms are out, the base is nudged *)
(* into a small gate by pulses of one pedal token, guided while it coasts, *)
(* braked when it runs away, and handed over after a dwell at rest.        *)
(*                                                                         *)
(* The world delivers odometry and advances the simulation clock between   *)
(* the ticks of the control loop.  Errors and velocities are integers of   *)
(* one scale: the tolerance of every axis is Tol, and releasing the pedal  *)
(* at velocity v coasts v further (0.5 * v * stop_s in the code).  A       *)
(* velocity that is not finite is read as rest, a pose that is not leaves  *)
(* the tick without a look.                                                *)
(***************************************************************************)
EXTENDS Integers, Sequences

CONSTANTS
  Axes,       \* the axes, in the order the code visits them: a sequence
  Yaw,        \* the one that may only be reversed when it flies away
  Pose,       \* errors odometry may report: functions on the axes
  Velocity,   \* velocities it may report
  Tol,        \* the gate
  Leave,      \* the dwell is abandoned outside of it
  StopLim,    \* below it an axis counts as stopped
  CatchLim,   \* above it a locked axis has been caught late
  HoldUnit,   \* error worth one clock tick of pulse
  HoldFloor, HoldCap,  \* the shortest and the longest pulse
  StopTime,   \* settle time after a release
  DwellTime,  \* rest in the gate before the handover
  None

Axis == {Axes[i] : i \in 1..Len(Axes)}

ASSUME TrimAssumption ==
  /\ Axes \in Seq(Axis) /\ Len(Axes) \in 1..3
  /\ None \notin Axis \cup (Axis \X {-1, 1})
  /\ Pose \subseteq [Axis -> Int] /\ Velocity \subseteq [Axis -> Int]
  /\ Pose # {} /\ Velocity # {}
  /\ Tol \in Nat /\ Leave \in Nat /\ Tol <= Leave
  /\ StopLim \in Nat /\ CatchLim \in Nat
  /\ HoldUnit \in Nat \ {0}
  /\ HoldFloor \in Nat \ {0} /\ HoldCap \in Nat /\ HoldFloor <= HoldCap
  /\ StopTime \in Nat \ {0} /\ DwellTime \in Nat \ {0}

VARIABLES
  pose,    \* the newest odometry: the error of each axis
  vel,     \* and its velocity
  fresh,   \* whether it is newer than the odometry last acted on
  phase,   \* of the trim; "done" when it is over
  locked,  \* the axis a pulse was fired on, or None
  sign,    \* the sign of its error then, or 0
  token,   \* the pedal token held: <<axis, sign>>, or None
  hold,    \* how long
  since,   \* time since the current hold, observation or dwell began
  wire,    \* the token last published, or None
  ticked,  \* whether the loop has run since the clock last moved
  driven,  \* history: time the wire has carried one token
  settled, \* history: time all looks at the base found it at rest in the gate
  last,    \* history: the axis the pedal was last released on
  released \* history: time since then

odom == <<pose, vel, fresh>>

trim == <<phase, locked, sign, token, hold, since>>

vars == <<odom, trim, wire, ticked, driven, settled, last, released>>

Phase == {"idle", "fire", "guide", "brake", "dwell", "done"}

Magnitude(x) == IF x < 0 THEN -x ELSE x

Sign(x) == IF x < 0 THEN -1 ELSE 1

\* Where the clock of the trim stops counting.
MaxSince == IF HoldCap + StopTime < DwellTime THEN DwellTime ELSE HoldCap + StopTime

\* Time t a clock tick later, counted up to a bound.
Later(t, bound) == IF t < bound THEN t + 1 ELSE t

-----------------------------------------------------------------------------
\* What a tick sees.

Outside(a) == Magnitude(pose[a]) > Tol

InBand == \A a \in Axis : ~Outside(a)

Moving(a) == Magnitude(vel[a]) > StopLim

\* Along both linear axes at once the base may be faster than along either.
Stopped ==
  /\ \A a \in Axis : ~Moving(a)
  /\ \A a, b \in Axis \ {Yaw} :
       a # b => vel[a] * vel[a] + vel[b] * vel[b] <= StopLim * StopLim

Closing(a) == IF pose[a] = 0 THEN 0 ELSE vel[a] * Sign(pose[a])

AfterCoast(a) == pose[a] - vel[a]

WillCoastIn(a) == Closing(a) > 0 /\ Magnitude(AfterCoast(a)) <= Tol

WillOvershoot(a) ==
  Closing(a) > 0 /\ AfterCoast(a) * pose[a] < 0 /\ Magnitude(AfterCoast(a)) > Tol

\* Outside the gate only; yaw only when it flies away.
AllowBrake(a) == Outside(a) /\ (a # Yaw \/ Closing(a) <= 0)

\* A locked axis that has crossed its target, will, or was caught late, or
\* one that moves away from it.
Runaway(a) ==
  \/ pose[a] * sign < 0
  \/ WillOvershoot(a)
  \/ Magnitude(vel[a]) > CatchLim
  \/ Closing(a) <= 0 /\ Moving(a)

\* The axis furthest out of the gate; of equals, the first the code visits.
WorstAxis ==
  CHOOSE a \in Axis :
    \E i \in 1..Len(Axes) :
      /\ Axes[i] = a
      /\ \A j \in 1..Len(Axes) :
           /\ Magnitude(pose[Axes[j]]) <= Magnitude(pose[a])
           /\ j < i => Magnitude(pose[Axes[j]]) < Magnitude(pose[a])

HoldFor(a) ==
  LET raw == Magnitude(pose[a]) \div HoldUnit
  IN IF raw < HoldFloor THEN HoldFloor ELSE IF raw > HoldCap THEN HoldCap ELSE raw

-----------------------------------------------------------------------------
\* The world.

\* Odometry: the loop may miss a sample.
Odom(p, v) ==
  /\ phase # "done"
  /\ pose' = p /\ vel' = v /\ fresh' = TRUE
  /\ UNCHANGED <<trim, wire, ticked, driven, settled, last, released>>

\* The simulation clock moves, no further than the loop can follow.
Clock ==
  /\ phase # "done" /\ ticked
  /\ ticked' = FALSE
  /\ since' = Later(since, MaxSince)
  /\ driven' = IF wire = None THEN 0 ELSE Later(driven, HoldCap + 1)
  /\ settled' = Later(settled, DwellTime)
  /\ released' = Later(released, StopTime)
  /\ UNCHANGED last
  /\ UNCHANGED <<odom, phase, locked, sign, token, hold, wire>>

-----------------------------------------------------------------------------
\* One tick of the loop: what every branch of it leaves behind.

AtRest == (\A a \in Axis : Magnitude(pose[a]) <= Leave) /\ Stopped

Publish(t) ==
  /\ phase # "done"
  /\ wire' = t
  /\ driven' = IF t = wire THEN driven ELSE 0
  /\ ticked' = TRUE
  /\ settled' = IF AtRest THEN settled ELSE 0
  /\ UNCHANGED <<pose, vel>>

Rest(t) == UNCHANGED <<locked, sign, token, hold>> /\ Publish(t)

EnterFire(a) ==
  /\ phase' = "fire" /\ locked' = a /\ sign' = Sign(pose[a])
  /\ token' = <<a, Sign(pose[a])>> /\ hold' = HoldFor(a) /\ since' = 0
  /\ fresh' = FALSE
  /\ UNCHANGED <<last, released>>
  /\ Publish(token')

EnterBrake(a) ==
  /\ phase' = "brake" /\ locked' = a
  /\ token' = <<a, IF Moving(a) THEN -Sign(vel[a]) ELSE Sign(pose[a])>>
  /\ hold' = HoldCap /\ since' = 0
  /\ UNCHANGED <<fresh, sign, last, released>>
  /\ Publish(token')

\* Mutant: the dwell clock is not restarted.
KeepDwellClock ==
  /\ phase' = "dwell" /\ locked' = None /\ sign' = 0 /\ token' = None
  /\ fresh' = FALSE
  /\ UNCHANGED <<since, hold, last, released>>
  /\ Publish(None)

EnterDwell ==
  /\ phase' = "dwell" /\ locked' = None /\ sign' = 0 /\ token' = None
  /\ since' = 0 /\ fresh' = FALSE
  /\ UNCHANGED <<hold, last, released>>
  /\ Publish(None)

\* A pulse or a brake: the token is held until the base responds to it, or
\* for its time.
Pressed == phase \in {"fire", "brake"}

Responded == IF phase = "fire" THEN Moving(locked) ELSE ~Moving(locked)

\* Mutant: the hold is never over.
HoldOnForever ==
  /\ Pressed /\ ~Responded
  /\ UNCHANGED <<fresh, phase, since, last, released>>
  /\ Rest(token)

HoldOn ==
  /\ Pressed /\ ~Responded /\ since < hold
  /\ UNCHANGED <<fresh, phase, since, last, released>>
  /\ Rest(token)

Release ==
  /\ Pressed /\ (Responded \/ since >= hold)
  /\ phase' = "guide" /\ since' = 0 /\ fresh' = FALSE
  /\ last' = locked /\ released' = 0
  /\ Rest(None)

-----------------------------------------------------------------------------
\* Guiding the locked axis to a stop.

GateReached ==
  /\ phase = "guide" /\ InBand /\ Stopped
  /\ IF fresh THEN EnterDwell
     ELSE UNCHANGED <<fresh, phase, since, last, released>> /\ Rest(None)

Guiding == phase = "guide" /\ ~(InBand /\ Stopped)

\* The axis is in the gate, another is not: the lock is given up.
GiveUpLock ==
  /\ Guiding /\ ~Outside(locked) /\ Stopped
  /\ phase' = "idle" /\ locked' = None /\ sign' = 0 /\ fresh' = FALSE
  /\ UNCHANGED <<token, hold, since, last, released>>
  /\ Publish(None)

Unlocked == ~Outside(locked) /\ Stopped

Brake ==
  /\ Guiding /\ ~Unlocked /\ AllowBrake(locked) /\ Runaway(locked)
  /\ EnterBrake(locked)

Free == Guiding /\ ~Unlocked /\ ~(AllowBrake(locked) /\ Runaway(locked))

\* It coasts in, or has not stopped yet.
Coast ==
  /\ Free /\ (WillCoastIn(locked) \/ ~Stopped)
  /\ UNCHANGED <<fresh, phase, since, last, released>>
  /\ Rest(None)

\* It stands: a caught pulse may still show for a settle time.
Observe ==
  /\ Free /\ ~WillCoastIn(locked) /\ Stopped /\ since < StopTime
  /\ fresh' = FALSE
  /\ UNCHANGED <<phase, since, last, released>>
  /\ Rest(None)

Repulse ==
  /\ Free /\ ~WillCoastIn(locked) /\ Stopped /\ since >= StopTime
  /\ IF fresh THEN EnterFire(locked)
     ELSE UNCHANGED <<fresh, phase, since, last, released>> /\ Rest(None)

-----------------------------------------------------------------------------
\* Idle, and the dwell.

Idle ==
  /\ phase = "idle"
  /\ ~Stopped \/ ~fresh
  /\ UNCHANGED <<fresh, phase, since, last, released>>
  /\ Rest(None)

IdleInBand == phase = "idle" /\ Stopped /\ fresh /\ InBand /\ EnterDwell

Fire == phase = "idle" /\ Stopped /\ fresh /\ ~InBand /\ EnterFire(WorstAxis)

LeaveDwell ==
  /\ phase = "dwell" /\ ~AtRest
  /\ phase' = "idle"
  /\ UNCHANGED <<fresh, since, last, released>>
  /\ Rest(None)

\* Mutant: every new sample begins the dwell again.
DwellPerSample ==
  /\ phase = "dwell" /\ AtRest
  /\ fresh' = FALSE
  /\ phase' = IF fresh /\ since >= DwellTime THEN "done" ELSE phase
  /\ since' = IF fresh THEN 0 ELSE since
  /\ UNCHANGED <<last, released>>
  /\ Rest(None)

Dwell ==
  /\ phase = "dwell" /\ AtRest
  /\ fresh' = FALSE
  /\ phase' = IF fresh /\ since >= DwellTime THEN "done" ELSE phase
  /\ UNCHANGED <<since, last, released>>
  /\ Rest(None)

\* The pose is not finite: the pedal is let go, the phase stays, and the next
\* look is at newer odometry.
Blind ==
  /\ phase # "done"
  /\ wire' = None /\ driven' = 0 /\ ticked' = TRUE
  /\ fresh' = TRUE
  /\ UNCHANGED <<pose, vel, trim, settled, last, released>>

Tick ==
  \/ HoldOn \/ Release
  \/ GateReached \/ GiveUpLock \/ Brake \/ Coast \/ Observe \/ Repulse
  \/ Idle \/ IdleInBand \/ Fire
  \/ LeaveDwell \/ Dwell

\* run_approach stops stepping the trim once it is done.
Over == phase = "done" /\ UNCHANGED vars

Init ==
  /\ pose \in Pose /\ vel \in Velocity /\ fresh = TRUE
  /\ phase = "idle" /\ locked = None /\ sign = 0 /\ token = None
  /\ hold = 0 /\ since = 0
  /\ wire = None /\ ticked = FALSE
  /\ driven = 0 /\ settled = 0 /\ last = None /\ released = StopTime

Next == (\E p \in Pose, v \in Velocity : Odom(p, v)) \/ Clock \/ Blind \/ Tick \/ Over

\* The loop runs and looks at a pose again and again, a base that stands still
\* goes on being reported, and the clock, which every tick of the loop enables,
\* goes on.
Fairness == WF_vars(Tick) /\ WF_vars(Odom(pose, vel)) /\ SF_vars(Clock)

Spec == Init /\ [][Next]_vars /\ Fairness

-----------------------------------------------------------------------------
Token == Axis \X {-1, 1} \cup {None}

TypeOK ==
  /\ pose \in Pose /\ vel \in Velocity /\ fresh \in BOOLEAN
  /\ phase \in Phase
  /\ locked \in Axis \cup {None} /\ sign \in {-1, 0, 1}
  /\ token \in Token /\ wire \in Token
  /\ hold \in 0..HoldCap
  /\ since \in 0..MaxSince /\ driven \in 0..(HoldCap + 1)
  /\ settled \in 0..DwellTime /\ last \in Axis \cup {None} /\ released \in 0..StopTime
  /\ ticked \in BOOLEAN

\* A handover follows a dwell: every look the loop took at the base over the
\* dwell time found it at rest inside the leave band, whatever pulses, brakes
\* and abandoned dwells came before.
HandoverIsQuiet == phase = "done" => settled >= DwellTime /\ wire = None

\* However fires, releases and brakes follow one another, no token stays on
\* the wire longer than the longest pulse.
PulseIsBounded == driven <= HoldCap

\* A base that comes to rest in the gate is handed over: no phase waits for a
\* response, a release or a new pulse that will not come.
SettledIsHandedOver == <>[](InBand /\ Stopped) => <>(phase = "done")

\* The parts the induction needs beside the properties: what is on the wire is
\* the token of a pulse or brake, and has been no longer than its hold allows.
TokenIsTimed ==
  /\ Pressed => token # None
  /\ IF wire = None THEN driven = 0
     ELSE /\ Pressed /\ wire = token
          /\ driven <= since /\ since <= hold
          /\ ticked => since < hold

\* Guided or pressed, an axis is locked.
AxisIsLocked == phase \in {"fire", "guide", "brake"} => locked \in Axis

\* The dwell clock runs no further than the rest the loop has seen.
DwellIsRest == phase = "dwell" => settled >= since \/ settled >= DwellTime

IInv == TypeOK /\ TokenIsTimed /\ AxisIsLocked /\ DwellIsRest /\ HandoverIsQuiet

\* PulseSettleTrim: "Re-pulse only once that axis has stopped for one settle
\* constant on a *new* odom": a pulse begins on an axis no sooner than a settle
\* time after the last one on it was released.
RepulseWaits ==
  [][phase # "fire" /\ phase' = "fire" => locked' # last \/ released >= StopTime]_vars
=============================================================================
