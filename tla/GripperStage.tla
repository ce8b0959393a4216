----------------------------- MODULE GripperStage -----------------------------
(***************************************************************************)
(* The right gripper's way from the executor's command to the wire: the    *)
(* grasp gate (camelo/control/grasp_gate.py), the latch                    *)
(* (camelo/control/gripper_latch.py), the publish, and the observer that   *)
(* measures what was published, in the order of run_rollout's tick         *)
(* (camelo/runner/episode_runner.py).                                      *)
(*                                                                         *)
(* A tick on which the executor commands nothing touches none of them.     *)
(* The others carry a row of a chunk, or, when hold() speaks, the last row *)
(* again.  Geometry is what a tick reads of it: whether the TCP is in the  *)
(* ball, or the pad in the finger box, attitude included.  Time is the sim *)
(* clock; the code's instants are kept as the time since them, counted up  *)
(* to MaxAge.  Distances, minima and tick counts are write-only.           *)
(***************************************************************************)
EXTENDS Integers

CONSTANTS
  Fraction,      \* open fractions the policy may command, 0 being closed
  CloseBelow,    \* close_below
  ReleaseAbove,  \* release_above
  LatchedValue,  \* LATCHED_VALUE
  HalfOpen,      \* CLOSED_OPEN_FRACTION
  HoldTime,      \* hold_s
  SustainTime,   \* RELEASE_SUSTAIN_S
  DwellTime,     \* dwell_s
  MaxAge,        \* where times stop being counted
  None

\* What the proofs ask of the constants; GripperWire assumes it of its own.
StageAssumption ==
  /\ Fraction \subseteq Nat
  /\ CloseBelow \in Nat /\ ReleaseAbove \in Nat
  /\ LatchedValue \in Nat /\ HalfOpen \in Nat \ {0}
  /\ HoldTime \in Nat /\ SustainTime \in Nat /\ DwellTime \in Nat
  /\ MaxAge \in Nat
  /\ HoldTime + SustainTime < MaxAge /\ DwellTime < MaxAge
  /\ None \notin Int

VARIABLES
  config,      \* which stages the run has
  closed,      \* the gate fired
  okFor,       \* time since ok_since_sim_s
  engaged,     \* the latch's state,
  engagedFor,  \* time since engage_t,
  openFor,     \* and since _open_since_t
  sent,        \* what the last tick published: the observer's prev_gripper_cmd
  closeAny,    \* the observer's readings: a close was sent,
  closeInEnv,  \* and one inside the envelope
  policy,      \* the gripper of the executor's last command
  notOpenFor,  \* history: time since the latch was last given no opening,
  rows,        \* the chunk rows, up to two, it was given since,
  missFor,     \* time since the gate last measured a miss,
  openedOnce   \* and whether this episode has sent an open gripper

gateVars == <<closed, okFor, missFor>>

latchVars == <<engaged, engagedFor, openFor, notOpenFor, rows>>

observerVars == <<sent, closeAny, closeInEnv, openedOnce>>

vars == <<config, gateVars, latchVars, observerVars, policy>>

\* run_policy builds a latch, with or without its proximity gate; the episode
\* runner a gate of one of the four modes, and resets it between episodes.
Config ==
  [latch : {"none", "plain", "near"}, gate : {"none", "entry", "dwell", "geom", "geom+dwell"}]

\* A pad pose not seen yet, or where it is.
PadReading == [seen : BOOLEAN, ball : BOOLEAN, box : BOOLEAN]

Init ==
  /\ config \in Config
  /\ config.latch = "none" \/ config.gate = "none"
  /\ closed = FALSE /\ okFor = None /\ missFor = 0
  /\ engaged = FALSE /\ engagedFor = None /\ openFor = None
  /\ notOpenFor = 0 /\ rows = 0
  /\ sent = None /\ closeAny = FALSE /\ closeInEnv = FALSE /\ openedOnce = FALSE
  /\ policy = None

-----------------------------------------------------------------------------
\* The gate: None before it closes, 0 from then on.

Dwell == IF config.gate \in {"dwell", "geom+dwell"} THEN DwellTime ELSE 0

Ok(pad) == IF config.gate \in {"geom", "geom+dwell"} THEN pad.box ELSE pad.ball

\* The gate measures until it has closed, and only a pad it sees.
Measures(pad) == config.gate # "none" /\ ~closed /\ pad.seen

\* Mutant: a miss leaves the run of hits as it was.
KeepsRun(pad) == IF Ok(pad) /\ okFor = None THEN 0 ELSE okFor

\* How long the run of hits has lasted, this tick included.
RunOf(pad) == IF ~Ok(pad) THEN None ELSE IF okFor = None THEN 0 ELSE okFor

Fires(pad) ==
  /\ Measures(pad)
  /\ Ok(pad)
  /\ RunOf(pad) >= Dwell

Gate(pad) ==
  /\ okFor' = IF Measures(pad) THEN RunOf(pad) ELSE okFor
  /\ missFor' = IF Measures(pad) /\ ~Ok(pad) THEN 0 ELSE missFor
  /\ closed' = (closed \/ Fires(pad))

\* Mutant: the gate's close is left out of the command.
GateOnly(v) == v

\* The command the latch is given.
Gated(v) == IF closed' THEN 0 ELSE v

-----------------------------------------------------------------------------
\* The latch.

Least(a, b) == IF a < b THEN a ELSE b

Engages(v, near) ==
  /\ config.latch # "none" /\ ~engaged
  /\ v < CloseBelow
  /\ config.latch = "near" => near

\* The times update() compares; a tick that engages starts both afresh.
HeldFor == IF engaged THEN engagedFor ELSE 0

OpenRun == IF engaged THEN openFor ELSE None

Opens(v) == HeldFor >= HoldTime /\ v > ReleaseAbove

\* Mutant: the opening is timed from its last tick.
RestartsRun(v) == IF Opens(v) THEN 0 ELSE None

\* Mutant: a command that is no opening leaves the run as it was.
ForgetsDip(v) == IF Opens(v) /\ OpenRun = None THEN 0 ELSE OpenRun

\* _open_since_t after a tick: it starts on the first opening past the hold,
\* and any other command past the hold breaks the run.
OpenRunAfter(v) ==
  IF HeldFor < HoldTime THEN OpenRun
  ELSE IF Opens(v) THEN IF OpenRun = None THEN 0 ELSE OpenRun
  ELSE None

Releases(v) == engaged /\ Opens(v) /\ openFor # None /\ openFor >= SustainTime

\* History of what the latch was given.
Given(v, fresh) ==
  /\ notOpenFor' = IF v > ReleaseAbove THEN notOpenFor ELSE 0
  /\ rows' = IF v > ReleaseAbove THEN Least(rows + fresh, 2) ELSE 0

-----------------------------------------------------------------------------
\* The observer.

Closing(value) == sent # None /\ sent >= HalfOpen /\ value < HalfOpen

Observe(value, pad) ==
  /\ sent' = value
  /\ closeAny' = (closeAny \/ Closing(value))
  /\ closeInEnv' = (closeInEnv \/ (Closing(value) /\ pad.seen /\ pad.ball))
  /\ openedOnce' = (openedOnce \/ value >= HalfOpen)

-----------------------------------------------------------------------------
\* What a tick makes of the command v that the latch is given, and publishes.

LatchPasses(v, pad, near) ==
  /\ ~engaged /\ ~Engages(v, near)
  /\ UNCHANGED <<engaged, engagedFor, openFor>>
  /\ Observe(v, pad)

LatchHolds(v, pad, near) ==
  /\ engaged \/ Engages(v, near)
  /\ ~Releases(v)
  /\ engaged' = TRUE
  /\ engagedFor' = HeldFor
  /\ openFor' = OpenRunAfter(v)
  /\ Observe(Least(v, LatchedValue), pad)

LatchReleases(v, pad) ==
  /\ Releases(v)
  /\ engaged' = FALSE
  /\ openFor' = None
  /\ UNCHANGED engagedFor
  /\ Observe(v, pad)

-----------------------------------------------------------------------------
\* A tick of the loop that has a command.

Tick(v, fresh, pad, near) ==
  /\ Gate(pad)
  /\ Given(Gated(v), fresh)
  /\ \/ LatchPasses(Gated(v), pad, near)
     \/ LatchHolds(Gated(v), pad, near)
     \/ LatchReleases(Gated(v), pad)
  /\ policy' = v
  /\ UNCHANGED config

\* A row of a chunk, from executor.step.
Step(pad, near) == \E v \in Fraction : Tick(v, 1, pad, near)

\* The last command once more, from executor.hold.
Hold(pad, near) == policy # None /\ Tick(policy, 0, pad, near)

Older(age) == IF age # None /\ age < MaxAge THEN age + 1 ELSE age

Elapse ==
  /\ okFor' = Older(okFor) /\ missFor' = Older(missFor)
  /\ engagedFor' = Older(engagedFor) /\ openFor' = Older(openFor)
  /\ notOpenFor' = Older(notOpenFor)
  /\ UNCHANGED <<config, closed, engaged, rows, observerVars, policy>>

\* run_episode: the executor, the gate and the observer are reset.
NextEpisode ==
  /\ config.latch = "none"
  /\ closed' = FALSE /\ okFor' = None /\ missFor' = 0
  /\ sent' = None /\ closeAny' = FALSE /\ closeInEnv' = FALSE /\ openedOnce' = FALSE
  /\ policy' = None
  /\ UNCHANGED <<config, latchVars>>

Commanded ==
  \E pad \in PadReading, near \in BOOLEAN : Step(pad, near) \/ Hold(pad, near)

Next == Commanded \/ Elapse \/ NextEpisode

\* The loop ticks on, and the clock with it.
Fairness == WF_vars(Commanded) /\ WF_vars(Elapse)

Spec == Init /\ [][Next]_vars /\ Fairness

-----------------------------------------------------------------------------
\* Properties.

Age == (0..MaxAge) \cup {None}

\* Every variable holds a value of its kind, and an opening is timed only
\* while the latch is engaged.
TypeOK ==
  /\ config \in Config
  /\ closed \in BOOLEAN /\ engaged \in BOOLEAN
  /\ okFor \in Age /\ engagedFor \in Age /\ openFor \in Age
  /\ sent \in Fraction \cup {0, LatchedValue, None}
  /\ closeAny \in BOOLEAN /\ closeInEnv \in BOOLEAN /\ openedOnce \in BOOLEAN
  /\ policy \in Fraction \cup {None}
  /\ notOpenFor \in 0..MaxAge /\ missFor \in 0..MaxAge
  /\ rows \in 0..2
  /\ openFor # None => engaged

\* The latch lets go of an object only when it has held for hold_s, and every
\* command it was given for the sustain time after that was an opening:
\* no dip in between is forgotten, however the ticks are spaced.
ReleaseIsEarned ==
  [][(engaged /\ ~engaged') =>
       /\ engagedFor >= HoldTime + SustainTime
       /\ notOpenFor >= SustainTime]_vars

\* The gate closes only after it measured no miss for the dwell: a fly-through
\* banks no credit for the next one.
DwellIsReal == [][(~closed /\ closed') => missFor' >= Dwell]_vars

\* "A close the gate forced is a close the observer sees": unless the gripper
\* was closed, or nothing was sent yet, and inside the envelope when the gate
\* fires on the ball.
GateCloseIsSeen ==
  [][(~closed /\ closed' /\ sent # None /\ sent >= HalfOpen) =>
       /\ closeAny'
       /\ config.gate \in {"entry", "dwell"} => closeInEnv']_vars

\* A close is an edge of this episode's own commands: a gripper closed from
\* the first tick, or closed by the episode before, is not a grasp attempt.
CloseIsAnEdge == (closeInEnv => closeAny) /\ (closeAny => openedOnce)

\* A policy that goes on commanding an opening gets its gripper back.
LatchLetsGo ==
  (<>[](policy # None /\ policy > ReleaseAbove)) => <>[](~engaged)

\* RELEASE_SUSTAIN_S "guards a single glitchy tick above RELEASE_ABOVE from
\* releasing a grasp mid-transport": a release takes more than one row.
GlitchDoesNotRelease == [][(engaged /\ ~engaged') => rows' > 1]_vars

\* Inductive: the latch's run of openings began past the hold, and after the
\* last command that was none; the gate's run of hits after the last miss.
RunsAreClean ==
  /\ engaged => engagedFor # None
  /\ openFor # None =>
       /\ openFor <= notOpenFor
       /\ Least(MaxAge, openFor + HoldTime) <= engagedFor
  /\ (okFor # None /\ ~closed) => okFor <= missFor
  /\ (sent # None /\ sent >= HalfOpen) => openedOnce

IInv == TypeOK /\ RunsAreClean /\ CloseIsAnEdge
=============================================================================
