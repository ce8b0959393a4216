--------------------------- MODULE PerceptionApproach ---------------------------
(***************************************************************************)
(* The approach by camera (PerceptionApproachController in                 *)
(* camelo/control/approach_perception_based.py, with the pose filter and   *)
(* the planner of camelo/control/perception): the base dead-reckons from a *)
(* rough start, corrects its estimate with the frames that lock onto the   *)
(* table, fits a path to the goal on every tick, and, at the goal, retreats*)
(* until the rear rim of the table is in view.                             *)
(*                                                                         *)
(* Positions are along the line of the retreat, in units of the arrival    *)
(* tolerance's order: the nominal goal is 0, the table lies below it.      *)
(* Odometry is exact but relative: only the start pose and the locks say   *)
(* where the base is.  A frame reaches the loop some ticks after it was    *)
(* taken; one dropped by the vision period is one that never came.         *)
(***************************************************************************)
EXTENDS Integers

CONSTANTS
  Position,     \* where the base may be: an interval of the integers
  StartError,   \* errors of the start pose
  Noise,        \* errors of a true lock
  Lag,          \* ticks a frame may be old when the loop looks at it
  Mirror,       \* how far off the lock on the table's mirror twin is
  Reject,       \* a lock further than that from the estimate is rejected
  Blocked,      \* positions no path can be fitted from
  Reach,        \* a path shorter than that has one leg
  Ahead,        \* how far ahead the first leg of a longer one ends
  Tol,          \* arrival tolerance
  Near,         \* the token is pulsed closer than that
  SettleTicks,  \* ticks of arrival
  SpineTicks,   \* ticks the spine must be up
  Step,         \* a retreat
  MaxBackoff,   \* all of them
  RimFrom,      \* the rear rim is in view from there on
  Profiles,     \* the two flags of the scene profile that the run may have
  None

Magnitude(x) == IF x < 0 THEN -x ELSE x

Sign(x) == IF x < 0 THEN -1 ELSE 1

\* How far off the rough start, or a true lock, may be.
Errors == StartError \cup UNION {n - Lag .. n + Lag : n \in Noise}

MaxError == CHOOSE e \in {Magnitude(x) : x \in Errors} : \A x \in Errors : Magnitude(x) <= e

\* What the constants are; Approaches assumes it of its own.  The twin is turned
\* by half a turn, the gate (REJECT_YAW_RAD_DEFAULT) is a quarter, and a start
\* pose further off than the rest of it is one the code warns of.
PerceptionAssumption ==
  /\ Position \subseteq Int /\ Blocked \subseteq Int
  /\ StartError \subseteq Int /\ Noise \subseteq Int /\ Lag \in Nat \ {0}
  /\ \E e \in Errors : \A x \in Errors : Magnitude(x) <= Magnitude(e)
  /\ Mirror \in Int /\ Reject \in Nat /\ Magnitude(Mirror) > Reject + MaxError + Lag
  /\ Reach \in Nat /\ Ahead \in Nat /\ Tol \in Nat /\ Near \in Nat
  /\ SettleTicks \in Nat \ {0} /\ SpineTicks \in Nat \ {0}
  /\ Step \in Nat \ {0} /\ MaxBackoff \in Nat /\ RimFrom \in Int
  /\ Profiles \subseteq [baseOnly : BOOLEAN, continuous : BOOLEAN]
  /\ None \notin Int

VARIABLES
  profile,  \* whether the base is all that is driven, and by a continuous twist
  stage,    \* spine, navigate, place_arms, done
  up,       \* whether the spine is measured to be up
  hold,     \* _spine_hold: ticks it has been
  pos,      \* where the base is
  moved,    \* whether it has moved since the last tick
  trail,    \* where it was at the last ticks, the latest first
  heard,    \* whether odometry has been received
  frame,    \* where the newest head frame was taken, or None
  unread,   \* whether its stamp is newer than the last one looked at
  est,      \* the fused estimate, or None before the filter is seeded
  last,     \* the odometry of the last update
  path,     \* the path fitted: where its first leg ends, whether it is all
  backoff,  \* _rim_backoff_m
  settle,   \* _path_settle
  coast,    \* _creep_coast
  wire      \* the token: towards the goal -1, away from it 1, or None

filter == <<est, last>>

nav == <<path, backoff, settle, coast>>

world == <<up, pos, moved, trail, heard, frame>>

vars == <<profile, stage, hold, world, unread, filter, nav, wire>>

-----------------------------------------------------------------------------
\* The world.

SpineMoves ==
  /\ stage = "spine" /\ up' = ~up
  /\ UNCHANGED <<profile, stage, hold, pos, moved, trail, heard, frame, unread, filter, nav, wire>>

\* A continuous twist tapers towards its target: close to it, the base takes
\* longer for a step than a frame does.
Tapers ==
  /\ profile.continuous /\ path # None
  /\ Magnitude(path.to + (IF path.all THEN backoff ELSE 0) - est) <= Near

\* The base follows the wire, one step before the loop looks again.
Move ==
  /\ wire # None /\ ~moved /\ pos + wire \in Position
  /\ Tapers => \A i \in 1..Lag : trail[i] = pos
  /\ pos' = pos + wire /\ moved' = TRUE
  /\ UNCHANGED <<profile, stage, hold, up, trail, heard, frame, unread, filter, nav, wire>>

OdomStarts ==
  /\ ~heard /\ heard' = TRUE
  /\ UNCHANGED <<profile, stage, hold, up, pos, moved, trail, frame, unread, filter, nav, wire>>

NewFrame ==
  /\ stage # "spine"
  /\ frame' \in {pos} \cup {trail[i] : i \in 1..Lag} /\ unread' = TRUE
  /\ UNCHANGED <<profile, stage, hold, up, pos, moved, trail, heard, filter, nav, wire>>

-----------------------------------------------------------------------------
\* One tick: what it looks at.

\* Mutant: a frame is looked at on every tick until the next one comes.
AnyHead == frame # None

\* _fresh_head: a frame is looked at once.
FreshHead == frame # None /\ unread

\* localize and its gates: no lock, a true one, or the mirror twin's.
Locks ==
  {None} \cup
  (IF FreshHead THEN {frame + n : n \in Noise} \cup {frame + Mirror} ELSE {})

\* _rear_rim_visible: only a frame looked at on this tick can tell.
RimSeen == FreshHead /\ frame >= RimFrom

RimMissing == FreshHead /\ frame < RimFrom

-----------------------------------------------------------------------------
\* The pose filter.

\* Seeded on the first tick that has odometry; then carried forward by what
\* odometry moved since the last update.
Predicted(start) == IF est = None THEN pos + start ELSE est + (pos - last)

Rejected(lock, predicted) == Magnitude(lock - predicted) > Reject

\* The estimate moves towards the lock by a gain the evidence decides.
Between(x, y) == IF x <= y THEN x..y ELSE y..x

Corrected(lock, predicted) ==
  IF lock = None \/ Rejected(lock, predicted) THEN {predicted}
  ELSE Between(predicted, lock)

Update(lock) ==
  /\ heard
  /\ \E start \in StartError : est' \in Corrected(lock, Predicted(start))
  /\ last' = pos
  /\ unread' = FALSE

-----------------------------------------------------------------------------
\* Planning and driving.

\* A path is fitted afresh on every tick; when none can be, the last is kept.
Replan ==
  path' =
    IF est' \in Blocked THEN path
    ELSE IF Magnitude(est') < Reach THEN [to |-> 0, all |-> TRUE]
    ELSE [to |-> est' - Sign(est') * Ahead, all |-> FALSE]

\* The target: retreated from the table, if it is the goal.
Target == path'.to + (IF path'.all THEN backoff ELSE 0)

Error == Target - est'

Arrived == path'.all /\ Magnitude(Error) <= Tol /\ ~moved

Ticked ==
  /\ moved' = FALSE
  /\ trail' = [i \in 1..Lag |-> IF i = 1 THEN pos ELSE trail[i - 1]]
  /\ UNCHANGED <<profile, up, pos, heard, frame>>

\* Retreat a step: the next tick drives to the new target.
Retreat ==
  /\ backoff' = (IF backoff + Step < MaxBackoff THEN backoff + Step ELSE MaxBackoff)
  /\ settle' = 0 /\ coast' = FALSE /\ wire' = None
  /\ UNCHANGED stage

\* Mutant: a tick without a fresh frame counts as one without the rim.
RimUnseen == ~RimSeen /\ backoff < MaxBackoff

\* Only what a fresh frame shows to be missing makes the base retreat.
RimWanted == RimMissing /\ backoff < MaxBackoff

\* build_stages: with base_only, navigate is all there is.
AfterNavigate == IF profile.baseOnly THEN "done" ELSE "place_arms"

StandAtGoal ==
  /\ coast' = FALSE /\ wire' = None
  /\ IF settle + 1 >= SettleTicks
     THEN settle' = 0 /\ stage' = AfterNavigate
     ELSE settle' = settle + 1 /\ UNCHANGED stage
  /\ UNCHANGED backoff

\* The twist: quantized, and close to the target one tick on and one tick off;
\* or, on the rig, as it is.
Pulsed == ~profile.continuous /\ Error # 0 /\ Magnitude(Error) <= Near

Drive ==
  /\ settle' = 0
  /\ coast' = (Pulsed /\ ~coast)
  /\ wire' = IF Error = 0 \/ (Pulsed /\ coast) THEN None ELSE Sign(Error)
  /\ UNCHANGED <<stage, backoff>>

Hold ==
  /\ wire' = None
  /\ UNCHANGED <<stage, backoff, settle, coast>>

Spine ==
  /\ stage = "spine"
  /\ hold' = IF up THEN hold + 1 ELSE 0
  /\ stage' = IF hold' >= SpineTicks THEN "navigate" ELSE stage
  /\ wire' = None
  /\ unread' = FALSE
  /\ UNCHANGED <<filter, nav>>
  /\ Ticked

\* Without odometry the base holds still, and so does one with no path yet.
Blind ==
  /\ stage = "navigate" /\ ~heard
  /\ unread' = FALSE
  /\ UNCHANGED <<hold, filter, path>>
  /\ Hold /\ Ticked

NoPath ==
  /\ stage = "navigate"
  /\ \E lock \in Locks : Update(lock)
  /\ Replan /\ path' = None
  /\ UNCHANGED hold
  /\ Hold /\ Ticked

Following ==
  /\ stage = "navigate"
  /\ \E lock \in Locks : Update(lock)
  /\ Replan /\ path' # None
  /\ UNCHANGED hold
  /\ Ticked

Advance == Following /\ ~Arrived /\ Drive

BackOff == Following /\ Arrived /\ RimWanted /\ Retreat

Stand == Following /\ Arrived /\ ~RimWanted /\ StandAtGoal

\* _refresh_est: while the arms are placed the estimate is kept up.
Refresh ==
  /\ stage = "place_arms" /\ heard
  /\ \E lock \in Locks : Update(lock)
  /\ wire' = None
  /\ UNCHANGED <<stage, hold, nav>>
  /\ Ticked

Tick == Spine \/ Blind \/ NoPath \/ Advance \/ BackOff \/ Stand \/ Refresh

Init ==
  /\ profile \in Profiles
  /\ stage = IF profile.baseOnly THEN "navigate" ELSE "spine"
  /\ up \in BOOLEAN /\ hold = 0
  /\ pos \in {p \in Position : \A q \in Position : q <= p}
  /\ moved = FALSE /\ trail = [i \in 1..Lag |-> pos] /\ heard \in BOOLEAN
  /\ frame = None /\ unread = FALSE
  /\ est = None /\ last = None
  /\ path = None /\ backoff = 0 /\ settle = 0 /\ coast = FALSE
  /\ wire = None

Next == Tick \/ SpineMoves \/ Move \/ OdomStarts \/ NewFrame

\* The loop runs; odometry starts; the base answers a token it is given again
\* and again.
Fairness == WF_vars(Tick) /\ WF_vars(OdomStarts) /\ SF_vars(Move)

Spec == Init /\ [][Next]_vars /\ Fairness

-----------------------------------------------------------------------------
\* The fused estimate is never further off than the rough start or one lock
\* could put it, a frame being as old as Lag: no frame is fused twice, however
\* few come, a mirror twin's lock is rejected, and no odometry is counted
\* twice.
EstimateIsNear == est # None => Magnitude(est - last) <= MaxError

\* Once there is a path, navigate ends: the base does not hunt between a target
\* that retreats for the rear rim and a path, fitted to the goal itself, that
\* leads back.
NavigateEnds == <>(path # None) => <>(stage \in {"place_arms", "done"})

\* The rim comes into view, in a frame Lag steps old, while the retreated target
\* is still within one leg of the goal.
RimInReach == RimFrom + Step + Tol + Lag < Reach

-----------------------------------------------------------------------------
TypeOK ==
  /\ profile \in Profiles
  /\ stage \in {"spine", "navigate", "place_arms", "done"}
  /\ up \in BOOLEAN /\ moved \in BOOLEAN /\ heard \in BOOLEAN /\ unread \in BOOLEAN
  /\ hold \in 0..SpineTicks /\ (stage = "spine" => hold < SpineTicks)
  /\ pos \in Position /\ frame \in Position \cup {None} /\ trail \in [1..Lag -> Position]
  /\ est \in Int \cup {None} /\ last \in Int \cup {None} /\ (est = None <=> last = None)
  /\ path \in [to : Int, all : BOOLEAN] \cup {None}
  /\ backoff \in 0..MaxBackoff /\ settle \in 0..SettleTicks - 1
  /\ coast \in BOOLEAN /\ wire \in {-1, 1, None}

\* What the bound on the error rests on: the base moves one step in a tick at
\* most, so that it was no more steps away than ticks ago.
TrailIsNear ==
  \A i \in 1..Lag : Magnitude(trail[i] - pos) <= IF moved THEN i ELSE i - 1

\* A frame not looked at yet is as old as it may be when it came, if not more.
UnreadIsRecent ==
  unread => frame # None /\ Magnitude(frame - pos) <= IF moved THEN Lag ELSE Lag - 1

IInv == TypeOK /\ TrailIsNear /\ UnreadIsRecent /\ EstimateIsNear
=============================================================================
