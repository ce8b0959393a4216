-------------------------------- MODULE Episodes --------------------------------
(***************************************************************************)
(* A batch of scored episodes (EpisodeRunner in                            *)
(* camelo/runner/episode_runner.py, ArmSettleMonitor in                    *)
(* camelo/runner/recenter.py, the caches of camelo/ros/obs_collector.py    *)
(* they read): reset the scene, open the grippers, wait for the spine,     *)
(* bring the arms to the start pose and see them settle there, clear what  *)
(* the last episode left, run the rollout, have the result evaluated.      *)
(*                                                                         *)
(* The world resets the simulation, moves the spine and the arms as the    *)
(* simulation clock advances, and evaluates.  Each of the program's waits  *)
(* has a deadline by the wall clock, some a timeout by the simulation      *)
(* clock too.  An exception ends the batch: nothing in the repository      *)
(* catches one of run_episode.  The rollout itself is Rollout.             *)
(***************************************************************************)
EXTENDS Integers, Sequences, FiniteSets

CONSTANTS
  Episodes,     \* number of episodes of the batch
  MaxError,     \* the greatest error of the arms
  Tol,          \* ARM_SETTLE_TOL_RAD
  Window,       \* ARM_SETTLE_WINDOW_S
  SnapTime,     \* for how long after a reset the old target pulls the arms
  SimTimeout,   \* of wait_for_spine and recenter_arms, simulation time
  WallTimeout,  \* of every wait, wall time
  None

Errors == 0..MaxError

ASSUME EpisodesAssumption ==
  /\ Episodes \in Nat \ {0}
  /\ MaxError \in Nat /\ Tol \in Nat /\ Tol < MaxError
  /\ Window \in Nat \ {0} /\ SnapTime \in Nat \ {0} /\ SnapTime <= Window
  /\ SimTimeout \in Nat \ {0} /\ WallTimeout \in Nat \ {0}
  /\ None \notin Nat

VARIABLES
  explicit,  \* whether a start pose was asked for: --start-pose
  pc,        \* how far run_episode has come
  episode,   \* which one
  wall,      \* wall time of the current wait
  elapsed,   \* simulation time since its first observation, or None
  samples,   \* of the settle monitor: how long ago, which error
  warned,    \* the arms were not at the start pose, and it only warned
  dirty,     \* what still is as the last episode left it
  before,    \* the newest evaluation when the call was made
  row,       \* the evaluation the episode is scored with, or None
  events,    \* whether reset_events holds an acknowledgement
  asked,     \* whether a scene reset is requested and not done
  heard,     \* whether the clock and the joint states have been received
  looked,    \* whether the program has looked since the clock moved
  rebased,   \* whether it has yet to see that the clock was rebased
  since,     \* simulation time since the reset
  spine,     \* whether the spine is up
  jam,       \* whether the arms are jammed on the table
  arm,       \* the error of the arms to the start pose
  service,   \* the evaluation service: idle, called, or its answer
  owed,      \* the episodes whose evaluations have not been written
  newest,    \* the episode of the newest evaluation, 0 for an old one
  overdue    \* history: those owed when this episode's call was made

monitor == <<elapsed, samples>>

score == <<before, row>>

sim == <<events, asked, heard, looked, rebased, since, spine, jam, arm>>

evaluation == <<service, owed, newest, overdue>>

vars == <<explicit, pc, episode, wall, monitor, warned, dirty, score, sim, evaluation>>

\* What an episode leaves behind.
Leftovers == {"scene", "gripper", "executor", "gate", "observer", "tracker", "backend"}

Later(t, bound) == IF t < bound THEN t + 1 ELSE t

-----------------------------------------------------------------------------
\* The simulation.

\* A reset teleports the arms, drops the spine and rebases the clock.
Rebase ==
  /\ since' = 0 /\ rebased' = (rebased \/ since > 0) /\ looked' = FALSE
  /\ spine' = FALSE /\ jam' = FALSE
  /\ arm' \in Errors
  /\ events' = TRUE
  /\ dirty' = dirty \ {"scene"}

\* The reset asked for, which another's may have been taken for meanwhile.
ServeReset ==
  /\ asked /\ pc \in {"ack", "spine", "arms", "clear"}
  /\ Rebase
  /\ asked' = FALSE
  /\ UNCHANGED <<explicit, pc, episode, wall, monitor, warned, score, heard, evaluation>>

\* Somebody else resets it, at any time from the request to the rollout; two
\* resets in one tick of the clock are one.
OtherReset ==
  /\ pc \in {"ack", "spine", "arms", "clear"} /\ since > 0
  /\ Rebase
  /\ UNCHANGED <<explicit, pc, episode, wall, monitor, warned, score, asked, heard, evaluation>>

\* The old target pulls the arms anywhere for a while; then they go where they
\* are sent, and may stop short of it, unless they are jammed.
ArmsMove ==
  arm' \in IF jam THEN {arm} ELSE IF since < SnapTime THEN Errors ELSE 0..arm

Aged(s) == [i \in 1..Len(s) |-> [s[i] EXCEPT !.age = Later(@, Window)]]

\* The simulation resets before its clock goes on, and the program looks at
\* least once in every tick of the clock.
Clock ==
  /\ pc \in {"ack", "spine", "arms"} /\ ~asked
  /\ looked \/ pc = "ack"
  /\ heard' = TRUE
  /\ since' = Later(since, SnapTime)
  /\ elapsed' = IF elapsed = None THEN None ELSE Later(elapsed, SimTimeout)
  /\ samples' = Aged(samples)
  /\ spine' \in {spine, TRUE}
  /\ ArmsMove
  /\ looked' = FALSE
  /\ UNCHANGED <<explicit, pc, episode, wall, warned, dirty, score, events, asked, rebased, jam, evaluation>>

Waiting == pc \in {"ack", "spine", "arms", "call", "json"}

WallClock ==
  /\ Waiting /\ wall < WallTimeout
  /\ wall' = wall + 1
  /\ UNCHANGED <<explicit, pc, episode, monitor, warned, dirty, score, sim, evaluation>>

-----------------------------------------------------------------------------
\* The evaluation service: its answer, and the file it writes, come in any
\* order.

ServiceAnswers ==
  /\ service = "called"
  /\ service' \in {"success", "failure"}
  /\ UNCHANGED <<explicit, pc, episode, wall, monitor, warned, dirty, score, sim, owed, newest, overdue>>

\* A file is written, or never will be; of a call that timed out, too.
Written ==
  /\ \E e \in owed : newest' \in {newest, e} /\ owed' = owed \ {e}
  /\ UNCHANGED <<explicit, pc, episode, wall, monitor, warned, dirty, score, sim, service, overdue>>

-----------------------------------------------------------------------------
\* run_episode.

Goto(from, to) == pc = from /\ pc' = to /\ wall' = 0

\* An exception leaves run_episode.
Raise(from) == Goto(from, "raised")

\* Mutant: once there are observations, the simulation clock alone is asked.
LateIfBlind == wall >= WallTimeout /\ ~(heard /\ pc \in {"spine", "arms"})

Late == wall >= WallTimeout

\* Mutant: what was acknowledged before the request counts.
ResetUndrained ==
  /\ Goto("reset", "ack")
  /\ asked' = TRUE
  /\ warned' = FALSE /\ row' = None
  /\ UNCHANGED <<explicit, episode, monitor, dirty, before, events, heard, looked, rebased, since, spine, jam, arm, evaluation>>

\* reset_scene: old acknowledgements are dropped, a reset is asked for.
Reset ==
  /\ Goto("reset", "ack")
  /\ events' = FALSE /\ asked' = TRUE
  /\ warned' = FALSE /\ row' = None
  /\ UNCHANGED <<explicit, episode, monitor, dirty, before, heard, looked, rebased, since, spine, jam, arm, evaluation>>

\* Acknowledged: after the settle time the grippers are sent open.
Acknowledged ==
  /\ events
  /\ Goto("ack", "spine")
  /\ events' = FALSE
  /\ dirty' = dirty \ {"gripper"}
  /\ elapsed' = None /\ samples' = <<>>
  /\ looked' = FALSE
  /\ UNCHANGED <<explicit, episode, warned, score, asked, heard, rebased, since, spine, jam, arm, evaluation>>

ResetTimesOut ==
  /\ Late /\ ~events
  /\ Raise("ack")
  /\ UNCHANGED <<explicit, episode, monitor, warned, dirty, score, sim, evaluation>>

\* get_obs, in either wait: the time since its first observation, which a
\* rebased clock makes this one.
Elapsed == IF elapsed = None \/ rebased THEN 0 ELSE elapsed

Look ==
  /\ heard
  /\ looked' = TRUE /\ rebased' = FALSE
  /\ UNCHANGED <<events, asked, heard, since, spine, jam>>

\* wait_for_spine: the arms are held in the pose of the reset meanwhile.
AwaitSpine ==
  /\ pc = "spine" /\ ~Late /\ ~spine /\ Elapsed < SimTimeout
  /\ Look
  /\ elapsed' = Elapsed
  /\ UNCHANGED <<explicit, pc, episode, wall, samples, warned, dirty, score, arm, evaluation>>

\* The spine is up, or it is not and the program goes on with a warning.
SpineWaited ==
  /\ \/ heard /\ (spine \/ Elapsed >= SimTimeout)
     \/ Late
  /\ Goto("spine", "arms")
  /\ elapsed' = None
  /\ looked' = FALSE
  /\ UNCHANGED <<explicit, episode, samples, warned, dirty, score, events, asked, heard, rebased, since, spine, jam, arm, evaluation>>

\* publish_arms: the start pose, commanded above a spine that is down, drives
\* the hands into the table.
Commanded ==
  IF explicit /\ ~spine
  THEN jam' = TRUE /\ arm' = MaxError
  ELSE UNCHANGED <<jam, arm>>

\* ArmSettleMonitor.update: the samples of the window, and one from before it.
\* Several looks in one tick of the clock see the same arms.
Added ==
  LET kept == IF rebased THEN <<>> ELSE samples
      sample == [age |-> 0, error |-> arm']
  IN IF kept # <<>> /\ kept[Len(kept)] = sample THEN kept ELSE Append(kept, sample)

\* The first sample that stays: the last that is out of the window.
First(s) ==
  CHOOSE i \in 1..Len(s) :
    /\ \A j \in 2..i : s[j].age >= Window
    /\ i < Len(s) - 1 => s[i + 1].age < Window

Kept == SubSeq(Added, First(Added), Len(Added))

Plateau(s) ==
  /\ s[1].age >= Window
  /\ \A i, j \in 1..Len(s) : s[i].error = s[j].error

Settled == Plateau(samples') /\ arm' <= Tol

Stuck == Plateau(samples') /\ arm' > Tol

\* One look at the arms: command, observe, judge.
LookAtArms ==
  /\ pc = "arms" /\ ~Late
  /\ heard
  /\ Commanded
  /\ looked' = TRUE /\ rebased' = FALSE
  /\ samples' = Kept
  /\ elapsed' = Elapsed
  /\ UNCHANGED <<explicit, episode, dirty, score, events, asked, heard, since, spine, evaluation>>

Recentring ==
  /\ LookAtArms
  /\ ~Settled /\ ~Stuck /\ elapsed' < SimTimeout
  /\ UNCHANGED <<pc, wall, warned>>

Reached ==
  /\ LookAtArms /\ Settled
  /\ Goto("arms", "clear")
  /\ UNCHANGED warned

\* report_unreached: only the default pose may be missed.
Unreached ==
  /\ warned' = ~explicit
  /\ Goto("arms", IF explicit THEN "raised" ELSE "clear")

Missed == LookAtArms /\ ~Settled /\ (Stuck \/ elapsed' >= SimTimeout) /\ Unreached

RecentreLate ==
  /\ Late
  /\ IF heard THEN Unreached ELSE Raise("arms") /\ UNCHANGED warned
  /\ UNCHANGED <<explicit, episode, monitor, dirty, score, sim, evaluation>>

\* The executor, the gate, the observer, the tracker and the backend forget
\* the last episode; the backend may be remote, and fail.
Clear ==
  /\ \/ Goto("clear", "rollout") /\ dirty' = dirty \ {"executor", "gate", "observer", "tracker", "backend"}
     \/ Raise("clear") /\ dirty' = dirty \ {"executor", "gate", "observer", "tracker"}
  /\ UNCHANGED <<explicit, episode, monitor, warned, score, sim, evaluation>>

RunRollout ==
  /\ Goto("rollout", "evaluate") \/ Raise("rollout")
  /\ dirty' = Leftovers
  /\ UNCHANGED <<explicit, episode, monitor, warned, score, sim, evaluation>>

-----------------------------------------------------------------------------
\* evaluate.

\* The next episode; the last one ends the batch.
Done(from) ==
  /\ Goto(from, IF episode < Episodes THEN "reset" ELSE "over")
  /\ episode' = IF episode < Episodes THEN episode + 1 ELSE episode

Evaluate ==
  /\ Goto("evaluate", "call")
  /\ before' = newest
  /\ service' = "called" /\ owed' = owed \cup {episode} /\ overdue' = owed
  /\ UNCHANGED <<explicit, episode, monitor, warned, dirty, row, sim, newest>>

\* Whatever evaluate raises is caught: the row keeps the rollout's numbers.
NotScored ==
  /\ UNCHANGED <<explicit, monitor, warned, dirty, score, sim, evaluation>>

NoService == Done("evaluate") /\ NotScored

CallFails == (Late \/ service = "failure") /\ Done("call") /\ NotScored

CallSucceeds ==
  /\ service = "success"
  /\ Goto("call", "json")
  /\ UNCHANGED <<explicit, episode, monitor, warned, dirty, score, sim, evaluation>>

\* Mutant: the newest file will do.
AnyEvaluation == newest > 0

NewEvaluation == newest # before

Scored ==
  /\ NewEvaluation
  /\ Goto("json", "scored")
  /\ row' = newest
  /\ UNCHANGED <<explicit, episode, monitor, warned, dirty, before, sim, evaluation>>

NoEvaluation == Late /\ ~NewEvaluation /\ Done("json") /\ NotScored

Finish == Done("scored") /\ NotScored

Over == pc \in {"over", "raised"} /\ UNCHANGED vars

-----------------------------------------------------------------------------
Init ==
  /\ explicit \in BOOLEAN
  /\ pc = "reset" /\ episode = 1 /\ wall = 0
  /\ elapsed = None /\ samples = <<>>
  /\ warned = FALSE /\ dirty = Leftovers
  /\ before = 0 /\ row = None
  /\ events \in BOOLEAN /\ asked = FALSE /\ heard \in BOOLEAN
  /\ looked = FALSE /\ rebased = FALSE
  /\ since = 0 /\ spine = FALSE /\ jam = FALSE /\ arm = MaxError
  /\ service = "idle" /\ owed = {} /\ newest = 0 /\ overdue = {}

Step ==
  \/ Reset \/ Acknowledged \/ ResetTimesOut
  \/ AwaitSpine \/ SpineWaited
  \/ Recentring \/ Reached \/ Missed \/ RecentreLate
  \/ Clear \/ RunRollout
  \/ Evaluate \/ NoService \/ CallFails \/ CallSucceeds
  \/ Scored \/ NoEvaluation \/ Finish

World == ServeReset \/ OtherReset \/ Clock \/ ServiceAnswers \/ Written

Next == Step \/ World \/ WallClock \/ Over

\* The program runs, wall time passes, and the evaluation service does not
\* owe a file for ever; the simulation owes nothing.
Fairness == WF_vars(Step) /\ WF_vars(WallClock) /\ WF_vars(Written)

Spec == Init /\ [][Next]_vars /\ Fairness

-----------------------------------------------------------------------------
\* Episodes are independent trials (run_episode, F-86): a rollout starts in a
\* scene reset for it, with nothing left of the last episode, and, unless it
\* was warned of, with the arms at the start pose after the old target has
\* stopped pulling them, whoever resets the scene before the arms are judged,
\* and whosever acknowledgement it took for its own; an explicit start pose is
\* never missed.
EpisodeStartsClean ==
  pc = "rollout" =>
    /\ dirty = {}
    /\ ~warned /\ ~rebased => arm <= Tol /\ since >= SnapTime /\ ~jam
    /\ explicit => ~warned

\* As above, whoever resets the scene before the rollout: violated, as nothing
\* looks at the clock while the backend is reset.
StartsCleanWhoeverResets == pc = "rollout" /\ ~warned => arm <= Tol /\ since >= SnapTime

\* A row is scored with the evaluation of its own episode, or with one that was
\* still to be written when its call was made, as that of a call that timed
\* out may be; never with one that was there before (evaluate).
RowIsItsOwn == pc = "scored" => row = episode \/ row \in overdue

\* As above, whatever earlier calls still owe: violated, as evaluate takes the
\* first file that is new.
EveryRowIsItsOwn == pc = "scored" => row = episode

\* Whatever the simulation and the service stop doing, the batch ends.
BatchEnds == <>(pc \in {"over", "raised"})

-----------------------------------------------------------------------------
\* What the two invariants rest on.
Before == {"reset", "ack", "spine", "arms", "clear", "rollout", "evaluate"}

Sample == [age : 0..Window, error : Errors]

TypeOK ==
  /\ explicit \in BOOLEAN
  /\ pc \in Before \cup {"call", "json", "scored", "over", "raised"}
  /\ episode \in 1..Episodes /\ wall \in 0..WallTimeout
  /\ elapsed \in 0..SimTimeout \cup {None}
  /\ samples \in Seq(Sample)
  /\ warned \in BOOLEAN /\ dirty \in SUBSET Leftovers
  /\ before \in 0..Episodes /\ row \in 0..Episodes \cup {None}
  /\ events \in BOOLEAN /\ asked \in BOOLEAN /\ heard \in BOOLEAN
  /\ looked \in BOOLEAN /\ rebased \in BOOLEAN
  /\ since \in 0..SnapTime /\ spine \in BOOLEAN /\ jam \in BOOLEAN /\ arm \in Errors
  /\ service \in {"idle", "called", "success", "failure"}
  /\ owed \subseteq 1..Episodes /\ newest \in 0..Episodes /\ overdue \subseteq 1..Episodes

\* Every file written, or still owed, is of this episode or an earlier one; of
\* this one, only once its call was made; and what the call found is earlier.
FilesAreInTurn ==
  /\ newest <= episode /\ \A e \in owed : e <= episode
  /\ pc \in Before => newest < episode /\ \A e \in owed : e < episode
  /\ pc \in {"call", "json"} =>
       newest \in {before, episode} \cup overdue /\ owed \subseteq {episode} \cup overdue

\* What is cleaned up before the rollout's own reset clears the rest.
CleanedInTurn ==
  /\ pc = "ack" /\ events => "scene" \notin dirty
  /\ pc \in {"spine", "arms", "clear"} => dirty \cap {"scene", "gripper"} = {}
  /\ pc = "rollout" => dirty = {}

\* The settle monitor begins empty, and no sample of it is older than the
\* reset, unless it has yet to see that the clock was rebased.
SamplesAreOfThisReset ==
  /\ pc = "spine" => samples = <<>>
  /\ pc = "arms" /\ ~rebased =>
       \A i \in 1..Len(samples) : samples[i].age <= since \/ since = SnapTime

\* Arms driven into the table stay there.
JamIsFar == jam => arm = MaxError

ArmsInPlace ==
  /\ explicit => ~warned
  /\ pc \in {"clear", "rollout"} /\ ~warned /\ ~rebased => arm <= Tol /\ since = SnapTime

IInv ==
  /\ TypeOK /\ FilesAreInTurn /\ CleanedInTurn
  /\ SamplesAreOfThisReset /\ JamIsFar /\ ArmsInPlace /\ RowIsItsOwn
=============================================================================
