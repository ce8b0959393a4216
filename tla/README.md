# Camelo EBiM Task 2: specifications, model checking and proofs

TLA+ modules for the control program in `src/`, the TLC runs that check them on
small instances, and TLAPS proofs of their main properties for every value of
the constants. `PROJECT.json` lists components, runs, hazards, findings and
theorems, and says for each definition which lines of the source it models.

Commands, inside this directory:

    tlasany M.tla                               parse a module
    tlc -workers 2 -config X.cfg M              check one run
    tlapm MProofs.tla                           check the proofs of a module

## 1. The system

The program drives a TMR mobile manipulator (two FR3 arms, two grippers, a spine
and a swerve base) with a learned policy; the same loop also runs against a
simulator. On the real robot three machines take part: a GPU policy server
(websocket), the station that runs `scripts/run_policy.py`, and the companion
controllers. Two facts about the companion shape the whole program:

- `joint_impedance_controller`, once ACTIVE, shuts its arm launch down when it
  has seen no sample for 2.0 s, and takes its reference `(q0, g0)` at activation;
- the swerve controller brakes when the newest twist is older than 0.5 s.

### Components

| component (source under `src/camelo/`) | state | operations | hard behaviour |
|---|---|---|---|
| chunk executor `control/chunk_executor.py` | chunk playing, its `t0` and splice offset, last command, last measured pose | `reset`, `set_chunk`, `step`, `hold`, `exhausted`, `needs_replan` | late chunks, hand-over between chunks, missing poses, rebased clock |
| base quantizer `control/base_quantizer.py` | held pedal token | `quantize` | hysteresis at sign and axis changes |
| real-arm session `runner/real_arms.py`, `ros/arm_activation.py`, `control/arm_stream.py` | phase, activation flags, reference, publisher open or closed | `prepare` (verify, warm-up, hold, activation, capture), rollout, `shutdown`, close | blocking services that time out, an operator who acts by himself, exceptions and Ctrl+C anywhere |
| asynchronous inference `control/async_inference.py` | `_in_flight`, two queues, worker thread | `submit`, `poll`, `close`, worker | two threads, failed worker, stop behind a request |
| rollout loop `runner/episode_runner.py` (`run_rollout`) | start time, the tick's observation | one tick: guards, poll, request, step or hold, publish, sleep; stop, finally | dead streams, blocking inference, clock that stalls or is rebased |
| staleness guards `control/image_age.py`, `control/state_age.py` | none (read the collector's receipt times) | `stale_image_report`, `stale_state_report` | caches are never cleared |
| command publisher `ros/command_publisher.py` | last arms and grippers, `_twist`, their times, keep-alive schedule, `_cmd_lock` | `publish`, `repeat_last_arm_command`, `safe_stop`, `close`, keep-alive thread, base-repeat timer | three threads, one of them starved or one blocked |
| gripper latch, grasp gate `control/gripper_latch.py`, `control/grasp_gate.py` | engaged since, open since; closed, dwell run | `update` each tick, in that order: gate, latch, publish, observe | protocol over ticks, some without a command |
| camera workers, observation collector `ros/camera_workers.py`, `ros/obs_collector.py` | a process and a bounded queue per camera; caches and receipt clocks | worker `on_image`, feeder, drain, `get_obs`, `close` | drop-new queues, processes that die with a message half sent, teardown |
| approach by odometry `control/approach.py`, `run_approach` | stage, waypoint, leg, settle counters; pulse trim | `tick` | joint states slower than the loop, timeouts, coasting base |
| approach by camera `control/approach_perception_based.py`, `control/perception/` | pose estimate, path, retreat, settle counters | `tick` | each frame once, mirror locks, a goal that retreats |
| episode runner, recenter `runner/episode_runner.py`, `runner/recenter.py` | settling monitor, caches, result row | `run`, scene reset, spine, recenter, rollout, `evaluate` | late or foreign resets, stopped clock, late evaluation |
| backends and wire `policy/` | socket, statistics | `reset`, `infer`, `close`, `warm_up_backend` | a late reply after a timeout |
| command line and `scripts/run_policy.py` | parsed flags; what is open | build, refuse, check, prepare, run, take down | flags that meet, order of checks, a teardown step that raises |

The rest is not modelled: see section 9 and `PROJECT.json`.

### How the components meet

`run_policy.py` builds backend, node, collector and publisher from the command
line, lets the session check and hold the arms, drives the base, and starts the
loop. The loop reads the collector's caches, asks the backend through the worker,
hands its chunks to the executor, and publishes what the executor commands. The
publisher repeats it from its own thread; the executor of ROS runs the base timer
and the camera drain in a third. The session brackets the rollout: it holds the
measured pose until the arms are active, and deactivates them, still publishing,
after it. The teardown goes session, backend, collector, publisher, node.

    RunPolicy --EXTENDS--> CommandLine
    RunPolicy's steps: hold and activation = ArmSession, driving = Approach or
                       PerceptionApproach, rollout = Rollout
    ArmSession --takes the stream of--> CommandPublisher --implements--> ArmStream
    Approach   --its fine stage is--> PulseTrim           (HandoverIsQuiet)
    Rollout --EXTENDS--> AsyncInference, ChunkPlayer <--implements-- ChunkExecutor
    ChunkExecutor --EXTENDS--> BaseQuantizer
    Rollout's stream ages: CameraStreams (FrameIsRecent, CrashIsNoticed)
    RolloutParts --EXTENDS--> ChunkExecutor, CameraQueues  (one of them at a time)
    Commands     --EXTENDS--> CommandPublisher, GripperWire  (one of them at a time)
    Approaches   --EXTENDS--> Approach, PerceptionApproach  (one of them at a time)
    Rollout's tick: GripperStage (gate, latch, publish, observe)
    Episodes' rollout = Rollout

What makes each component correct:

- executor: no order of calls makes the arms jump, or the base move on a hold;
- session: every activation is taken back before the stream ends, the stream
  outlives the controllers it serves, and the choreography ends;
- inference: one request out at a time, answered in order, never lost;
- loop: it does not drive on dead streams, does not fall silent, and ends;
- publisher: a repeat never undoes a newer command, the stream has no gap the
  controllers notice, and a stop is final;
- gripper stages: the gate closes and the latch lets go only when what they were
  given has asked for it long enough, and the observer counts real closes only;
- cameras: a cached frame is recent, a dead camera is reported, close ends;
- approaches: no stage is left before it is done; every approach ends, with the
  base stopped;
- episodes: each starts in its own clean scene, is scored by its own evaluation,
  and the batch ends;
- run: nothing is armed before all checks, a chunk answers the request just made,
  the node outlives the stream, and the process exits.

## 2. Modules

### ChunkExecutor, BaseQuantizer

`ChunkExecutor` models `ChunkExecutor` with all three splice policies, the
per-tick rate limit, the ramp-in, the leash and the stale-chunk drop. Joint
angles and times are integers on a grid of one unit. Actions: `Reset`,
`SetChunk`, the outcomes of `step()` (`StepSilent`, `StepStale`,
`StepUnmeasured`, `StepCommand`) and of `hold()` (`Hold`, `HoldSilent`), and `Clock` (external: the sim clock,
which a scene reset may rebase). `BaseQuantizer` holds the constant operators of
the pedal-token quantizer with its hysteresis. Diagnostics (`ExecutorStats`,
`last_*`) are written and never read by the executor, and are left out.

### ChunkPlayer

What the loop relies on of the executor: which chunk plays, where it starts and
ends, and at which sim times a call gives a command. `obs` is the time the calls of
a tick are made with, and every action is judged at it: `PlayCommand` needs a chunk
that is not stale at `obs`, `DropStale` one that is, `RepeatCommand` one that has run
out by then, and there is no step that is silent for no reason. `ChunkExecutor`
implements it with its own clock for `obs` (`ImplementsPlayer`: `Player == INSTANCE
ChunkPlayer WITH chunk <- Playing, spoken <- (lastCommand # None), obs <- now`), as
checked by TLC and proved by TLAPS (`RefinesPlayer`). `Rollout` is composed with its
actions instead of the joint arithmetic, and calls them as the player expects
(`LoopPlays`, proved as `LoopIsPlayer`): the two theorems meet in one module.

### ArmSession, MCArmSession

One real run of `run_policy.py`: prepare, the hold of the measured pose, the
activation (asked for by the program, or by an operator), the capture of the
reference, the rollout, the deactivation, its confirmation and the exit. The
environment holds the controller managers, which may answer late or not at
all, the operator, and Ctrl+C. Each blocking service call is a start, the
manager's own step and an answer or a timeout, so anything may come between.
`list_controllers` and `switch_controller` are two services, and nothing orders a
list with the switches a manager has yet to serve: it answers with the state its
controller is in (`ListAnswers`). The switches of one manager are served in order.
What a controller needs of the stream is a gap counter: the publisher's own
stream is taken to be as `CommandPublisher` promises.

### AsyncInference, Rollout, MCRollout

`AsyncInference` models the worker and its two unbounded queues. Each action is
one queue operation, the atomicity Python's `queue.Queue` gives.

`Rollout` models `run_rollout`: `pc` walks through one tick (`observe`, `poll`,
`ask`, `infer`, `command`, `sleep`), then `stop`, `close`, `join`. One time unit
is one tick, one chunk row long. `config` chooses, at the start, sim or real,
synchronous or asynchronous, the chunk time base and the approach. The two
guards test the age of the *oldest* stream, which a message of that stream
resets to the age of the next one (`StatesArrive`, `FramesArrive`). A
synchronous inference takes up to `RecvTimeout` units, during which the world
moves. `Interrupt` is Ctrl+C, anywhere in the loop. A tick's own computation
takes no time, so guard and observation see one instant.

### CommandPublisher

The three publishing threads. `at[thread]` is where each is in its call; `lock`
is `_cmd_lock`, held by the keep-alive from one step to the next (`Enter`,
`Repeat`), while the critical sections of the control thread are one step each,
which the lock makes sound. `_twist` is read and sent in two steps, by every
thread (`read`), because no lock protects it. A command is an ordinal, so that
"older" is a comparison, and the twist is a speed. `Tick` is the clock: it may
pass however long the control thread or the timer waits, but the keep-alive
thread is scheduled at most `MaxLate` late and its round is short.

### ArmStream

What the controllers and the session are promised of the arm and gripper stream,
whoever publishes on it: the next command (`NewArms`), its grippers (`NewGrips`), the
newest again (`Again`), or, while it is kept alive, a silence shorter than `Gap`.
`CommandPublisher` implements it (`ImplementsStream`, by TLC and by TLAPS) with
`Gap` = 2 `KeepalivePeriod` + `MaxLate`, kept alive until `close()`; which thread sends,
the lock and the base are hidden.

### GripperStage, GripperWire, Commands, MCCommands

The right gripper from the executor's command to the wire, in the order of the
tick: `GraspGate.update` or `ConditionedGraspGate.update` (`Gate`), which may force
a close (`Gated`), `GripperLatch.update` (`LatchPasses`, `LatchHolds`,
`LatchReleases`), the publish, and `GraspObserver.update` (`Observe`). A tick
brings a row (`Step`) or the last row again (`Hold`: `executor.hold`, while a
reply is late); a tick without a command touches none of the stages. The
geometry is what a tick reads of it, a `PadReading`: seen or not, in the ball,
in the finger box. The code's instants (`ok_since_sim_s`, `engage_t`,
`_open_since_t`) are kept as the time since them. `NextEpisode` is the reset of
`run_episode`; `run_policy` gives a latch and no gate, the episode runner (which no
script of the repository instantiates) a gate and no latch, hence `config`.
`notOpenFor`, `missFor`, `rows` and `openedOnce` are history: the times and rows
the stages themselves do not keep, which their properties are judged by.
`GripperWire` is `GripperStage` under the name `Gripper`, to be read, checked and
proved about beside `CommandPublisher`, with which it shares names and nothing else.
`Commands` puts the two side by side: the gripper's opening is one number of a
command the publisher sends whatever it is, so a behaviour is of one of them
(`chosen`), under its own fairness, and the other stands where it begins.

### CameraQueues, CameraStreams, RolloutParts, MCRolloutParts

The camera path. `CameraQueues` holds the bounded queues with the pipes under them,
and what each end does to them; `CameraStreams` is everything around: per camera a
worker process (`Boot`, `Decode`, `Skip`, `Crash`),
the feeder thread of its queue (`Feed`: the head message has bytes in the pipe)
and the queue; in the parent the drain callback (`TimerFires`,
`EnterPoll`, `ReadEmpty`, `ReadBegins`, `ReadFrame`, `ReadEOF`, `Record`), the
receipt clocks, and the teardown (`Close` of the collector, `BeginClosing`,
`DropWriters`, `Terminate`, `Reap`, `Exit`). A frame is larger than a pipe, so a
worker that dies with one half sent leaves a reader blocked until every write end
is closed: this is why the parent drops its own ends *before* it signals, and
`DropWriters` and `Terminate` are separate steps. A frame of the followed camera
is the number of drains that have left it behind. `Kill` is `kill -9` of the
parent: the workers that asked for it die with it, one that has not booted yet
finds itself an orphan. `FedInTime` and the send interval, longer than a read,
are the assumptions about timing.

`RolloutParts` puts the cameras and the executor, which stand at the two ends of
the rollout loop and share no state, side by side: a behaviour is of one of them.
`MCRolloutParts` chooses two cameras, and the executor's chunks and poses: short
chunks that jump, run out and overlap, every splice policy, leash on and off.

### PulseTrim, MCPulseTrim

`PulseSettleTrim`, every phase (idle, fire, guide, brake, dwell) and every branch
of its guide as an action of its own. Odometry arrives, and the clock moves,
between ticks; a tick may see no new sample, which several branches wait for.
Errors and velocities are on one integer scale, with the tolerance as `Tol`; the
coast after a release at velocity v is v, which keeps `will_coast_in` and
`will_overshoot` exact. Over a linear pair of axes the base's speed is the hypot of
the two, as in `_stopped`. A pose that is not finite lets the pedal go and keeps the
phase (`Blind`). `driven`, `settled`, `last` and `released` are history.

### Approach, PerceptionApproach, Approaches, MCApproach

`Approach` is `ApproachController` in the loop of `run_approach`: the list of
stages that `build_stages` gives, waypoints with their tolerances, arm legs with
the settle window over measured joint errors, the timeout and the check for a
rebased clock. Its stage `fine` ends when the trim has handed over, which is all
it takes of `PulseTrim`. Errors are what the frame conversions give, and a velocity
that is not finite is rest, as the code reads it (`approach.py:1307`). The loop does
not wait for a joint state: one may be late, and is then looked at for longer; the
first tick of a leg judges the joint state from before the command, wherever the
arms stood. `steady`, `looks` and `late` are history.

`PerceptionApproach` is the controller by camera, on the line of the retreat:
seeding the filter, dead reckoning, one correction for each fresh frame (a lock
may be the table's mirror twin, which the gate rejects), a path fitted afresh on
every tick or kept when none can be, the drive, arrival, the rim retreat and its
cap. `profile` is what the scene profile makes of it: the pulsed drive of the
simulation or the continuous twist of the rig, the whole list of stages or the base
alone (`AfterNavigate`). A frame is up to `Lag` ticks old when it comes, and keeps the
place where it was taken (`trail`). Its later stages are inherited, and in `Approach`.
Assumed of the base: it moves at most one step a tick, and, where a continuous twist
tapers, slower than a frame is old (`Tapers`).

`Approaches` chooses one of the two at the start, as a command line does; the one
not chosen stands where it begins. `PerceptionApproach` stands in it as an instance,
`Camera`, and is checked and proved about through it.

### Episodes, MCEpisodes

`EpisodeRunner.run` and `run_episode`: `pc` is where the runner is (`reset`, `ack`,
`spine`, `arms`, `clear`, `rollout`, `evaluate`, `call`, `json`, `scored`), with
`ArmSettleMonitor`'s window of samples and two clocks, the simulation's, which
may stop and is rebased by a reset, and the wall's, which every wait has a
deadline of. The world serves resets late or never, resets the scene on somebody
else's account at any time from the request to the rollout, however often
(`OtherReset`), jams arms that are commanded above a spine that is down, answers the
evaluation call and writes its file in any order; what a call that timed out still
owes may be written during a later one (`owed`, and `overdue`, its history). Assumed:
an exception of `run_episode` ends the batch, as nothing in the repository catches
one; a joint state comes with every clock tick; a simulation asked for a reset serves
it before its clock goes on; the program looks at least once in every clock tick.

### CommandLine, RunPolicy, MCRunPolicy

`CommandLine` holds constant operators: every option that selects a behaviour or
can refuse a run, with the classes of values the program tells apart (the default
first), what refuses (`AdapterRefused`, `WireRefused`, `StartPoseRefused`,
`ApproachRefused`, ...), what is resolved (`Async`, `ChunkSplice`, `LeashRad`,
`MaxImageAge`, `Declared`, ...), and what an observation needs.

`RunPolicy` is `main` with the backend: `pc` walks from building (`MakeBackend` to
`Preflight`) through `main`'s `try` (`Verify`, `CheckLiveness`, `WarmReset`,
`WarmInfer`, `Hold`, activation, `MakeApproach`, `MakeLatch`, driving, rollout) to
its `finally` (`Release`, `CloseBackend`, `CloseCollector`, `ClosePublisher`) and
the exit. `Unwind` is an exception: inside the `try` it goes to the `finally`,
before it straight to the exit of the node's context. The first two steps of the
`finally` have no `try` of their own: the session's shutdown may raise, and Ctrl+C may
break into the wait of a remote backend's close; either cuts the rest short (`cut`).
`tried` is whether the `try` was entered. A checkpoint emits vectors of a layout the
code knows, of another of the same width, or of neither width (`Emitted`, `Width`):
the gate before the executor looks at widths alone. The link to the policy is a
request counter, the requests a server has yet to serve, in order, and the replies
not read yet; `NoReply` is the receive timeout, after which a late reply stays on
the socket. The inside of hold, approach and rollout is in their own modules; each
is a step here, which may raise.

## 3. Runs

| run | what it shows |
|---|---|
| `rollout_parts` | the executor: `RateLimited`, `LeashPullsIn`, `HandoverIsContinuous`, `SpliceStaysNear`: no order of chunks, steps, holds, resets, clock jumps and unusable samples makes the arms jump. `ImplementsPlayer`: refinement of `ChunkPlayer`. The cameras: `FrameIsRecent`, `CrashIsNoticed`, `CloseEnds`: wherever a worker dies and whenever the parent closes or is killed |
| `arm_session` | `LaunchSurvives`, `RolloutOnActiveArms`, `ActivationIsTakenBack`, `ConfirmedMeansReleased`, `ReferenceIsTheControllers`, `Terminates`: whatever times out, raises or is interrupted |
| `rollout` | `BlindDriving`, `DeadStreamStops`, `StreamNeverSilent`, `RolloutEnds`: with worker, streams and clock at any pace |
| `commands` | the publisher: `ImplementsStream` (refinement of `ArmStream`), `StreamNeverStarves`, `StopIsFinal`: however the three threads interleave. The gripper: `ReleaseIsEarned`, `DwellIsReal`, `GateCloseIsSeen`, `LatchLetsGo`: over every order of rows, repeats, misses and episodes |
| `pulse_trim` | `HandoverIsQuiet`, `PulseIsBounded`, `SettledIsHandedOver`: whatever odometry says between the ticks |
| `approach` | `BaseRestsBeforeArms`, `LegIsSettled`, `OdometryEndsStopped` by odometry; `CameraIsNear`, `CameraArrives` by camera |
| `episodes` | `EpisodeStartsClean`, `RowIsItsOwn`, `BatchEnds`: whoever resets, whatever comes late or not at all |
| `run_policy` | `ArmsAreCleared`, `StreamEndsFirst`, `ChunkIsTheAnswer`, `RunEnds`: for every command line of the instance, on a rig with nothing or one thing wrong |
| `arm_session_operator`, `run_policy_approach_only`, `run_policy_publisher_last`, `approach_rim_never_found` | a finding each, section 7 |

Every property of a passing run has a mutant of the code in `PROJECT.json`, a
plausible bug that TLC then finds; the mutated forms are in the modules, marked
`Mutant`.

Properties worth a word:

- `ImplementsPlayer`: judged at the clock of each call. A hold before the chunk has
  run out, a step from a stale chunk, or a silent step of an executor that has a good
  chunk and has spoken is no step of `ChunkPlayer`, and `StreamNeverSilent` rests on it.
- `ConfirmedMeansReleased`: when every arm has answered that it is inactive, what its
  manager still has to serve ends in no activation, and an arm with nothing left to
  serve is not active. A late switch may still come after the answer, and after the
  stream: `StopsOnceAnswered`, in section 7, is false of the code.
- `BlindDriving`: on the real robot with inference beside the loop, no row is
  commanded once the oldest camera has been silent for the guard's limit plus
  the rows of one chunk, the ones a splice rewound included. It needs the guard at the
  request, the chunk's own `t0` and the hold past its end together.
- `ImplementsStream`: each command goes out once and in order, and any other send is
  a repeat of the newest, of the arms and of the grippers; without the lock a repeat
  of the keep-alive may put an older command after a newer one.
- `StopIsFinal`: a repeat that read the twist before `safe_stop` may send it
  after the zeros; it is overtaken by the next repeat, or ages out.
- `ReleaseIsEarned`: judged by the commands the latch was given, whatever times
  it keeps itself: a release needs the hold, then the sustain time without one
  command that is no opening.
- `FrameIsRecent`: the guard tests when a frame was *received*; that it was also
  taken recently is a matter of the bounded queue that refuses the newest frame,
  the feeder and the drain together.
- `CrashIsNoticed`: also when the drain itself hangs on the dead worker's last
  message; the report then comes for every camera, as none is drained any more.
- `HandoverIsQuiet`: judged by every look at the base during the dwell, not by the
  trim's own clock, which a dwell abandoned and begun again must restart.
- `LegIsSettled`: the settle window counts ticks, and joint states are slower than
  ticks: a window no longer than one of them would accept a leg on a single, old
  sample.
- `CameraIsNear`: with one frame fused twice, or a motion counted twice, the
  estimate walks away from the base.
- `CameraArrives`: the retreat moves the goal, the path is fitted to the goal itself,
  and with a rim that comes into view while the retreated goal is within one leg
  (`RimInReach`) they do not alternate for ever. Without it they do: `approach_rim_never_found`.
- `EpisodeStartsClean`: the monitor must see the arms at rest after the old target has
  stopped pulling them, whosever reset was acknowledged; a scene somebody reset after
  the arms were judged is exempt (`rebased`), as nothing looks any more.
- `RowIsItsOwn`: the row is never read from a file that was there before its own call;
  one that an earlier call still owed may be taken for it.
- `StreamEndsFirst`: in either world, from the first line of `main`'s `try`. It exempts
  the `finally` cut short before its inner `try` (`cut`), which is the finding of
  `run_policy_publisher_last`.
- `ChunkIsTheAnswer`: the backend matches replies to requests by order alone; it is
  right because nobody asks again after a timeout. What is checked of the vectors is
  their width, as in the code.

## 4. Bounds

| run | bounds | why they are enough |
|---|---|---|
| `rollout_parts` | one joint to an arm, chunks of two and three rows, two ticks to a row, `MaxDelta` 2, jumps of 5, poses up to `MaxReach` 4, clock up to `MaxTime` 2 rows; two cameras, `QueueSize` 2 as in the code, guard at age 1, frames of one camera followed, left-behind counts to `QueueSize + 2` | two chunks overlap, run out, are rewound and become stale; the limits bind; every branch of every splice fires. One camera dies while the other goes on, before and behind it in the drain's order; a queue is empty, part full and full; 341 000 states |
| `arm_session*` | seven command lines, one or two arms, polls, windows and calls of one tick, `HoldTicks` 3, `LivenessTicks` 2, at most `MaxInterrupts` 2 Ctrl+C, `MaxMoves` 1 | two arms are what makes one poll stale before the other; the gap reaches the controllers' limit exactly when the stream stops |
| `rollout` | `RolloutTime` 5, clock up to `MaxTime` 10, `RecvTimeout` 3, chunks of `Last + 1` = 3 rows, guards at age 1, ages counted to `MaxAge` 6, offsets 0 and -1 | a rollout has room for several chunks, a reply later than a chunk lasts, a rebase, and a stream that dies and comes back |
| `commands` | `MaxCommands` 2, ages counted to `MaxAge` 5, `MaxLate` 1, keep-alive period 2, base period 1; four openings (shut, half shut, half open, open), hold, sustain and dwell of 2 units, times counted to `MaxAge` 5 (one past the hold and the sustain) | a repeat, a late wake, a newer command and a stop can all fall between any two steps of another thread; each threshold has a command on both sides, each timed run can break one tick before its end, and any number of ticks fits into one unit; 481 000 states |
| `pulse_trim` | two linear axes, one of them with errors on both sides of the gate and of the leave band, and yaw; velocities at rest, slow, caught late, and along the diagonal; pulses of 1 or 2 ticks, dwell and settle time of 2 | every phase, brake and abandoned dwell fires, with the other axis in or out of the gate, and a base at rest on either axis creeps along both; 75 800 states |
| `approach` | by odometry two axes, two waypoints, two legs, `SettleTicks` 2, joint states of 2 ticks or late; by camera both profiles, positions -1 to 20 in units of 0.05 m, `Blocked` {10, 22}, steps of 3 up to 18, the rim from 8, frames up to `Lag` 2 ticks old, start errors up to 2, a mirror lock at 60 | the retreat crosses a stretch without a path, the first leg of a path and all of one, and finds the rim after several steps; the settle window is one tick longer than needed to need two samples; 101 000 states |
| `approach_rim_never_found` | as above with no rim within `MaxBackoff` (`RimFrom` 99) | the retreat reaches its cap, beyond the length of one leg |
| `episodes` | two episodes, errors 0 to 2 around the tolerance 1, window and pull of the old target 2, timeouts 4 and 1 | the second episode meets everything the first may leave; a window can be filled before, across and after the pull |
| `run_policy*` | three usual command lines (the benchmark, a remote policy on the rig, the rig driving its base), each with every other value of every one option and with the pairs of options the code reads together; a rig with nothing or one thing wrong; `MaxRequests` 4 | every refusal and every branch fires, each flag that waives a check meets the check failing, and a rollout makes two requests beyond the warm-up; 410 000 states |

Bounds live in the guards of the actions that count (`MaxTime`, `MaxCommands`,
`MaxInterrupts`, `MaxMoves`, `MaxRequests`) and in saturating ages (`Older`,
`Later`), so nothing is cut off by a state constraint. Deadlock is checked in every
run except `rollout_parts`: there the cameras are meant to stop, once the parent has
ended and no worker is left. Where another model may end, its end is a step that
changes nothing (`Over`, `Stay`).

## 5. Fairness

- `ArmSession`: the program's own control steps happen and time passes, nothing
  else: managers, operator and Ctrl+C need not act. `Terminates` therefore rests
  on the timeouts alone.
- `Rollout`: the loop goes on (its one blocking call is bounded by the
  backend's reply timeout), the worker goes on (the same timeout), and a paused
  sim clock goes on now and then (strong fairness of a sleep in which it does).
  `RolloutEnds` holds if the sim clock is rebased finitely often. Streams need not
  deliver, and Ctrl+C need not come.
- `CommandPublisher`: a call once made returns, the keep-alive thread and the
  timer are served, time passes. The control thread need not make any call.
  That the keep-alive is at most `MaxLate` late is an assumption on the
  operating system's scheduler, in the guard of `Tick`.
- `GripperStage`: ticks with a command go on, and the sim clock with them.
  `LatchLetsGo` is about a policy that from some time on always commands an
  opening. It also needs thresholds in order, `CloseBelow` no higher than
  `ReleaseAbove`, as the defaults (0.35, 0.9) are and the instance's; nothing in the
  command line enforces it, and the safety properties and proofs do without.
- `CameraStreams`: processes and threads run and time passes; nobody owes a frame,
  a crash or a close. The one strong fairness, of a queue found empty, is the
  send interval of a worker, longer than the read of one frame: a drain does not
  find one more for ever.
- `PulseTrim`: the loop runs and looks at a finite pose again and again, a base that
  stands still goes on being reported, the clock goes on.
- `Approach`: the loop runs and the simulation clock goes on (the timeout is by
  it), whatever the robot does.
- `PerceptionApproach`: the loop runs, odometry starts, and the base answers a token
  it is given again and again (strong fairness: the pulsed drive takes it away
  every other tick). Frames and the spine owe nothing.
- `Episodes`: the program runs, wall time passes, and the evaluation service does
  not owe a file for ever. The simulation owes nothing, its clock included.
- `RunPolicy`: the main thread goes on, as every wait of it has its timeout, and a
  policy in this process computes; a server owes nothing.

The two compositions with a `chosen` part, `Commands` and `RolloutParts`, have the
fairness of that part, stated over its own actions; the executor owes nothing.

## 6. Proofs

Each `*Proofs` module proves its component, or the two that meet in it, for every
value of the constants, from the named assumptions of the component. The argument is the same each time:
an inductive `IInv`, checked by TLC first, then `Init => IInv`, one step per
action, and the properties from it.

| module | theorem | of |
|---|---|---|
| `ChunkExecutorProofs` | `TypeCorrect`, `TokenFollows`, `RateLimitHolds`, `RampInHolds`, `HoldHolds`, `LeashHolds` | `TypeOK`, `TokenFollowsTwist`, `RateLimited`, `FirstCommandRampsIn`, `HoldStandsStill`, `LeashPullsIn` |
| | `HandoverHolds`, `SpliceStaysNearHolds` | `HandoverIsContinuous`, `SpliceStaysNear` |
| | `RefinesPlayer` | `Spec => ImplementsPlayer` |
| `ArmSessionProofs` | `SessionTypeCorrect`, `LaunchHolds`, `RolloutHolds`, `TakenBackHolds`, `ReleasedHolds`, `ReferenceHolds` | `TypeOK`, `LaunchSurvives`, `RolloutOnActiveArms`, `ActivationIsTakenBack`, `ConfirmedMeansReleased`, `ReferenceIsTheControllers` |
| `RolloutProofs` | `RolloutTypeCorrect`, `OneRequestAtATime`, `RequestsAreNotDropped` | `TypeOK`, `OneInFlight`, `NothingDropped` |
| | `DeadStreamsStop`, `BlindDrivingIsBounded`, `StreamIsNeverSilent` | `DeadStreamStops`, `BlindDriving`, `StreamNeverSilent` |
| | `LoopIsPlayer` | `Spec => LoopPlays` |
| `CommandPublisherProofs` | `PublisherTypeCorrect`, `ArmsNeverStarve`, `BaseIsRepeated`, `RepeatsNeverStepBack`, `StopsAreRead` | `TypeOK`, `StreamNeverStarves`, `BaseNeverStarves`, `NeverStepsBack`, `StopIsRead` |
| | `PublisherImplementsStream` | `Spec => ImplementsStream` |
| (the gripper on its way there) | `StageTypeCorrect`, `ReleasesAreEarned`, `DwellsAreReal`, `ForcedClosesAreSeen`, `ClosesAreEdges` | `TypeOK`, `ReleaseIsEarned`, `DwellIsReal`, `GateCloseIsSeen`, `CloseIsAnEdge` |
| `PulseTrimProofs` | `TrimTypeCorrect`, `HandoversAreQuiet`, `PulsesAreBounded` | `TypeOK`, `HandoverIsQuiet`, `PulseIsBounded` |
| `ApproachProofs` | `ApproachTypeCorrect`, `BaseRests`, `LegsAreSettled` | `TypeOK`, `BaseRestsBeforeArms`, `LegIsSettled` |
| (the camera's) | `CameraTypeCorrect`, `EstimateStaysNear` | `Camera!TypeOK`, `CameraIsNear` |
| `CollectorProofs` | `FramesAreRecent` | `FrameIsRecent` |
| | `EpisodesTypeCorrect`, `RowsAreTheirOwn`, `EpisodesStartClean` | `TypeOK`, `RowIsItsOwn`, `EpisodeStartsClean` |
| `RunPolicyProofs` | `RunTypeCorrect`, `ArmsWaitForAllLooks`, `NodeOutlivesStream`, `ChunksAreAnswers` | `TypeOK`, `ArmsAreCleared`, `StreamEndsFirst`, `ChunkIsTheAnswer` |

Why the invariants are what they are:

- `ChunkExecutor`: that the arms move by at most `MaxDelta` says nothing after a
  tick in which the last command was forgotten; `CommandIsRemembered` ties what
  was published to what the next step starts from. The hand-over is continuous
  because, from the installation of a chunk to the step of its tick, the
  correction is the whole difference (`HandoverIsDue`).
- `ArmSession`: that an activation is taken back is a matter of the flags at the
  moment the teardown looks at them, so the invariant follows them through
  every phase (`AskedInv`, `PollInv`, `ReleaseInv`, `ConfirmInv`), and the gap
  counter together with who holds the stream open (`StreamInv`). As a list may
  overtake a switch, a confirmation says what it does only because of what is still
  queued: `QueueInv` says that a switch on its way is the last one asked, and a
  deactivation was. The reference has
  an invariant of its own, `ReferenceInv`, proved on top of `IInv`: no poll is
  overdue (`PollsInTime`), so a pose published after an activation, and other than
  the one the controller took, has stood still for a poll interval at most
  (`PublishedSince`), which the window rejects. It needs `PollTicks <= WindowTicks`
  and a call timeout of at least a tick.
- `Rollout`: `OneInFlight` (the flag, written by one thread only, says exactly where
  the one request is: queued, with the worker, answered, never two of these) is
  inductive only with `ClosedLast`, as the sentinel shares the request queue. How
  long a dead camera is followed is a matter of where a chunk was computed from:
  `AttendedChunks` carries, from the request through both queues to the chunk that
  plays, that the images were recent at its observation; `LoopModes` says when the
  loop's clock is the observation's, `StatesLive` what the state guard still says
  at the command (`LoopInv`, proved on top of `IInv`).
- `CommandPublisher`: a silence bound is not inductive; `WakesInTime` adds what
  is left until the next wake. `RepeatsAreNewest` says that what the keep-alive
  holds under the lock is what is on the wire; for the refinement, `CommandIsSent`
  adds that the newest command made is on it already, so that a send of the control
  thread is the next one. `StopIsKept` (a stopped twist is zero) is the safety half of
  `StopIsFinal`: what is still sent after `safe_stop` was read before it.
- `GripperStage`: `RunsAreClean` ties the times the stages keep to the history they
  are judged by: a run of openings began past the hold and after the last command
  that was none, a run of hits after the last miss. Times saturate, so the bound on
  the hold does too (`Least(MaxAge, ...)`); `StageAssumption` puts the thresholds
  below `MaxAge`, where it is exact.
- `PulseTrim`: the time on the wire is bounded by the trim's own clock only while
  a token is pressed, and is zero otherwise (`TokenIsTimed`); the dwell's clock
  runs no further than the rest that was seen (`DwellIsRest`). The axis furthest
  out is a CHOOSE; the lemma that one exists needs the number of axes, one to
  three.
- `Approach`: the counters of the two settle windows say no more than the history
  saw (`SettleIsSteady`, `WindowIsLooked`): a window that has looked at one joint
  state only, none of them late, is no older than it.
- `PerceptionApproach`: that the estimate is near is inductive once `UnreadIsRecent`
  says how a frame lies to the base that has moved since: it is no older than `Lag`
  ticks, and the base moves a cell a tick at most (`TrailIsNear`). One bound then serves prediction (which carries the error along),
  correction (which lies between the two errors) and seeding. It needs that a lock on
  the mirror twin lies beyond the gate from wherever the estimate may be
  (`PerceptionAssumption`): the twin is half a turn off, the gate
  (`REJECT_YAW_RAD_DEFAULT`) a quarter, and the code warns of the same margin
  (`approach_perception_based.py:1095`).
- `CameraQueues`, `CameraStreams`: the bound on a frame's age is not inductive: a
  frame in place i has been left behind no more often than there were frames before
  it to take. That is `PlacesAreDrains`, which counts the drain under way (`Due`), and holds across
  the drain's steps only because the message being read is still the head
  (`PipeHoldsHead`, `ReadIsUnderWay`): a worker's death cuts the queue behind it.
- `Episodes`: `FilesAreInTurn` orders the files written and owed by episode, so that
  a new one can only be this episode's own, or one overdue when its call was made. A clean start takes four facts, one for
  each wait before the rollout: what was cleared (`CleanedInTurn`), that the monitor
  has no sample from before the reset it saw (`SamplesAreOfThisReset`, which needs
  the window empty before the spine wait), that jammed arms are far (`JamIsFar`), and
  what a settled monitor says of them (`ArmsInPlace`).
- `RunPolicy`: where the main thread is, it has looked at what comes before
  (`Looked`), and until the hold the arms are as found (`Untouched`); the `try` has
  been entered wherever its `finally` may be (`Tried`), and a publisher still open
  after it was left by a `finally` cut short (`PublisherGoes`); the link
  carries the one request that is awaited, or nothing, as long as the run goes on
  (`OneOnTheLink`): a timeout ends the run, which is why no late reply is ever read
  as the answer of the next request.

Proved and not run, to leave the runs to what only they can show: the type
invariants, `LoopPlays`, `TokenFollowsTwist`, `FirstCommandRampsIn`, `HoldStandsStill`,
`OneInFlight`, `NothingDropped`, `BaseNeverStarves`, `NeverStepsBack`, `StopIsRead`,
`CloseIsAnEdge`.

Only model-checked: the liveness properties `Terminates`, `RolloutEnds`,
`StopIsFinal`, `LatchLetsGo`, `CrashIsNoticed`, `CloseEnds`, `SettledIsHandedOver`,
`OdometryEndsStopped`, `CameraArrives`, `BatchEnds`, `RunEnds`. Liveness under
fairness, ENABLED, induction over data and recursive operators are out of the
prover's reach. Every invariant and every action property of a passing run is
proved.

## 7. Findings

What the code does and its own text says otherwise, each a `violation` run:

1. An arm an operator activated before the hold raised is not deactivated
   (`arm_session_operator`, `real_arms.py:812`, `run_policy.py:233-236`).
2. `--approach-only` promises that no arm is activated; on the rig `prepare` has
   held and activated the arms before the approach, and the flag, are looked at
   (`run_policy_approach_only`, `cli.py:419-421`, `run_policy.py:247`).
3. `run_policy.py:307-310` closes the publisher "LAST, and unconditionally", so that the keep-alive thread
   is joined before the node is destroyed under it; a shutdown that raises, or Ctrl+C
   in the wait of the backend's close, ends the `finally` before that line
   (`run_policy_publisher_last`). An exception between the publisher's creation and
   the `try` leaves it open too; no `finally` covers those lines.
4. The rim retreat is capped so that "past the cap, settle at the nominal goal
   anyway". The cap bounds the offset only: past the length of one leg every tick's
   path, fitted to the goal, has two legs and leads back, the last leg leads out again,
   and the base drives between the two for ever (`approach_rim_never_found`,
   `approach_perception_based.py:102-104`, `1158`).

Further disagreements, each stated as a definition that no run lists; added to the
`.cfg` of its module, TLC refutes it:

| definition | what a doc or comment says | what the code does |
|---|---|---|
| `ArmSession.StopsOnceConfirmed` | the stream stops once the deactivation is confirmed | a `list_controllers` call that times out counts as an inactive arm (`arm_activation.py:256`) |
| `ArmSession.StopsOnceAnswered` | the same, where every arm answered | the answer does not wait for a switch that timed out, which may be served later (`arm_activation.py:215`) |
| `ArmSession.ReferenceWithinOnePoll` | the reference is the pose of the activating poll | with two arms it may be older (`real_arms.py:700`) |
| `ArmSession.SwitchesAfterDiscovery` | services are discovered before they are called | a run that raises early deactivates without (`real_arms.py:812`) |
| `Rollout.ArrivalPlaysFirstRow` | a chunk re-based to its arrival plays its first row | after an inference longer than 1.0 s the same tick drops it (`episode_runner.py:1014`) |
| `CommandPublisher.RepeatCannotMove` | a repeat cannot move the robot | a repeated twist drives the base while the control thread is blocked, and feeds the base's watchdog (`command_publisher.py:685`) |
| `GripperStage.GlitchDoesNotRelease` | a single open row does not release | one that is the last of its chunk does, if the next chunk is late by the sustain time (`gripper_latch.py:168`) |
| `Episodes.StartsCleanWhoeverResets` | each episode starts with the arms at the start pose, so that episodes are independent trials (`episode_runner.py:1641-1654`) | the clock is not looked at between the recentering and the rollout's first tick, and a scene reset in between snaps the arms (`episode_runner.py:1655`) |
| `Episodes.EveryRowIsItsOwn` | the file that lands after the service's answer is the one of the call | the first new file counts, also one that an earlier call, which timed out, still owed (`episode_runner.py:1593`) |
| `PulseTrim.RepulseWaits` | an axis is pulsed again only a settle time after its release | a lock given up, or a dwell left, goes through idle, which fires at once (`approach.py:305-307`) |

Also met, and not stated as properties:

- A bad `--gripper-latch`, `--gripper-latch-near` or approach flag is refused only
  after the arms have been activated; the warm-up's chunk is not checked for its
  width, so a checkpoint of another layout is also noticed only then.
- `approach_perception_based.py:376-377` speaks of a 20 Hz loop; it runs at
  `APPROACH_RATE_HZ` = 50 (`episode_runner.py:108`).

## 8. Plan

Done, in this order, by importance: the executor (every command passes through
it), the session (the choreography that can take the arm launch down), the loop
with its worker, the publisher, the gripper stages; then the run from the command
line to the exit with its backend, the cameras, both approaches with the trim, the
episodes. Left, in this order:

1. `CameraStreams` shown to implement the stream ages `Rollout` takes for granted,
   and the stream `ArmSession` sees shown to be `ArmStream`'s, as refinements.
2. The collector's field-by-field callbacks and its odometry interpolation.
3. Publishes that raise, held arms; non-finite values in a chunk.
4. `HoldActivation`, `verify_start_pose`, the companion scripts.

## 9. Not modelled

- Kinematics, image processing and table localization, spline fit and clearance
  loop of the planner: numerics over reals. What the controller makes of their
  results is in `PerceptionApproach`.
- Logs, metrics, recorders, overlays: written, never read back.
- The vector conversions of the adapters and of the wire: data; of the adapters
  only the dummy is in the repository. Flags that set a number or name a file.
- The DDS profile (XML rewriting) and the operator tools around the program.
- In the loop, the branch where `get_obs` returns None: the caches it needs are
  never cleared, so no state reaches it after `wait_for_obs`.
- In the publisher, publishes that raise, held arms and the arm-frame map.
- Non-finite joint values: the models' grid is of integers.
- A second Ctrl+C inside the teardown beyond what `ArmSession` counts (`aborted`).
