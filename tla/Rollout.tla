------------------------------- MODULE Rollout -------------------------------
(***************************************************************************)
(* run_rollout (camelo/runner/episode_runner.py): the control loop that    *)
(* drives the policy.                                                      *)
(*                                                                         *)
(* Three actors run beside each other: the control loop, tick after tick;  *)
(* the inference worker of AsyncInference; and the world, that is the      *)
(* clock, the camera and joint-state streams the collector caches and the  *)
(* policy server.  The loop plays chunks through ChunkPlayer, the abstract *)
(* executor that ChunkExecutor implements.                                 *)
(*                                                                         *)
(* One time unit is one tick of the loop (1/rate_hz), and a chunk row is   *)
(* one tick long.  A tick's own computations take no time; what takes time *)
(* is the sleep that ends it and a blocking inference.  The logs, meters   *)
(* and gripper stages of a tick do not change what is modelled here.       *)
(***************************************************************************)
EXTENDS AsyncInference, ChunkPlayer, FiniteSets

CONSTANTS
  RolloutTime,   \* rollout_s
  ReplanAfter,   \* replan_after_steps
  Last,          \* index of a chunk's last row
  Offsets,       \* the offsets a splice may give a chunk
  MaxImageAge,   \* max_image_age_s of a real run
  MaxStateAge,   \* max_state_age_s of a real run
  RecvTimeout,   \* the backend's bounded reply wait
  MaxTime,       \* bound on the sim clock
  MaxAge         \* where ages stop being counted

ASSUME RolloutAssumption ==
  /\ Time = 0..MaxTime /\ Observation = Time
  /\ RolloutTime \in Nat /\ ReplanAfter \in Nat /\ Last \in Nat
  /\ Offsets \subseteq Int
  /\ MaxImageAge \in Nat /\ MaxStateAge \in Nat /\ RecvTimeout \in Nat
  /\ MaxTime \in Nat /\ RebaseTicks < MaxTime /\ MaxAge \in Nat

VARIABLES
  config,    \* the arguments of run_rollout that shape it
  pc,        \* where the loop is; obs is the t_sim of the tick's observation
  outcome,   \* how the rollout ended
  sim,       \* the collector's sim clock
  stateAge,  \* time since the oldest joint-state stream last delivered
  imageAge,  \* time since the oldest camera last delivered
  tStart,    \* t_start
  waited     \* how long this tick's blocking inference has taken

loopVars == <<pc, outcome, tStart, obs, waited>>

world == <<sim, stateAge, imageAge>>

vars == <<config, world, loopVars, playerVars, inferenceVars>>

\* The choices that shape a rollout: the world (the stale guards are on and
\* the clock is real time in the real one), who runs inference, what a
\* chunk's t0 is stamped with, and the approach before it.
Config ==
  [real : BOOLEAN, async : BOOLEAN, timeBase : {"observation", "arrival"},
   approach : {"none", "first", "only"}]

LoopPC == {"observe", "poll", "ask", "infer", "command", "sleep"}

PC == {"start", "wait"} \cup LoopPC \cup {"stop", "close", "join", "ended"}

-----------------------------------------------------------------------------
\* The world.

Older(age) == IF age < MaxAge THEN age + 1 ELSE age

\* The sim clock over one time unit: real time in the real world; in sim it
\* may stall, and a scene reset rebases it.
NextSim == IF config.real THEN {sim + 1} ELSE 0..sim + 1

Elapse ==
  /\ sim' \in NextSim
  /\ sim' <= MaxTime
  /\ stateAge' = IF config.real THEN Older(stateAge) ELSE stateAge
  /\ imageAge' = IF config.real THEN Older(imageAge) ELSE imageAge

\* A message of the stream, or the camera, that was the oldest: another one
\* is now.  In sim nothing asks.
StatesArrive ==
  /\ config.real /\ pc # "ended"
  /\ stateAge' \in 0..stateAge - 1
  /\ UNCHANGED <<config, sim, imageAge, loopVars, playerVars, inferenceVars>>

FramesArrive ==
  /\ config.real /\ pc # "ended"
  /\ imageAge' \in 0..imageAge - 1
  /\ UNCHANGED <<config, sim, stateAge, loopVars, playerVars, inferenceVars>>

-----------------------------------------------------------------------------
\* The control loop.

Init ==
  /\ config \in Config
  /\ pc = "start"
  /\ outcome = "none"
  /\ sim = RebaseTicks + 1
  /\ stateAge \in IF config.real THEN {0, MaxAge} ELSE {0}
  /\ imageAge \in IF config.real THEN {0, MaxAge} ELSE {0}
  /\ tStart = 0
  /\ obs = 0
  /\ waited = 0
  /\ InferenceInit
  /\ PlayerInit

\* Out of the try block by an exception: what follows is the finally.
Raise ==
  /\ pc' = "close"
  /\ outcome' = "raised"
  /\ UNCHANGED <<tStart, obs, waited>>

\* The approach, if there is one, then executor.reset(); with approach_only
\* the run stops there.
Approach ==
  /\ pc = "start" /\ config.approach # "none"
  /\ pc' = IF config.approach = "only" THEN "close" ELSE "wait"
  /\ outcome' = IF config.approach = "only" THEN "approached" ELSE outcome
  /\ PlayerReset
  /\ UNCHANGED <<config, world, tStart, obs, waited, inferenceVars>>

NoApproach ==
  /\ pc = "start" /\ config.approach = "none"
  /\ pc' = "wait"
  /\ UNCHANGED <<config, world, outcome, tStart, obs, waited, playerVars, inferenceVars>>

\* run_approach, or wait_for_obs, raises.
StartFails ==
  /\ pc \in {"start", "wait"}
  /\ pc = "start" => config.approach # "none"
  /\ Raise
  /\ UNCHANGED <<config, world, playerVars, inferenceVars>>

\* The first complete observation; the worker starts after it.
Begin ==
  /\ pc = "wait"
  /\ pc' = "observe"
  /\ tStart' = sim
  /\ IF config.async THEN StartWorker ELSE UNCHANGED inferenceVars
  /\ UNCHANGED <<config, world, outcome, obs, waited, playerVars>>

TimeIsUp == sim - tStart >= RolloutTime

Rebased == sim < tStart - RebaseTicks

\* Mutant: the joint states are checked with the images, at a request.
StateIsStaleAtRequest == config.real /\ ~inFlight /\ stateAge > MaxStateAge

StateIsStale == config.real /\ stateAge > MaxStateAge

\* The top of a tick: get_obs, then the ways to end before anything is asked
\* or commanded.
Observe ==
  /\ pc = "observe"
  /\ obs' = sim
  /\ ~TimeIsUp /\ ~Rebased /\ ~StateIsStale
  /\ pc' = IF config.async THEN "poll" ELSE "ask"
  /\ waited' = 0
  /\ NextTick
  /\ UNCHANGED <<config, world, outcome, tStart, inferenceVars>>

LoopEnds ==
  /\ pc = "observe"
  /\ TimeIsUp \/ Rebased
  /\ obs' = sim
  /\ pc' = "stop"
  /\ NextTick
  /\ UNCHANGED <<config, world, outcome, tStart, waited, inferenceVars>>

StaleState ==
  /\ pc = "observe"
  /\ ~TimeIsUp /\ ~Rebased /\ StateIsStale
  /\ Raise
  /\ UNCHANGED <<config, world, playerVars, inferenceVars>>

\* set_chunk at `installed`, of a chunk computed from the observation `seen`.
InstallReply(seen, installed) ==
  \E offset \in Offsets :
    Install(IF config.timeBase = "arrival" THEN installed ELSE seen, Last, offset)

\* Asynchronous: poll first, then ask.
PollsNothing ==
  /\ pc = "poll"
  /\ PollEmpty
  /\ pc' = "ask"
  /\ UNCHANGED <<config, world, outcome, tStart, obs, waited, playerVars>>

PollsChunk ==
  /\ pc = "poll"
  /\ Poll("chunk")
  /\ InstallReply(Head(results).obs, obs)
  /\ pc' = "ask"
  /\ UNCHANGED <<config, world, outcome, tStart, obs, waited>>

PollsError ==
  /\ pc = "poll"
  /\ Poll("error")
  /\ Raise
  /\ UNCHANGED <<config, world, playerVars>>

\* needs_replan: judged on the wall index, whatever the splice rewound.
NeedsReplan == IF chunk = None THEN TRUE ELSE obs - chunk.t0 >= ReplanAfter

MayAsk == NeedsReplan /\ ~inFlight

ImageIsStale == config.real /\ imageAge > MaxImageAge

AsksNothing ==
  /\ pc = "ask" /\ ~MayAsk
  /\ pc' = "command"
  /\ UNCHANGED <<config, world, outcome, tStart, obs, waited, playerVars, inferenceVars>>

\* The frame about to be consumed is too old.
StaleImage ==
  /\ pc = "ask" /\ MayAsk /\ ImageIsStale
  /\ Raise
  /\ UNCHANGED <<config, world, playerVars, inferenceVars>>

Asks ==
  /\ pc = "ask" /\ config.async /\ MayAsk /\ ~ImageIsStale
  /\ Submit(obs)
  /\ pc' = "command"
  /\ UNCHANGED <<config, world, outcome, tStart, obs, waited, playerVars>>

\* Synchronous: backend.infer blocks the loop, at most until its timeout.
StartsInference ==
  /\ pc = "ask" /\ ~config.async /\ MayAsk /\ ~ImageIsStale
  /\ pc' = "infer"
  /\ UNCHANGED <<config, world, outcome, tStart, obs, waited, playerVars, inferenceVars>>

Blocked ==
  /\ pc = "infer"
  /\ waited < RecvTimeout
  /\ Elapse
  /\ waited' = waited + 1
  /\ UNCHANGED <<config, pc, outcome, tStart, obs, playerVars, inferenceVars>>

\* With the `arrival` time base the collector is sampled again.
InferenceReturns ==
  /\ pc = "infer"
  /\ InstallReply(obs, sim)
  /\ pc' = "command"
  /\ UNCHANGED <<config, world, outcome, tStart, obs, waited, inferenceVars>>

InferenceRaises ==
  /\ pc = "infer"
  /\ Raise
  /\ UNCHANGED <<config, world, playerVars, inferenceVars>>

\* Mutant: step plays the last row for as long as nothing replaces it.
NeverHolds == FALSE

\* executor.step or, once an asynchronous chunk ran out, executor.hold.
Holds == config.async /\ RanOut

Commands ==
  \/ ~Holds /\ (PlayNothing \/ DropStale \/ PlayUnmeasured \/ PlayCommand)
  \/ Holds /\ (RepeatCommand \/ HoldNothing)

Command ==
  /\ pc = "command"
  /\ Commands
  /\ pc' = "sleep"
  /\ UNCHANGED <<config, world, outcome, tStart, obs, waited, inferenceVars>>

Sleep ==
  /\ pc = "sleep"
  /\ Elapse
  /\ pc' = "observe"
  /\ UNCHANGED <<config, outcome, tStart, obs, waited, playerVars, inferenceVars>>

\* After the loop: safe_stop and the stats.
Stop ==
  /\ pc = "stop"
  /\ pc' = "close"
  /\ outcome' = "done"
  /\ UNCHANGED <<config, world, tStart, obs, waited, playerVars, inferenceVars>>

\* Ctrl+C anywhere in the try block.
Interrupt ==
  /\ pc \in LoopPC
  /\ Raise
  /\ UNCHANGED <<config, world, playerVars, inferenceVars>>

\* Mutant: only a rollout that ran to its end closes its worker.
CloseWhenDone ==
  /\ pc = "close"
  /\ IF worker = "none" \/ outcome # "done" THEN pc' = "ended" /\ UNCHANGED inferenceVars
     ELSE pc' = "join" /\ RequestStop
  /\ UNCHANGED <<config, world, outcome, tStart, obs, waited, playerVars>>

\* The finally: close() asks the worker to stop and joins it, for at most
\* 1.0 s; a worker on the wire is left to the daemon exit.
Close ==
  /\ pc = "close"
  /\ IF worker = "none" THEN pc' = "ended" /\ UNCHANGED inferenceVars
     ELSE pc' = "join" /\ RequestStop
  /\ UNCHANGED <<config, world, outcome, tStart, obs, waited, playerVars>>

Join ==
  /\ pc = "join"
  /\ pc' = "ended"
  /\ UNCHANGED <<config, world, outcome, tStart, obs, waited, playerVars, inferenceVars>>

Worker ==
  /\ Work
  /\ UNCHANGED <<config, world, loopVars, playerVars>>

Loop ==
  \/ Approach \/ NoApproach \/ StartFails \/ Begin
  \/ Observe \/ LoopEnds \/ StaleState
  \/ PollsNothing \/ PollsChunk \/ PollsError
  \/ AsksNothing \/ StaleImage \/ Asks \/ StartsInference
  \/ Blocked \/ InferenceReturns \/ InferenceRaises
  \/ Command \/ Sleep \/ Stop \/ Interrupt \/ Close \/ Join

Over == pc = "ended" /\ UNCHANGED vars

Next == Loop \/ Worker \/ StatesArrive \/ FramesArrive \/ Over

\* The loop keeps running (its one blocking call is bounded by the backend's
\* reply timeout, and so are the worker's); a paused sim clock goes on.
Progress ==
  \/ Approach \/ NoApproach \/ Begin
  \/ Observe \/ LoopEnds \/ StaleState
  \/ PollsNothing \/ PollsChunk \/ PollsError
  \/ AsksNothing \/ StaleImage \/ Asks \/ StartsInference
  \/ Blocked \/ InferenceReturns \/ InferenceRaises
  \/ Command \/ Sleep \/ Stop \/ Close \/ Join

Fairness ==
  /\ WF_vars(Progress)
  /\ WF_vars(Worker)
  /\ SF_vars(Sleep /\ sim' > sim)

Spec == Init /\ [][Next]_vars /\ Fairness

-----------------------------------------------------------------------------
\* Properties.

LoopTypeOK ==
  /\ config \in Config
  /\ pc \in PC
  /\ outcome \in {"none", "approached", "done", "raised"}
  /\ sim \in Time
  /\ stateAge \in 0..MaxAge
  /\ imageAge \in 0..MaxAge
  /\ tStart \in Time
  /\ obs \in Time
  /\ waited \in 0..RecvTimeout
  /\ chunk = None \/ chunk \in Playback
  /\ spoken \in BOOLEAN
  /\ op \in {"none", "set", "step", "hold", "silent"}

\* Every variable holds a value of its kind.
TypeOK == LoopTypeOK /\ InferenceTypeOK

\* Inductive: the sentinel is queued by the finally only.
ClosedLast == pc \notin {"join", "ended"} => NotClosed

IInv == TypeOK /\ OneInFlight /\ ClosedLast /\ ~dropped

\* The observations asked about and not yet answered to the loop.
Asked ==
  Observation \cap
    ({requests[i] : i \in 1..Len(requests)} \cup {item} \cup {results[i].obs : i \in 1..Len(results)})

\* A loop that waits for its inference has no worker, and by the command of
\* a tick it has a chunk; one that does not reads its clock once in a tick.
LoopModes ==
  /\ ~config.async => ~inFlight /\ pc # "poll" /\ (pc = "command" => chunk # None)
  /\ config.async => pc # "infer" /\ (pc \in {"poll", "ask", "command"} => obs = sim)

\* On the real robot the images were recent at the observation o, and o is
\* none of the future.
Attended(o) == o <= obs /\ imageAge <= MaxImageAge + sim - o

\* On the real robot: what is asked about, and the chunk that plays.
AttendedChunks ==
  config.real =>
    /\ obs <= sim
    /\ config.async => \A o \in Asked : Attended(o)
    /\ chunk # None /\ (config.async \/ config.timeBase = "observation") => chunk.t0 <= obs
    /\ chunk # None /\ config.async /\ config.timeBase = "observation" =>
         chunk.last = Last /\ Attended(chunk.t0)

\* On the real robot, from the guard to the command.
StatesLive ==
  (config.real /\ pc \in LoopPC \ {"observe", "sleep"}) => stateAge <= MaxStateAge + waited

LoopInv == LoopModes /\ AttendedChunks /\ StatesLive

\* dropped_requests is 0 on every rollout: the loop asks only while nothing
\* is out, whatever the worker does between its poll and its request.
NothingDropped == ~dropped

Sends == pc = "command" /\ pc' = "sleep" /\ op' \in {"step", "hold"}

\* How long the arms follow the policy after a camera died: on the real
\* robot, with inference beside the loop, no row of a chunk is commanded
\* once the oldest camera has been silent for the guard's limit plus the rows
\* of one chunk, the ones the splice rewound included.  It takes the guard at
\* the request, the chunk's own t0 and the hold past its end together.
BlindDriving ==
  [][(Sends /\ op' = "step" /\ config.real /\ config.async /\ config.timeBase = "observation")
       => imageAge < MaxImageAge + Last - chunk.offset]_vars

\* On the real robot no command, a hold included, is sent from joint states
\* that stopped for longer than the guard's limit; a synchronous loop can
\* outrun it by the one inference that blocked it.
DeadStreamStops ==
  [][(Sends /\ config.real) => stateAge <= MaxStateAge + waited]_vars

\* Once the policy has spoken, every tick sends something: on the real robot
\* always, in sim except on the one tick that drops a chunk the clock was
\* rebased under.  The synchronous `arrival` time base is the exception
\* that ArrivalPlaysFirstRow is about.
StreamNeverSilent ==
  [][(pc = "command" /\ pc' = "sleep" /\ spoken /\ op' = "silent") =>
       \/ config.timeBase = "arrival" /\ ~config.async
       \/ ~config.real /\ chunk # None /\ chunk' = None]_vars

\* With the synchronous `arrival` time base, a chunk that was just installed
\* is played by the step of the same tick, from its first row.
ArrivalPlaysFirstRow ==
  [][(pc = "command" /\ pc' = "sleep" /\ op = "set" /\ spoken
        /\ config.timeBase = "arrival" /\ ~config.async) =>
       op' = "step"]_vars

\* The loop calls its executor the way the player expects: every call of a
\* tick is made with the sim time of that tick's observation.
LoopPlays == PlayerSpec

\* A rollout ends, and its worker with it: an error, a lost stream, a slow
\* or failed inference, Ctrl+C and a stalled clock included, unless the sim
\* clock is rebased for ever.
RolloutEnds ==
  (<>[][sim' >= sim]_vars) =>
    <>[](pc = "ended" /\ worker \in {"none", "stopped", "failed"})
=============================================================================
