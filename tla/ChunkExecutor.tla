---------------------------- MODULE ChunkExecutor ----------------------------
(***************************************************************************)
(* camelo/control/chunk_executor.py: policy action chunks become per-tick  *)
(* robot commands.                                                         *)
(*                                                                         *)
(* A chunk is a row sequence stamped with the sim time t0 of the           *)
(* observation it answers.  Every tick the executor interpolates it at the *)
(* current sim time, limits the arm command to MaxDelta per joint and      *)
(* tick, and (on the real robot) leashes it to the measured pose.          *)
(* set_chunk splices an arriving chunk in by one of three policies.        *)
(*                                                                         *)
(* Units.  Sim time is counted in SubSteps-ths of a chunk row (the row     *)
(* period dt is SubSteps time units), so an index, fractional in the code, *)
(* is an integer number of sub-rows here.  A chunk's row holds coarse      *)
(* values; interpolating SubSteps-ths of a row gives every command in fine *)
(* units, SubSteps times finer, exactly.  ExecutorStats and the last_*     *)
(* diagnostics are write-only in the executor and are left out.            *)
(***************************************************************************)
EXTENDS BaseQuantizer, FiniteSets, FiniteSetsExt

CONSTANTS
  Joint,        \* the 14 arm joints: the executor drives both arms
  MaxDelta,     \* max_delta_per_tick, fine units
  Leashes,      \* the values of leash_rad to consider, NoLeash among them
  RampTicks,    \* splice_ramp_ticks
  SubSteps,     \* time units in a chunk row
  ForwardRows,  \* NEAREST_FORWARD_ROWS
  RebaseTicks,  \* the 1.0 s of clock regression that drops a chunk
  GripOpen,     \* a fully open gripper, coarse units
  Chunks,       \* the action blocks the policy may return
  Samples,      \* the measured poses a tick may read, NotFinite among them
  MaxTime,      \* bound on the sim clock
  MaxReach,     \* bound on the commands a chunk is spliced onto: under `offset`
                \* they may drift, hand-over after hand-over
  NoLeash, NotFinite, None

Pose == [Joint -> Int]

Row == [arm : Pose, grip : Int, twist : Twist]

SplicePolicies == {"index", "nearest", "offset"}

ASSUME ExecutorAssumption ==
  /\ MaxDelta \in Nat
  /\ Leashes \subseteq Nat \cup {NoLeash}
  /\ RampTicks \in Nat
  /\ SubSteps \in Nat \ {0}
  /\ ForwardRows \in Nat
  /\ RebaseTicks \in Nat
  /\ GripOpen \in Nat
  /\ MaxTime \in Nat
  /\ MaxReach \in Nat
  /\ NoLeash \notin Nat

Command == [arms : Pose, grip : 0..SubSteps * GripOpen, twist : Twist, token : Tokens]

\* None is no value of any optional field.
ASSUME NoneAssumption ==
  /\ None \notin Pose
  /\ None \notin Command
  /\ None \notin [t0 : Int, rows : Chunks, offset : Int]
  /\ None \notin [t0 : Int, last : Nat, offset : Int]

\* The shape _Chunk.__post_init__ insists on: (H, 20) blocks.
ASSUME ChunksAssumption ==
  \A rows \in Chunks :
    Len(rows) \in Nat \ {0} /\ rows \in [1..Len(rows) -> Row]

ASSUME SamplesAssumption ==
  \A m \in Samples : m = NotFinite \/ m \in Pose

VARIABLES
  splice,           \* chunk_splice, fixed at construction
  leash,            \* leash_rad, fixed at construction
  now,              \* sim clock of the current tick
  chunk,            \* _chunk, or None
  lastArms,         \* _last_arms, or None
  measured,         \* _measured_arms, or None
  lastCommand,      \* _last_command, or None
  spliceDelta,      \* _splice_delta, or None
  spliceTicksLeft,  \* _splice_ticks_left
  token,            \* the quantizer's held token
  sent,             \* the last command returned to the control loop, or None
  op                \* what the last call did: a chunk set, a command stepped or held,
                    \* silent if it gave none; none before the tick's first call

config == <<splice, leash>>

playback == <<chunk, spliceDelta, spliceTicksLeft>>

commanded == <<lastArms, measured, lastCommand, token, sent>>

vars == <<config, now, playback, commanded, op>>

-----------------------------------------------------------------------------
\* Playing a chunk.

Blend(a, b, f) ==
  [arm   |-> [j \in Joint |-> (SubSteps - f) * a.arm[j] + f * b.arm[j]],
   grip  |-> (SubSteps - f) * a.grip + f * b.grip,
   twist |-> [x \in Axis |-> (SubSteps - f) * a.twist[x] + f * b.twist[x]]]

LastIndex(c) == (Len(c.rows) - 1) * SubSteps

WallIndex(c, t) == t - c.t0

Index(c, t) == WallIndex(c, t) + c.offset

\* _Chunk.interpolate: the row at a sub-row index, held at either end.
RowAt(rows, u) ==
  LET last == Len(rows)
      lo   == (u \div SubSteps) + 1
  IN  IF u <= 0 THEN Blend(rows[1], rows[1], 0)
      ELSE IF u >= (last - 1) * SubSteps THEN Blend(rows[last], rows[last], 0)
      ELSE Blend(rows[lo], rows[lo + 1], u % SubSteps)

Interpolate(c, t) == RowAt(c.rows, Index(c, t))

\* Mutant: the chunk runs out on the wall index, whatever the splice rewound.
ExhaustedByWall(t) == IF chunk = None THEN TRUE ELSE WallIndex(chunk, t) >= LastIndex(chunk)

\* No unplayed row is left.
Exhausted(t) == IF chunk = None THEN TRUE ELSE Index(chunk, t) >= LastIndex(chunk)

-----------------------------------------------------------------------------
\* Splicing a chunk in.

Clip(x, lo, hi) == IF x < lo THEN lo ELSE IF x > hi THEN hi ELSE x

Distance(p, q) == MapThenSumSet(LAMBDA j : (p[j] - q[j]) * (p[j] - q[j]), Joint)

\* _nearest_index over rows lo..hi (counted from 0): the whole rows, and the
\* closest points of the two segments that meet at the closest row; of the
\* points that are equally close, the one nearest `prefer`, then the first.
NearestIndexes(rows, ref, lo, hi, prefer) ==
  LET Away(u)  == Distance(RowAt(rows, u).arm, ref)
      whole    == {r * SubSteps : r \in lo..hi}
      closest  == {u \in whole : \A v \in whole : Away(u) <= Away(v)}
      vertex   == CHOOSE u \in closest : \A v \in closest : u <= v
      segments == {a \in {vertex - SubSteps, vertex} :
                     /\ lo * SubSteps <= a /\ a + SubSteps <= hi * SubSteps
                     /\ RowAt(rows, a).arm # RowAt(rows, a + SubSteps).arm}
      points   == whole \cup {u \in lo * SubSteps .. hi * SubSteps :
                     \E a \in segments :
                        /\ u \in a .. a + SubSteps
                        /\ \A v \in a .. a + SubSteps : Away(u) <= Away(v)}
      near     == {u \in points : \A v \in points : Away(u) <= Away(v)}
      Rank(u)  == Magnitude(u - prefer)
  IN  {u \in near : \A v \in near : Rank(u) < Rank(v) \/ (Rank(u) = Rank(v) /\ u <= v)}

\* Mutant: the search runs forward to the end of the chunk.
SpliceIndexesUnbounded(rows, wall) ==
  NearestIndexes(rows, IF measured = None THEN lastArms ELSE measured,
                 Clip((wall \div SubSteps) - Len(rows), 0, Len(rows) - 1), Len(rows) - 1,
                 IF measured = None THEN 0 ELSE wall)

\* The window set_chunk searches, and where ties go: around the wall index
\* once a pose has been measured, the rest of the chunk before that.
SpliceIndexes(rows, wall) ==
  LET last  == Len(rows) - 1
      row   == wall \div SubSteps
      hi    == IF measured = None THEN last ELSE Clip(row + ForwardRows, 0, last)
      start == Clip(row - Len(rows), 0, last)
      lo    == IF start > hi THEN hi ELSE start
  IN  IF measured = None
      THEN NearestIndexes(rows, lastArms, lo, hi, lo * SubSteps)
      ELSE NearestIndexes(rows, measured, lo, hi, wall)

SpliceOffsets(rows, wall) ==
  IF splice = "nearest" /\ lastArms # None
  THEN {u - wall : u \in SpliceIndexes(rows, wall)}
  ELSE {0}

\* The discontinuity the `offset` policy carries over: what is commanded now,
\* minus what the new chunk asks for at the wall index.
HandoverDelta(rows, wall) ==
  IF splice = "offset" /\ lastArms # None /\ RampTicks > 0
  THEN [j \in Joint |-> lastArms[j] - RowAt(rows, wall).arm[j]]
  ELSE None

-----------------------------------------------------------------------------
\* The executor's operations, each a call of the control loop.

Init ==
  /\ splice \in SplicePolicies
  /\ leash \in Leashes
  /\ now \in 0..MaxTime
  /\ chunk = None
  /\ lastArms = None
  /\ measured = None
  /\ lastCommand = None
  /\ spliceDelta = None
  /\ spliceTicksLeft = 0
  /\ token = "NONE"
  /\ sent = None
  /\ op = "none"

\* reset(): between an approach and its rollout, and between two episodes.
Reset ==
  /\ chunk' = None
  /\ lastArms' = None
  /\ measured' = None
  /\ lastCommand' = None
  /\ spliceDelta' = None
  /\ spliceTicksLeft' = 0
  /\ token' = "NONE"
  /\ sent' = None
  /\ op' = "none"
  /\ UNCHANGED <<config, now>>

WithinReach == lastArms # None => \A j \in Joint : Magnitude(lastArms[j]) <= MaxReach

\* set_chunk(): the latest chunk wins, whatever was left of the previous one.
SetChunk(t0, rows) ==
  /\ WithinReach
  /\ \E offset \in SpliceOffsets(rows, now - t0) :
       chunk' = [t0 |-> t0, rows |-> rows, offset |-> offset]
  /\ spliceDelta' = HandoverDelta(rows, now - t0)
  /\ spliceTicksLeft' = IF spliceDelta' = None THEN 0 ELSE RampTicks
  /\ op' = "set"
  /\ UNCHANGED <<config, now, commanded>>

\* step() with nothing to play.
StepSilent ==
  /\ chunk = None
  /\ op' = "silent"
  /\ UNCHANGED <<config, now, playback, commanded>>

\* step() after the sim clock was rebased under the chunk: it is dropped.
StepStale ==
  /\ chunk # None
  /\ now < chunk.t0 - RebaseTicks
  /\ chunk' = None
  /\ op' = "silent"
  /\ UNCHANGED <<config, now, spliceDelta, spliceTicksLeft, commanded>>

\* The pose the tick measures: a sample that is not finite is not adopted.
Adopt(m) == IF m = NotFinite THEN measured ELSE m

\* step() before any joint state: no start pose is guessed.
StepUnmeasured(m) ==
  /\ chunk # None
  /\ now >= chunk.t0 - RebaseTicks
  /\ lastArms = None
  /\ Adopt(m) = None
  /\ op' = "silent"
  /\ UNCHANGED <<config, now, playback, commanded>>

\* Where the tick's motion starts: the last command, or the measured pose.
Previous(m) == IF lastArms = None THEN Adopt(m) ELSE lastArms

\* Mutant: the correction's counter is decremented before it is used.
ArmTargetEarly ==
  LET arm == Interpolate(chunk, now).arm
  IN  IF spliceDelta # None /\ spliceTicksLeft > 0
      THEN [j \in Joint |-> arm[j] + ((spliceDelta[j] * (spliceTicksLeft - 1)) \div RampTicks)]
      ELSE arm

\* The arm target of the tick, the hand-over correction included while it
\* decays.
ArmTarget ==
  LET arm == Interpolate(chunk, now).arm
  IN  IF spliceDelta # None /\ spliceTicksLeft > 0
      THEN [j \in Joint |-> arm[j] + ((spliceDelta[j] * spliceTicksLeft) \div RampTicks)]
      ELSE arm

\* The rate limiter: from `prev` toward `target`, MaxDelta at most.
Limited(prev, target) ==
  [j \in Joint |-> prev[j] + Clip(target[j] - prev[j], -MaxDelta, MaxDelta)]

\* Mutants: the leash without the second bound, and around the sample of the
\* tick before.
LeashedOnly(prev, arms, centre) ==
  IF leash = NoLeash THEN arms
  ELSE [j \in Joint |-> Clip(arms[j], centre[j] - leash, centre[j] + leash)]

LeashedToStale(prev, arms, centre) ==
  IF leash = NoLeash \/ measured = None THEN arms
  ELSE [j \in Joint |-> Clip(Clip(arms[j], measured[j] - leash, measured[j] + leash),
                              prev[j] - MaxDelta, prev[j] + MaxDelta)]

\* The leash, re-bounded to the same step: its centre is a raw sample, which
\* is not itself rate-limited.
Leashed(prev, arms, centre) ==
  IF leash = NoLeash \/ centre = None THEN arms
  ELSE [j \in Joint |-> Clip(Clip(arms[j], centre[j] - leash, centre[j] + leash),
                              prev[j] - MaxDelta, prev[j] + MaxDelta)]

Grip(row) == Clip(row.grip, 0, SubSteps * GripOpen)

StepCommand(m) ==
  /\ chunk # None
  /\ now >= chunk.t0 - RebaseTicks
  /\ lastArms # None \/ Adopt(m) # None
  /\ LET prev == Previous(m)
         row  == Interpolate(chunk, now)
     IN  /\ measured' = Adopt(m)
         /\ lastArms' = Leashed(prev, Limited(prev, ArmTarget), measured')
         /\ token' = Quantize(token, row.twist)
         /\ lastCommand' = [arms |-> lastArms', grip |-> Grip(row),
                            twist |-> row.twist, token |-> token']
  /\ IF spliceTicksLeft > 0
     THEN spliceTicksLeft' = spliceTicksLeft - 1 /\ UNCHANGED spliceDelta
     ELSE spliceDelta' = None /\ UNCHANGED spliceTicksLeft
  /\ sent' = lastCommand'
  /\ op' = "step"
  /\ UNCHANGED <<config, now, chunk>>

HeldCommand ==
  [lastCommand EXCEPT !.twist = ZeroTwist, !.token = Quantize(token, ZeroTwist)]

\* hold(): the asynchronous loop's answer to a chunk that ran out before its
\* successor landed.  Its only caller asks exhausted() first.
Hold ==
  /\ Exhausted(now)
  /\ lastCommand # None
  /\ sent' = HeldCommand
  /\ token' = sent'.token
  /\ op' = "hold"
  /\ UNCHANGED <<config, now, playback, lastArms, measured, lastCommand>>

\* hold() before anything was ever commanded.
HoldSilent ==
  /\ Exhausted(now)
  /\ lastCommand = None
  /\ op' = "silent"
  /\ UNCHANGED <<config, now, playback, commanded>>

\* The sim clock between two ticks: it advances, or a scene reset rebases it.
Clock ==
  /\ now' \in 0..MaxTime \ {now}
  /\ op' = "none"
  /\ UNCHANGED <<config, playback, commanded>>

Next ==
  \/ Reset
  \/ \E t0 \in 0..MaxTime, rows \in Chunks : SetChunk(t0, rows)
  \/ StepSilent
  \/ StepStale
  \/ \E m \in Samples : StepUnmeasured(m)
  \/ \E m \in Samples : StepCommand(m)
  \/ Hold
  \/ HoldSilent
  \/ Clock

Spec == Init /\ [][Next]_vars

-----------------------------------------------------------------------------
\* What the control loop sees of it.

Playing ==
  IF chunk = None THEN None
  ELSE [t0 |-> chunk.t0, last |-> LastIndex(chunk), offset |-> chunk.offset]

Player == INSTANCE ChunkPlayer
            WITH chunk <- Playing, spoken <- (lastCommand # None), obs <- now,
                 Time <- 0..MaxTime

-----------------------------------------------------------------------------
\* Properties.

IsChunk(c) ==
  /\ c.t0 \in Int
  /\ c.rows \in Chunks
  /\ c.offset \in Int

\* Every variable holds a value of its kind.
TypeOK ==
  /\ splice \in SplicePolicies
  /\ leash \in Leashes
  /\ now \in 0..MaxTime
  /\ chunk = None \/ IsChunk(chunk)
  /\ lastArms = None \/ lastArms \in Pose
  /\ measured = None \/ measured \in Pose
  /\ lastCommand = None \/ lastCommand \in Command
  /\ spliceDelta = None \/ spliceDelta \in Pose
  /\ spliceTicksLeft \in 0..RampTicks
  /\ token \in Tokens
  /\ sent = None \/ sent \in Command
  /\ op \in {"none", "set", "step", "hold", "silent"}

\* Between two commands that reach the robot, no joint moves by more than
\* MaxDelta: across chunk hand-overs, splices, holds, dropped chunks, clock
\* jumps and a measured pose that jumps under the leash.  The clamp is the
\* only rate limiter in the command path.
RateLimited ==
  [][(sent # None /\ sent' # None) =>
       \A j \in Joint : Magnitude(sent'.arms[j] - sent.arms[j]) <= MaxDelta]_vars

\* The first command after a start or a reset ramps in from the pose the
\* arms are measured at, however far the chunk begins from it.
FirstCommandRampsIn ==
  [][(sent = None /\ sent' # None) =>
       \A j \in Joint : Magnitude(sent'.arms[j] - measured'[j]) <= MaxDelta]_vars

\* A commanded joint is within the leash of its measured position, or the
\* tick moved it toward that position as fast as the rate limit allows: a
\* jump of the sample never strands the command outside the leash.
LeashPullsIn ==
  [][(op' = "step" /\ leash # NoLeash) =>
       \A j \in Joint :
          \/ Magnitude(lastArms'[j] - measured'[j]) <= leash
          \/ /\ lastArms # None
             /\ \/ measured'[j] > lastArms'[j] /\ lastArms'[j] = lastArms[j] + MaxDelta
                \/ measured'[j] < lastArms'[j] /\ lastArms'[j] = lastArms[j] - MaxDelta]_vars

\* Starvation is standing still: a hold repeats the arms and grippers of the
\* command before it, with a zero twist and no pedal token, and the rate
\* limit of the next step is taken from there.
HoldStandsStill ==
  [][op' = "hold" =>
       /\ sent # None
       /\ sent'.arms = sent.arms /\ sent'.grip = sent.grip /\ sent'.arms = lastArms'
       /\ sent'.twist = ZeroTwist /\ sent'.token = "NONE"]_vars

\* Under the `offset` policy the first step after a chunk is installed, on
\* the same tick and without a leash, commands the arms exactly where they
\* already were: the hand-over itself asks for no motion.
HandoverIsContinuous ==
  [][(op = "set" /\ op' = "step" /\ splice = "offset" /\ leash = NoLeash
        /\ RampTicks > 0 /\ lastArms # None) => lastArms' = lastArms]_vars

\* A spliced chunk starts inside its rows; anchored at a measured pose it is
\* at most ForwardRows past the wall index (or at the first row): a splice
\* never skips most of the horizon.
SpliceStaysNear ==
  [][(op' = "set" /\ splice = "nearest" /\ lastArms # None) =>
       LET start == Index(chunk', now)
           wall  == WallIndex(chunk', now)
       IN  /\ start \in 0..LastIndex(chunk')
           /\ measured # None =>
                \/ start = 0
                \/ start <= ((wall \div SubSteps) + ForwardRows) * SubSteps]_vars

\* A moving base's pedal token never contradicts the twist it was made from:
\* its axis really moves that way, at the release speed or more.
TokenFollowsTwist ==
  (sent # None /\ sent.token # "NONE") => AlongToken(sent.token, sent.twist) >= Release

\* What ties the last command that left to what the executor remembers of it.
CommandIsRemembered ==
  /\ sent = None <=> lastArms = None
  /\ sent = None <=> lastCommand = None
  /\ lastArms # None => measured # None
  /\ sent # None => /\ sent.arms = lastArms
                    /\ lastCommand.arms = lastArms
                    /\ lastCommand.grip = sent.grip

IInv == TypeOK /\ CommandIsRemembered /\ TokenFollowsTwist

\* Between the installation of a chunk and the tick's step: the correction is
\* what the last command and the chunk differ by.
HandoverIsDue ==
  (op = "set" /\ splice = "offset" /\ RampTicks > 0 /\ lastArms # None) =>
    /\ chunk # None
    /\ spliceDelta = [j \in Joint |-> lastArms[j] - Interpolate(chunk, now).arm[j]]
    /\ spliceTicksLeft = RampTicks

\* The executor keeps the promise the control loop is written against, judged
\* at the clock of each call: a step commands exactly when its chunk is not
\* stale, a hold repeats the last command and only past the chunk's last row,
\* and once a command was given nothing but a lost chunk silences a call.
ImplementsPlayer == Player!PlayerSpec
=============================================================================
