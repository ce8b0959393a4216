------------------------- MODULE ChunkExecutorProofs -------------------------
(***************************************************************************)
(* What holds of the executor for every arm, chunk, splice policy, leash   *)
(* and schedule of calls: its types, the rate limit, the leash, the ramp-in*)
(* that starvation stands still, and what the splices promise.             *)
(***************************************************************************)
EXTENDS ChunkExecutor, TLAPS

USE QuantizerAssumption, ExecutorAssumption, NoneAssumption, SamplesAssumption

-----------------------------------------------------------------------------
\* Interpolation.

\* A sub-row index strictly inside a block of n rows falls in one of its rows.
LEMMA RowOfIndex ==
  ASSUME NEW u \in Int, NEW n \in Nat, 0 < u, u < n * SubSteps
  PROVE  u \div SubSteps \in 0..n - 1
<1>1. u \div SubSteps \in Int
  OBVIOUS
<1>2. SubSteps * (u \div SubSteps) <= u /\ u < SubSteps * (u \div SubSteps) + SubSteps
  OBVIOUS
<1> QED
  BY <1>1, <1>2, SMTT(30)

\* A blend of two rows is a row.
LEMMA BlendType ==
  ASSUME NEW a \in Row, NEW b \in Row, NEW f \in Int
  PROVE  Blend(a, b, f) \in Row
<1>1. \A j \in Joint : a.arm[j] \in Int /\ b.arm[j] \in Int
  BY DEF Row, Pose
<1>2. \A x \in Axis : a.twist[x] \in Int /\ b.twist[x] \in Int
  BY DEF Row, Twist
<1>3. a.grip \in Int /\ b.grip \in Int
  BY DEF Row
<1>4. [j \in Joint |-> (SubSteps - f) * a.arm[j] + f * b.arm[j]] \in Pose
  BY <1>1 DEF Pose
<1>5. [x \in Axis |-> (SubSteps - f) * a.twist[x] + f * b.twist[x]] \in Twist
  BY <1>2 DEF Twist
<1>6. (SubSteps - f) * a.grip + f * b.grip \in Int
  BY <1>3
<1> QED
  BY <1>4, <1>5, <1>6 DEF Blend, Row

\* Interpolating a chunk anywhere, before its first row and after its last
\* one included, gives a row: playback never indexes outside the block.
LEMMA RowAtType ==
  ASSUME NEW rows \in Chunks, NEW u \in Int
  PROVE  RowAt(rows, u) \in Row
<1> DEFINE last == Len(rows)
           lo   == (u \div SubSteps) + 1
<1>1. last \in Nat \ {0} /\ \A r \in 1..last : rows[r] \in Row
  BY ChunksAssumption
<1>2. CASE u <= 0
  BY <1>1, <1>2, BlendType DEF RowAt
<1>3. CASE ~(u <= 0) /\ u >= (last - 1) * SubSteps
  BY <1>1, <1>3, BlendType DEF RowAt
<1>4. CASE ~(u <= 0) /\ ~(u >= (last - 1) * SubSteps)
  <2>1. 0 < u /\ u < (last - 1) * SubSteps /\ last - 1 \in Nat
    BY <1>1, <1>4
  <2>2. u \div SubSteps \in 0..(last - 1) - 1
    BY <2>1, RowOfIndex
  <2>3. lo \in 1..last /\ lo + 1 \in 1..last /\ u % SubSteps \in Int
    BY <1>1, <2>2
  <2>4. Blend(rows[lo], rows[lo + 1], u % SubSteps) \in Row
    BY <1>1, <2>3, BlendType
  <2> QED
    BY <1>4, <2>4 DEF RowAt
<1> QED
  BY <1>2, <1>3, <1>4

-----------------------------------------------------------------------------
\* Limiting and leashing.

\* The limited target is a pose within MaxDelta of where the arms were.
LEMMA LimitedBound ==
  ASSUME NEW prev \in Pose, NEW target \in Pose
  PROVE  /\ Limited(prev, target) \in Pose
         /\ \A j \in Joint : Magnitude(Limited(prev, target)[j] - prev[j]) <= MaxDelta
<1>1. \A j \in Joint : prev[j] \in Int /\ target[j] \in Int
  BY DEF Pose
<1> QED
  BY <1>1 DEF Limited, Clip, Pose, Magnitude

\* Leashing keeps the pose within MaxDelta of where the arms were, wherever
\* the measured centre is, and moves every joint the leash holds back as fast
\* as the limit allows.
LEMMA LeashedBound ==
  ASSUME NEW prev \in Pose, NEW arms \in Pose, NEW centre,
         centre = None \/ centre \in Pose, leash \in Leashes,
         \A j \in Joint : Magnitude(arms[j] - prev[j]) <= MaxDelta
  PROVE  /\ Leashed(prev, arms, centre) \in Pose
         /\ \A j \in Joint : Magnitude(Leashed(prev, arms, centre)[j] - prev[j]) <= MaxDelta
         /\ (leash # NoLeash /\ centre # None) =>
              \A j \in Joint :
                LET new == Leashed(prev, arms, centre)[j]
                IN  \/ Magnitude(new - centre[j]) <= leash
                    \/ centre[j] > new /\ new = prev[j] + MaxDelta
                    \/ centre[j] < new /\ new = prev[j] - MaxDelta
<1>1. \A j \in Joint : prev[j] \in Int /\ arms[j] \in Int
  BY DEF Pose
<1>2. CASE leash = NoLeash \/ centre = None
  BY <1>2 DEF Leashed
<1>3. CASE ~(leash = NoLeash \/ centre = None)
  <2>1. leash \in Nat /\ \A j \in Joint : centre[j] \in Int
    BY <1>3 DEF Pose
  <2> QED
    BY <1>1, <1>3, <2>1 DEF Leashed, Clip, Pose, Magnitude
<1> QED
  BY <1>2, <1>3

-----------------------------------------------------------------------------
\* The quantizer.

\* A token is only ever held or made while its own axis moves that way.
LEMMA QuantizeFollows ==
  ASSUME NEW t \in Tokens, NEW v \in Twist
  PROVE  /\ Quantize(t, v) \in Tokens
         /\ Quantize(t, v) # "NONE" => AlongToken(Quantize(t, v), v) >= Release
<1>1. v["x"] \in Int /\ v["y"] \in Int /\ v["w"] \in Int
  BY DEF Twist, Axis
<1>2. Dominant(v) \in {"x", "y", "w"}
  BY DEF Dominant
<1>3. CASE KeepsToken(t, v)
  BY <1>3 DEF Quantize, KeepsToken
<1>4. CASE ~KeepsToken(t, v)
  <2>1. CASE Dominant(v) = "x"
    BY <1>1, <1>4, <2>1 DEF Quantize, Tokens, PositiveToken, NegativeToken, AlongToken, Magnitude
  <2>2. CASE Dominant(v) = "y"
    BY <1>1, <1>4, <2>2 DEF Quantize, Tokens, PositiveToken, NegativeToken, AlongToken, Magnitude
  <2>3. CASE Dominant(v) = "w"
    BY <1>1, <1>4, <2>3 DEF Quantize, Tokens, PositiveToken, NegativeToken, AlongToken, Magnitude
  <2> QED
    BY <1>2, <2>1, <2>2, <2>3
<1> QED
  BY <1>3, <1>4

\* A zero twist always releases the pedal.
LEMMA ZeroReleases ==
  ASSUME NEW t \in Tokens
  PROVE  ZeroTwist \in Twist /\ Quantize(t, ZeroTwist) = "NONE"
<1>1. ZeroTwist \in Twist /\ \A a \in Axis : ZeroTwist[a] = 0
  BY DEF ZeroTwist, Twist
<1>2. AlongToken(t, ZeroTwist) = 0
  BY <1>1 DEF AlongToken, Axis, Tokens
<1>3. Dominant(ZeroTwist) = "x" /\ Magnitude(ZeroTwist["x"]) = 0
  BY <1>1 DEF Dominant, Axis, Magnitude
<1> QED
  BY <1>1, <1>2, <1>3 DEF Quantize, KeepsToken

-----------------------------------------------------------------------------
\* The step.

\* What the operations of step() build from well-typed state.
LEMMA StepTypes ==
  ASSUME IInv, NEW m \in Samples, chunk # None,
         lastArms # None \/ Adopt(m) # None
  PROVE  /\ Adopt(m) = None \/ Adopt(m) \in Pose
         /\ Previous(m) \in Pose
         /\ Interpolate(chunk, now) \in Row
         /\ ArmTarget \in Pose
<1>1. chunk.rows \in Chunks /\ Index(chunk, now) \in Int
  BY DEF IInv, TypeOK, IsChunk, Index, WallIndex
<1>2. Interpolate(chunk, now) \in Row
  BY <1>1, RowAtType DEF Interpolate
<1>3. Adopt(m) = None \/ Adopt(m) \in Pose
  BY DEF IInv, TypeOK, Adopt
<1>4. Previous(m) \in Pose
  BY <1>3 DEF IInv, TypeOK, Previous
<1>5. Interpolate(chunk, now).arm \in Pose
  BY <1>2 DEF Row
<1>6. CASE ~(spliceDelta # None /\ spliceTicksLeft > 0)
  <2>1. ArmTarget = Interpolate(chunk, now).arm
    BY <1>6 DEF ArmTarget
  <2> QED
    BY <1>2, <1>3, <1>4, <1>5, <2>1
<1>7. CASE spliceDelta # None /\ spliceTicksLeft > 0
  <2>1. RampTicks \in Nat \ {0} /\ spliceDelta \in Pose /\ spliceTicksLeft \in Nat
    BY <1>7 DEF IInv, TypeOK
  <2>2. \A j \in Joint : (spliceDelta[j] * spliceTicksLeft) \div RampTicks \in Int
    BY <2>1 DEF Pose
  <2>3. ArmTarget = [j \in Joint |-> Interpolate(chunk, now).arm[j]
                                    + ((spliceDelta[j] * spliceTicksLeft) \div RampTicks)]
    BY <1>7 DEF ArmTarget
  <2>4. ArmTarget \in Pose
    BY <1>5, <2>2, <2>3 DEF Pose
  <2> QED
    BY <1>2, <1>3, <1>4, <2>4
<1> QED
  BY <1>6, <1>7

\* A tick that commands: a pose within MaxDelta of the one it started from,
\* the leash respected or approached, the token following the twist.
LEMMA StepCommandEffect ==
  ASSUME IInv, NEW m \in Samples, StepCommand(m)
  PROVE  /\ measured' \in Pose
         /\ lastArms' \in Pose
         /\ \A j \in Joint : Magnitude(lastArms'[j] - Previous(m)[j]) <= MaxDelta
         /\ leash # NoLeash =>
              \A j \in Joint :
                \/ Magnitude(lastArms'[j] - measured'[j]) <= leash
                \/ measured'[j] > lastArms'[j] /\ lastArms'[j] = Previous(m)[j] + MaxDelta
                \/ measured'[j] < lastArms'[j] /\ lastArms'[j] = Previous(m)[j] - MaxDelta
         /\ lastCommand' \in Command
         /\ sent' = lastCommand' /\ lastCommand'.arms = lastArms'
         /\ token' \in Tokens
         /\ token' # "NONE" => AlongToken(token', lastCommand'.twist) >= Release
         /\ lastCommand'.token = token'
<1> DEFINE row == Interpolate(chunk, now)
<1>1. /\ Adopt(m) = None \/ Adopt(m) \in Pose
      /\ Previous(m) \in Pose /\ row \in Row /\ ArmTarget \in Pose
  BY StepTypes DEF StepCommand
<1>2. /\ measured' = Adopt(m)
      /\ lastArms' = Leashed(Previous(m), Limited(Previous(m), ArmTarget), measured')
      /\ token' = Quantize(token, row.twist)
      /\ lastCommand' = [arms |-> lastArms', grip |-> Grip(row),
                         twist |-> row.twist, token |-> token']
      /\ sent' = lastCommand'
  BY DEF StepCommand
<1>3. /\ Limited(Previous(m), ArmTarget) \in Pose
      /\ \A j \in Joint :
           Magnitude(Limited(Previous(m), ArmTarget)[j] - Previous(m)[j]) <= MaxDelta
  BY <1>1, LimitedBound
<1>9. leash \in Leashes /\ measured' = Adopt(m) /\ measured' \in Pose
  BY <1>1, <1>2 DEF IInv, TypeOK, CommandIsRemembered, StepCommand, Adopt
<1>4. /\ lastArms' \in Pose
      /\ \A j \in Joint : Magnitude(lastArms'[j] - Previous(m)[j]) <= MaxDelta
      /\ leash # NoLeash =>
           \A j \in Joint :
             \/ Magnitude(lastArms'[j] - measured'[j]) <= leash
             \/ measured'[j] > lastArms'[j] /\ lastArms'[j] = Previous(m)[j] + MaxDelta
             \/ measured'[j] < lastArms'[j] /\ lastArms'[j] = Previous(m)[j] - MaxDelta
  <2> DEFINE arms == Limited(Previous(m), ArmTarget)
  <2>1. measured' # None /\ lastArms' = Leashed(Previous(m), arms, measured')
    BY <1>2, <1>9
  <2> HIDE DEF arms
  <2> QED
    BY <1>1, <1>3, <1>9, <2>1, LeashedBound DEF arms
<1>5. row.grip \in Int /\ row.twist \in Twist
  BY <1>1 DEF Row
<1>6. Grip(row) \in 0..SubSteps * GripOpen
  <2>1. SubSteps * GripOpen \in Nat
    OBVIOUS
  <2> QED
    BY <1>5, <2>1 DEF Grip, Clip
<1>7. token \in Tokens
  BY DEF IInv, TypeOK
<1>8. token' \in Tokens /\ (token' # "NONE" => AlongToken(token', row.twist) >= Release)
  BY <1>2, <1>5, <1>7, QuantizeFollows
<1> QED
  BY <1>9, <1>2, <1>4, <1>5, <1>6, <1>8 DEF Command

\* A splice offset is a whole number of sub-rows.
LEMMA SpliceOffsetsType ==
  ASSUME TypeOK, NEW rows \in Chunks, NEW wall \in Int
  PROVE  SpliceOffsets(rows, wall) \subseteq Int
<1>1. Len(rows) \in Nat \ {0} /\ wall \div SubSteps \in Int
  BY ChunksAssumption
<1>2. ASSUME NEW ref, NEW lo \in Int, NEW hi \in Int, NEW prefer
      PROVE  NearestIndexes(rows, ref, lo, hi, prefer) \subseteq Int
  BY DEF NearestIndexes
<1>3. SpliceIndexes(rows, wall) \subseteq Int
  BY <1>1, <1>2 DEF SpliceIndexes, Clip
<1> QED
  BY <1>3 DEF SpliceOffsets

\* The carried-over discontinuity is a pose.
LEMMA HandoverDeltaType ==
  ASSUME TypeOK, NEW rows \in Chunks, NEW wall \in Int
  PROVE  HandoverDelta(rows, wall) = None \/ HandoverDelta(rows, wall) \in Pose
<1>1. CASE splice = "offset" /\ lastArms # None /\ RampTicks > 0
  <2>1. lastArms \in Pose /\ RowAt(rows, wall).arm \in Pose
    BY <1>1, RowAtType DEF TypeOK, Row
  <2> QED
    BY <1>1, <2>1 DEF HandoverDelta, Pose
<1>2. CASE ~(splice = "offset" /\ lastArms # None /\ RampTicks > 0)
  BY <1>2 DEF HandoverDelta
<1> QED
  BY <1>1, <1>2

-----------------------------------------------------------------------------
\* The inductive invariant.

LEMMA InitInv == Init => IInv
BY DEF Init, IInv, TypeOK, CommandIsRemembered, TokenFollowsTwist, Tokens

\* Every call of the executor preserves the invariant.
LEMMA NextInv == IInv /\ [Next]_vars => IInv'
<1> SUFFICES ASSUME IInv, [Next]_vars
             PROVE  IInv'
  OBVIOUS
<1> USE DEF IInv
<1>1. CASE Reset
  BY <1>1 DEF Reset, config, TypeOK, CommandIsRemembered, TokenFollowsTwist, Tokens
<1>2. ASSUME NEW t0 \in 0..MaxTime, NEW rows \in Chunks, SetChunk(t0, rows)
      PROVE  IInv'
  <2>1. now - t0 \in Int
    BY DEF TypeOK
  <2>2. chunk'.t0 \in Int /\ chunk'.rows \in Chunks /\ chunk'.offset \in Int
    BY <1>2, <2>1, SpliceOffsetsType DEF SetChunk
  <2>3. spliceDelta' = None \/ spliceDelta' \in Pose
    BY <1>2, <2>1, HandoverDeltaType DEF SetChunk
  <2>4. spliceTicksLeft' \in 0..RampTicks
    BY <1>2 DEF SetChunk
  <2>5. UNCHANGED <<config, now, commanded>> /\ op' = "set"
    BY <1>2 DEF SetChunk
  <2>6. TypeOK'
    BY <2>2, <2>3, <2>4, <2>5 DEF TypeOK, IsChunk, config, commanded
  <2> QED
    BY <2>5, <2>6 DEF CommandIsRemembered, TokenFollowsTwist, commanded
<1>3. CASE StepSilent
  BY <1>3 DEF StepSilent, config, playback, commanded, TypeOK, IsChunk,
     CommandIsRemembered, TokenFollowsTwist
<1>4. CASE StepStale
  BY <1>4 DEF StepStale, config, commanded, TypeOK, CommandIsRemembered, TokenFollowsTwist
<1>5. ASSUME NEW m \in Samples, StepUnmeasured(m)
      PROVE  IInv'
  BY <1>5 DEF StepUnmeasured, config, playback, commanded, TypeOK, IsChunk,
     CommandIsRemembered, TokenFollowsTwist
<1>6. ASSUME NEW m \in Samples, StepCommand(m)
      PROVE  IInv'
  <2>1. /\ measured' \in Pose /\ lastArms' \in Pose
        /\ lastCommand' \in Command /\ sent' = lastCommand' /\ lastCommand'.arms = lastArms'
        /\ token' \in Tokens
        /\ token' # "NONE" => AlongToken(token', lastCommand'.twist) >= Release
        /\ lastCommand'.token = token'
    BY <1>6, StepCommandEffect
  <2>2. spliceTicksLeft' \in 0..RampTicks /\ (spliceDelta' = None \/ spliceDelta' \in Pose)
    BY <1>6 DEF StepCommand, TypeOK
  <2>3. op' = "step" /\ UNCHANGED <<config, now, chunk>>
    BY <1>6 DEF StepCommand
  <2>4. TypeOK'
    BY <2>1, <2>2, <2>3 DEF TypeOK, IsChunk, config
  <2>5. CommandIsRemembered'
    BY <2>1 DEF CommandIsRemembered
  <2> QED
    BY <2>1, <2>4, <2>5 DEF TokenFollowsTwist
<1>7. CASE Hold
  <2>1. lastCommand \in Command /\ token \in Tokens
    BY <1>7 DEF Hold, TypeOK
  <2>2. sent' = [lastCommand EXCEPT !.twist = ZeroTwist, !.token = "NONE"] /\ token' = "NONE"
    BY <1>7, <2>1, ZeroReleases DEF Hold, HeldCommand, Command
  <2>3. /\ sent' \in Command /\ sent'.arms = lastCommand.arms /\ sent'.grip = lastCommand.grip
        /\ sent'.token = "NONE"
    BY <2>1, <2>2, ZeroReleases DEF Command, Tokens
  <2>4. op' = "hold" /\ UNCHANGED <<config, now, playback, lastArms, measured, lastCommand>>
    BY <1>7 DEF Hold
  <2>5. TypeOK'
    BY <2>2, <2>3, <2>4 DEF TypeOK, IsChunk, config, playback, Tokens
  <2> QED
    BY <1>7, <2>3, <2>4, <2>5 DEF CommandIsRemembered, TokenFollowsTwist, Hold
<1>8. CASE Clock
  BY <1>8 DEF Clock, config, playback, commanded, TypeOK, IsChunk,
     CommandIsRemembered, TokenFollowsTwist
<1>9. CASE UNCHANGED vars
  BY <1>9 DEF vars, config, playback, commanded, TypeOK, IsChunk,
     CommandIsRemembered, TokenFollowsTwist
<1>10. CASE HoldSilent
  BY <1>10 DEF HoldSilent, config, playback, commanded, TypeOK, IsChunk,
     CommandIsRemembered, TokenFollowsTwist
<1> QED
  BY <1>1, <1>2, <1>3, <1>4, <1>5, <1>6, <1>7, <1>8, <1>9, <1>10 DEF Next

\* The invariant the properties below are read off.
LEMMA Invariance == Spec => []IInv
BY InitInv, NextInv, PTL DEF Spec

\* The executor's variables always hold values of their kind: interpolation
\* never leaves a chunk's rows, a gripper command never leaves [0, 1].
THEOREM TypeCorrect == Spec => []TypeOK
<1>1. IInv => TypeOK
  BY DEF IInv
<1> QED
  BY <1>1, Invariance, PTL

\* The pedal token on the wire never contradicts the twist behind it.
THEOREM TokenFollows == Spec => []TokenFollowsTwist
<1>1. IInv => TokenFollowsTwist
  BY DEF IInv
<1> QED
  BY <1>1, Invariance, PTL

-----------------------------------------------------------------------------
\* What a step may never do.

\* The command that leaves is always within MaxDelta of the one before it.
LEMMA RateStep ==
  ASSUME IInv, [Next]_vars, sent # None, sent' # None
  PROVE  \A j \in Joint : Magnitude(sent'.arms[j] - sent.arms[j]) <= MaxDelta
<1>1. sent.arms = lastArms /\ lastArms \in Pose /\ lastCommand # None
  BY DEF IInv, CommandIsRemembered, TypeOK
<1>2. CASE UNCHANGED sent
  <2>1. \A j \in Joint : sent'.arms[j] - sent.arms[j] = 0
    BY <1>1, <1>2 DEF Pose
  <2> QED
    BY <2>1 DEF Magnitude
<1>3. ASSUME NEW m \in Samples, StepCommand(m)
      PROVE  \A j \in Joint : Magnitude(sent'.arms[j] - sent.arms[j]) <= MaxDelta
  <2>1. Previous(m) = lastArms
    BY <1>1 DEF Previous, IInv, CommandIsRemembered
  <2> QED
    BY <1>1, <1>3, <2>1, StepCommandEffect
<1>4. CASE Hold
  <2>1. lastCommand \in Command /\ sent'.arms = lastCommand.arms
    BY <1>4 DEF Hold, HeldCommand, IInv, TypeOK, Command
  <2>2. \A j \in Joint : sent'.arms[j] - sent.arms[j] = 0
    BY <1>1, <2>1 DEF IInv, CommandIsRemembered, Pose
  <2> QED
    BY <2>2 DEF Magnitude
<1> QED
  BY <1>2, <1>3, <1>4 DEF Next, Reset, SetChunk, StepSilent, StepStale, StepUnmeasured, HoldSilent, Clock,
     commanded, vars

\* No joint moves by more than MaxDelta between two commands, whatever the
\* chunk, the splice, the leash and the samples: no path around the clamp.
THEOREM RateLimitHolds == Spec => RateLimited
<1>1. IInv /\ [Next]_vars =>
        [(sent # None /\ sent' # None) =>
           \A j \in Joint : Magnitude(sent'.arms[j] - sent.arms[j]) <= MaxDelta]_vars
  BY RateStep
<1> QED
  BY <1>1, Invariance, PTL DEF Spec, RateLimited

\* The first command after a start or a reset is within MaxDelta of the pose
\* measured on its tick.
THEOREM RampInHolds == Spec => FirstCommandRampsIn
<1>1. ASSUME IInv, [Next]_vars, sent = None, sent' # None
      PROVE  \A j \in Joint : Magnitude(sent'.arms[j] - measured'[j]) <= MaxDelta
  <2>1. lastArms = None /\ lastCommand = None
    BY <1>1 DEF IInv, CommandIsRemembered
  <2>2. PICK m \in Samples : StepCommand(m)
    BY <1>1, <2>1 DEF Next, Reset, SetChunk, StepSilent, StepStale, StepUnmeasured, HoldSilent, Clock, Hold,
       commanded, vars
  <2>3. measured' = Previous(m)
    BY <2>1, <2>2 DEF StepCommand, Previous
  <2> QED
    BY <1>1, <2>2, <2>3, StepCommandEffect
<1>2. IInv /\ [Next]_vars =>
        [(sent = None /\ sent' # None) =>
           \A j \in Joint : Magnitude(sent'.arms[j] - measured'[j]) <= MaxDelta]_vars
  BY <1>1
<1> QED
  BY <1>2, Invariance, PTL DEF Spec, FirstCommandRampsIn

\* A hold leaves the arms and grippers where the command before it put them
\* and stops the base, and the next step's rate limit starts there.
THEOREM HoldHolds == Spec => HoldStandsStill
<1>1. ASSUME IInv, [Next]_vars, op' = "hold", ~UNCHANGED vars
      PROVE  /\ sent # None
             /\ sent'.arms = sent.arms /\ sent'.grip = sent.grip /\ sent'.arms = lastArms'
             /\ sent'.twist = ZeroTwist /\ sent'.token = "NONE"
  <2>1. Hold
    BY <1>1 DEF Next, Reset, SetChunk, StepSilent, StepStale, StepUnmeasured, StepCommand, HoldSilent, Clock
  <2>2. lastCommand \in Command /\ token \in Tokens /\ sent # None
    BY <1>1, <2>1 DEF Hold, IInv, TypeOK, CommandIsRemembered
  <2>3. sent' = [lastCommand EXCEPT !.twist = ZeroTwist, !.token = "NONE"]
    BY <2>1, <2>2, ZeroReleases DEF Hold, HeldCommand, Command
  <2>4. /\ sent'.arms = lastCommand.arms /\ sent'.grip = lastCommand.grip
        /\ sent'.twist = ZeroTwist /\ sent'.token = "NONE"
    BY <2>2, <2>3 DEF Command
  <2>5. lastArms' = lastArms
    BY <2>1 DEF Hold
  <2> QED
    BY <1>1, <2>2, <2>4, <2>5 DEF IInv, CommandIsRemembered
<1>2. IInv /\ [Next]_vars =>
        [op' = "hold" =>
           /\ sent # None
           /\ sent'.arms = sent.arms /\ sent'.grip = sent.grip /\ sent'.arms = lastArms'
           /\ sent'.twist = ZeroTwist /\ sent'.token = "NONE"]_vars
  BY <1>1
<1> QED
  BY <1>2, Invariance, PTL DEF Spec, HoldStandsStill

\* A commanded joint is within the leash of its measured position, or moved
\* toward it at the rate limit on this very tick.
THEOREM LeashHolds == Spec => LeashPullsIn
<1>1. ASSUME IInv, [Next]_vars, ~UNCHANGED vars, op' = "step", leash # NoLeash
      PROVE  \A j \in Joint :
               \/ Magnitude(lastArms'[j] - measured'[j]) <= leash
               \/ /\ lastArms # None
                  /\ \/ measured'[j] > lastArms'[j] /\ lastArms'[j] = lastArms[j] + MaxDelta
                     \/ measured'[j] < lastArms'[j] /\ lastArms'[j] = lastArms[j] - MaxDelta
  <2>1. PICK m \in Samples : StepCommand(m)
    BY <1>1 DEF Next, Reset, SetChunk, StepSilent, StepStale, StepUnmeasured, HoldSilent, Clock, Hold
  <2>2. /\ measured' \in Pose /\ lastArms' \in Pose /\ MaxDelta \in Nat
        /\ \A j \in Joint :
             \/ Magnitude(lastArms'[j] - measured'[j]) <= leash
             \/ measured'[j] > lastArms'[j] /\ lastArms'[j] = Previous(m)[j] + MaxDelta
             \/ measured'[j] < lastArms'[j] /\ lastArms'[j] = Previous(m)[j] - MaxDelta
    BY <1>1, <2>1, StepCommandEffect
  <2>3. CASE lastArms # None
    BY <2>2, <2>3 DEF Previous
  <2>4. CASE lastArms = None
    <3>1. Previous(m) = measured'
      BY <2>1, <2>4 DEF StepCommand, Previous
    <3> QED
      BY <2>2, <3>1 DEF Pose
  <2> QED
    BY <2>3, <2>4
<1>2. IInv /\ [Next]_vars =>
        [(op' = "step" /\ leash # NoLeash) =>
           \A j \in Joint :
             \/ Magnitude(lastArms'[j] - measured'[j]) <= leash
             \/ /\ lastArms # None
                /\ \/ measured'[j] > lastArms'[j] /\ lastArms'[j] = lastArms[j] + MaxDelta
                   \/ measured'[j] < lastArms'[j] /\ lastArms'[j] = lastArms[j] - MaxDelta]_vars
  BY <1>1
<1> QED
  BY <1>2, Invariance, PTL DEF Spec, LeashPullsIn

-----------------------------------------------------------------------------
\* The splices.

LEMMA ProductOrder ==
  ASSUME NEW a \in Int, NEW b \in Int, a <= b
  PROVE  a * SubSteps <= b * SubSteps
  OBVIOUS

\* A clip is between its bounds.
LEMMA ClipBounds ==
  ASSUME NEW x \in Int, NEW lo \in Int, NEW hi \in Int, lo <= hi
  PROVE  /\ Clip(x, lo, hi) \in Int /\ lo <= Clip(x, lo, hi) /\ Clip(x, lo, hi) <= hi
         /\ Clip(x, lo, hi) <= x \/ Clip(x, lo, hi) = lo
  BY DEF Clip

\* The search stays in its window.
LEMMA NearestInWindow ==
  ASSUME NEW rows, NEW ref, NEW lo \in Int, NEW hi \in Int, NEW prefer, lo <= hi,
         NEW u \in NearestIndexes(rows, ref, lo, hi, prefer)
  PROVE  u \in Int /\ lo * SubSteps <= u /\ u <= hi * SubSteps
<1>1. \/ \E r \in lo..hi : u = r * SubSteps
      \/ u \in lo * SubSteps .. hi * SubSteps
  BY DEF NearestIndexes
<1>2. CASE \E r \in lo..hi : u = r * SubSteps
  <2>1. PICK r \in lo..hi : u = r * SubSteps
    BY <1>2
  <2> QED BY <2>1, ProductOrder
<1>3. CASE u \in lo * SubSteps .. hi * SubSteps
  BY <1>3
<1> QED BY <1>1, <1>2, <1>3

\* The window is inside the chunk, and ends ForwardRows past the wall index
\* once a pose has been measured.
LEMMA SpliceIndexInside ==
  ASSUME NEW rows \in Chunks, NEW wall \in Int, NEW u \in SpliceIndexes(rows, wall)
  PROVE  /\ u \in 0..(Len(rows) - 1) * SubSteps
         /\ measured # None => u = 0 \/ u <= ((wall \div SubSteps) + ForwardRows) * SubSteps
<1> DEFINE last  == Len(rows) - 1
           row   == wall \div SubSteps
           hi    == IF measured = None THEN last ELSE Clip(row + ForwardRows, 0, last)
           start == Clip(row - Len(rows), 0, last)
           lo    == IF start > hi THEN hi ELSE start
<1>1. last \in Nat /\ row \in Int /\ Len(rows) \in Int
  BY ChunksAssumption
<1>2. /\ hi \in Int /\ 0 <= hi /\ hi <= last
      /\ measured # None => hi <= row + ForwardRows \/ hi = 0
  <2> DEFINE ahead == row + ForwardRows
  <2>1. ahead \in Int /\ 0 \in Int /\ last \in Int /\ 0 <= last
    BY <1>1
  <2> HIDE DEF last, row, ahead
  <2>2. /\ Clip(ahead, 0, last) \in Int /\ 0 <= Clip(ahead, 0, last) /\ Clip(ahead, 0, last) <= last
        /\ Clip(ahead, 0, last) <= ahead \/ Clip(ahead, 0, last) = 0
    BY <2>1, ClipBounds
  <2> QED BY <2>1, <2>2 DEF ahead
<1>3. start \in Int /\ 0 <= start
  <2> DEFINE behind == row - Len(rows)
  <2>1. behind \in Int /\ 0 \in Int /\ last \in Int /\ 0 <= last
    BY <1>1
  <2> HIDE DEF last, behind
  <2> QED BY <2>1, ClipBounds DEF behind
<1>4. lo \in Int /\ 0 <= lo /\ lo <= hi
  BY <1>2, <1>3
<1>5. \E ref, prefer : u \in NearestIndexes(rows, ref, lo, hi, prefer)
  BY Zenon DEF SpliceIndexes
<1> HIDE DEF last, row, hi, start, lo
<1>6. u \in Int /\ lo * SubSteps <= u /\ u <= hi * SubSteps
  BY <1>2, <1>4, <1>5, NearestInWindow
<1>7. 0 * SubSteps <= lo * SubSteps /\ hi * SubSteps <= last * SubSteps
  BY <1>1, <1>2, <1>4, ProductOrder
<1>8. measured # None => hi * SubSteps <= (row + ForwardRows) * SubSteps \/ hi = 0
  BY <1>1, <1>2, ProductOrder
<1>9. 0 <= u /\ u <= last * SubSteps
  BY <1>1, <1>2, <1>4, <1>6, <1>7
<1>10. measured # None => u = 0 \/ u <= (row + ForwardRows) * SubSteps
  BY <1>1, <1>2, <1>6, <1>8, <1>9
<1> QED BY <1>6, <1>9, <1>10, <1>1 DEF last, row

\* A spliced chunk starts inside its rows, and near the wall index once a
\* pose has been measured, for every chunk, pose and time of arrival.
THEOREM SpliceStaysNearHolds == Spec => SpliceStaysNear
<1> DEFINE Near ==
      (op' = "set" /\ splice = "nearest" /\ lastArms # None) =>
         LET first == Index(chunk', now)
             wall  == WallIndex(chunk', now)
         IN  /\ first \in 0..LastIndex(chunk')
             /\ measured # None =>
                  \/ first = 0
                  \/ first <= ((wall \div SubSteps) + ForwardRows) * SubSteps
<1>1. ASSUME IInv, NEW t0 \in 0..MaxTime, NEW rows \in Chunks, SetChunk(t0, rows) PROVE Near
  <2> SUFFICES ASSUME splice = "nearest", lastArms # None
               PROVE  LET first == Index(chunk', now)
                          wall  == WallIndex(chunk', now)
                      IN  /\ first \in 0..LastIndex(chunk')
                          /\ measured # None =>
                               \/ first = 0
                               \/ first <= ((wall \div SubSteps) + ForwardRows) * SubSteps
    OBVIOUS
  <2>1. PICK u \in SpliceIndexes(rows, now - t0) :
          chunk' = [t0 |-> t0, rows |-> rows, offset |-> u - (now - t0)]
    BY <1>1 DEF SetChunk, SpliceOffsets
  <2>2. now \in Int /\ t0 \in Int /\ now - t0 \in Int
    BY <1>1 DEF IInv, TypeOK
  <2>3. /\ u \in 0..(Len(rows) - 1) * SubSteps
        /\ measured # None => u = 0 \/ u <= (((now - t0) \div SubSteps) + ForwardRows) * SubSteps
    BY <2>2, SpliceIndexInside
  <2>4. u \in Int
    BY <2>3
  <2>5. /\ WallIndex(chunk', now) = now - t0 /\ Index(chunk', now) = u
        /\ LastIndex(chunk') = (Len(rows) - 1) * SubSteps
    BY <2>1, <2>2, <2>4 DEF WallIndex, Index, LastIndex
  <2> QED BY <2>3, <2>5
<1>2. ASSUME IInv, [Next]_vars, ~UNCHANGED vars PROVE Near
  <2>1. CASE op' # "set"
    BY <2>1
  <2>2. CASE op' = "set"
    <3>1. \E t0 \in 0..MaxTime, rows \in Chunks : SetChunk(t0, rows)
      BY <1>2, <2>2 DEF Next, Reset, StepSilent, StepStale, StepUnmeasured, StepCommand, Hold, HoldSilent, Clock
    <3> QED BY <1>1, <1>2, <3>1
  <2> QED BY <2>1, <2>2
<1>3. IInv /\ [Next]_vars => [Near]_vars
  BY <1>2
<1> QED BY <1>3, Invariance, PTL DEF Spec, SpliceStaysNear

LEMMA HandoverInit == Init => HandoverIsDue
  BY DEF Init, HandoverIsDue

LEMMA HandoverStep == IInv /\ HandoverIsDue /\ [Next]_vars => HandoverIsDue'
<1> SUFFICES ASSUME IInv, HandoverIsDue, [Next]_vars PROVE HandoverIsDue'
  OBVIOUS
<1>1. CASE op' # "set"
  BY <1>1 DEF HandoverIsDue
<1>2. CASE UNCHANGED vars
  BY <1>2 DEF vars, config, playback, commanded, HandoverIsDue, Interpolate, Index, WallIndex
<1>3. ASSUME NEW t0 \in 0..MaxTime, NEW rows \in Chunks, SetChunk(t0, rows),
             splice' = "offset", lastArms' # None, RampTicks > 0
      PROVE  /\ chunk' # None /\ spliceTicksLeft' = RampTicks
             /\ spliceDelta' = [j \in Joint |-> lastArms'[j] - Interpolate(chunk', now').arm[j]]
  <2>1. UNCHANGED <<splice, now, lastArms>>
    BY <1>3 DEF SetChunk, config, commanded
  <2>2. chunk' = [t0 |-> t0, rows |-> rows, offset |-> 0]
    BY <1>3, <2>1 DEF SetChunk, SpliceOffsets
  <2>3. chunk' # None
    BY <2>2
  <2>4. now \in Int /\ t0 \in Int /\ now - t0 \in Int
    BY DEF IInv, TypeOK
  <2>5. Interpolate(chunk', now') = RowAt(rows, now - t0)
    BY <2>1, <2>2, <2>4 DEF Interpolate, Index, WallIndex
  <2>6. spliceDelta' = [j \in Joint |-> lastArms[j] - RowAt(rows, now - t0).arm[j]]
    BY <1>3, <2>1 DEF SetChunk, HandoverDelta
  <2>7. spliceDelta' # None
    <3>1. lastArms \in Pose /\ RowAt(rows, now - t0).arm \in Pose
      BY <1>3, <2>1, <2>4, RowAtType DEF IInv, TypeOK, Row
    <3>2. spliceDelta' \in Pose
      BY <2>6, <3>1 DEF Pose
    <3> QED BY <3>2
  <2>8. spliceTicksLeft' = RampTicks
    BY <1>3, <2>7 DEF SetChunk
  <2> QED BY <2>1, <2>3, <2>5, <2>6, <2>8
<1>4. CASE op' = "set" /\ ~UNCHANGED vars
  <2>1. \E t0 \in 0..MaxTime, rows \in Chunks : SetChunk(t0, rows)
    BY <1>4 DEF Next, Reset, StepSilent, StepStale, StepUnmeasured, StepCommand, Hold, HoldSilent, Clock
  <2> QED BY <1>3, <2>1 DEF HandoverIsDue
<1> QED BY <1>1, <1>2, <1>4

LEMMA FullRamp ==
  ASSUME NEW d \in Int, RampTicks > 0
  PROVE  (d * RampTicks) \div RampTicks = d
  BY SMTT(30)

\* The step of the tick that installs a chunk commands, under the `offset`
\* policy and without a leash, exactly what was commanded: the whole
\* difference is carried over, for every chunk and pose.
THEOREM HandoverHolds == Spec => HandoverIsContinuous
<1>1. ASSUME IInv, HandoverIsDue, NEW m \in Samples, StepCommand(m), op = "set",
             splice = "offset", leash = NoLeash, RampTicks > 0, lastArms # None
      PROVE  lastArms' = lastArms
  <2>1. /\ spliceDelta = [j \in Joint |-> lastArms[j] - Interpolate(chunk, now).arm[j]]
        /\ spliceTicksLeft = RampTicks /\ chunk # None
    BY <1>1 DEF HandoverIsDue
  <2>2. lastArms \in Pose /\ Interpolate(chunk, now).arm \in Pose
    <3>1. IsChunk(chunk) /\ Index(chunk, now) \in Int /\ lastArms \in Pose
      BY <1>1, <2>1 DEF IInv, TypeOK, IsChunk, Index, WallIndex
    <3> QED BY <3>1, RowAtType DEF Interpolate, IsChunk, Row
  <2>3. \A j \in Joint : lastArms[j] \in Int /\ Interpolate(chunk, now).arm[j] \in Int
    BY <2>2 DEF Pose
  <2>4. spliceDelta # None
    <3>1. spliceDelta \in Pose
      BY <2>1, <2>3 DEF Pose
    <3> QED BY <3>1
  <2>5. \A j \in Joint : ArmTarget[j] = lastArms[j]
    <3>1. ArmTarget = [j \in Joint |-> Interpolate(chunk, now).arm[j]
                                         + ((spliceDelta[j] * RampTicks) \div RampTicks)]
      BY <1>1, <2>1, <2>4 DEF ArmTarget
    <3>2. \A j \in Joint : spliceDelta[j] \in Int
                           /\ spliceDelta[j] = lastArms[j] - Interpolate(chunk, now).arm[j]
      BY <2>1, <2>3
    <3>3. \A j \in Joint : (spliceDelta[j] * RampTicks) \div RampTicks = spliceDelta[j]
      BY <1>1, <3>2, FullRamp
    <3> QED BY <2>3, <3>1, <3>2, <3>3
  <2>6. lastArms' = Limited(lastArms, ArmTarget)
    BY <1>1 DEF StepCommand, Previous, Leashed
  <2>7. \A j \in Joint : lastArms[j] + Clip(ArmTarget[j] - lastArms[j], -MaxDelta, MaxDelta) = lastArms[j]
    BY <2>3, <2>5 DEF Clip
  <2> QED BY <2>2, <2>6, <2>7 DEF Limited, Pose
<1>2. ASSUME IInv, HandoverIsDue, [Next]_vars, op = "set", op' = "step", splice = "offset",
             leash = NoLeash, RampTicks > 0, lastArms # None
      PROVE  lastArms' = lastArms
  <2>1. \E m \in Samples : StepCommand(m)
    BY <1>2 DEF Next, Reset, SetChunk, StepSilent, StepStale, StepUnmeasured, Hold, HoldSilent, Clock, vars
  <2> QED BY <1>1, <1>2, <2>1
<1>3. IInv /\ HandoverIsDue /\ [Next]_vars =>
        [(op = "set" /\ op' = "step" /\ splice = "offset" /\ leash = NoLeash
            /\ RampTicks > 0 /\ lastArms # None) => lastArms' = lastArms]_vars
  BY <1>2
<1>4. Init => IInv /\ HandoverIsDue
  BY InitInv, HandoverInit
<1>5. IInv /\ HandoverIsDue /\ [Next]_vars => (IInv /\ HandoverIsDue)'
  BY NextInv, HandoverStep
<1>6. Spec => [](IInv /\ HandoverIsDue)
  BY <1>4, <1>5, PTL DEF Spec
<1> QED BY <1>3, <1>6, PTL DEF Spec, HandoverIsContinuous

-----------------------------------------------------------------------------
\* The player the control loop is written against.

\* What the loop sees of a playing chunk.
LEMMA PlayingType ==
  ASSUME TypeOK, chunk # None
  PROVE  /\ Playing = [t0 |-> chunk.t0, last |-> LastIndex(chunk), offset |-> chunk.offset]
         /\ Playing \in [t0 : Int, last : Nat, offset : Int]
         /\ Playing # None
<1>1. chunk.t0 \in Int /\ chunk.offset \in Int /\ chunk.rows \in Chunks
  BY DEF TypeOK, IsChunk
<1>2. Len(chunk.rows) - 1 \in Nat
  BY <1>1, ChunksAssumption
<1>3. LastIndex(chunk) \in Nat
  BY <1>2 DEF LastIndex
<1> QED
  BY <1>1, <1>3 DEF Playing

\* Every call of the executor is the player's, at the executor's own clock.
LEMMA PlayerStep == IInv /\ [Next]_vars => [Player!PlayerNext]_<<Player!playerVars, now>>
<1> SUFFICES ASSUME IInv, [Next]_vars
             PROVE  Player!PlayerNext \/ UNCHANGED <<Player!playerVars, now>>
  OBVIOUS
<1>0. TypeOK /\ now \in 0..MaxTime
  BY DEF IInv, TypeOK
<1>1. CASE Reset
  <2>1. Playing' = None /\ (lastCommand # None)' = FALSE /\ op' = "none" /\ now' = now
    BY <1>1 DEF Reset, Playing
  <2> QED
    BY <2>1 DEF Player!PlayerNext, Player!PlayerReset
<1>2. ASSUME NEW t0 \in 0..MaxTime, NEW rows \in Chunks, SetChunk(t0, rows)
      PROVE  Player!PlayerNext
  <2>1. PICK offset \in SpliceOffsets(rows, now - t0) :
          chunk' = [t0 |-> t0, rows |-> rows, offset |-> offset]
    BY <1>2 DEF SetChunk
  <2>2. offset \in Int
    BY <1>0, <2>1, SpliceOffsetsType
  <2>3. Len(rows) - 1 \in Nat
    BY ChunksAssumption
  <2>4. (Len(rows) - 1) * SubSteps \in Nat
    BY <2>3
  <2>5. chunk' # None
    BY <2>1, <2>2
  <2>6. chunk'.t0 = t0 /\ chunk'.rows = rows /\ chunk'.offset = offset
    BY <2>1
  <2>7. Playing' = [t0 |-> t0, last |-> (Len(rows) - 1) * SubSteps, offset |-> offset]
    BY <2>5, <2>6 DEF Playing, LastIndex
  <2>8. Playing' \in Player!Playback
    BY <2>2, <2>4, <2>7 DEF Player!Playback
  <2>9. UNCHANGED <<lastCommand, now>> /\ op' = "set"
    BY <1>2 DEF SetChunk, commanded
  <2> QED
    BY <2>8, <2>9 DEF Player!PlayerNext, Player!InstallSome
<1>3. CASE StepSilent
  <2>1. Playing = None /\ Playing' = Playing /\ op' = "silent" /\ UNCHANGED <<lastCommand, now>>
    BY <1>3 DEF StepSilent, playback, commanded, Playing
  <2> QED
    BY <2>1 DEF Player!PlayerNext, Player!PlayNothing
<1>4. CASE StepStale
  <2>1. Playing # None /\ Playing.t0 = chunk.t0
    BY <1>0, <1>4, PlayingType DEF StepStale
  <2>2. Playing' = None /\ op' = "silent" /\ UNCHANGED <<lastCommand, now>>
    BY <1>4 DEF StepStale, commanded, Playing
  <2>3. Player!DropStale
    BY <1>4, <2>1, <2>2 DEF StepStale, Player!DropStale, Player!Stale
  <2> QED
    BY <2>2, <2>3 DEF Player!PlayerNext
<1>5. ASSUME NEW m \in Samples, StepUnmeasured(m)
      PROVE  Player!PlayerNext
  <2>1. Playing # None /\ Playing.t0 = chunk.t0
    BY <1>0, <1>5, PlayingType DEF StepUnmeasured
  <2>2. Playing' = Playing /\ op' = "silent" /\ UNCHANGED <<lastCommand, now>>
    BY <1>5 DEF StepUnmeasured, playback, commanded, Playing, LastIndex
  <2>3. now >= chunk.t0 - RebaseTicks /\ chunk.t0 \in Int /\ now \in Int
    BY <1>0, <1>5 DEF StepUnmeasured, TypeOK, IsChunk
  <2>4. ~Player!Stale
    BY <2>1, <2>3 DEF Player!Stale
  <2>5. ~(lastCommand # None)
    BY <1>5 DEF StepUnmeasured, IInv, CommandIsRemembered
  <2>6. Player!PlayUnmeasured
    BY <2>1, <2>2, <2>4, <2>5 DEF Player!PlayUnmeasured
  <2> QED
    BY <2>2, <2>6 DEF Player!PlayerNext
<1>6. ASSUME NEW m \in Samples, StepCommand(m)
      PROVE  Player!PlayerNext
  <2>1. Playing # None /\ Playing.t0 = chunk.t0
    BY <1>0, <1>6, PlayingType DEF StepCommand
  <2>2. lastCommand' # None /\ op' = "step" /\ UNCHANGED <<chunk, now>>
    BY <1>6, StepCommandEffect DEF StepCommand
  <2>3. Playing' = Playing
    BY <2>2 DEF Playing, LastIndex
  <2>4. now >= chunk.t0 - RebaseTicks /\ chunk.t0 \in Int /\ now \in Int
    BY <1>0, <1>6 DEF StepCommand, TypeOK, IsChunk
  <2>5. ~Player!Stale
    BY <2>1, <2>4 DEF Player!Stale
  <2>6. (lastCommand # None)' = TRUE
    BY <2>2
  <2>7. Player!PlayCommand
    BY <2>1, <2>2, <2>3, <2>5, <2>6, Zenon DEF Player!PlayCommand
  <2> QED
    BY <2>2, <2>7 DEF Player!PlayerNext
<1>7. ASSUME Exhausted(now)
      PROVE  Player!RanOut
  <2>1. CASE chunk = None
    BY <2>1 DEF Playing, Player!RanOut
  <2>2. CASE chunk # None
    BY <1>0, <1>7, <2>2, PlayingType DEF Exhausted, Index, WallIndex, Player!RanOut, Player!IndexAt
  <2> QED
    BY <2>1, <2>2
<1>8. CASE Hold
  <2>1. UNCHANGED <<chunk, lastCommand, now>> /\ lastCommand # None /\ op' = "hold"
    BY <1>8 DEF Hold, playback
  <2>2. Player!RepeatCommand
    BY <1>7, <1>8, <2>1 DEF Hold, Player!RepeatCommand, Playing, LastIndex
  <2> QED
    BY <2>1, <2>2 DEF Player!PlayerNext
<1>9. CASE HoldSilent
  <2>1. UNCHANGED <<chunk, lastCommand, now>> /\ lastCommand = None /\ op' = "silent"
    BY <1>9 DEF HoldSilent, playback, commanded
  <2>2. Player!HoldNothing
    BY <1>7, <1>9, <2>1 DEF HoldSilent, Player!HoldNothing, Playing, LastIndex
  <2> QED
    BY <2>1, <2>2 DEF Player!PlayerNext
<1>10. CASE Clock
  <2>1. UNCHANGED <<chunk, lastCommand>> /\ op' = "none" /\ now' \in 0..MaxTime
    BY <1>10 DEF Clock, playback, commanded
  <2> QED
    BY <2>1 DEF Player!PlayerNext, Player!NextTick, Playing, LastIndex
<1>11. CASE UNCHANGED vars
  BY <1>11 DEF vars, playback, commanded, Playing, LastIndex, Player!playerVars
<1> QED
  BY <1>1, <1>2, <1>3, <1>4, <1>5, <1>6, <1>8, <1>9, <1>10, <1>11 DEF Next

\* The detailed executor implements the abstract player, for every chunk,
\* splice, ramp, rate limit and leash: at the clock of each call, a step
\* commands exactly when its chunk is not stale, a hold repeats a command and
\* only past the last row, and once a command was given only a lost chunk
\* silences a call.
THEOREM RefinesPlayer == Spec => ImplementsPlayer
<1>1. Init => Player!PlayerInit /\ now \in 0..MaxTime
  BY DEF Init, Player!PlayerInit, Playing
<1>2. IInv /\ [Next]_vars => [Player!PlayerNext]_<<Player!playerVars, now>>
  BY PlayerStep
<1> QED
  BY <1>1, <1>2, Invariance, PTL DEF Spec, ImplementsPlayer, Player!PlayerSpec
=============================================================================
