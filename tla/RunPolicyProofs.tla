--------------------------- MODULE RunPolicyProofs ---------------------------
(***************************************************************************)
(* What holds of a run of a policy for every command line, rig and server: *)
(* its types, that the arms are not touched before everything that may     *)
(* refuse the run was looked at, that the node outlives the stream, and    *)
(* that a chunk is the answer to the request just made.                    *)
(***************************************************************************)
EXTENDS RunPolicy, TLAPS

USE RunAssumption

-----------------------------------------------------------------------------
\* What is computed from the command line.

LEMMA SpacesType ==
  /\ AdapterSpaces(args) \subseteq Emitted
  /\ Width(space) = Width(Declared(args)) /\ space \in {None} \cup Emitted => space \in Emitted
<1>1. AdapterSpaces(args) \subseteq Emitted
  BY DEF AdapterSpaces, Emitted
<1>2. None \notin Emitted
  OBVIOUS
<1>3. Width(None) = 16
  BY <1>2 DEF Width, Emitted
<1>4. Width(Declared(args)) \in {15, 20}
  BY DEF Width, Declared, Layout, Canonical
<1> QED
  BY <1>1, <1>2, <1>3, <1>4

\* What the looks of the main thread add up to.
LEMMA LooksClear ==
  ASSUME IsReal(args), ~StartPoseRefused(args), rig.imports,
         Needed(args) \subseteq rig.streams, ~ShapeRefused, ~GapRefused, ~PoseRefused,
         ~StateGuarded(args) \/ rig.live, inferred
  PROVE  /\ inferred /\ rig.imports
         /\ RigGroups(args) \subseteq rig.streams
         /\ rig.shapes \/ args.allowShape = "on" \/ args.dummyObs = "on"
         /\ rig.atStart \/ args.startPoseCheck = "off"
         /\ rig.live \/ args.stateAge = "0"
         /\ UsesControllers(args) => KeepsAlive(args)
<1>1. RigGroups(args) \subseteq rig.streams
  BY DEF Needed
<1>2. rig.shapes \/ args.allowShape = "on" \/ args.dummyObs = "on"
  BY DEF ShapeRefused
<1>3. rig.atStart \/ args.startPoseCheck = "off"
  BY DEF PoseRefused, StartPose, StartPoseRefused
<1>4. rig.live \/ args.stateAge = "0"
  BY DEF StateGuarded, MaxStateAge
<1> QED
  BY <1>1, <1>2, <1>3, <1>4 DEF GapRefused

-----------------------------------------------------------------------------
LEMMA InitInv == Init => IInv
<1> SUFFICES ASSUME Init
             PROVE  IInv
  OBVIOUS
<1>1. <<>> \in Seq(1..MaxRequests) /\ <<>> \in Seq([to : 1..MaxRequests, good : BOOLEAN])
  OBVIOUS
<1>2. "backend" \in PC /\ 0 \in 0..MaxRequests /\ args \in {Parse(typed) : typed \in CommandLines}
  BY DEF PC, Init
<1>3. TypeOK
  BY <1>1, <1>2 DEF Init, TypeOK
<1>4. Looked /\ Untouched /\ ArmsAreCleared /\ NodeStays /\ Tried /\ PublisherGoes /\ OneOnTheLink
  BY DEF Init, Looked, Untouched, ArmsAreCleared, NodeStays, Tried, PublisherGoes, OneOnTheLink,
         Building, Preparing, Ending, Guarded, Teardown
<1> QED
  BY <1>3, <1>4 DEF IInv

-----------------------------------------------------------------------------
\* The types.

LEMMA UnlessType ==
  ASSUME NEW refused, NEW next \in PC, Unless(refused, next)
  PROVE  pc' \in PC
BY DEF Unless, Unwind, PC, Teardown

LEMMA LinkType ==
  ASSUME TypeOK, Ask \/ Read \/ Serve
  PROVE  /\ asked' \in 0..MaxRequests /\ awaited' \in {0, asked'}
         /\ pending' \in Seq(1..MaxRequests)
         /\ socket' \in Seq([to : 1..MaxRequests, good : BOOLEAN])
<1>1. /\ asked \in 0..MaxRequests /\ awaited \in {0, asked}
      /\ pending \in Seq(1..MaxRequests)
      /\ socket \in Seq([to : 1..MaxRequests, good : BOOLEAN])
  BY DEF TypeOK
<1>2. CASE Ask
  <2>1. asked' \in 1..MaxRequests /\ awaited' = asked' /\ pending' = Append(pending, asked')
        /\ socket' = socket
    BY <1>1, <1>2 DEF Ask
  <2> QED
    BY <1>1, <2>1
<1>3. CASE Read
  BY <1>1, <1>3 DEF Read
<1>4. CASE Serve
  <2>1. PICK good \in BOOLEAN : socket' = Append(socket, [to |-> Head(pending), good |-> good])
    BY <1>4 DEF Serve
  <2>2. Head(pending) \in 1..MaxRequests /\ pending' \in Seq(1..MaxRequests)
    BY <1>1, <1>4 DEF Serve
  <2>3. [to |-> Head(pending), good |-> good] \in [to : 1..MaxRequests, good : BOOLEAN]
    BY <2>2
  <2> QED
    BY <1>1, <1>4, <2>1, <2>2, <2>3 DEF Serve
<1> QED
  BY <1>2, <1>3, <1>4

LEMMA HeadType ==
  ASSUME TypeOK, socket # <<>>
  PROVE  Head(socket) \in [to : 1..MaxRequests, good : BOOLEAN]
<1> DEFINE Reply == [to : 1..MaxRequests, good : BOOLEAN]
<1>1. socket \in Seq(Reply)
  BY DEF TypeOK
<1> HIDE DEF Reply
<1>2. Head(socket) \in Reply
  BY <1>1
<1> QED
  BY <1>2 DEF Reply

\* A step of the link and of the program counter alone.
LEMMA OnlyTheLink ==
  ASSUME TypeOK, pc' \in PC, Ask \/ Read \/ Serve \/ UNCHANGED link,
         UNCHANGED <<args, rig, open, space, inferred, chunk, arms, tried, cut>>
  PROVE  TypeOK'
<1>1. /\ asked' \in 0..MaxRequests /\ awaited' \in {0, asked'}
      /\ pending' \in Seq(1..MaxRequests)
      /\ socket' \in Seq([to : 1..MaxRequests, good : BOOLEAN])
  <2>1. CASE UNCHANGED link
    BY <2>1 DEF TypeOK, link
  <2> QED
    BY <2>1, LinkType
<1>2. (args \in {Parse(typed) : typed \in CommandLines} /\ rig \in Rigs)'
  BY DEF TypeOK
<1>3. (/\ open \subseteq {"backend", "node", "collector", "publisher"}
       /\ space \in {None} \cup Emitted
       /\ inferred \in BOOLEAN
       /\ chunk = None \/ chunk \in Chunk
       /\ arms \in {"untouched", "held", "active"}
       /\ tried \in BOOLEAN /\ cut \in BOOLEAN)'
  BY DEF TypeOK
<1> QED
  BY <1>1, <1>2, <1>3 DEF TypeOK

LEMMA TypeStep == TypeOK /\ [Next]_vars => TypeOK'
<1> SUFFICES ASSUME TypeOK, [Next]_vars
             PROVE  TypeOK'
  OBVIOUS
<1> USE DEF PC, Teardown
<1>1. CASE MakeBackend
  <2>1. space' \in {None} \cup Emitted
    BY <1>1, SpacesType DEF MakeBackend, TypeOK, Rig
  <2>2. pc' \in PC
    BY <1>1, UnlessType DEF MakeBackend
  <2> QED
    BY <1>1, <2>1, <2>2 DEF MakeBackend, TypeOK, link
<1>2. CASE Resolve
  <2>1. pc' \in PC
    <3>1. Unwind \/ pc' = "imports" \/ pc' = "node"
      BY <1>2 DEF Resolve, Unless
    <3> QED
      BY <3>1 DEF Unwind
  <2> QED
    BY <1>2, <2>1 DEF Resolve, TypeOK, link
<1>3. CASE CheckImports
  <2>1. pc' \in PC
    BY <1>3, UnlessType DEF CheckImports
  <2> QED
    BY <1>3, <2>1 DEF CheckImports, TypeOK, link
<1>4. CASE OpenNode
  BY <1>4 DEF OpenNode, TypeOK, link
<1>5. CASE OpenCollector
  <2>1. pc' \in PC
    BY <1>5, UnlessType DEF OpenCollector
  <2> QED
    BY <1>5, <2>1 DEF OpenCollector, TypeOK, link
<1>6. CASE OpenPublisher
  <2>1. pc' \in PC
    <3>1. Unwind \/ pc' = "observation" \/ pc' = "reset"
      BY <1>6 DEF OpenPublisher, Unless
    <3> QED
      BY <3>1 DEF Unwind, Guarded
  <2> QED
    BY <1>6, <2>1 DEF OpenPublisher, TypeOK, link
<1>7. CASE FirstObservation \/ RolloutBegins
  <2>1. pc' \in PC
    BY <1>7, UnlessType DEF FirstObservation, RolloutBegins, WaitForObs, Guarded
  <2> QED
    BY <1>7, <2>1 DEF FirstObservation, RolloutBegins, WaitForObs, TypeOK, link
<1>8. CASE Preflight
  BY <1>8 DEF Preflight, TypeOK, link, Guarded
<1>9. CASE Verify \/ CheckLiveness
  <2>1. pc' \in PC
    BY <1>9, UnlessType DEF Verify, CheckLiveness, Guarded
  <2> QED
    BY <1>9, <2>1 DEF Verify, CheckLiveness, TypeOK, link
<1>10. CASE WarmReset \/ SimReset
  <2>1. Read /\ pc' \in PC
    BY <1>10, UnlessType DEF WarmReset, SimReset, ResetAnswered, Guarded
  <2> QED
    BY <1>10, <2>1, LinkType DEF WarmReset, SimReset, ResetAnswered, TypeOK
<1>11. CASE WarmInfer
  <2>1. Read /\ pc' \in PC
    BY <1>11, UnlessType DEF WarmInfer, Guarded
  <2>2. inferred' \in BOOLEAN
    BY <1>11, HeadType DEF WarmInfer, Read
  <2> QED
    BY <1>11, <2>1, <2>2, LinkType DEF WarmInfer, TypeOK
<1>12. CASE Hold \/ Activated
  BY <1>12 DEF Hold, Activated, TypeOK, link, Guarded
<1>13. CASE MakeApproach \/ MakeLatch
  <2>1. pc' \in PC
    BY <1>13, UnlessType DEF MakeApproach, MakeLatch, Guarded
  <2> QED
    BY <1>13, <2>1 DEF MakeApproach, MakeLatch, TypeOK, link
<1>14. CASE Arrived \/ Finish
  BY <1>14 DEF Arrived, Finish, TypeOK, link, Guarded
<1>15. CASE Deliver
  <2>1. Read /\ pc' \in PC
    BY <1>15, UnlessType DEF Deliver, Guarded
  <2>2. Head(socket) \in [to : 1..MaxRequests, good : BOOLEAN]
    BY <2>1, HeadType DEF Read
  <2>3. inferred' \in BOOLEAN
    BY <1>15, <2>2 DEF Deliver, TypeOK
  <2>4. chunk' = None \/ chunk' \in Chunk
    BY <1>15, <2>2, SpacesType DEF Deliver, TypeOK, Chunk, GateRefused
  <2> QED
    BY <1>15, <2>1, <2>3, <2>4, LinkType DEF Deliver, TypeOK
<1>16. CASE Release
  BY <1>16 DEF Release, TypeOK, link
<1>17. CASE CloseBackend \/ CloseCollector \/ ClosePublisher \/ Leave
  BY <1>17 DEF CloseBackend, CloseCollector, ClosePublisher, Leave, TypeOK, link
<1>18. CASE NoReply
  <2>1. pc' \in PC
    BY <1>18 DEF NoReply, Unwind
  <2> QED
    BY <1>18, <2>1 DEF NoReply, TypeOK
<1>19. ASSUME NEW phase \in Requesting, Request(phase)
       PROVE  TypeOK'
  <2>1. Ask /\ UNCHANGED <<args, rig, pc, open, space, inferred, chunk, arms, tried, cut>>
    BY <1>19 DEF Request
  <2> QED
    BY <2>1, OnlyTheLink DEF TypeOK
<1>20. CASE Serve
  <2>1. UNCHANGED <<args, rig, pc, open, space, inferred, chunk, arms, tried, cut>>
    BY <1>20 DEF Serve
  <2> QED
    BY <1>20, <2>1, OnlyTheLink DEF TypeOK
<1>21. CASE Raise
  <2>1. pc' \in PC
    BY <1>21 DEF Raise, Unwind
  <2> QED
    BY <1>21, <2>1, OnlyTheLink DEF Raise
<1>22. CASE UNCHANGED vars
  <2>1. pc' \in PC
    BY <1>22 DEF vars, TypeOK
  <2> QED
    BY <1>22, <2>1, OnlyTheLink DEF vars
<1> QED
  BY <1>1, <1>2, <1>3, <1>4, <1>5, <1>6, <1>7, <1>8, <1>9, <1>10, <1>11, <1>12, <1>13, <1>14,
     <1>15, <1>16, <1>17, <1>18, <1>19, <1>20, <1>21, <1>22
     DEF Next, Main, Build, Prepare, Rollout, Unbuild, Stay

-----------------------------------------------------------------------------
\* What the looks, the arms and the node say of each other.

LEMMA UnwindEnds == ASSUME Unwind PROVE pc' \in {"release", "leave", "exit"}
BY DEF Unwind

\* The looks hold at each step to the next one.
LEMMA LookedStep == IInv /\ [Next]_vars => Looked'
<1> SUFFICES ASSUME IInv, [Next]_vars
             PROVE  Looked'
  OBVIOUS
<1> USE DEF IInv
<1>1. UNCHANGED <<args, rig>>
  BY DEF Next, Main, Build, Prepare, Rollout, Unbuild, Stay, vars,
         MakeBackend, Resolve, CheckImports, OpenNode, OpenCollector, OpenPublisher,
         FirstObservation, RolloutBegins, WaitForObs, Preflight, Verify, CheckLiveness,
         WarmReset, SimReset, ResetAnswered, WarmInfer, Hold, Activated, MakeApproach, MakeLatch,
         Arrived, Deliver, Finish, Release, CloseBackend, CloseCollector, ClosePublisher, Leave,
         NoReply, Request, Serve, Raise
<1>2. /\ UNCHANGED <<IsReal(args), StartPoseRefused(args), Needed(args), ShapeRefused, GapRefused,
                     PoseRefused, StateGuarded(args), UsesControllers(args)>>
  BY <1>1 DEF ShapeRefused, GapRefused, PoseRefused
<1>3. CASE pc' \in {"release", "leave", "exit"}
  BY <1>3 DEF Looked, Building, Preparing
<1> USE DEF Looked, Building, Preparing, Unless
<1>4. CASE MakeBackend
  BY <1>3, <1>4, UnwindEnds DEF MakeBackend
<1>5. CASE Resolve
  BY <1>1, <1>2, <1>3, <1>5, UnwindEnds DEF Resolve
<1>6. CASE CheckImports \/ OpenNode \/ OpenCollector
  BY <1>1, <1>2, <1>3, <1>6, UnwindEnds DEF CheckImports, OpenNode, OpenCollector
<1>7. CASE OpenPublisher
  BY <1>1, <1>2, <1>3, <1>7, UnwindEnds DEF OpenPublisher
<1>8. CASE FirstObservation \/ RolloutBegins
  BY <1>1, <1>2, <1>3, <1>8, UnwindEnds DEF FirstObservation, RolloutBegins, WaitForObs
<1>9. CASE Preflight
  BY <1>1, <1>2, <1>3, <1>9 DEF Preflight
<1>10. CASE Verify
  BY <1>1, <1>2, <1>3, <1>10, UnwindEnds DEF Verify
<1>11. CASE CheckLiveness
  BY <1>1, <1>2, <1>3, <1>11, UnwindEnds DEF CheckLiveness
<1>12. CASE WarmReset \/ SimReset
  BY <1>1, <1>2, <1>3, <1>12, UnwindEnds DEF WarmReset, SimReset, ResetAnswered
<1>13. CASE WarmInfer
  BY <1>1, <1>2, <1>3, <1>13, UnwindEnds DEF WarmInfer
<1>14. CASE Hold \/ Activated
  BY <1>1, <1>2, <1>14 DEF Hold, Activated
<1>15. CASE MakeApproach \/ MakeLatch
  BY <1>3, <1>15, UnwindEnds DEF MakeApproach, MakeLatch
<1>16. CASE Arrived \/ Finish \/ Deliver
  BY <1>3, <1>16, UnwindEnds DEF Arrived, Finish, Deliver
<1>17. CASE Release \/ CloseBackend \/ CloseCollector \/ ClosePublisher \/ Leave
  BY <1>17 DEF Release, CloseBackend, CloseCollector, ClosePublisher, Leave
<1>18. CASE NoReply \/ Raise
  BY <1>3, <1>18, UnwindEnds DEF NoReply, Raise
<1>19. ASSUME NEW phase \in Requesting, Request(phase)
       PROVE  Looked'
  BY <1>1, <1>2, <1>19 DEF Request
<1>20. CASE Serve \/ UNCHANGED vars
  BY <1>1, <1>2, <1>20 DEF Serve, vars
<1> QED
  BY <1>4, <1>5, <1>6, <1>7, <1>8, <1>9, <1>10, <1>11, <1>12, <1>13, <1>14,
     <1>15, <1>16, <1>17, <1>18, <1>19, <1>20
     DEF Next, Main, Build, Prepare, Rollout, Unbuild, Stay

\* Once the arms are touched, what was looked at stays as it was; before, the
\* hold is the only one to touch them, and it follows all looks.
LEMMA ClearedStep == IInv /\ [Next]_vars => ArmsAreCleared' /\ Untouched'
<1> SUFFICES ASSUME IInv, [Next]_vars
             PROVE  ArmsAreCleared' /\ Untouched'
  OBVIOUS
<1> USE DEF IInv
<1>1. CASE Hold
  <2>1. pc = "hold" /\ pc' \in {"activation", "approach"} /\ arms' = "held"
        /\ UNCHANGED <<args, rig, inferred>>
    BY <1>1 DEF Hold
  <2>2. /\ inferred /\ rig.imports /\ RigGroups(args) \subseteq rig.streams
        /\ rig.shapes \/ args.allowShape = "on" \/ args.dummyObs = "on"
        /\ rig.atStart \/ args.startPoseCheck = "off"
        /\ rig.live \/ args.stateAge = "0"
    BY <2>1, LooksClear DEF Looked, Building, Preparing
  <2> QED
    BY <2>1, <2>2 DEF ArmsAreCleared, Untouched, Building, Preparing
<1>2. CASE Activated
  <2>1. pc = "activation" /\ pc' = "approach" /\ arms' = "active"
        /\ UNCHANGED <<args, rig, inferred>>
    BY <1>2 DEF Activated
  <2>2. /\ inferred /\ rig.imports /\ RigGroups(args) \subseteq rig.streams
        /\ rig.shapes \/ args.allowShape = "on" \/ args.dummyObs = "on"
        /\ rig.atStart \/ args.startPoseCheck = "off"
        /\ rig.live \/ args.stateAge = "0"
        /\ KeepsAlive(args)
    BY <2>1, LooksClear DEF Looked, Building, Preparing
  <2> QED
    BY <2>1, <2>2 DEF ArmsAreCleared, Untouched, Building, Preparing
<1>3. CASE WarmInfer
  <2>1. pc = "warm infer" /\ arms = "untouched" /\ UNCHANGED arms
    BY <1>3 DEF WarmInfer, Untouched, Building, Preparing
  <2> QED
    BY <2>1 DEF ArmsAreCleared, Untouched
<1>4. CASE Deliver
  <2>1. UNCHANGED <<args, rig, arms>> /\ (inferred => inferred') /\ pc = "policy"
    BY <1>4 DEF Deliver
  <2>2. pc' \in {"policy", "release", "leave", "exit"}
    BY <1>4, UnwindEnds DEF Deliver, Unless
  <2> QED
    BY <2>1, <2>2 DEF ArmsAreCleared, Untouched, Building, Preparing
<1>5. CASE Release
  <2>1. UNCHANGED <<args, rig, inferred>> /\ pc' \in {"close backend", "leave"}
        /\ arms' \in {arms, "held"} /\ (arms = "untouched" => arms' = "untouched")
    BY <1>5 DEF Release, Releases
  <2> QED
    BY <2>1 DEF ArmsAreCleared, Untouched, Building, Preparing
<1>6. ASSUME ~Hold, ~Activated, ~WarmInfer, ~Deliver, ~Release
      PROVE  UNCHANGED <<args, rig, inferred, arms>>
  BY <1>6
     DEF Next, Main, Build, Prepare, Rollout, Unbuild, Stay, vars,
         MakeBackend, Resolve, CheckImports, OpenNode, OpenCollector, OpenPublisher,
         FirstObservation, RolloutBegins, WaitForObs, Preflight, Verify, CheckLiveness,
         WarmReset, SimReset, ResetAnswered, MakeApproach, MakeLatch, Arrived, Finish,
         CloseBackend, CloseCollector, ClosePublisher, Leave, NoReply, Request, Serve, Raise
<1>7. ASSUME ~Hold, ~Activated, ~WarmInfer, ~Deliver, ~Release
      PROVE  Untouched'
  <2>1. arms' = arms
    BY <1>6, <1>7
  <2>2. SUFFICES ASSUME pc' \in Building \cup (Preparing \ {"activation"}) \cup {"reset"}
                 PROVE  pc \in Building \cup (Preparing \ {"activation"}) \cup {"reset"}
    BY <2>1 DEF Untouched
  <2> QED
    BY <1>7, <2>2
       DEF Next, Main, Build, Prepare, Rollout, Unbuild, Stay, vars, Unless, Unwind,
           Building, Preparing,
           MakeBackend, Resolve, CheckImports, OpenNode, OpenCollector, OpenPublisher,
           FirstObservation, RolloutBegins, WaitForObs, Preflight, Verify, CheckLiveness,
           WarmReset, SimReset, ResetAnswered, MakeApproach, MakeLatch, Arrived, Finish,
           CloseBackend, CloseCollector, ClosePublisher, Leave, NoReply, Request, Serve, Raise
<1>8. ASSUME ~Hold, ~Activated, ~WarmInfer, ~Deliver, ~Release
      PROVE  ArmsAreCleared'
  BY <1>6, <1>8 DEF ArmsAreCleared
<1> QED
  BY <1>1, <1>2, <1>3, <1>4, <1>5, <1>7, <1>8

\* The node is opened before all that uses it, and goes last; the try is
\* entered with it there, and left through the finally.
LEMMA NodeStep == IInv /\ [Next]_vars => NodeStays' /\ Tried' /\ PublisherGoes'
<1> SUFFICES ASSUME IInv, [Next]_vars
             PROVE  NodeStays' /\ Tried' /\ PublisherGoes'
  OBVIOUS
<1> USE DEF IInv, NodeStays, Tried, PublisherGoes, Building, Guarded, Teardown
<1>1. CASE Build
  <2>1. CASE MakeBackend \/ Resolve \/ CheckImports
    <3>1. pc \in {"backend", "resolve", "imports"} /\ ~tried /\ tried' = tried
          /\ ("node" \in open => "node" \in open')
      BY <2>1 DEF MakeBackend, Resolve, CheckImports
    <3>2. Unwind \/ pc' \in {"resolve", "imports", "node"}
      BY <2>1 DEF Unless, MakeBackend, Resolve, CheckImports
    <3>3. pc' \in {"resolve", "imports", "node", "exit"} \/ (pc' = "leave" /\ "node" \in open')
      BY <3>1, <3>2 DEF Unwind
    <3>4. ~tried'
      BY <3>1
    <3> QED
      BY <3>3, <3>4
  <2>6. CASE OpenNode
    <3>1. ~tried' /\ "node" \in open' /\ pc' = "collector"
      BY <2>6 DEF OpenNode
    <3> QED
      BY <3>1
  <2>2. CASE OpenCollector
    <3>1. ~tried' /\ "node" \in open' /\ pc' \in {"publisher", "leave"}
      BY <2>2 DEF OpenCollector, Unless, Unwind
    <3> QED
      BY <3>1
  <2>3. CASE OpenPublisher
    <3>1. pc' \in {"observation", "reset", "leave"} /\ "node" \in open'
      BY <2>3 DEF OpenPublisher, Unless, Unwind
    <3>2. tried' = (pc' = "reset")
      BY <2>3 DEF OpenPublisher
    <3> QED
      BY <3>1, <3>2
  <2>4. CASE FirstObservation
    <3>1. ~tried' /\ "node" \in open' /\ pc' \in {"preflight", "leave"}
      BY <2>4 DEF FirstObservation, WaitForObs, Unless, Unwind
    <3> QED
      BY <3>1
  <2>5. CASE Preflight
    <3>1. ~tried /\ "node" \in open'
      BY <2>5 DEF Preflight
    <3>2. CASE ShapeRefused \/ GapRefused
      <4>1. pc' = "leave" /\ tried' = tried
        BY <2>5, <3>2 DEF Preflight
      <4> QED
        BY <3>1, <4>1
    <3>3. CASE ~(ShapeRefused \/ GapRefused)
      <4>1. pc' = "verify" /\ tried' = TRUE
        BY <2>5, <3>3 DEF Preflight
      <4> QED
        BY <3>1, <4>1
    <3> QED
      BY <3>2, <3>3
  <2> QED
    BY <1>1, <2>1, <2>2, <2>3, <2>4, <2>5, <2>6 DEF Build
<1>2. CASE Prepare
  BY <1>2
     DEF Prepare, Unless, Unwind, Verify, CheckLiveness, WarmReset, SimReset, ResetAnswered,
         WarmInfer, Hold, Activated
<1>3. CASE Rollout
  BY <1>3
     DEF Rollout, Unless, Unwind, MakeApproach, MakeLatch, Arrived, RolloutBegins, WaitForObs,
         Deliver, Finish
<1>4. CASE Unbuild
  <2>1. CASE Release \/ CloseBackend
    <3>1. tried /\ "node" \in open /\ UNCHANGED tried
      BY <2>1 DEF Release, CloseBackend
    <3>2. pc' \in {"close backend", "close collector"} \/ (pc' = "leave" /\ cut')
      BY <2>1 DEF Release, CloseBackend
    <3>3. "node" \in open'
      BY <2>1, <3>1 DEF Release, CloseBackend
    <3> QED
      BY <3>1, <3>2, <3>3
  <2>2. CASE CloseCollector \/ ClosePublisher
    <3>1. tried /\ "node" \in open /\ UNCHANGED <<tried, cut>>
      BY <2>2 DEF CloseCollector, ClosePublisher
    <3>2. \/ pc' = "close publisher" /\ open' \in {open \ {"collector"}, open}
          \/ pc' = "leave" /\ open' = open \ {"publisher"}
      BY <2>2 DEF CloseCollector, ClosePublisher
    <3> QED
      BY <3>1, <3>2
  <2>3. CASE Leave
    BY <2>3 DEF Leave
  <2> QED
    BY <1>4, <2>1, <2>2, <2>3 DEF Unbuild
<1>5. CASE NoReply
  BY <1>5 DEF NoReply, Unwind, Requesting
<1>6. CASE Raise
  <2>1. pc \in Building \cup Guarded /\ Unwind /\ UNCHANGED <<open, tried, cut>>
    BY <1>6 DEF Raise, TypeOK, PC
  <2>2. CASE pc \in Guarded
    <3>1. tried' /\ "node" \in open' /\ pc' = "release"
      BY <2>1, <2>2 DEF Unwind
    <3> QED
      BY <3>1
  <2>3. CASE pc \in Building
    <3>1. ~tried' /\ ((pc' = "leave" /\ "node" \in open') \/ pc' = "exit")
      BY <2>1, <2>3 DEF Unwind
    <3> QED
      BY <3>1
  <2> QED
    BY <2>1, <2>2, <2>3
<1>7. ASSUME NEW phase \in Requesting, Request(phase)
      PROVE  NodeStays' /\ Tried' /\ PublisherGoes'
  BY <1>7 DEF Request
<1>8. CASE Serve \/ UNCHANGED vars
  <2>1. UNCHANGED <<pc, open, tried, cut>>
    BY <1>8 DEF Serve, vars
  <2> QED
    BY <2>1
<1> QED
  BY <1>1, <1>2, <1>3, <1>4, <1>5, <1>6, <1>7, <1>8 DEF Next, Main, Stay

-----------------------------------------------------------------------------
\* The link.

\* A read takes the answer to the request awaited, and leaves the link empty.
LEMMA ReadAnswers ==
  ASSUME IInv, pc \notin Ending, Read
  PROVE  /\ Head(socket).to = asked /\ asked' = asked
         /\ awaited' = 0 /\ pending' = <<>> /\ socket' = <<>>
<1>1. PICK good \in BOOLEAN :
        awaited # 0 /\ pending = <<>> /\ socket = <<[to |-> asked, good |-> good]>>
  BY DEF IInv, OneOnTheLink, Read
<1>2. Head(socket) = [to |-> asked, good |-> good] /\ Tail(socket) = <<>>
  BY <1>1
<1> QED
  BY <1>1, <1>2 DEF Read

LEMMA LinkStep == IInv /\ [Next]_vars => OneOnTheLink'
<1> SUFFICES ASSUME IInv, [Next]_vars, pc' \notin Ending
             PROVE  OneOnTheLink'
  BY DEF OneOnTheLink
<1> USE DEF IInv
<1>1. pc \notin Ending
  BY DEF Next, Main, Build, Prepare, Rollout, Unbuild, Stay, vars, Ending, Teardown, Requesting,
         MakeBackend, Resolve, CheckImports, OpenNode, OpenCollector, OpenPublisher,
         FirstObservation, RolloutBegins, WaitForObs, Preflight, Verify, CheckLiveness,
         WarmReset, SimReset, WarmInfer, Hold, Activated, MakeApproach, MakeLatch, Arrived,
         Deliver, Finish, Release, CloseBackend, CloseCollector, ClosePublisher, Leave, NoReply,
         Request, Serve, Raise
<1>2. CASE Read
  BY <1>1, <1>2, ReadAnswers DEF OneOnTheLink
<1>3. CASE Ask
  <2>1. awaited = 0 /\ pending = <<>> /\ socket = <<>>
    BY <1>1, <1>3 DEF OneOnTheLink, Ask
  <2>2. asked' = asked + 1 /\ awaited' = asked' /\ pending' = Append(pending, asked')
        /\ socket' = socket /\ asked \in 0..MaxRequests
    BY <1>3 DEF Ask, TypeOK
  <2>3. awaited' # 0 /\ pending' = <<asked'>>
    BY <2>1, <2>2
  <2> QED
    BY <2>1, <2>2, <2>3 DEF OneOnTheLink
<1>4. CASE Serve
  <2>1. awaited # 0 /\ pending = <<asked>> /\ socket = <<>>
    BY <1>1, <1>4 DEF OneOnTheLink, Serve
  <2>2. PICK good \in BOOLEAN : socket' = Append(socket, [to |-> Head(pending), good |-> good])
    BY <1>4 DEF Serve
  <2>3. pending' = <<>> /\ socket' = <<[to |-> asked, good |-> good]>>
    BY <1>4, <2>1, <2>2 DEF Serve
  <2>4. UNCHANGED <<asked, awaited>>
    BY <1>4 DEF Serve
  <2> QED
    BY <2>1, <2>3, <2>4 DEF OneOnTheLink
<1>5. CASE NoReply
  <2>1. pc' \in {"release", "leave", "exit"}
    BY <1>5, UnwindEnds DEF NoReply
  <2> QED
    BY <2>1 DEF Ending, Teardown
<1>6. ASSUME ~Read, ~Ask, ~Serve, ~NoReply
      PROVE  UNCHANGED <<asked, awaited, pending, socket>>
  BY <1>6
     DEF Next, Main, Build, Prepare, Rollout, Unbuild, Stay, vars, link,
         MakeBackend, Resolve, CheckImports, OpenNode, OpenCollector, OpenPublisher,
         FirstObservation, RolloutBegins, WaitForObs, Preflight, Verify, CheckLiveness,
         WarmReset, SimReset, ResetAnswered, WarmInfer, Hold, Activated, MakeApproach, MakeLatch,
         Arrived, Deliver, Finish, Release, CloseBackend, CloseCollector, ClosePublisher, Leave,
         Request, Raise
<1>7. ASSUME ~Read, ~Ask, ~Serve, ~NoReply
      PROVE  OneOnTheLink'
  BY <1>1, <1>6, <1>7 DEF OneOnTheLink
<1> QED
  BY <1>2, <1>3, <1>4, <1>5, <1>7

LEMMA NextInv == IInv /\ [Next]_vars => IInv'
<1>1. IInv => TypeOK
  BY DEF IInv
<1>2. (/\ TypeOK /\ Looked /\ Untouched /\ ArmsAreCleared
       /\ NodeStays /\ Tried /\ PublisherGoes /\ OneOnTheLink)' <=> IInv'
  BY PTL DEF IInv
<1> QED
  BY <1>1, <1>2, TypeStep, LookedStep, ClearedStep, NodeStep, LinkStep

-----------------------------------------------------------------------------
LEMMA Inductive == Spec => []IInv
BY InitInv, NextInv, PTL DEF Spec

\* The run is type-correct for every command line, rig and server.
THEOREM RunTypeCorrect == Spec => []TypeOK
<1>1. IInv => TypeOK
  BY DEF IInv
<1> QED
  BY <1>1, Inductive, PTL

\* The arms are touched at the hold only, which lies behind every look.
THEOREM ArmsWaitForAllLooks == Spec => []ArmsAreCleared
<1>1. IInv => ArmsAreCleared
  BY DEF IInv
<1> QED
  BY <1>1, Inductive, PTL

\* Wherever main's try is left from, the node outlives the publisher, unless
\* the finally is left before its last line.
THEOREM NodeOutlivesStream == Spec => []StreamEndsFirst
<1>1. IInv => StreamEndsFirst
  <2> SUFFICES ASSUME IInv, tried, ~cut, "publisher" \in open
               PROVE  "node" \in open
    BY DEF StreamEndsFirst
  <2>1. pc \in Guarded \cup Teardown
    BY DEF IInv, TypeOK, PC, Tried, PublisherGoes, Building
  <2> QED
    BY <2>1 DEF IInv, NodeStays, Guarded, Teardown
<1> QED
  BY <1>1, Inductive, PTL

\* What the executor is given answers the request just made: a run that gave a
\* reply up makes no more requests, and the width of the vectors is checked.
THEOREM ChunksAreAnswers == Spec => ChunkIsTheAnswer
<1>1. ASSUME IInv, [Next]_vars
      PROVE  [chunk' # chunk => /\ chunk'.to = asked
                                /\ Width(chunk'.space) = Width(Declared(args))]_vars
  <2> SUFFICES ASSUME chunk' # chunk
               PROVE  chunk'.to = asked /\ Width(chunk'.space) = Width(Declared(args))
    OBVIOUS
  <2>1. Deliver
    BY <1>1
       DEF Next, Main, Build, Prepare, Rollout, Unbuild, Stay, vars,
           MakeBackend, Resolve, CheckImports, OpenNode, OpenCollector, OpenPublisher,
           FirstObservation, RolloutBegins, WaitForObs, Preflight, Verify, CheckLiveness,
           WarmReset, SimReset, ResetAnswered, WarmInfer, Hold, Activated, MakeApproach,
           MakeLatch, Arrived, Finish, Release, CloseBackend, CloseCollector, ClosePublisher,
           Leave, NoReply, Request, Serve, Raise
  <2>2. pc \notin Ending /\ Read
    BY <2>1 DEF Deliver, Ending, Teardown
  <2>3. Head(socket).to = asked
    BY <1>1, <2>2, ReadAnswers
  <2> QED
    BY <2>1, <2>3 DEF Deliver, GateRefused
<1> QED
  BY <1>1, Inductive, PTL DEF Spec, ChunkIsTheAnswer
=============================================================================
