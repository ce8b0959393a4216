------------------------------ MODULE RunPolicy ------------------------------
(***************************************************************************)
(* scripts/run_policy.py with camelo/policy/backend.py: one run of a       *)
(* policy, from the command line to the exit of the process.  The main     *)
(* thread builds what the command line asks for, checks what it can before *)
(* anything moves, prepares the arms, drives the base, asks the policy for *)
(* chunks, and takes it all down again, in an order that must hold         *)
(* whatever raises.  A remote policy is at the other end of a socket: its  *)
(* server answers requests in order, late, with an error, or never.        *)
(*                                                                         *)
(* The inside of the hold, of the approach and of the rollout is in        *)
(* ArmSession, Approach, PerceptionApproach and Rollout; here each is a    *)
(* step, which may raise.                                                  *)
(***************************************************************************)
EXTENDS CommandLine, Integers

CONSTANTS
  CommandLines,  \* what may be typed: partial functions from Option to values
  Rigs,          \* the states the rig and the server may be in
  MaxRequests,   \* bound on the requests of a run, for --seconds
  None

\* What the code finds and does not choose: the real world's ROS packages,
\* the streams that deliver, the cameras' frame shapes, the arms at the start
\* pose, joint states that are recent; and the vectors the server's
\* checkpoint emits.
Rig == [imports : BOOLEAN, streams : SUBSET Stream, shapes : BOOLEAN,
        atStart : BOOLEAN, live : BOOLEAN, serves : Emitted]

ASSUME RunAssumption ==
  /\ \A typed \in CommandLines :
       /\ DOMAIN typed \subseteq Option
       /\ \A o \in DOMAIN typed : typed[o] \in Values(o)
  /\ Rigs \subseteq Rig
  /\ MaxRequests \in Nat
  /\ None \notin Emitted \cup [to : Nat, space : Emitted]

VARIABLES
  args,      \* the parsed command line
  rig,       \* what the run finds
  pc,        \* where the main thread is
  open,      \* what is constructed and not closed
  space,     \* the vectors the policy emits, once a backend is made
  asked,     \* requests sent
  awaited,   \* the request the backend waits for, or 0
  pending,   \* requests the policy has yet to serve
  socket,    \* replies not read yet
  inferred,  \* an inference has been answered
  chunk,     \* the last chunk the executor was given, or None
  arms,      \* untouched, held by our stream, or with active controllers
  tried,     \* main's try was entered
  cut        \* the finally was left before its last line

link == <<asked, awaited, pending, socket>>

vars == <<args, rig, pc, open, space, link, inferred, chunk, arms, tried, cut>>

\* main's try block.
Guarded == {"verify", "liveness", "warm reset", "warm infer", "hold", "activation",
            "reset", "approach", "latch", "driving", "rollout", "policy"}

Teardown == {"release", "close backend", "close collector", "close publisher"}

PC == {"backend", "resolve", "imports", "node", "collector", "publisher", "observation",
       "preflight", "leave", "exit"} \cup Guarded \cup Teardown

Init ==
  /\ args \in {Parse(typed) : typed \in CommandLines}
  /\ rig \in Rigs
  /\ pc = "backend"
  /\ open = {}
  /\ space = None
  /\ asked = 0 /\ awaited = 0 /\ pending = <<>> /\ socket = <<>>
  /\ inferred = FALSE
  /\ chunk = None
  /\ arms = "untouched"
  /\ tried = FALSE
  /\ cut = FALSE

-----------------------------------------------------------------------------
(* An exception leaves for the finally, for the session's teardown, or     *)
(* straight for the exit of the process.                                   *)

Unwind ==
  pc' = IF pc \in Guarded THEN "release"
        ELSE IF "node" \in open THEN "leave" ELSE "exit"

Unless(refused, next) == IF refused THEN Unwind ELSE pc' = next

-----------------------------------------------------------------------------
(* Building.                                                               *)

\* make_backend_from_args: a remote backend connects, and may not get through.
MakeBackend ==
  /\ pc = "backend"
  /\ Unless(BackendRefused(args), "resolve")
  /\ IF BackendRefused(args) THEN UNCHANGED <<open, space>>
     ELSE /\ open' = open \cup {"backend"}
          /\ space' \in IF args.backend = "remote" THEN {rig.serves} ELSE AdapterSpaces(args)
  /\ UNCHANGED <<args, rig, link, inferred, chunk, arms, tried, cut>>

SpaceRefused == args.backend = "local" /\ space # Declared(args)

\* topics, action space, arms, start pose: refused before any ROS.
Resolve ==
  /\ pc = "resolve"
  /\ Unless(SpaceRefused \/ ArmsRefused(args) \/ StartPoseRefused(args),
            IF IsReal(args) THEN "imports" ELSE "node")
  /\ UNCHANGED <<args, rig, open, space, link, inferred, chunk, arms, tried, cut>>

CheckImports ==
  /\ pc = "imports"
  /\ Unless(~rig.imports, "node")
  /\ UNCHANGED <<args, rig, open, space, link, inferred, chunk, arms, tried, cut>>

OpenNode ==
  /\ pc = "node"
  /\ pc' = "collector"
  /\ open' = open \cup {"node"}
  /\ UNCHANGED <<args, rig, space, link, inferred, chunk, arms, tried, cut>>

\* With --dummy-obs no camera is subscribed, and the list not even read.
OpenCollector ==
  /\ pc = "collector"
  /\ LET refused == args.dummyObs = "off" /\ CamerasRefused(args)
     IN /\ Unless(refused, "publisher")
        /\ open' = IF refused THEN open ELSE open \cup {"collector"}
  /\ UNCHANGED <<args, rig, space, link, inferred, chunk, arms, tried, cut>>

\* The publisher and its keep-alive thread, then the executor.
OpenPublisher ==
  /\ pc = "publisher"
  /\ Unless(GelloRefused(args), IF IsReal(args) THEN "observation" ELSE "reset")
  /\ open' = IF GelloRefused(args) THEN open ELSE open \cup {"publisher"}
  /\ tried' = (pc' = "reset")
  /\ UNCHANGED <<args, rig, space, link, inferred, chunk, arms, cut>>

\* wait_for_obs raises when an observation is not complete in time.
WaitForObs(phase, next) ==
  /\ pc = phase
  /\ Unless(~(Needed(args) \subseteq rig.streams), next)
  /\ UNCHANGED <<args, rig, open, space, link, inferred, chunk, arms, tried, cut>>

FirstObservation == WaitForObs("observation", "preflight")

ShapeRefused == args.dummyObs # "on" /\ ~rig.shapes /\ args.allowShape # "on"

GapRefused == UsesControllers(args) /\ ~KeepsAlive(args)

\* Both refusals close the publisher and the collector themselves (return 4).
Preflight ==
  /\ pc = "preflight"
  /\ IF ShapeRefused \/ GapRefused
     THEN pc' = "leave" /\ open' = open \ {"publisher", "collector"} /\ UNCHANGED tried
     ELSE pc' = "verify" /\ tried' = TRUE /\ UNCHANGED open
  /\ UNCHANGED <<args, rig, space, link, inferred, chunk, arms, cut>>

-----------------------------------------------------------------------------
(* RemoteBackend._request: send, then read what the socket gives next.     *)

Ask ==
  /\ awaited = 0
  /\ asked < MaxRequests
  /\ asked' = asked + 1
  /\ awaited' = asked'
  /\ pending' = Append(pending, asked')
  /\ UNCHANGED socket

\* The policy serves its requests in order: a server when it likes, if at all.
Serve ==
  /\ pending # <<>>
  /\ pending' = Tail(pending)
  /\ \E good \in BOOLEAN :
       socket' = Append(socket, [to |-> Head(pending), good |-> good])
  /\ UNCHANGED <<args, rig, pc, open, space, asked, awaited, inferred, chunk, arms, tried, cut>>

Read ==
  /\ awaited # 0
  /\ socket # <<>>
  /\ socket' = Tail(socket)
  /\ awaited' = 0
  /\ UNCHANGED <<asked, pending>>

Requesting == {"warm reset", "warm infer", "reset", "policy"}

\* Mutant: no timeout on the receive.
NeverTimesOut == FALSE

\* recv_timeout: only the remote backend has one.
TimesOut == args.backend = "remote"

\* Mutant: a warm-up that is not answered in time is given up, and the run
\* goes on.
NoReplyIsTolerated ==
  /\ pc \in Requesting
  /\ awaited # 0
  /\ socket = <<>>
  /\ TimesOut
  /\ IF pc = "warm infer" THEN pc' = "hold" ELSE Unwind
  /\ awaited' = 0
  /\ UNCHANGED <<args, rig, open, space, asked, pending, socket, inferred, chunk, arms, tried, cut>>

NoReply ==
  /\ pc \in Requesting
  /\ awaited # 0
  /\ socket = <<>>
  /\ TimesOut
  /\ Unwind
  /\ awaited' = 0
  /\ UNCHANGED <<args, rig, open, space, asked, pending, socket, inferred, chunk, arms, tried, cut>>

Request(phase) ==
  /\ pc = phase
  /\ Ask
  /\ UNCHANGED <<args, rig, pc, open, space, inferred, chunk, arms, tried, cut>>

-----------------------------------------------------------------------------
(* The try block: the session's prepare, or the backend's reset.           *)

PoseRefused == StartPose(args) # "none" /\ args.startPoseCheck # "off" /\ ~rig.atStart

Verify ==
  /\ pc = "verify"
  /\ Unless(PoseRefused, "liveness")
  /\ UNCHANGED <<args, rig, open, space, link, inferred, chunk, arms, tried, cut>>

CheckLiveness ==
  /\ pc = "liveness"
  /\ Unless(StateGuarded(args) /\ ~rig.live, "warm reset")
  /\ UNCHANGED <<args, rig, open, space, link, inferred, chunk, arms, tried, cut>>

ResetAnswered(next) ==
  /\ Read
  /\ Unless(~Head(socket).good, next)
  /\ UNCHANGED <<args, rig, open, space, inferred, chunk, arms, tried, cut>>

\* Mutant: the warm-up is the reset alone.
WarmResetOnly == pc = "warm reset" /\ ResetAnswered("hold")

\* warm_up_backend: reset, and one inference whose chunk nobody looks at.
WarmReset == pc = "warm reset" /\ ResetAnswered("warm infer")

WarmInfer ==
  /\ pc = "warm infer"
  /\ Read
  /\ Unless(~Head(socket).good, "hold")
  /\ inferred' = Head(socket).good
  /\ UNCHANGED <<args, rig, open, space, chunk, arms, tried, cut>>

Hold ==
  /\ pc = "hold"
  /\ pc' = IF UsesControllers(args) THEN "activation" ELSE "approach"
  /\ arms' = "held"
  /\ UNCHANGED <<args, rig, open, space, link, inferred, chunk, tried, cut>>

Activated ==
  /\ pc = "activation"
  /\ pc' = "approach"
  /\ arms' = "active"
  /\ UNCHANGED <<args, rig, open, space, link, inferred, chunk, tried, cut>>

SimReset == pc = "reset" /\ ResetAnswered("approach")

-----------------------------------------------------------------------------
(* run_rollout, and the evaluation of its arguments.                       *)

MakeApproach ==
  /\ pc = "approach"
  /\ Unless(ApproachRefused(args), "latch")
  /\ UNCHANGED <<args, rig, open, space, link, inferred, chunk, arms, tried, cut>>

MakeLatch ==
  /\ pc = "latch"
  /\ Unless(LatchRefused(args), IF ApproachOf(args) = "none" THEN "rollout" ELSE "driving")
  /\ UNCHANGED <<args, rig, open, space, link, inferred, chunk, arms, tried, cut>>

\* --approach-only is looked at inside the approach's own branch.
Arrived ==
  /\ pc = "driving"
  /\ pc' = IF args.approachOnly = "on" THEN "release" ELSE "rollout"
  /\ UNCHANGED <<args, rig, open, space, link, inferred, chunk, arms, tried, cut>>

RolloutBegins == WaitForObs("rollout", "policy")

\* s27a15.chunk_for_executor: the width must be the declared layout's; another
\* vector of that width passes.
GateRefused == Width(space) # Width(Declared(args))

Deliver ==
  /\ pc = "policy"
  /\ Read
  /\ LET reply == Head(socket)
         taken == reply.good /\ ~GateRefused
     IN /\ Unless(~taken, "policy")
        /\ chunk' = IF taken THEN [to |-> reply.to, space |-> space] ELSE chunk
        /\ inferred' = (inferred \/ reply.good)
  /\ UNCHANGED <<args, rig, open, space, arms, tried, cut>>

\* Only the asynchronous loop can end with a request in flight.
Finish ==
  /\ pc = "policy"
  /\ awaited = 0 \/ Async(args)
  /\ pc' = "release"
  /\ UNCHANGED <<args, rig, open, space, link, inferred, chunk, arms, tried, cut>>

-----------------------------------------------------------------------------
(* The finally block.                                                      *)

Releases == arms = "active" /\ args.release = "on"

\* session.shutdown, or safe_stop in the simulation; if it raises, nothing
\* after it in the finally runs.
Release ==
  /\ pc = "release"
  /\ \/ pc' = "close backend" /\ arms' = (IF Releases THEN "held" ELSE arms) /\ UNCHANGED cut
     \/ pc' = "leave" /\ cut' = TRUE /\ UNCHANGED arms
  /\ UNCHANGED <<args, rig, open, space, link, inferred, chunk, tried>>

\* RemoteBackend.close drops every Exception of the socket's; Ctrl+C is none.
CloseBackend ==
  /\ pc = "close backend"
  /\ \/ pc' = "close collector" /\ open' = open \ {"backend"} /\ UNCHANGED cut
     \/ args.backend = "remote" /\ pc' = "leave" /\ cut' = TRUE /\ UNCHANGED open
  /\ UNCHANGED <<args, rig, space, link, inferred, chunk, arms, tried>>

\* Mutant: without the inner try, an exception skips the publisher.
CloseCollectorOnly ==
  /\ pc = "close collector"
  /\ \/ pc' = "close publisher" /\ open' = open \ {"collector"}
     \/ pc' = "leave" /\ open' = open
  /\ UNCHANGED <<args, rig, space, link, inferred, chunk, arms, tried, cut>>

\* The collector's close may raise; the publisher is closed all the same.
CloseCollector ==
  /\ pc = "close collector"
  /\ pc' = "close publisher"
  /\ open' \in {open \ {"collector"}, open}
  /\ UNCHANGED <<args, rig, space, link, inferred, chunk, arms, tried, cut>>

ClosePublisher ==
  /\ pc = "close publisher"
  /\ pc' = "leave"
  /\ open' = open \ {"publisher"}
  /\ UNCHANGED <<args, rig, space, link, inferred, chunk, arms, tried, cut>>

\* ros_session's own teardown: the node goes last.
Leave ==
  /\ pc = "leave"
  /\ pc' = "exit"
  /\ open' = open \ {"node"}
  /\ UNCHANGED <<args, rig, space, link, inferred, chunk, arms, tried, cut>>

\* A refused connection, an observation or a controller that never comes, a
\* guard of the rollout, an approach that times out, Ctrl+C.
Raise ==
  /\ pc \notin Teardown \cup {"leave", "exit"}
  /\ Unwind
  /\ UNCHANGED <<args, rig, open, space, link, inferred, chunk, arms, tried, cut>>

Stay == pc = "exit" /\ UNCHANGED vars

-----------------------------------------------------------------------------
Build ==
  \/ MakeBackend \/ Resolve \/ CheckImports \/ OpenNode \/ OpenCollector
  \/ OpenPublisher \/ FirstObservation \/ Preflight

Prepare ==
  \/ Verify \/ CheckLiveness \/ WarmReset \/ WarmInfer \/ Hold \/ Activated \/ SimReset

Rollout == MakeApproach \/ MakeLatch \/ Arrived \/ RolloutBegins \/ Deliver \/ Finish

Unbuild == Release \/ CloseBackend \/ CloseCollector \/ ClosePublisher \/ Leave

Main ==
  \/ Build \/ Prepare \/ Rollout \/ Unbuild \/ NoReply
  \/ \E phase \in Requesting : Request(phase)

Next == Main \/ Serve \/ Raise \/ Stay

\* Every wait of the main thread has its timeout; a policy in this process
\* computes; a server owes nothing.
Spec ==
  /\ Init /\ [][Next]_vars
  /\ WF_vars(Main)
  /\ WF_vars(args.backend = "local" /\ Serve)

-----------------------------------------------------------------------------
Chunk == [to : 1..MaxRequests, space : Emitted]

TypeOK ==
  /\ args \in {Parse(typed) : typed \in CommandLines}
  /\ rig \in Rigs
  /\ pc \in PC
  /\ open \subseteq {"backend", "node", "collector", "publisher"}
  /\ space \in {None} \cup Emitted
  /\ asked \in 0..MaxRequests /\ awaited \in {0, asked}
  /\ pending \in Seq(1..MaxRequests)
  /\ socket \in Seq([to : 1..MaxRequests, good : BOOLEAN])
  /\ inferred \in BOOLEAN
  /\ chunk = None \/ chunk \in Chunk
  /\ arms \in {"untouched", "held", "active"}
  /\ tried \in BOOLEAN /\ cut \in BOOLEAN

\* No arm is held, let alone activated, before everything that could still
\* refuse the run was looked at: the packages, the groups an observation is
\* made of, the frames' shapes, the start pose and the joint states, each
\* unless its own flag waives it; the keep-alive, without which activating is
\* itself a silence; and a policy that has answered an inference of this run
\* (run_policy.py:163-236, the order of RealArmSession.prepare, and the fault
\* of U-28).
ArmsAreCleared ==
  arms # "untouched" =>
    /\ inferred
    /\ rig.imports
    /\ RigGroups(args) \subseteq rig.streams
    /\ rig.shapes \/ args.allowShape = "on" \/ args.dummyObs = "on"
    /\ rig.atStart \/ args.startPoseCheck = "off"
    /\ rig.live \/ args.stateAge = "0"
    /\ arms = "active" => KeepsAlive(args)

\* The executor is only ever given the answer to the request just made, never
\* a reply that came after its own request was given up (backend.py:91-98),
\* and in vectors as wide as those the command line declares
\* (s27a15.chunk_for_executor): a checkpoint of the other world is refused,
\* another layout of the same width is not (cli.py:938-941).
ChunkIsTheAnswer ==
  [][chunk' # chunk => /\ chunk'.to = asked
                       /\ Width(chunk'.space) = Width(Declared(args))]_vars

\* The keep-alive publishes, and the node must not be destroyed under it.  On
\* every way out of main's try - in either world, wherever it is left from,
\* with the collector's close raising or not - it has ended before the node
\* goes, if the session's shutdown and the backend's close, which come before
\* the inner try, return (run_policy.py:295-313).
StreamEndsFirst ==
  (tried /\ ~cut /\ "publisher" \in open) => "node" \in open

\* run_policy.py:307-311, of the publisher's close: "LAST, and
\* unconditionally: `close()` stops and JOINS the keep-alive thread.  It
\* publishes, so it must be finished before `ros_session`'s own teardown
\* destroys the node under it".
PublisherClosesLast ==
  (tried /\ KeepsAlive(args) /\ "publisher" \in open) => "node" \in open

\* The process exits, whatever the server does (backend.py:83-90).
RunEnds == <>(pc = "exit")

\* cli.py:419-421, --approach-only: "run the base approach, stop the base, and
\* exit - no arm activation, no policy rollout".
ApproachOnlyStaysOff ==
  (args.approachOnly = "on" /\ ApproachOf(args) # "none") => arms # "active"

-----------------------------------------------------------------------------
(* The parts the induction needs beside the properties.                    *)

Building ==
  {"backend", "resolve", "imports", "node", "collector", "publisher", "observation", "preflight"}

Preparing == {"verify", "liveness", "warm reset", "warm infer", "hold", "activation"}

Ending == Teardown \cup {"leave", "exit"}

\* Where the main thread is, it has looked at what comes before.
Looked ==
  /\ pc \in {"imports", "observation", "preflight"} \cup Preparing => IsReal(args)
  /\ pc \in (Building \ {"backend", "resolve"}) \cup Preparing => ~StartPoseRefused(args)
  /\ IsReal(args) /\ pc \in (Building \ {"backend", "resolve", "imports"}) \cup Preparing => rig.imports
  /\ pc \in {"preflight"} \cup Preparing => Needed(args) \subseteq rig.streams
  /\ pc \in Preparing => ~ShapeRefused /\ ~GapRefused
  /\ pc \in Preparing \ {"verify"} => ~PoseRefused
  /\ pc \in Preparing \ {"verify", "liveness"} => ~StateGuarded(args) \/ rig.live
  /\ pc \in {"hold", "activation"} => inferred
  /\ pc = "activation" => UsesControllers(args) /\ arms # "untouched"

\* Until the hold the arms are as they were found.
Untouched == pc \in Building \cup (Preparing \ {"activation"}) \cup {"reset"} => arms = "untouched"

\* The node is there from its opening until the process leaves.
NodeStays == pc \notin {"backend", "resolve", "imports", "node", "exit"} => "node" \in open

\* The try is entered when all is built, and left through the finally.
Tried ==
  /\ pc \in Building => ~tried
  /\ pc \in Guarded \cup Teardown => tried

\* A publisher that outlived the try was left by a finally that was cut short.
PublisherGoes ==
  pc \in {"leave", "exit"} /\ tried /\ ~cut => "publisher" \notin open

\* While the run goes on, the link carries the one request that is awaited.
OneOnTheLink ==
  pc \notin Ending =>
    \/ awaited = 0 /\ pending = <<>> /\ socket = <<>>
    \/ /\ awaited # 0
       /\ \/ pending = <<asked>> /\ socket = <<>>
          \/ pending = <<>> /\ \E good \in BOOLEAN : socket = <<[to |-> asked, good |-> good]>>

IInv ==
  /\ TypeOK
  /\ Looked /\ Untouched /\ ArmsAreCleared
  /\ NodeStays /\ Tried /\ PublisherGoes
  /\ OneOnTheLink
=============================================================================
