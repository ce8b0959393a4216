---------------------------- MODULE CameraStreams ----------------------------
(***************************************************************************)
(* The camera path (camelo/ros/camera_workers.py, and the part of          *)
(* camelo/ros/obs_collector.py and camelo/ros/session.py it meets): one    *)
(* subscriber process per camera decodes frames of its topic, as often as  *)
(* its send deadline allows, and ships them over a bounded queue; a timer  *)
(* of the parent drains the queues into the collector's cache; close()     *)
(* ends them.                                                              *)
(*                                                                         *)
(* A frame is megabytes and a pipe holds 64 KiB: a worker's feeder thread  *)
(* starts the message at the head of its queue (started), and the read of  *)
(* it completes only while the worker lives to send the rest.  A worker    *)
(* that dies in between leaves a truncated message, on which a reader      *)
(* blocks until every write end of the pipe is closed, the parent's too.   *)
(***************************************************************************)
EXTENDS CameraQueues

CONSTANTS
  DrainPeriod,   \* period of the drain timer
  MaxImageAge,   \* max_image_age_s of the staleness guard
  MaxAge,        \* where ages stop being counted
  None

StreamAssumption ==
  /\ DrainPeriod \in Nat \ {0} /\ MaxImageAge \in Nat
  /\ MaxAge \in Nat /\ MaxImageAge < MaxAge
  /\ None \notin Int

VARIABLES
  proc,      \* each worker process
  drain,     \* where the drain callback is
  at,        \* the camera it reads: an index of Camera
  latest,    \* the cameras it has taken a frame of
  timer,     \* time since the drain timer fired
  heard,     \* age of last_image_wall: time since a drain recorded a frame
  parent,    \* the parent process: running, ended, or killed
  closer,    \* how far the collector's close() and the session's have come
  writers    \* whether the parent holds the write ends of the pipes

drainer == <<drain, at, latest>>

vars == <<proc, pipes, drainer, timer, heard, parent, closer, writers>>

\* A worker that runs: until then it has not subscribed.
Alive(c) == proc[c] \in {"running", "orphan"}

Living == {c \in Cameras : proc[c] # "dead"}

-----------------------------------------------------------------------------
\* The worker process.

\* A fresh process arms PR_SET_PDEATHSIG, imports rclpy, creates its node and
\* notes who its parent is: if the parent was gone before, the process that
\* adopted it, and no signal will come.
Boot(c) ==
  /\ proc[c] = "booting"
  /\ proc' = [proc EXCEPT ![c] = IF parent = "running" THEN "running" ELSE "orphan"]
  /\ UNCHANGED <<pipes, drainer, timer, heard, parent, closer, writers>>

\* on_image: a frame ahead of the send deadline is not decoded, one that
\* cannot be decoded is skipped.
Skip(c) ==
  /\ Alive(c)
  /\ UNCHANGED vars

Decode(c) ==
  /\ Alive(c)
  /\ Put(c)
  /\ UNCHANGED <<proc, drainer, timer, heard, parent, closer, writers>>

Feed(c) ==
  /\ Alive(c)
  /\ Start(c)
  /\ UNCHANGED <<proc, drainer, timer, heard, parent, closer, writers>>

\* A worker crashes or is killed.
Dies(c) ==
  /\ proc' = [proc EXCEPT ![c] = "dead"]
  /\ CutShort(c)

Crash(c) ==
  /\ Alive(c) /\ closer = "open"
  /\ Dies(c)
  /\ UNCHANGED <<drainer, timer, heard, parent, closer, writers>>

-----------------------------------------------------------------------------
\* The drain callback, on a thread of the parent's executor.  Its timer is in
\* the node's mutually exclusive callback group: one drain at a time.

Up == parent = "running"

\* The world's part: a feeder begins a message before the timer fires again.
FedInTime == \A c \in Cameras : Alive(c) /\ queue[c] # <<>> => started[c]

TimerFires ==
  /\ Up /\ FedInTime /\ closer = "open" /\ drain = "idle" /\ timer >= DrainPeriod
  /\ drain' = "called"
  /\ timer' = 0
  /\ UNCHANGED <<proc, pipes, at, latest, heard, parent, closer, writers>>

\* _drain_cameras returns at once when close() has begun, and so does
\* CameraWorkers.poll, which looks again at a flag close() sets later.
EnterPoll ==
  /\ Up /\ drain = "called"
  /\ \/ closer \in {"open", "closed"} /\ drain' = "read"
     \/ closer # "open" /\ drain' = "idle"
  /\ at' = 1
  /\ UNCHANGED <<proc, pipes, latest, timer, heard, parent, closer, writers>>

\* On to the next camera's queue.
NextQueue ==
  /\ at' = IF at < Len(Camera) THEN at + 1 ELSE 1
  /\ drain' = IF at < Len(Camera) THEN "read" ELSE "record"

Reading(c) == Up /\ drain = "read" /\ c = Camera[at]

\* get_nowait finds no bytes, or a queue that is closed.
ReadEmpty(c) ==
  /\ Reading(c) /\ ~started[c]
  /\ NextQueue
  /\ LeaveBehind(c)
  /\ UNCHANGED <<proc, latest, timer, heard, parent, closer, writers>>

\* It finds some, and reads the whole message, blocking.
ReadBegins(c) ==
  /\ Reading(c) /\ started[c]
  /\ drain' = "recv"
  /\ UNCHANGED <<proc, pipes, at, latest, timer, heard, parent, closer, writers>>

Receiving(c) == Up /\ drain = "recv" /\ c = Camera[at]

\* The message comes through, and the queue is asked again.
ReadFrame(c) ==
  /\ Receiving(c) /\ Alive(c)
  /\ drain' = "read"
  /\ latest' = latest \cup {c}
  /\ TakeFrame(c)
  /\ UNCHANGED <<proc, at, timer, heard, parent, closer, writers>>

\* A truncated message ends the read only when nobody can write any more;
\* until then the thread is blocked, and with it every other camera's drain.
ReadEOF(c) ==
  /\ Receiving(c) /\ ~Alive(c) /\ ~writers
  /\ NextQueue
  /\ UNCHANGED <<proc, pipes, latest, timer, heard, parent, closer, writers>>

\* Mutant: a drain vouches for every camera.
ReceivedAll(c) == TRUE

\* Every frame taken goes into the cache, received now.
Received(c) == c \in latest

Record ==
  /\ Up /\ drain = "record"
  /\ drain' = "idle"
  /\ heard' = [c \in Cameras |-> IF Received(c) THEN 0 ELSE heard[c]]
  /\ latest' = {}
  /\ UNCHANGED <<proc, pipes, at, timer, parent, closer, writers>>

-----------------------------------------------------------------------------
\* ObsCollector.close, CameraWorkers.close in it, and the end of ros_session.

Advance(from, to) == Up /\ closer = from /\ closer' = to

\* _closed is set and the timer cancelled; a call handed over before still
\* runs.
Close ==
  /\ Advance("open", "closed")
  /\ UNCHANGED <<proc, pipes, drainer, timer, heard, parent, writers>>

BeginClosing ==
  /\ Advance("closed", "closing")
  /\ UNCHANGED <<proc, pipes, drainer, timer, heard, parent, writers>>

\* Mutant: it only closes the queues, once the workers are dead.
KeepWriters ==
  /\ Advance("closing", "signal")
  /\ UNCHANGED <<proc, pipes, drainer, timer, heard, parent, writers>>

\* The parent drops its own write ends before it signals any worker.
DropWriters ==
  /\ Advance("closing", "signal")
  /\ writers' = FALSE
  /\ UNCHANGED <<proc, pipes, drainer, timer, heard, parent>>

\* terminate(), join(2.0), kill() and join(1.0): no worker survives them.
Terminate(c) ==
  /\ Up /\ closer = "signal" /\ proc[c] # "dead"
  /\ Dies(c)
  /\ UNCHANGED <<drainer, timer, heard, parent, closer, writers>>

\* The queues are closed and the subscriptions destroyed; shutdown_executor
\* waits a bounded time for the callback, and so do the calls that destroy
\* the node and shut rclpy down.
Reap ==
  /\ Living = {}
  /\ Advance("signal", "reaped")
  /\ NoPipes
  /\ UNCHANGED <<proc, drainer, timer, heard, parent, writers>>

\* What is left of a process that has ended: nothing.
Ended(how) ==
  /\ parent' = how
  /\ NoPipes
  /\ drain' = "idle" /\ at' = 1 /\ latest' = {}
  /\ timer' = 0
  /\ heard' = [c \in Cameras |-> None]
  /\ writers' = FALSE

\* The interpreter's exit joins the executor's threads, without a timeout.
Exit ==
  /\ Up /\ closer = "reaped" /\ drain = "idle"
  /\ Ended("ended")
  /\ UNCHANGED <<proc, closer>>

\* The parent is killed: the kernel kills the workers that have asked for it.
Kill ==
  /\ Up
  /\ Ended("killed")
  /\ proc' = [c \in Cameras |-> IF proc[c] = "booting" THEN "booting" ELSE "dead"]
  /\ UNCHANGED closer

-----------------------------------------------------------------------------

Older(age) == IF age < MaxAge THEN age + 1 ELSE MaxAge

Tick ==
  /\ Up
  /\ timer' = IF timer < DrainPeriod THEN timer + 1 ELSE timer
  /\ heard' = [c \in Cameras |-> IF heard[c] = None THEN None ELSE Older(heard[c])]
  /\ UNCHANGED <<proc, pipes, drainer, parent, closer, writers>>

Init ==
  /\ proc = [c \in Cameras |-> "booting"]
  /\ queue = [c \in Cameras |-> <<>>]
  /\ started = [c \in Cameras |-> FALSE]
  /\ drain = "idle"
  /\ at = 1
  /\ latest = {}
  /\ timer = 0
  /\ heard = [c \in Cameras |-> None]
  /\ parent = "running"
  /\ closer = "open"
  /\ writers = TRUE

OnImage(c) == Skip(c) \/ Decode(c)

Drain ==
  \/ TimerFires \/ EnterPoll \/ Record
  \/ \E c \in Cameras : ReadEmpty(c) \/ ReadBegins(c) \/ ReadFrame(c) \/ ReadEOF(c)

Teardown ==
  \/ BeginClosing \/ DropWriters \/ Reap \/ Exit
  \/ \E c \in Cameras : Terminate(c)

Next ==
  \/ \E c \in Cameras : Boot(c) \/ OnImage(c) \/ Feed(c) \/ Crash(c)
  \/ Drain
  \/ Close \/ Teardown
  \/ Kill
  \/ Tick

\* The processes and threads run and time passes; nobody owes a frame, a
\* message, a crash or a close().  The send interval is longer than the read of
\* a frame, so a drain does not find one more for ever.
Fairness ==
  /\ WF_vars(\E c \in Cameras : Boot(c))
  /\ SF_vars(\E c \in Cameras : ReadEmpty(c))
  /\ WF_vars(Drain)
  /\ WF_vars(Teardown)
  /\ WF_vars(Tick)

Spec == Init /\ [][Next]_vars /\ Fairness

-----------------------------------------------------------------------------
\* stale_image_ages: a camera is reported once its newest frame is too old; a
\* camera that never delivered one always is.
Stale(c) == heard[c] = None \/ heard[c] > MaxImageAge

\* Workers die, and sooner or later every camera whose worker has died is
\* reported stale, whether its queue was empty or the drain hangs on a message
\* cut short, unless the program ends.
Noticed == \A c \in Cameras : proc[c] = "dead" => Stale(c)

CrashIsNoticed == ~Noticed ~> Noticed \/ closer # "open" \/ parent # "running"

\* Once close() has begun the program ends: the workers are reaped, and a
\* drain that hangs on a message cut short comes back.
CloseEnds == closer # "open" ~> parent # "running"

-----------------------------------------------------------------------------
\* What FrameIsRecent rests on.
QueueTypeOK ==
  /\ proc \in [Cameras -> {"booting", "running", "orphan", "dead"}]
  /\ queue \in [Cameras -> Seq(0..MaxLeft)]
  /\ started \in [Cameras -> BOOLEAN]
  /\ drain \in {"idle", "called", "read", "recv", "record"}
  /\ at \in 1..Len(Camera)

QueueIsBounded == \A c \in Cameras : Len(queue[c]) <= QueueSize

\* A message on its way is of a frame that waits, and no frame waits without
\* one for a worker that does not run.
PipeHoldsHead ==
  \A c \in Cameras :
    /\ started[c] => queue[c] # <<>>
    /\ ~Alive(c) /\ ~started[c] => queue[c] = <<>>

\* The message a drain reads is one a worker began, if it lives.
ReadIsUnderWay ==
  drain = "recv" => started[Camera[at]] \/ proc[Camera[at]] = "dead"

\* This drain has yet to look into the watched camera's queue for the last time.
Due ==
  \/ drain = "called"
  \/ drain \in {"read", "recv"} /\ \E i \in at..Len(Camera) : Camera[i] = Watched

\* A frame has been left behind no more often than there were frames before it
\* to take, one fewer if this drain has yet to take one and finds none on its
\* way.
PlacesAreDrains ==
  LET frames == queue[Watched]
  IN /\ \A i \in 1..Len(frames) : frames[i] + i <= QueueSize + 1
     /\ Due /\ ~started[Watched] => \A i \in 1..Len(frames) : frames[i] + i <= QueueSize

IInv ==
  QueueTypeOK /\ QueueIsBounded /\ PipeHoldsHead /\ ReadIsUnderWay /\ PlacesAreDrains
=============================================================================
