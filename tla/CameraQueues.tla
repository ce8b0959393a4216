----------------------------- MODULE CameraQueues -----------------------------
(***************************************************************************)
(* The queues between the camera workers and the drain                     *)
(* (multiprocessing.Queue, as camelo/ros/camera_workers.py uses it): a     *)
(* bounded one for each camera, and the pipe under it.                     *)
(*                                                                         *)
(* Only the order of frames is modelled, not the images: a queued frame of *)
(* the watched camera is the number of drains that have left it behind.    *)
(***************************************************************************)
EXTENDS Integers, Sequences

CONSTANTS
  Camera,        \* the cameras, in the order poll visits them: a sequence
  Watched,       \* the camera whose frames are followed
  QueueSize      \* maxsize of a worker's queue

Cameras == {Camera[i] : i \in 1..Len(Camera)}

\* The cameras are the keys of a dictionary: none is visited twice.
ASSUME QueueAssumption ==
  /\ Camera \in Seq(Cameras) /\ Watched \in Cameras
  /\ \A i, j \in 1..Len(Camera) : Camera[i] = Camera[j] => i = j
  /\ QueueSize \in Nat \ {0}

VARIABLES
  queue,     \* the frames of each worker's queue, the oldest first
  started    \* whether the head of the queue has bytes in the pipe

pipes == <<queue, started>>

\* Where the drains that left a frame behind stop being counted.
MaxLeft == QueueSize + 2

NoPipes ==
  /\ queue' = [c \in Cameras |-> <<>>]
  /\ started' = [c \in Cameras |-> FALSE]

-----------------------------------------------------------------------------
\* The worker's end.

\* Mutant: an unbounded queue, as multiprocessing.Queue() makes it.
NeverFull(c) == Len(queue[c]) >= QueueSize + 2

\* _put_or_drop: the queue's semaphore counts the frames not yet taken, and a
\* full queue keeps what it holds.
Full(c) == Len(queue[c]) >= QueueSize

Put(c) ==
  /\ queue' = IF Full(c) THEN queue ELSE [queue EXCEPT ![c] = Append(@, 0)]
  /\ UNCHANGED started

\* The queue's feeder thread begins to write the next message.
Start(c) ==
  /\ queue[c] # <<>> /\ ~started[c]
  /\ started' = [started EXCEPT ![c] = TRUE]
  /\ UNCHANGED queue

\* The worker is gone: what its feeder has not sent is lost; a message it has
\* started stays in the pipe, cut short.
CutShort(c) ==
  /\ queue' = [queue EXCEPT ![c] = IF started[c] THEN <<Head(@)>> ELSE <<>>]
  /\ UNCHANGED started

-----------------------------------------------------------------------------
\* The drain's end.

\* It goes on to another queue: the frames left in this one have been left
\* behind once more.
LeaveBehind(c) ==
  /\ queue' =
       IF c = Watched
       THEN [queue EXCEPT ![c] = [i \in 1..Len(@) |-> IF @[i] < MaxLeft THEN @[i] + 1 ELSE MaxLeft]]
       ELSE queue
  /\ UNCHANGED started

\* It takes the oldest frame.
TakeFrame(c) ==
  /\ queue' = [queue EXCEPT ![c] = Tail(@)]
  /\ started' = [started EXCEPT ![c] = FALSE]

-----------------------------------------------------------------------------
\* No frame waits in its queue for more drains than the queue has places,
\* however the worker, its feeder and the drains interleave, so what a drain
\* caches is that recent: a full queue refuses the newest frame, and every
\* drain takes the oldest that is on its way (_put_or_drop, poll).
FrameIsRecent == \A i \in 1..Len(queue[Watched]) : queue[Watched][i] <= QueueSize
=============================================================================
