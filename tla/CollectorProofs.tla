--------------------------- MODULE CollectorProofs ---------------------------
(***************************************************************************)
(* What surrounds the rollout of an episode: the camera workers that feed  *)
(* its observations, for every number of cameras, queue size and period,   *)
(* and the recentre, the launch and the score that make an episode of it,  *)
(* for every number of episodes and every bound of their waits.            *)
(***************************************************************************)
EXTENDS Episodes, CameraQueues, SequenceTheorems, WellFoundedInduction, TLAPS

CONSTANTS DrainPeriod, MaxImageAge, MaxAge

VARIABLES
  proc, drain, at, latest, timer, cameraHeard, parent, closer, writers

Streams == INSTANCE CameraStreams WITH heard <- cameraHeard

-----------------------------------------------------------------------------
\* The camera workers.

USE QueueAssumption

\* The queues of the instance are the ones seen here.
LEMMA SameQueues ==
  /\ Streams!Cameras = Cameras /\ Streams!MaxLeft = MaxLeft
  /\ Streams!FrameIsRecent = FrameIsRecent
BY DEF Streams!Cameras, Cameras, Streams!MaxLeft, MaxLeft, Streams!FrameIsRecent,
     FrameIsRecent

\* What a put leaves in a queue.
LEMMA PutQueue ==
  ASSUME Streams!QueueTypeOK, NEW c \in Cameras, Streams!Put(c)
  PROVE  /\ queue' \in [Cameras -> Seq(0..MaxLeft)] /\ started' = started
         /\ \A d \in Cameras : d # c => queue'[d] = queue[d]
         /\ \/ queue'[c] = queue[c]
            \/ /\ Len(queue[c]) < QueueSize
               /\ Len(queue'[c]) = Len(queue[c]) + 1
               /\ queue'[c][Len(queue[c]) + 1] = 0
               /\ \A i \in 1..Len(queue[c]) : queue'[c][i] = queue[c][i]
<1>1. queue \in [Cameras -> Seq(0..MaxLeft)] /\ 0 \in 0..MaxLeft
  BY SameQueues DEF Streams!QueueTypeOK, MaxLeft
<1>2. queue[c] \in Seq(0..MaxLeft) /\ Len(queue[c]) \in Nat
  BY <1>1
<1>3. CASE Streams!Full(c)
  BY <1>1, <1>3 DEF Streams!Put
<1>4. CASE ~Streams!Full(c)
  <2>1. queue' = [queue EXCEPT ![c] = Append(queue[c], 0)]
    BY <1>4 DEF Streams!Put
  <2>2. Append(queue[c], 0) \in Seq(0..MaxLeft)
    BY <1>1, <1>2, AppendProperties
  <2>3. /\ Len(Append(queue[c], 0)) = Len(queue[c]) + 1
        /\ Append(queue[c], 0)[Len(queue[c]) + 1] = 0
        /\ \A i \in 1..Len(queue[c]) : Append(queue[c], 0)[i] = queue[c][i]
    BY <1>1, <1>2, AppendProperties
  <2>4. Len(queue[c]) < QueueSize
    BY <1>2, <1>4 DEF Streams!Full
  <2>5. queue'[c] = Append(queue[c], 0) /\ \A d \in Cameras : d # c => queue'[d] = queue[d]
    BY <1>1, <2>1
  <2> QED
    BY <1>1, <2>1, <2>2, <2>3, <2>4, <2>5 DEF Streams!Put
<1> QED
  BY <1>3, <1>4

\* What a drain that takes the oldest frame leaves.
LEMMA TakenQueue ==
  ASSUME Streams!QueueTypeOK, NEW c \in Cameras, queue[c] # <<>>, Streams!TakeFrame(c)
  PROVE  /\ queue' \in [Cameras -> Seq(0..MaxLeft)]
         /\ started' = [started EXCEPT ![c] = FALSE]
         /\ \A d \in Cameras : d # c => queue'[d] = queue[d]
         /\ Len(queue[c]) \in Nat /\ Len(queue'[c]) = Len(queue[c]) - 1
         /\ \A i \in 1..Len(queue'[c]) : i + 1 \in 1..Len(queue[c]) /\ queue'[c][i] = queue[c][i + 1]
<1>1. queue \in [Cameras -> Seq(0..MaxLeft)]
  BY SameQueues DEF Streams!QueueTypeOK
<1>2. queue[c] \in Seq(0..MaxLeft) /\ Len(queue[c]) \in Nat
  BY <1>1
<1>3. /\ Tail(queue[c]) \in Seq(0..MaxLeft)
      /\ Len(Tail(queue[c])) = Len(queue[c]) - 1
      /\ \A i \in 1..Len(Tail(queue[c])) : Tail(queue[c])[i] = queue[c][i + 1]
  BY <1>2, HeadTailProperties
<1>4. queue' = [queue EXCEPT ![c] = Tail(queue[c])] /\ started' = [started EXCEPT ![c] = FALSE]
  BY DEF Streams!TakeFrame
<1>5. queue'[c] = Tail(queue[c]) /\ \A d \in Cameras : d # c => queue'[d] = queue[d]
  BY <1>1, <1>4
<1>6. queue' \in [Cameras -> Seq(0..MaxLeft)]
  BY <1>1, <1>3, <1>4
<1>7. \A i \in 1..Len(queue'[c]) : i + 1 \in 1..Len(queue[c])
  BY <1>2, <1>3, <1>5
<1> QED
  BY <1>2, <1>3, <1>4, <1>5, <1>6, <1>7

\* A worker that dies leaves its queue as it is, in part, or empty.
LEMMA CutQueue ==
  ASSUME Streams!QueueTypeOK, Streams!PipeHoldsHead, NEW c \in Cameras, Streams!CutShort(c)
  PROVE  /\ queue' \in [Cameras -> Seq(0..MaxLeft)] /\ started' = started
         /\ \A d \in Cameras : d # c => queue'[d] = queue[d]
         /\ \/ started[c] /\ queue[c] # <<>> /\ queue'[c] # <<>> /\ Len(queue'[c]) = 1 /\ queue'[c][1] = queue[c][1]
            \/ ~started[c] /\ queue'[c] = <<>>
         /\ Len(queue[c]) \in Nat /\ Len(queue'[c]) <= Len(queue[c])
<1>1. queue \in [Cameras -> Seq(0..MaxLeft)] /\ started \in [Cameras -> BOOLEAN]
  BY SameQueues DEF Streams!QueueTypeOK
<1>2. queue[c] \in Seq(0..MaxLeft) /\ Len(queue[c]) \in Nat
  BY <1>1
<1>3. started' = started /\ queue' = [queue EXCEPT ![c] = IF started[c] THEN <<Head(queue[c])>> ELSE <<>>]
  BY DEF Streams!CutShort
<1>4. queue'[c] = (IF started[c] THEN <<Head(queue[c])>> ELSE <<>>) /\ \A d \in Cameras : d # c => queue'[d] = queue[d]
  BY <1>1, <1>3
<1>5. CASE started[c]
  <2>1. queue[c] # <<>>
    BY <1>5, SameQueues DEF Streams!PipeHoldsHead
  <2>2. Head(queue[c]) = queue[c][1] /\ Head(queue[c]) \in 0..MaxLeft /\ Len(queue[c]) > 0
    <3>1. Len(queue[c]) \in Nat \ {0}
      BY <1>2, <2>1, EmptySeq
    <3>2. Head(queue[c]) \in 0..MaxLeft
      BY <1>2, <2>1, HeadTailProperties
    <3>3. Head(queue[c]) = queue[c][1]
      BY <1>2, <2>1
    <3> QED
      BY <3>1, <3>2, <3>3
  <2>3. <<Head(queue[c])>> \in Seq(0..MaxLeft) /\ Len(<<Head(queue[c])>>) = 1 /\ <<Head(queue[c])>> # <<>>
    BY <2>2
  <2>4. queue' \in [Cameras -> Seq(0..MaxLeft)]
    BY <1>1, <1>3, <1>5, <2>3
  <2>5. <<Head(queue[c])>>[1] = queue[c][1]
    BY <2>2
  <2> QED
    BY <1>2, <1>3, <1>4, <1>5, <2>1, <2>2, <2>3, <2>4, <2>5
<1>6. CASE ~started[c]
  <2>1. <<>> \in Seq(0..MaxLeft) /\ Len(<<>>) = 0
    OBVIOUS
  <2>2. queue' \in [Cameras -> Seq(0..MaxLeft)]
    BY <1>1, <1>3, <1>6, <2>1
  <2> QED
    BY <1>2, <1>3, <1>4, <1>6, <2>1, <2>2
<1> QED
  BY <1>5, <1>6

\* A drain that goes on leaves every frame of the watched camera behind once
\* more.
LEMMA LeftQueue ==
  ASSUME Streams!QueueTypeOK, NEW c \in Cameras, Streams!LeaveBehind(c)
  PROVE  /\ queue' \in [Cameras -> Seq(0..MaxLeft)] /\ started' = started
         /\ \A d \in Cameras : Len(queue[d]) \in Nat /\ Len(queue'[d]) = Len(queue[d])
         /\ \A d \in Cameras : queue'[d] = <<>> <=> queue[d] = <<>>
         /\ \A d \in Cameras : d # Watched \/ c # Watched => queue'[d] = queue[d]
         /\ c = Watched =>
              \A i \in 1..Len(queue[c]) : queue'[c][i] <= queue[c][i] + 1
<1>1. queue \in [Cameras -> Seq(0..MaxLeft)] /\ MaxLeft \in Nat
  BY SameQueues DEF Streams!QueueTypeOK, MaxLeft
<1>2. \A d \in Cameras : queue[d] \in Seq(0..MaxLeft) /\ Len(queue[d]) \in Nat
  BY <1>1
<1>3. CASE c # Watched
  BY <1>1, <1>2, <1>3 DEF Streams!LeaveBehind
<1>4. CASE c = Watched
  <2> DEFINE q == queue[c]
             later == [i \in 1..Len(q) |-> IF q[i] < MaxLeft THEN q[i] + 1 ELSE MaxLeft]
  <2>1. q \in Seq(0..MaxLeft) /\ Len(q) \in Nat /\ \A i \in 1..Len(q) : q[i] \in 0..MaxLeft
    BY <1>2, ElementOfSeq
  <2>2. queue' = [queue EXCEPT ![c] = later] /\ started' = started
    BY <1>4, SameQueues DEF Streams!LeaveBehind
  <2>3. \A i \in 1..Len(q) : (IF q[i] < MaxLeft THEN q[i] + 1 ELSE MaxLeft) \in 0..MaxLeft
    BY <1>1, <2>1
  <2>4. later \in Seq(0..MaxLeft) /\ Len(later) = Len(q)
    <3>1. later \in [1..Len(q) -> 0..MaxLeft]
      BY <2>3
    <3> QED
      BY <2>1, <3>1
  <2>5. \A i \in 1..Len(q) : later[i] <= q[i] + 1
    BY <1>1, <2>1
  <2>6. later = <<>> <=> q = <<>>
    BY <2>1, <2>4, EmptySeq
  <2> HIDE DEF later
  <2>7. queue'[c] = later /\ \A d \in Cameras : d # c => queue'[d] = queue[d]
    BY <1>1, <2>2
  <2>8. queue' \in [Cameras -> Seq(0..MaxLeft)]
    BY <1>1, <2>2, <2>4
  <2> QED
    BY <1>2, <1>4, <2>2, <2>4, <2>5, <2>6, <2>7, <2>8
<1> QED
  BY <1>3, <1>4

\* The watched queue as the invariant sees it: only its lengths and frames.
LEMMA QueuesStay ==
  ASSUME Streams!IInv, queue' = queue, started' = started,
         proc' \in [Cameras -> {"booting", "running", "orphan", "dead"}],
         \A c \in Cameras : (Streams!Alive(c) => Streams!Alive(c)') \/ started[c] \/ queue[c] = <<>>,
         drain' \in {"idle", "called", "read", "recv", "record"}, at' \in 1..Len(Camera),
         Streams!ReadIsUnderWay',
         Streams!Due' => Streams!Due \/ started[Watched]
                         \/ \A i \in 1..Len(queue[Watched]) : queue[Watched][i] + i <= QueueSize
  PROVE  Streams!IInv'
<1>1. Streams!QueueTypeOK'
  BY SameQueues DEF Streams!IInv, Streams!QueueTypeOK
<1>2. Streams!QueueIsBounded' /\ Streams!PlacesAreDrains'
  BY DEF Streams!IInv, Streams!QueueIsBounded, Streams!PlacesAreDrains
<1>3. Streams!PipeHoldsHead'
  BY SameQueues DEF Streams!IInv, Streams!PipeHoldsHead
<1> QED
  BY <1>1, <1>2, <1>3 DEF Streams!IInv

\* The index of the watched camera, and what the drain's walk does to Due.
LEMMA WalkOn ==
  ASSUME Streams!QueueTypeOK, NEW c \in Cameras, Streams!NextQueue,
         drain \in {"read", "recv"}, c = Camera[at]
  PROVE  /\ drain' \in {"read", "record"} /\ at' \in 1..Len(Camera)
         /\ Streams!Due' => Streams!Due /\ c # Watched
<1>1. at \in 1..Len(Camera) /\ Len(Camera) \in Nat
  BY DEF Streams!QueueTypeOK
<1>2. CASE at < Len(Camera)
  <2>1. drain' = "read" /\ at' = at + 1 /\ at' \in 1..Len(Camera)
    BY <1>1, <1>2 DEF Streams!NextQueue
  <2>2. ASSUME Streams!Due' PROVE Streams!Due /\ c # Watched
    <3>1. PICK i \in at'..Len(Camera) : Camera[i] = Watched
      BY <2>1, <2>2 DEF Streams!Due
    <3>2. i \in 1..Len(Camera) /\ i \in at..Len(Camera) /\ i # at
      BY <1>1, <2>1, <3>1
    <3> QED
      BY <1>1, <3>1, <3>2 DEF Streams!Due
  <2> QED
    BY <2>1, <2>2
<1>3. CASE ~(at < Len(Camera))
  BY <1>1, <1>3 DEF Streams!NextQueue, Streams!Due
<1> QED
  BY <1>2, <1>3

HIDE QueueAssumption

\* Every step of the camera path keeps the invariant.
LEMMA StreamStep == Streams!IInv /\ [Streams!Next]_(Streams!vars) => Streams!IInv'
<1> SUFFICES ASSUME Streams!IInv, [Streams!Next]_(Streams!vars) PROVE Streams!IInv'
  OBVIOUS
<1> DEFINE W == Watched
<1>t. /\ Streams!QueueTypeOK /\ Streams!QueueIsBounded
      /\ Streams!PipeHoldsHead /\ Streams!ReadIsUnderWay /\ Streams!PlacesAreDrains
  BY DEF Streams!IInv
<1>q. /\ queue \in [Cameras -> Seq(0..MaxLeft)] /\ started \in [Cameras -> BOOLEAN]
      /\ proc \in [Cameras -> {"booting", "running", "orphan", "dead"}]
      /\ drain \in {"idle", "called", "read", "recv", "record"} /\ at \in 1..Len(Camera)
      /\ Streams!Cameras = Cameras
  BY <1>t, SameQueues DEF Streams!QueueTypeOK
<1>z. Watched \in Cameras /\ QueueSize \in Nat \ {0} /\ MaxLeft \in Nat
  BY QueueAssumption DEF MaxLeft
<1>l. \A c \in Cameras : Len(queue[c]) \in Nat /\ Len(queue[c]) <= QueueSize
                         /\ \A i \in 1..Len(queue[c]) : queue[c][i] \in 0..MaxLeft
  <2> TAKE c \in Cameras
  <2>1. queue[c] \in Seq(0..MaxLeft)
    BY <1>q
  <2>2. Len(queue[c]) \in Nat /\ \A i \in 1..Len(queue[c]) : queue[c][i] \in 0..MaxLeft
    BY <2>1, ElementOfSeq, LenProperties
  <2> QED
    BY <1>t, <1>q, <2>2 DEF Streams!QueueIsBounded
<1>h. \A c \in Cameras : /\ started[c] => queue[c] # <<>>
                         /\ ~Streams!Alive(c) /\ ~started[c] => queue[c] = <<>>
  BY <1>t, <1>q DEF Streams!PipeHoldsHead
<1>p. /\ \A i \in 1..Len(queue[W]) : queue[W][i] + i <= QueueSize + 1
      /\ Streams!Due /\ ~started[W] => \A i \in 1..Len(queue[W]) : queue[W][i] + i <= QueueSize
  BY <1>t DEF Streams!PlacesAreDrains
<1>b. ASSUME NEW c \in Cameras, Streams!Boot(c) PROVE Streams!IInv'
  <2>1. /\ proc' = [proc EXCEPT ![c] = IF parent = "running" THEN "running" ELSE "orphan"]
        /\ queue' = queue /\ started' = started /\ drain' = drain /\ at' = at
    BY <1>b DEF Streams!Boot, Streams!pipes, Streams!drainer
  <2>2. \A d \in Cameras : Streams!Alive(d) => Streams!Alive(d)'
    BY <1>q, <2>1 DEF Streams!Alive
  <2>3. proc' \in [Cameras -> {"booting", "running", "orphan", "dead"}]
    BY <1>q, <2>1
  <2>4. Streams!Due' => Streams!Due
    BY <2>1 DEF Streams!Due
  <2>5. Streams!ReadIsUnderWay'
    <3>1. Camera[at] \in Cameras
      BY <1>q DEF Cameras
    <3>2. proc'[Camera[at]] = "dead" <=> proc[Camera[at]] = "dead"
      BY <1>b, <1>q, <2>1, <3>1 DEF Streams!Boot
    <3> QED
      BY <1>t, <2>1, <3>2 DEF Streams!ReadIsUnderWay
  <2> QED
    BY <1>q, <2>1, <2>2, <2>3, <2>4, <2>5, QueuesStay
<1>c. \A i \in at..Len(Camera) : i \in 1..Len(Camera)
  BY <1>q, QueueAssumption
<1>d. ASSUME NEW c \in Cameras, Streams!Decode(c) PROVE Streams!IInv'
  <2>1. Streams!Put(c) /\ Streams!Alive(c) /\ proc' = proc /\ drain' = drain /\ at' = at
    BY <1>d DEF Streams!Decode, Streams!drainer
  <2>2. /\ queue' \in [Cameras -> Seq(0..MaxLeft)] /\ started' = started
        /\ \A d \in Cameras : d # c => queue'[d] = queue[d]
    BY <1>t, <2>1, PutQueue
  <2>3. \/ queue'[c] = queue[c]
        \/ /\ Len(queue[c]) < QueueSize
           /\ Len(queue'[c]) = Len(queue[c]) + 1
           /\ queue'[c][Len(queue[c]) + 1] = 0
           /\ \A i \in 1..Len(queue[c]) : queue'[c][i] = queue[c][i]
    BY <1>t, <2>1, PutQueue
  <2>4. Streams!QueueTypeOK'
    BY <1>q, <2>1, <2>2, SameQueues DEF Streams!QueueTypeOK
  <2>5. Streams!QueueIsBounded'
    <3> SUFFICES ASSUME NEW d \in Cameras PROVE Len(queue'[d]) <= QueueSize
      BY <1>q DEF Streams!QueueIsBounded
    <3>1. CASE d # c
      BY <1>l, <2>2, <3>1
    <3>2. CASE d = c
      BY <1>l, <1>z, <2>3, <3>2
    <3> QED
      BY <3>1, <3>2
  <2>6. Streams!PipeHoldsHead'
    <3> SUFFICES ASSUME NEW d \in Cameras
                 PROVE  /\ started'[d] => queue'[d] # <<>>
                        /\ ~Streams!Alive(d)' /\ ~started'[d] => queue'[d] = <<>>
      BY <1>q DEF Streams!PipeHoldsHead
    <3>1. Streams!Alive(d)' <=> Streams!Alive(d)
      BY <2>1 DEF Streams!Alive
    <3>2. CASE d # c
      BY <1>h, <2>2, <3>1, <3>2
    <3>3. CASE d = c
      <4>1. started[c] => queue'[c] # <<>>
        <5>1. started[c] => Len(queue[c]) # 0
          BY <1>h, <1>q, EmptySeq
        <5>2. Len(queue'[c]) = 0 => queue'[c] = queue[c]
          BY <1>l, <2>3
        <5> QED
          BY <1>l, <2>3, <5>1, <5>2
      <4> QED
        BY <2>1, <2>2, <3>1, <3>3, <4>1
    <3> QED
      BY <3>2, <3>3
  <2>7. Streams!PlacesAreDrains'
    <3>1. Streams!Due' => Streams!Due
      BY <2>1 DEF Streams!Due
    <3>2. \A i \in 1..Len(queue'[W]) :
            \/ i \in 1..Len(queue[W]) /\ queue'[W][i] = queue[W][i]
            \/ queue'[W][i] = 0 /\ i <= QueueSize
      <4>1. CASE W # c
        BY <1>z, <2>2, <4>1
      <4>2. CASE W = c
        <5>1. CASE queue'[W] = queue[W]
          BY <5>1
        <5>2. CASE ~(queue'[W] = queue[W])
          <6> TAKE i \in 1..Len(queue'[W])
          <6>1. i \in 1..(Len(queue[W]) + 1) /\ Len(queue[W]) \in Nat
            BY <1>l, <1>z, <2>3, <4>2, <5>2
          <6>2. CASE i = Len(queue[W]) + 1
            BY <1>l, <1>z, <2>3, <4>2, <5>2, <6>2
          <6>3. CASE i # Len(queue[W]) + 1
            BY <2>3, <4>2, <5>2, <6>1, <6>3
          <6> QED
            BY <6>2, <6>3
        <5> QED
          BY <5>1, <5>2
      <4> QED
        BY <4>1, <4>2
    <3>4. \A i \in 1..Len(queue'[W]) : queue'[W][i] + i <= QueueSize + 1
      <4> TAKE i \in 1..Len(queue'[W])
      <4>1. CASE i \in 1..Len(queue[W]) /\ queue'[W][i] = queue[W][i]
        BY <1>p, <4>1
      <4>2. CASE queue'[W][i] = 0 /\ i <= QueueSize
        BY <1>z, <4>2
      <4> QED
        BY <3>2, <4>1, <4>2
    <3>5. ASSUME Streams!Due, ~started[W], NEW i \in 1..Len(queue'[W])
          PROVE  queue'[W][i] + i <= QueueSize
      <4>1. CASE i \in 1..Len(queue[W]) /\ queue'[W][i] = queue[W][i]
        BY <1>p, <3>5, <4>1
      <4>2. CASE queue'[W][i] = 0 /\ i <= QueueSize
        BY <1>z, <4>2
      <4> QED
        BY <3>2, <4>1, <4>2
    <3> QED
      BY <2>2, <3>1, <3>4, <3>5 DEF Streams!PlacesAreDrains
  <2>8. Streams!ReadIsUnderWay'
    BY <1>t, <2>1, <2>2 DEF Streams!ReadIsUnderWay
  <2> QED
    BY <2>4, <2>5, <2>6, <2>7, <2>8 DEF Streams!IInv
<1>f. ASSUME NEW c \in Cameras, Streams!Feed(c) PROVE Streams!IInv'
  <2>1. /\ queue[c] # <<>> /\ ~started[c] /\ started' = [started EXCEPT ![c] = TRUE]
        /\ queue' = queue /\ proc' = proc /\ drain' = drain /\ at' = at
    BY <1>f DEF Streams!Feed, Streams!Start, Streams!drainer
  <2>2. \A d \in Cameras : started'[d] = (d = c \/ started[d])
    BY <1>q, <2>1
  <2>3. Streams!QueueTypeOK'
    BY <1>q, <2>1, SameQueues DEF Streams!QueueTypeOK
  <2>4. Streams!QueueIsBounded'
    BY <1>t, <2>1 DEF Streams!QueueIsBounded
  <2>5. Streams!PipeHoldsHead'
    BY <1>q, <1>h, <2>1, <2>2 DEF Streams!PipeHoldsHead, Streams!Alive
  <2>6. Streams!PlacesAreDrains'
    <3>1. (Streams!Due' => Streams!Due) /\ (~started'[W] => ~started[W])
      BY <1>q, <2>1, <2>2 DEF Streams!Due
    <3> QED
      BY <1>p, <2>1, <3>1 DEF Streams!PlacesAreDrains
  <2>7. Streams!ReadIsUnderWay'
    <3>1. Camera[at] \in Cameras
      BY <1>q DEF Cameras
    <3> QED
      BY <1>t, <2>1, <2>2, <3>1 DEF Streams!ReadIsUnderWay
  <2> QED
    BY <2>3, <2>4, <2>5, <2>6, <2>7 DEF Streams!IInv
<1>x. ASSUME NEW c \in Cameras, Streams!Dies(c), drain' = drain, at' = at PROVE Streams!IInv'
  <2>1. Streams!CutShort(c) /\ proc' = [proc EXCEPT ![c] = "dead"]
    BY <1>x DEF Streams!Dies
  <2>2. /\ queue' \in [Cameras -> Seq(0..MaxLeft)] /\ started' = started
        /\ \A d \in Cameras : d # c => queue'[d] = queue[d]
        /\ \/ started[c] /\ queue[c] # <<>> /\ queue'[c] # <<>> /\ Len(queue'[c]) = 1 /\ queue'[c][1] = queue[c][1]
           \/ ~started[c] /\ queue'[c] = <<>>
        /\ Len(queue[c]) \in Nat /\ Len(queue'[c]) <= Len(queue[c])
    BY <1>t, <2>1, CutQueue
  <2>3. Streams!QueueTypeOK'
    <3>1. proc' \in [Cameras -> {"booting", "running", "orphan", "dead"}]
      BY <1>q, <2>1
    <3> QED
      BY <1>q, <1>x, <2>2, <3>1, SameQueues DEF Streams!QueueTypeOK
  <2>4. Streams!QueueIsBounded'
    <3> SUFFICES ASSUME NEW d \in Cameras PROVE Len(queue'[d]) <= QueueSize
      BY <1>q DEF Streams!QueueIsBounded
    <3>1. Len(queue'[c]) \in Nat
      BY <2>2
    <3>2. CASE d # c
      BY <1>l, <2>2, <3>2
    <3>3. CASE d = c
      BY <1>l, <1>z, <2>2, <3>1, <3>3
    <3> QED
      BY <3>2, <3>3
  <2>5. Streams!PipeHoldsHead'
    <3> SUFFICES ASSUME NEW d \in Cameras
                 PROVE  /\ started'[d] => queue'[d] # <<>>
                        /\ ~Streams!Alive(d)' /\ ~started'[d] => queue'[d] = <<>>
      BY <1>q DEF Streams!PipeHoldsHead
    <3>1. CASE d # c
      <4>1. Streams!Alive(d)' <=> Streams!Alive(d)
        BY <1>q, <2>1, <3>1 DEF Streams!Alive
      <4> QED
        BY <1>h, <2>2, <3>1, <4>1
    <3>2. CASE d = c
      BY <2>2, <3>2
    <3> QED
      BY <3>1, <3>2
  <2>6. Streams!PlacesAreDrains'
    <3>1. Streams!Due' => Streams!Due
      BY <1>x DEF Streams!Due
    <3>2. CASE W # c
      BY <1>p, <1>q, <1>z, <2>2, <3>1, <3>2 DEF Streams!PlacesAreDrains
    <3>3. CASE W = c /\ started[c]
      <4>1. 1 \in 1..Len(queue[W]) /\ queue'[W][1] = queue[W][1] /\ \A i \in 1..Len(queue'[W]) : i = 1
        <5>1. Len(queue[c]) \in Nat \ {0}
          BY <1>q, <2>2, <3>3, EmptySeq
        <5>2. Len(queue'[c]) = 1 /\ queue'[c][1] = queue[c][1]
          BY <2>2, <3>3
        <5>3. 1 \in 1..Len(queue[c]) /\ \A i \in 1..Len(queue'[c]) : i = 1
          BY <5>1, <5>2
        <5> QED
          BY <3>3, <5>2, <5>3
      <4> QED
        BY <1>p, <2>2, <3>1, <3>3, <4>1 DEF Streams!PlacesAreDrains
    <3>4. CASE W = c /\ ~started[c]
      <4>1. 1..Len(queue'[W]) = {}
        BY <2>2, <3>4
      <4> QED
        BY <4>1 DEF Streams!PlacesAreDrains
    <3> QED
      BY <3>2, <3>3, <3>4
  <2>7. Streams!ReadIsUnderWay'
    <3>1. Camera[at] \in Cameras
      BY <1>q DEF Cameras
    <3>2. proc[Camera[at]] = "dead" => proc'[Camera[at]] = "dead"
      BY <1>q, <2>1, <3>1
    <3> QED
      BY <1>t, <1>x, <2>2, <3>2 DEF Streams!ReadIsUnderWay
  <2> QED
    BY <2>3, <2>4, <2>5, <2>6, <2>7 DEF Streams!IInv
<1>w. ASSUME Streams!NoPipes, drain' \in {"idle", "called", "read", "recv", "record"},
             at' \in 1..Len(Camera),
             proc' \in [Cameras -> {"booting", "running", "orphan", "dead"}],
             Streams!ReadIsUnderWay'
      PROVE  Streams!IInv'
  <2>1. \A c \in Cameras : queue'[c] = <<>> /\ started'[c] = FALSE
    BY <1>q, <1>w DEF Streams!NoPipes
  <2>2. <<>> \in Seq(0..MaxLeft) /\ Len(<<>>) = 0 /\ 1..0 = {}
    OBVIOUS
  <2>3. queue' \in [Cameras -> Seq(0..MaxLeft)] /\ started' \in [Cameras -> BOOLEAN]
    BY <1>q, <1>w, <2>2 DEF Streams!NoPipes
  <2>4. Streams!QueueTypeOK'
    BY <1>w, <2>3, SameQueues DEF Streams!QueueTypeOK
  <2>5. Streams!QueueIsBounded'
    BY <1>q, <1>z, <2>1, <2>2 DEF Streams!QueueIsBounded
  <2>6. Streams!PipeHoldsHead'
    BY <1>q, <2>1 DEF Streams!PipeHoldsHead
  <2>7. Streams!PlacesAreDrains'
    <3>1. 1..Len(queue'[W]) = {}
      BY <1>z, <2>1, <2>2
    <3> QED
      BY <3>1 DEF Streams!PlacesAreDrains
  <2> QED
    BY <1>w, <2>4, <2>5, <2>6, <2>7 DEF Streams!IInv
<1>0. ASSUME UNCHANGED <<queue, started, proc>>,
             drain' \in {"idle", "called", "read", "recv", "record"}, at' \in 1..Len(Camera),
             Streams!ReadIsUnderWay',
             Streams!Due' => Streams!Due \/ started[W]
                             \/ \A i \in 1..Len(queue[W]) : queue[W][i] + i <= QueueSize
      PROVE  Streams!IInv'
  <2>1. \A d \in Cameras : Streams!Alive(d) => Streams!Alive(d)'
    BY <1>0 DEF Streams!Alive
  <2>2. proc' \in [Cameras -> {"booting", "running", "orphan", "dead"}]
    BY <1>q, <1>0
  <2> QED
    BY <1>0, <2>1, <2>2, QueuesStay
<1>1. CASE Streams!TimerFires
  <2>1. /\ UNCHANGED <<queue, started, proc>> /\ drain' = "called" /\ at' = at
        /\ Streams!FedInTime
    BY <1>1 DEF Streams!TimerFires, Streams!pipes
  <2>2. started[W] \/ queue[W] = <<>>
    BY <1>q, <1>z, <1>h, <2>1 DEF Streams!FedInTime
  <2>3. started[W] \/ \A i \in 1..Len(queue[W]) : queue[W][i] + i <= QueueSize
    <3>1. 1..Len(<<>>) = {}
      OBVIOUS
    <3> QED
      BY <2>2, <3>1
  <2> QED
    BY <1>0, <1>q, <1>z, <2>1, <2>3 DEF Streams!ReadIsUnderWay
<1>2. CASE Streams!EnterPoll
  <2>1. /\ UNCHANGED <<queue, started, proc>> /\ drain = "called" /\ drain' \in {"read", "idle"} /\ at' = 1
    BY <1>2 DEF Streams!EnterPoll, Streams!pipes
  <2>2. 1 \in 1..Len(Camera)
    BY <1>q, QueueAssumption
  <2>3. Streams!Due
    BY <2>1 DEF Streams!Due
  <2> QED
    BY <1>0, <2>1, <2>2, <2>3 DEF Streams!ReadIsUnderWay
<1>3. ASSUME NEW c \in Cameras, Streams!ReadEmpty(c) PROVE Streams!IInv'
  <2>1. /\ Streams!LeaveBehind(c) /\ Streams!NextQueue /\ proc' = proc /\ ~started[c]
        /\ drain = "read" /\ c = Camera[at]
    BY <1>3 DEF Streams!ReadEmpty, Streams!Reading
  <2>2. /\ drain' \in {"read", "record"} /\ at' \in 1..Len(Camera)
        /\ Streams!Due' => Streams!Due /\ c # W
    BY <1>t, <2>1, WalkOn
  <2>3. /\ queue' \in [Cameras -> Seq(0..MaxLeft)] /\ started' = started
        /\ \A d \in Cameras : Len(queue[d]) \in Nat /\ Len(queue'[d]) = Len(queue[d])
        /\ \A d \in Cameras : queue'[d] = <<>> <=> queue[d] = <<>>
        /\ \A d \in Cameras : d # W \/ c # W => queue'[d] = queue[d]
        /\ c = W => \A i \in 1..Len(queue[c]) : queue'[c][i] <= queue[c][i] + 1
    BY <1>t, <2>1, LeftQueue
  <2>4. Streams!QueueTypeOK'
    BY <1>q, <2>1, <2>2, <2>3, SameQueues DEF Streams!QueueTypeOK
  <2>5. Streams!QueueIsBounded'
    BY <1>q, <1>l, <2>3 DEF Streams!QueueIsBounded
  <2>6. Streams!PipeHoldsHead'
    BY <1>q, <1>h, <2>1, <2>3 DEF Streams!PipeHoldsHead, Streams!Alive
  <2>7. Streams!PlacesAreDrains'
    <3>1. CASE c # W
      BY <1>p, <1>q, <1>z, <2>2, <2>3, <3>1 DEF Streams!PlacesAreDrains
    <3>2. CASE c = W
      <4>1. Streams!Due
        <5>1. at \in at..Len(Camera)
          BY <1>q, QueueAssumption
        <5> QED
          BY <2>1, <3>2, <5>1 DEF Streams!Due
      <4>2. \A i \in 1..Len(queue[W]) : queue[W][i] + i <= QueueSize
        BY <1>p, <2>1, <3>2, <4>1
      <4>3. \A i \in 1..Len(queue'[W]) : i \in 1..Len(queue[W]) /\ queue'[W][i] <= queue[W][i] + 1
        BY <1>z, <2>3, <3>2
      <4>5. ASSUME NEW i \in 1..Len(queue'[W]) PROVE queue'[W][i] + i <= QueueSize + 1
        <5>1. queue'[W] \in Seq(0..MaxLeft)
          BY <1>z, <2>3
        <5>2. queue'[W][i] \in Int
          BY <1>z, <5>1, ElementOfSeq
        <5>3. queue[W][i] \in Int
          BY <1>l, <1>z, <4>3
        <5>4. queue[W][i] + i <= QueueSize /\ queue'[W][i] <= queue[W][i] + 1
          BY <4>2, <4>3
        <5>5. i \in Int /\ QueueSize \in Int
          BY <1>z, <4>3
        <5> QED
          BY <5>2, <5>3, <5>4, <5>5
      <4> QED
        BY <2>2, <3>2, <4>5 DEF Streams!PlacesAreDrains
    <3> QED
      BY <3>1, <3>2
  <2>8. Streams!ReadIsUnderWay'
    BY <2>2 DEF Streams!ReadIsUnderWay
  <2> QED
    BY <2>4, <2>5, <2>6, <2>7, <2>8 DEF Streams!IInv
<1>4. ASSUME NEW c \in Cameras, Streams!ReadBegins(c) PROVE Streams!IInv'
  <2>1. /\ UNCHANGED <<queue, started, proc>> /\ drain = "read" /\ drain' = "recv" /\ at' = at
        /\ c = Camera[at] /\ started[c]
    BY <1>4 DEF Streams!ReadBegins, Streams!Reading, Streams!pipes
  <2>2. Streams!Due' => Streams!Due
    BY <2>1 DEF Streams!Due
  <2> QED
    BY <1>0, <1>q, <1>z, <2>1, <2>2 DEF Streams!ReadIsUnderWay
<1>5. ASSUME NEW c \in Cameras, Streams!ReadFrame(c) PROVE Streams!IInv'
  <2>1. /\ Streams!TakeFrame(c) /\ Streams!Alive(c) /\ proc' = proc
        /\ drain = "recv" /\ drain' = "read" /\ at' = at /\ c = Camera[at]
    BY <1>5 DEF Streams!ReadFrame, Streams!Receiving
  <2>2. started[c] /\ queue[c] # <<>>
    BY <1>h, <1>t, <2>1 DEF Streams!ReadIsUnderWay, Streams!Alive
  <2>3. /\ queue' \in [Cameras -> Seq(0..MaxLeft)]
        /\ started' = [started EXCEPT ![c] = FALSE]
        /\ \A d \in Cameras : d # c => queue'[d] = queue[d]
        /\ Len(queue[c]) \in Nat /\ Len(queue'[c]) = Len(queue[c]) - 1
        /\ \A i \in 1..Len(queue'[c]) : i + 1 \in 1..Len(queue[c]) /\ queue'[c][i] = queue[c][i + 1]
    BY <1>t, <2>1, <2>2, TakenQueue
  <2>4. \A d \in Cameras : started'[d] = (d # c /\ started[d])
    BY <1>q, <2>3
  <2>5. Streams!QueueTypeOK'
    <3>1. started' \in [Cameras -> BOOLEAN]
      BY <1>q, <2>3
    <3> QED
      BY <1>q, <2>1, <2>3, <3>1, SameQueues DEF Streams!QueueTypeOK
  <2>6. Streams!QueueIsBounded'
    <3> SUFFICES ASSUME NEW d \in Cameras PROVE Len(queue'[d]) <= QueueSize
      BY <1>q DEF Streams!QueueIsBounded
    <3>1. CASE d # c
      BY <1>l, <2>3, <3>1
    <3>2. CASE d = c
      BY <1>l, <1>z, <2>3, <3>2
    <3> QED
      BY <3>1, <3>2
  <2>7. Streams!PipeHoldsHead'
    <3> SUFFICES ASSUME NEW d \in Cameras
                 PROVE  /\ started'[d] => queue'[d] # <<>>
                        /\ ~Streams!Alive(d)' /\ ~started'[d] => queue'[d] = <<>>
      BY <1>q DEF Streams!PipeHoldsHead
    <3>1. Streams!Alive(d)' <=> Streams!Alive(d)
      BY <2>1 DEF Streams!Alive
    <3> QED
      BY <1>h, <2>1, <2>3, <2>4, <3>1
  <2>8. Streams!ReadIsUnderWay'
    BY <2>1 DEF Streams!ReadIsUnderWay
  <2>9. Streams!PlacesAreDrains'
    <3>1. CASE c # W
      <4>1. Streams!Due' => Streams!Due
        BY <2>1 DEF Streams!Due
      <4> QED
        BY <1>p, <1>z, <2>3, <2>4, <3>1, <4>1 DEF Streams!PlacesAreDrains
    <3>2. CASE c = W
      <4>1. ASSUME NEW i \in 1..Len(queue'[W]) PROVE queue'[W][i] + i <= QueueSize
        <5>1. i + 1 \in 1..Len(queue[W]) /\ queue'[W][i] = queue[W][i + 1]
          BY <2>3, <3>2
        <5>2. queue[W][i + 1] \in Int /\ queue[W][i + 1] + (i + 1) <= QueueSize + 1
          BY <1>l, <1>p, <1>z, <5>1
        <5> QED
          BY <1>z, <5>1, <5>2
      <4>2. \A i \in 1..Len(queue'[W]) : queue'[W][i] \in Int
        <5>1. queue'[W] \in Seq(0..MaxLeft)
          BY <1>z, <2>3
        <5> QED
          BY <1>z, <5>1, ElementOfSeq
      <4>3. \A i \in 1..Len(queue'[W]) : queue'[W][i] + i <= QueueSize + 1
        BY <1>z, <4>1, <4>2
      <4> QED
        BY <4>1, <4>3 DEF Streams!PlacesAreDrains
    <3> QED
      BY <3>1, <3>2
  <2> QED
    BY <2>5, <2>6, <2>7, <2>8, <2>9 DEF Streams!IInv
<1>6. ASSUME NEW c \in Cameras, Streams!ReadEOF(c) PROVE Streams!IInv'
  <2>1. /\ UNCHANGED <<queue, started, proc>> /\ Streams!NextQueue
        /\ drain = "recv" /\ c = Camera[at]
    BY <1>6 DEF Streams!ReadEOF, Streams!Receiving, Streams!pipes
  <2>2. /\ drain' \in {"read", "record"} /\ at' \in 1..Len(Camera)
        /\ Streams!Due' => Streams!Due /\ c # W
    BY <1>t, <2>1, WalkOn
  <2> QED
    BY <1>0, <2>1, <2>2 DEF Streams!ReadIsUnderWay
<1>7. CASE Streams!Record
  <2>1. UNCHANGED <<queue, started, proc>> /\ drain' = "idle" /\ at' = at
    BY <1>7 DEF Streams!Record, Streams!pipes
  <2> QED
    BY <1>0, <1>q, <2>1 DEF Streams!ReadIsUnderWay, Streams!Due
<1>8. CASE UNCHANGED <<queue, started, proc, drain, at>>
  BY <1>0, <1>8, <1>q, <1>t DEF Streams!ReadIsUnderWay, Streams!Due
<1>9. CASE Streams!Reap
  <2>1. Streams!NoPipes /\ proc' = proc /\ drain' = drain /\ at' = at /\ Streams!Living = {}
    BY <1>9 DEF Streams!Reap, Streams!drainer
  <2>2. Camera[at] \in Cameras
    BY <1>q DEF Cameras
  <2>3. proc[Camera[at]] = "dead"
    BY <1>q, <2>1, <2>2 DEF Streams!Living
  <2>4. Streams!ReadIsUnderWay'
    BY <2>1, <2>3 DEF Streams!ReadIsUnderWay
  <2> QED
    BY <1>q, <1>w, <2>1, <2>4
<1>10. CASE Streams!Exit \/ Streams!Kill
  <2>1. Streams!NoPipes /\ drain' = "idle" /\ at' = 1
    BY <1>10 DEF Streams!Exit, Streams!Kill, Streams!Ended
  <2>2. proc' \in [Cameras -> {"booting", "running", "orphan", "dead"}]
    BY <1>10, <1>q DEF Streams!Exit, Streams!Kill
  <2>3. 1 \in 1..Len(Camera)
    BY <1>q, QueueAssumption
  <2> QED
    BY <1>w, <2>1, <2>2, <2>3 DEF Streams!ReadIsUnderWay
<1>11. ASSUME NEW c \in Cameras, Streams!Crash(c) \/ Streams!Terminate(c) PROVE Streams!IInv'
  <2>1. Streams!Dies(c) /\ drain' = drain /\ at' = at
    BY <1>11 DEF Streams!Crash, Streams!Terminate, Streams!drainer
  <2> QED
    BY <1>x, <2>1
<1>12. CASE \/ Streams!Close \/ Streams!BeginClosing \/ Streams!DropWriters
            \/ Streams!Tick \/ UNCHANGED Streams!vars
  BY <1>8, <1>12 DEF Streams!Close, Streams!BeginClosing, Streams!DropWriters,
       Streams!Tick,
       Streams!vars, Streams!pipes, Streams!drainer
<1>13. ASSUME NEW c \in Cameras, Streams!OnImage(c) PROVE Streams!IInv'
  BY <1>12, <1>13, <1>d DEF Streams!OnImage, Streams!Skip
<1> QED
  BY <1>1, <1>2, <1>3, <1>4, <1>5, <1>6, <1>7, <1>9, <1>10, <1>11, <1>12, <1>13,
       <1>b, <1>f, <1>q
     DEF Streams!Next, Streams!Drain, Streams!Teardown

\* A frame that is read was put at most as many drains before as the queue has
\* places, whatever the cameras, the workers' deaths and the parent's.
THEOREM FramesAreRecent == Streams!Spec => []FrameIsRecent
<1>1. Streams!Init => Streams!IInv
  <2> SUFFICES ASSUME Streams!Init PROVE Streams!IInv
    OBVIOUS
  <2> USE QueueAssumption, SameQueues
  <2>1. <<>> \in Seq(0..MaxLeft) /\ Len(<<>>) = 0 /\ 1..0 = {}
    OBVIOUS
  <2>2. /\ \A c \in Cameras : queue[c] = <<>> /\ started[c] = FALSE /\ proc[c] = "booting"
        /\ drain = "idle" /\ at = 1
    BY DEF Streams!Init
  <2>3. Streams!QueueTypeOK
    <3>1. queue \in [Cameras -> Seq(0..MaxLeft)] /\ started \in [Cameras -> BOOLEAN]
      BY <2>1 DEF Streams!Init
    <3>2. 1 \in 1..Len(Camera)
      <4>1. PICK i \in 1..Len(Camera) : Camera[i] = Watched
        BY DEF Cameras
      <4>2. Len(Camera) \in Nat
        BY LenProperties
      <4> QED
        BY <4>1, <4>2
    <3> QED
      BY <3>1, <3>2 DEF Streams!Init, Streams!QueueTypeOK
  <2>4. Streams!QueueIsBounded
    BY <2>1, <2>2 DEF Streams!QueueIsBounded
  <2>5. Streams!PipeHoldsHead /\ Streams!ReadIsUnderWay
    BY <2>2 DEF Streams!PipeHoldsHead, Streams!ReadIsUnderWay
  <2>6. Streams!PlacesAreDrains
    BY <2>1, <2>2 DEF Streams!PlacesAreDrains
  <2> QED
    BY <2>3, <2>4, <2>5, <2>6 DEF Streams!IInv
<1>2. Streams!IInv => FrameIsRecent
  <2> SUFFICES ASSUME Streams!IInv, NEW i \in 1..Len(queue[Watched])
               PROVE  queue[Watched][i] <= QueueSize
    BY DEF FrameIsRecent
  <2>1. queue[Watched] \in Seq(0..MaxLeft)
    BY QueueAssumption, SameQueues DEF Streams!IInv, Streams!QueueTypeOK
  <2>2. queue[Watched][i] \in 0..MaxLeft /\ i \in Nat /\ i >= 1
    <3>1. Len(queue[Watched]) \in Nat
      BY <2>1, LenProperties
    <3>2. queue[Watched][i] \in 0..MaxLeft
      BY <2>1, ElementOfSeq
    <3> QED
      BY <3>1, <3>2
  <2>3. queue[Watched][i] + i <= QueueSize + 1
    BY DEF Streams!IInv, Streams!PlacesAreDrains
  <2> QED
    BY <2>2, <2>3, QueueAssumption DEF MaxLeft
<1> QED
  BY <1>1, <1>2, StreamStep, PTL DEF Streams!Spec

-----------------------------------------------------------------------------
\* The episodes.

\* Every set of numbers that is not empty has a least one.
LEMMA LeastNumber ==
  ASSUME NEW T \in SUBSET Nat, T # {}
  PROVE  \E x \in T : \A y \in T : x <= y
<1> DEFINE R == {ss \in Nat \X Nat : ss[1] < ss[2]}
<1>1. IsWellFoundedOn(R, Nat)
  BY NatLessThanWellFounded DEF OpToRel
<1>2. \E x \in T : \A y \in T : ~(<<y, x>> \in R)
  <2> HIDE DEF R
  <2> QED
    BY <1>1, WFMin
<1>3. PICK x \in T : \A y \in T : ~(<<y, x>> \in R)
  BY <1>2
<1>4. \A y \in T : ~(y < x)
  BY <1>3
<1> QED
  BY <1>4

\* The samples that stay begin somewhere: First chooses an index that is there.
LEMMA FirstExists ==
  ASSUME NEW s \in Seq(Sample), s # <<>>
  PROVE  First(s) \in 1..Len(s)
<1>1. Len(s) \in Nat \ {0} /\ \A i \in 1..Len(s) : s[i].age \in Int
  <2>1. Len(s) \in Nat \ {0}
    BY EmptySeq
  <2>2. \A i \in 1..Len(s) : s[i] \in Sample
    BY ElementOfSeq
  <2> QED
    BY <2>1, <2>2, EpisodesAssumption DEF Sample
<1> DEFINE T == {k \in 1..Len(s) : k < Len(s) - 1 => s[k + 1].age < Window}
<1>2. T \in SUBSET Nat /\ Len(s) \in T
  BY <1>1
<1>3. PICK k \in T : \A y \in T : k <= y
  BY <1>2, LeastNumber
<1>4. k \in 1..Len(s) /\ (k < Len(s) - 1 => s[k + 1].age < Window)
  OBVIOUS
<1>5. ASSUME NEW j \in 2..k PROVE s[j].age >= Window
  <2>1. j - 1 \in 1..Len(s) /\ j \in 1..Len(s) /\ j - 1 < k
    BY <1>1, <1>4
  <2>2. j - 1 \notin T
    BY <1>1, <1>3, <1>4, <2>1
  <2>3. ~(s[(j - 1) + 1].age < Window) /\ (j - 1) + 1 = j
    BY <2>1, <2>2
  <2> QED
    BY <1>1, <2>1, <2>3, EpisodesAssumption
<1> HIDE DEF T
<1>6. \E i \in 1..Len(s) :
        /\ \A j \in 2..i : s[j].age >= Window
        /\ i < Len(s) - 1 => s[i + 1].age < Window
  BY <1>4, <1>5
<1> QED
  BY <1>6 DEF First

\* What a look adds to the samples, and what it keeps of them.
LEMMA AddedType ==
  ASSUME samples \in Seq(Sample), arm' \in Errors
  PROVE  /\ Added \in Seq(Sample) /\ Added # <<>>
         /\ \A i \in 1..Len(Added) :
              Added[i].age = 0 \/ (~rebased /\ i \in 1..Len(samples) /\ Added[i] = samples[i])
<1> DEFINE kept == IF rebased THEN <<>> ELSE samples
           sample == [age |-> 0, error |-> arm']
<1>1. kept \in Seq(Sample) /\ sample \in Sample /\ sample.age = 0
  BY EpisodesAssumption DEF Sample
<1>2. Added = IF kept # <<>> /\ kept[Len(kept)] = sample THEN kept ELSE Append(kept, sample)
  BY DEF Added
<1>3. \A i \in 1..Len(kept) : ~rebased /\ i \in 1..Len(samples) /\ kept[i] = samples[i]
  OBVIOUS
<1> HIDE DEF kept, sample
<1>4. CASE Added = kept /\ kept # <<>>
  BY <1>1, <1>3, <1>4
<1>5. CASE Added = Append(kept, sample)
  <2>1. /\ Added \in Seq(Sample) /\ Added # <<>> /\ Len(Added) = Len(kept) + 1
        /\ Added[Len(kept) + 1] = sample
        /\ \A i \in 1..Len(kept) : Added[i] = kept[i]
    BY <1>1, <1>5, AppendProperties
  <2>2. Len(kept) \in Nat
    BY <1>1, LenProperties
  <2>3. \A i \in 1..Len(Added) : i = Len(kept) + 1 \/ i \in 1..Len(kept)
    BY <2>1, <2>2
  <2> QED
    BY <1>1, <1>3, <2>1, <2>3
<1> QED
  BY <1>2, <1>4, <1>5

LEMMA KeptType ==
  ASSUME samples \in Seq(Sample), arm' \in Errors
  PROVE  /\ Kept \in Seq(Sample) /\ 1 \in 1..Len(Kept)
         /\ \A i \in 1..Len(Kept) :
              Kept[i].age = 0 \/ (~rebased /\ \E j \in 1..Len(samples) : Kept[i] = samples[j])
<1> DEFINE s == Added
           m == First(s)
<1>1. /\ s \in Seq(Sample) /\ s # <<>>
      /\ \A i \in 1..Len(s) : s[i].age = 0 \/ (~rebased /\ i \in 1..Len(samples) /\ s[i] = samples[i])
  BY AddedType
<1>2. m \in 1..Len(s)
  BY <1>1, FirstExists
<1>3. Kept = SubSeq(s, m, Len(s))
  BY DEF Kept
<1> HIDE DEF s, m
<1>4. Len(s) \in Nat /\ m \in Int /\ m <= Len(s) /\ \A i \in m..Len(s) : s[i] \in Sample
  BY <1>1, <1>2, LenProperties, ElementOfSeq
<1>5. Kept \in Seq(Sample) /\ Len(Kept) = Len(s) - m + 1
      /\ \A i \in 1..(Len(s) - m + 1) : Kept[i] = s[m + i - 1]
  BY <1>3, <1>4, SubSeqProperties
<1>6. 1 \in 1..Len(Kept) /\ \A i \in 1..Len(Kept) : m + i - 1 \in 1..Len(s) /\ Kept[i] = s[m + i - 1]
  BY <1>2, <1>4, <1>5
<1> QED
  BY <1>1, <1>5, <1>6

USE EpisodesAssumption

\* A step of the clock ages the samples.
LEMMA AgedType ==
  ASSUME samples \in Seq(Sample)
  PROVE  /\ Aged(samples) \in Seq(Sample) /\ Len(Aged(samples)) = Len(samples)
         /\ \A i \in 1..Len(samples) : Aged(samples)[i].age = Later(samples[i].age, Window)
<1>1. Len(samples) \in Nat /\ \A i \in 1..Len(samples) : samples[i] \in Sample
  BY LenProperties, ElementOfSeq
<1>2. \A i \in 1..Len(samples) : Later(samples[i].age, Window) \in 0..Window
  BY <1>1 DEF Later, Sample
<1>3. \A i \in 1..Len(samples) :
        /\ [samples[i] EXCEPT !.age = Later(@, Window)] \in Sample
        /\ [samples[i] EXCEPT !.age = Later(@, Window)].age = Later(samples[i].age, Window)
  BY <1>1, <1>2 DEF Sample
<1>4. Aged(samples) \in [1..Len(samples) -> Sample]
  BY <1>3 DEF Aged
<1>5. Aged(samples) \in Seq(Sample) /\ Len(Aged(samples)) = Len(samples)
  BY <1>1, <1>4
<1> QED
  BY <1>3, <1>5 DEF Aged

\* One look at the arms, whatever it decides.
LEMMA LookType ==
  ASSUME TypeOK, LookAtArms
  PROVE  /\ pc = "arms" /\ rebased' = FALSE /\ looked' = TRUE
         /\ UNCHANGED <<explicit, episode, dirty, score, evaluation, events, asked, heard, since, spine>>
         /\ jam' \in BOOLEAN /\ arm' \in Errors
         /\ \/ jam' = jam /\ arm' = arm
            \/ jam' /\ arm' = MaxError
         /\ elapsed' \in 0..SimTimeout \cup {None}
         /\ samples' \in Seq(Sample) /\ 1 \in 1..Len(samples')
         /\ \A i \in 1..Len(samples') :
              samples'[i].age = 0 \/ (~rebased /\ \E j \in 1..Len(samples) : samples'[i] = samples[j])
<1>1. jam' \in BOOLEAN /\ arm' \in Errors /\ ((jam' = jam /\ arm' = arm) \/ (jam' /\ arm' = MaxError))
  <2>1. MaxError \in Errors
    BY DEF Errors
  <2> QED
    BY <2>1, Zenon DEF TypeOK, LookAtArms, Commanded
<1>2. samples \in Seq(Sample)
  BY DEF TypeOK, Sample
<1>3. samples' = Kept
  BY DEF LookAtArms
<1>4. elapsed' \in 0..SimTimeout \cup {None}
  BY DEF TypeOK, LookAtArms, Elapsed
<1> QED
  BY <1>1, <1>2, <1>3, <1>4, KeptType DEF LookAtArms

\* Every step keeps the types.
LEMMA TypeStep == TypeOK /\ [Next]_vars => TypeOK'
<1> SUFFICES ASSUME TypeOK, [Next]_vars PROVE TypeOK'
  OBVIOUS
<1> USE DEF monitor, score, sim, evaluation
<1>0. 0 \in 0..WallTimeout /\ 0 \in 0..SnapTime /\ MaxError \in Errors /\ 0 \in 0..SimTimeout
  BY DEF Errors
<1>1. CASE ServeReset
  <2>1. dirty' \in SUBSET Leftovers
    BY <1>1 DEF TypeOK, ServeReset, Rebase
  <2>2. rebased' \in BOOLEAN
    BY <1>1, Zenon DEF ServeReset, Rebase
  <2> QED
    BY <1>0, <1>1, <2>1, <2>2, ZenonT(40) DEF TypeOK, ServeReset, Rebase
<1>2. CASE OtherReset
  <2>1. dirty' \in SUBSET Leftovers
    BY <1>2 DEF TypeOK, OtherReset, Rebase
  <2>2. rebased' \in BOOLEAN
    BY <1>2, Zenon DEF OtherReset, Rebase
  <2> QED
    BY <1>0, <1>2, <2>1, <2>2, ZenonT(40) DEF TypeOK, OtherReset, Rebase
<1>3. CASE ServiceAnswers
  BY <1>3 DEF TypeOK, ServiceAnswers
<1>4. CASE Written
  <2>1. PICK e \in owed : newest' \in {newest, e} /\ owed' = owed \ {e}
    BY <1>4 DEF Written
  <2>2. newest' \in 0..Episodes /\ owed' \subseteq 1..Episodes /\ overdue' \subseteq 1..Episodes
    BY <1>4, <2>1 DEF TypeOK, Written
  <2>3. UNCHANGED <<explicit, pc, episode, wall, elapsed, samples, warned, dirty, before, row>>
    BY <1>4 DEF Written
  <2>4. UNCHANGED <<events, asked, heard, looked, rebased, since, spine, jam, arm, service>>
    BY <1>4 DEF Written
  <2>5. /\ explicit' \in BOOLEAN /\ episode' \in 1..Episodes /\ wall' \in 0..WallTimeout
        /\ elapsed' \in 0..SimTimeout \cup {None} /\ samples' \in Seq(Sample)
        /\ before' \in 0..Episodes /\ row' \in 0..Episodes \cup {None}
    BY <2>3, Zenon DEF TypeOK
  <2>6. /\ pc' \in Before \cup {"call", "json", "scored", "over", "raised"}
        /\ warned' \in BOOLEAN /\ dirty' \in SUBSET Leftovers
    BY <2>3, Zenon DEF TypeOK
  <2>7. /\ events' \in BOOLEAN /\ asked' \in BOOLEAN /\ heard' \in BOOLEAN
        /\ looked' \in BOOLEAN /\ rebased' \in BOOLEAN /\ since' \in 0..SnapTime
        /\ spine' \in BOOLEAN /\ jam' \in BOOLEAN /\ arm' \in Errors
        /\ service' \in {"idle", "called", "success", "failure"}
    BY <2>4, Zenon DEF TypeOK
  <2> QED
    BY <2>2, <2>5, <2>6, <2>7, Zenon DEF TypeOK
<1>5. CASE WallClock
  BY <1>5 DEF TypeOK, WallClock
<1>6. CASE Reset
  BY <1>0, <1>6, ZenonT(40) DEF TypeOK, Reset, Goto, Before
<1>7. CASE Acknowledged
  <2>1. dirty' \in SUBSET Leftovers /\ samples' \in Seq(Sample)
    BY <1>7, EmptySeq DEF TypeOK, Acknowledged
  <2> QED
    BY <1>0, <1>7, <2>1, ZenonT(40) DEF TypeOK, Acknowledged, Goto, Before
<1>8. CASE ResetTimesOut
  BY <1>0, <1>8 DEF TypeOK, ResetTimesOut, Raise, Goto, Before
<1>9. CASE AwaitSpine
  <2>1. elapsed' \in 0..SimTimeout \cup {None}
    BY <1>9 DEF TypeOK, AwaitSpine, Elapsed
  <2> QED
    BY <1>9, <2>1, Zenon DEF TypeOK, AwaitSpine, Look
<1>10. CASE SpineWaited
  <2>1. looked' \in BOOLEAN
    BY <1>10, Zenon DEF SpineWaited
  <2> QED
    BY <1>10, <2>1 DEF TypeOK, SpineWaited, Goto, Before
<1>11. CASE RecentreLate
  <2>1. /\ pc' \in {"clear", "raised"} /\ wall' = 0 /\ warned' \in BOOLEAN
        /\ UNCHANGED <<explicit, episode, monitor, dirty, score, sim, evaluation>>
    BY <1>11, Zenon DEF TypeOK, RecentreLate, Unreached, Raise, Goto
  <2> QED
    BY <1>0, <2>1 DEF TypeOK, Before
<1>12. CASE Clear
  <2>1. dirty' \in SUBSET Leftovers
    BY <1>12 DEF TypeOK, Clear
  <2> QED
    BY <1>0, <1>12, <2>1 DEF TypeOK, Clear, Goto, Raise, Before
<1>13. CASE RunRollout
  BY <1>0, <1>13 DEF TypeOK, RunRollout, Goto, Raise, Before
<1>14. CASE Evaluate
  <2>1. /\ owed' \subseteq 1..Episodes /\ overdue' \subseteq 1..Episodes
        /\ before' \in 0..Episodes /\ service' \in {"idle", "called", "success", "failure"}
    BY <1>14 DEF TypeOK, Evaluate
  <2>2. pc' \in Before \cup {"call", "json", "scored", "over", "raised"} /\ wall' = 0
    BY <1>14 DEF Evaluate, Goto
  <2> QED
    BY <1>0, <1>14, <2>1, <2>2, ZenonT(40) DEF TypeOK, Evaluate
<1>15. CASE NoService \/ CallFails \/ NoEvaluation \/ Finish
  <2>1. PICK from \in {"evaluate", "call", "json", "scored"} : Done(from) /\ NotScored
    BY <1>15, Zenon DEF NoService, CallFails, NoEvaluation, Finish
  <2>2. /\ pc' \in {"reset", "over"} /\ wall' = 0 /\ episode' \in 1..Episodes
    BY <2>1 DEF TypeOK, Done, Goto
  <2> QED
    BY <1>0, <2>1, <2>2 DEF TypeOK, NotScored, Before
<1>16. CASE CallSucceeds
  BY <1>0, <1>16 DEF TypeOK, CallSucceeds, Goto, Before
<1>17. CASE Scored
  BY <1>0, <1>17 DEF TypeOK, Scored, Goto, Before
<1>18. CASE Clock
  <2>1. samples' \in Seq(Sample)
    BY <1>18, AgedType DEF TypeOK, Clock
  <2>2. arm' \in Errors
    BY <1>18 DEF TypeOK, Clock, ArmsMove, Errors
  <2>3. since' \in 0..SnapTime /\ elapsed' \in 0..SimTimeout \cup {None}
    BY <1>18 DEF TypeOK, Clock, Later
  <2>4. spine' \in BOOLEAN
    BY <1>18, Zenon DEF TypeOK, Clock
  <2> QED
    BY <1>18, <2>1, <2>2, <2>3, <2>4, ZenonT(40) DEF TypeOK, Clock
<1>19. CASE Recentring \/ Reached \/ Missed
  <2>1. /\ LookAtArms /\ pc' \in {"arms", "clear", "raised"} /\ wall' \in {0, wall}
        /\ warned' \in BOOLEAN
    BY <1>19, LookType, ZenonT(40) DEF TypeOK, Recentring, Reached, Missed, Unreached, Goto
  <2>2. pc' \in Before \cup {"call", "json", "scored", "over", "raised"}
    BY <2>1 DEF Before
  <2>3. wall' \in 0..WallTimeout
    BY <1>0, <2>1 DEF TypeOK
  <2>4. /\ UNCHANGED <<explicit, episode, dirty, score, evaluation, events, asked, heard>>
        /\ UNCHANGED <<since, spine>> /\ rebased' = FALSE /\ looked' = TRUE
        /\ jam' \in BOOLEAN /\ arm' \in Errors /\ samples' \in Seq(Sample)
        /\ elapsed' \in 0..SimTimeout \cup {None}
    BY <2>1, LookType
  <2>5. explicit' \in BOOLEAN /\ episode' \in 1..Episodes /\ dirty' \in SUBSET Leftovers
    BY <2>4 DEF TypeOK
  <2>6. before' \in 0..Episodes /\ row' \in 0..Episodes \cup {None}
    BY <2>4 DEF TypeOK
  <2>7. /\ events' \in BOOLEAN /\ asked' \in BOOLEAN /\ heard' \in BOOLEAN
        /\ since' \in 0..SnapTime /\ spine' \in BOOLEAN
    BY <2>4 DEF TypeOK
  <2>8. /\ service' \in {"idle", "called", "success", "failure"}
        /\ owed' \subseteq 1..Episodes /\ newest' \in 0..Episodes
        /\ overdue' \subseteq 1..Episodes
    BY <2>4 DEF TypeOK
  <2>9. looked' \in BOOLEAN /\ rebased' \in BOOLEAN
    BY <2>4, Zenon
  <2> QED
    BY <2>1, <2>2, <2>3, <2>4, <2>5, <2>6, <2>7, <2>8, <2>9, Zenon DEF TypeOK
<1>20. CASE UNCHANGED vars
  BY <1>20 DEF TypeOK, vars
<1> QED
  BY <1>1, <1>2, <1>3, <1>4, <1>5, <1>6, <1>7, <1>8, <1>9, <1>10, <1>11, <1>12,
       <1>13, <1>14, <1>15,
     <1>16, <1>17, <1>18, <1>19, <1>20
  DEF Next, Step, World, Over

\* A file is of an episode whose call was made.
LEMMA FilesStep == TypeOK /\ FilesAreInTurn /\ [Next]_vars => FilesAreInTurn'
<1> SUFFICES ASSUME TypeOK, FilesAreInTurn, [Next]_vars PROVE FilesAreInTurn'
  OBVIOUS
<1> USE DEF monitor, score, sim, evaluation
<1>0. /\ episode \in Int /\ newest \in Int /\ before \in Int
      /\ owed \subseteq Int /\ overdue \subseteq Int
  BY DEF TypeOK
<1>1. CASE /\ UNCHANGED <<episode, before, owed, newest, overdue>>
           /\ pc' \in Before => pc \in Before
           /\ pc' \in {"call", "json"} => pc \in {"call", "json"}
  BY <1>1 DEF FilesAreInTurn
<1>2. CASE Written
  <2>1. PICK e \in owed : newest' \in {newest, e} /\ owed' = owed \ {e}
    BY <1>2 DEF Written
  <2>2. UNCHANGED <<pc, episode, before, overdue>>
    BY <1>2 DEF Written
  <2> QED
    BY <1>0, <2>1, <2>2 DEF FilesAreInTurn
<1>3. CASE Evaluate
  <2>1. /\ pc = "evaluate" /\ pc' = "call" /\ UNCHANGED <<episode, newest>>
        /\ before' = newest /\ owed' = owed \cup {episode} /\ overdue' = owed
    BY <1>3 DEF Evaluate, Goto
  <2> QED
    BY <1>0, <2>1 DEF FilesAreInTurn, Before
<1>4. CASE NoService \/ CallFails \/ NoEvaluation \/ Finish
  <2>1. PICK from \in {"evaluate", "call", "json", "scored"} : Done(from) /\ NotScored
    BY <1>4, Zenon DEF NoService, CallFails, NoEvaluation, Finish
  <2>2. UNCHANGED <<before, newest, owed, overdue>>
    BY <2>1 DEF NotScored
  <2>3. \/ pc' = "reset" /\ episode' = episode + 1
        \/ pc' = "over" /\ episode' = episode
    BY <2>1 DEF Done, Goto
  <2> QED
    BY <1>0, <2>2, <2>3 DEF FilesAreInTurn, Before
<1>5. CASE (World /\ ~Written) \/ WallClock \/ UNCHANGED vars
  BY <1>1, <1>5 DEF World, ServeReset, OtherReset, Clock, ServiceAnswers, WallClock, vars
<1>6. CASE Reset \/ Acknowledged \/ ResetTimesOut \/ AwaitSpine \/ SpineWaited
  BY <1>1, <1>6 DEF Reset, Acknowledged, ResetTimesOut, AwaitSpine, SpineWaited,
       Goto, Raise, Before
<1>7. CASE Recentring \/ Reached \/ Missed \/ RecentreLate
  BY <1>1, <1>7 DEF Recentring, Reached, Missed, RecentreLate, LookAtArms,
       Unreached, Goto, Raise, Before
<1>8. CASE Clear \/ RunRollout \/ CallSucceeds \/ Scored
  BY <1>1, <1>8 DEF Clear, RunRollout, CallSucceeds, Scored, Goto, Raise, Before
<1> QED
  BY <1>2, <1>3, <1>4, <1>5, <1>6, <1>7, <1>8 DEF Next, Step, Over, World

\* A row is filled with what came after the call: its own, or one overdue.
LEMMA RowStep == TypeOK /\ FilesAreInTurn /\ RowIsItsOwn /\ [Next]_vars => RowIsItsOwn'
<1> SUFFICES ASSUME FilesAreInTurn, RowIsItsOwn, [Next]_vars PROVE RowIsItsOwn'
  OBVIOUS
<1> USE DEF monitor, score, sim, evaluation, RowIsItsOwn
<1>1. CASE Scored
  BY <1>1 DEF FilesAreInTurn, Scored, NewEvaluation, Goto
<1>2. CASE UNCHANGED <<pc, episode, row, overdue>> \/ pc' # "scored"
  BY <1>2
<1>3. CASE World \/ WallClock \/ UNCHANGED vars
  BY <1>2, <1>3 DEF World, ServeReset, OtherReset, Clock, ServiceAnswers, Written,
       WallClock, vars
<1>4. CASE Reset \/ Acknowledged \/ ResetTimesOut \/ AwaitSpine \/ SpineWaited
  BY <1>2, <1>4 DEF Reset, Acknowledged, ResetTimesOut, AwaitSpine, SpineWaited,
       Goto, Raise
<1>5. CASE Recentring \/ Reached \/ Missed \/ RecentreLate
  BY <1>2, <1>5 DEF Recentring, Reached, Missed, RecentreLate, LookAtArms,
       Unreached, Goto, Raise
<1>6. CASE Clear \/ RunRollout \/ Evaluate \/ CallSucceeds
  BY <1>2, <1>6 DEF Clear, RunRollout, Evaluate, CallSucceeds, Goto, Raise
<1>7. CASE NoService \/ CallFails \/ NoEvaluation \/ Finish
  BY <1>2, <1>7 DEF NoService, CallFails, NoEvaluation, Finish, Done, Goto
<1> QED
  BY <1>1, <1>3, <1>4, <1>5, <1>6, <1>7 DEF Next, Step, Over

\* The scene is reset, the grippers are opened, the rest is cleared.
LEMMA CleanedStep == TypeOK /\ CleanedInTurn /\ [Next]_vars => CleanedInTurn'
<1> SUFFICES ASSUME TypeOK, CleanedInTurn, [Next]_vars PROVE CleanedInTurn'
  OBVIOUS
<1> USE DEF monitor, score, sim, evaluation, CleanedInTurn
<1>1. CASE ServeReset \/ OtherReset
  <2>1. dirty' = dirty \ {"scene"} /\ pc' = pc /\ pc # "rollout"
    BY <1>1 DEF ServeReset, OtherReset, Rebase
  <2> QED
    BY <2>1
<1>2. CASE Acknowledged
  BY <1>2 DEF Acknowledged, Goto
<1>3. CASE Clear
  BY <1>3 DEF TypeOK, Leftovers, Clear, Goto, Raise
<1>4. CASE /\ dirty' = dirty
           /\ \/ UNCHANGED <<pc, events>>
              \/ pc' \notin {"ack", "spine", "arms", "clear", "rollout"}
              \/ pc' = "ack" /\ ~events'
              \/ pc \in {"spine", "arms"} /\ pc' \in {"spine", "arms", "clear"}
  BY <1>4
<1>5. CASE Clock \/ ServiceAnswers \/ Written \/ WallClock \/ UNCHANGED vars
  BY <1>4, <1>5 DEF Clock, ServiceAnswers, Written, WallClock, vars
<1>6. CASE Reset \/ ResetTimesOut \/ AwaitSpine \/ SpineWaited
  BY <1>4, <1>6 DEF Reset, ResetTimesOut, AwaitSpine, SpineWaited, Goto, Raise
<1>7. CASE Recentring \/ Reached \/ Missed \/ RecentreLate
  BY <1>4, <1>7 DEF Recentring, Reached, Missed, RecentreLate, LookAtArms,
       Unreached, Goto, Raise
<1>8. CASE RunRollout
  BY <1>8 DEF RunRollout, Goto, Raise
<1>9. CASE Evaluate \/ CallSucceeds \/ Scored
  BY <1>4, <1>9 DEF Evaluate, CallSucceeds, Scored, Goto
<1>10. CASE NoService \/ CallFails \/ NoEvaluation \/ Finish
  BY <1>4, <1>10 DEF NoService, CallFails, NoEvaluation, Finish, Done, NotScored, Goto
<1> QED
  BY <1>1, <1>2, <1>3, <1>5, <1>6, <1>7, <1>8, <1>9, <1>10 DEF Next, Step, Over, World

\* The settle monitor forgets what it saw before a reset.
LEMMA SamplesStep ==
  TypeOK /\ SamplesAreOfThisReset /\ [Next]_vars => SamplesAreOfThisReset'
<1> SUFFICES ASSUME TypeOK, SamplesAreOfThisReset, [Next]_vars PROVE SamplesAreOfThisReset'
  OBVIOUS
<1> USE DEF monitor, score, sim, evaluation
<1>0. since \in 0..SnapTime /\ samples \in Seq(Sample) /\ Len(samples) \in Nat
  BY LenProperties DEF TypeOK
<1>a. \A i \in 1..Len(samples) : samples[i].age \in 0..Window
  <2>1. \A i \in 1..Len(samples) : samples[i] \in Sample
    BY <1>0, ElementOfSeq
  <2> QED
    BY <2>1 DEF Sample
<1>1. CASE pc' \notin {"spine", "arms"}
  BY <1>1 DEF SamplesAreOfThisReset
<1>2. CASE UNCHANGED <<pc, samples, rebased, since>>
  BY <1>2 DEF SamplesAreOfThisReset
<1>3. CASE samples' = <<>>
  BY <1>3 DEF SamplesAreOfThisReset
<1>4. CASE ServeReset \/ OtherReset
  <2>1. UNCHANGED <<pc, samples>> /\ rebased' = (rebased \/ since > 0) /\ since' = 0
    BY <1>4, Zenon DEF ServeReset, OtherReset, Rebase
  <2>2. CASE rebased'
    BY <2>1, <2>2 DEF SamplesAreOfThisReset
  <2>3. CASE ~rebased'
    <3>1. ~rebased /\ ~(since > 0)
      BY <2>1, <2>3, Zenon
    <3>2. since' = since
      BY <1>0, <2>1, <3>1
    <3> QED
      BY <2>1, <3>1, <3>2 DEF SamplesAreOfThisReset
  <2> QED
    BY <2>2, <2>3
<1>5. CASE Clock
  <2>1. CASE pc = "spine"
    BY <1>5, <2>1, AgedType, EmptySeq DEF SamplesAreOfThisReset, Clock, Aged
  <2>2. CASE pc = "arms" /\ ~rebased
    <3>1. /\ Len(samples') = Len(samples) /\ pc' = pc
          /\ \A i \in 1..Len(samples) : samples'[i].age = Later(samples[i].age, Window)
          /\ since' = Later(since, SnapTime)
      BY <1>0, <1>5, AgedType DEF Clock
    <3>2. ASSUME NEW i \in 1..Len(samples)
          PROVE  samples'[i].age <= since' \/ since' = SnapTime
      BY <1>0, <1>a, <2>2, <3>1, <3>2 DEF SamplesAreOfThisReset, Later
    <3> QED
      BY <2>2, <3>1, <3>2 DEF SamplesAreOfThisReset
  <2> QED
    BY <1>1, <1>5, <2>1, <2>2 DEF SamplesAreOfThisReset, Clock
<1>6. CASE ServiceAnswers \/ Written \/ WallClock \/ UNCHANGED vars
  BY <1>2, <1>6 DEF ServiceAnswers, Written, WallClock, vars
<1>7. CASE Acknowledged \/ AwaitSpine \/ SpineWaited
  <2>1. samples' = <<>>
    BY <1>7 DEF SamplesAreOfThisReset, Acknowledged, AwaitSpine, SpineWaited, Goto
  <2> QED
    BY <1>3, <2>1
<1>8. CASE Recentring \/ Reached \/ Missed
  <2>1. /\ since' = since /\ pc' # "spine"
        /\ \A i \in 1..Len(samples') :
             samples'[i].age = 0 \/ (~rebased /\ \E j \in 1..Len(samples) : samples'[i] = samples[j])
        /\ pc = "arms"
    BY <1>8, LookType DEF Recentring, Reached, Missed, Unreached, Goto
  <2> QED
    BY <1>0, <2>1 DEF SamplesAreOfThisReset
<1>9. CASE Reset \/ ResetTimesOut \/ RecentreLate \/ Clear \/ RunRollout
  BY <1>1, <1>9 DEF Reset, ResetTimesOut, RecentreLate, Clear, RunRollout,
       Unreached, Goto, Raise
<1>10. CASE \/ Evaluate \/ NoService \/ CallFails \/ CallSucceeds
            \/ Scored \/ NoEvaluation \/ Finish
  BY <1>1, <1>10
  DEF Evaluate, NoService, CallFails, CallSucceeds, Scored, NoEvaluation, Finish, Done, Goto
<1> QED
  BY <1>4, <1>5, <1>6, <1>7, <1>8, <1>9, <1>10 DEF Next, Step, Over, World

\* A plateau that is long enough began after the old target let go.
LEMMA PlateauIsLate ==
  ASSUME TypeOK, SamplesAreOfThisReset, LookAtArms, Plateau(samples')
  PROVE  since' = SnapTime
<1>1. /\ pc = "arms" /\ since' = since /\ 1 \in 1..Len(samples')
      /\ samples'[1].age = 0 \/ (~rebased /\ \E j \in 1..Len(samples) : samples'[1] = samples[j])
  BY LookType
<1>2. samples'[1].age >= Window
  BY DEF Plateau
<1>3. PICK j \in 1..Len(samples) : ~rebased /\ samples[j].age >= Window
  BY <1>1, <1>2
<1>4. since \in 0..SnapTime /\ samples[j] \in Sample
  BY <1>3, ElementOfSeq DEF TypeOK
<1> QED
  BY <1>1, <1>3, <1>4 DEF SamplesAreOfThisReset, Sample

LEMMA ArmsStep ==
  TypeOK /\ SamplesAreOfThisReset /\ JamIsFar /\ ArmsInPlace /\ [Next]_vars
    => JamIsFar' /\ ArmsInPlace'
<1> SUFFICES ASSUME TypeOK, SamplesAreOfThisReset, JamIsFar, ArmsInPlace, [Next]_vars
             PROVE  JamIsFar' /\ ArmsInPlace'
  OBVIOUS
<1> USE DEF monitor, score, sim, evaluation, JamIsFar, ArmsInPlace
<1>1. CASE ServeReset \/ OtherReset
  <2>1. jam' = FALSE /\ UNCHANGED <<explicit, warned, pc>> /\ rebased' = (rebased \/ since > 0)
    BY <1>1, Zenon DEF ServeReset, OtherReset, Rebase
  <2>2. ASSUME pc' \in {"clear", "rollout"}, ~warned', ~rebased' PROVE FALSE
    <3>1. ~rebased /\ ~(since > 0)
      BY <2>1, <2>2, Zenon
    <3>2. since = SnapTime
      BY <2>1, <2>2, <3>1
    <3> QED
      BY <3>1, <3>2
  <2> QED
    BY <2>1, <2>2
<1>2. CASE Clock
  BY <1>2 DEF Clock, ArmsMove
<1>3. CASE /\ UNCHANGED <<explicit, warned, arm, jam, since, rebased>>
           /\ pc' \in {"clear", "rollout"} => pc \in {"clear", "rollout"}
  BY <1>3
<1>4. CASE ServiceAnswers \/ Written \/ WallClock \/ UNCHANGED vars
  BY <1>3, <1>4 DEF ServiceAnswers, Written, WallClock, vars
<1>5. CASE Reset \/ Acknowledged \/ ResetTimesOut \/ AwaitSpine \/ SpineWaited
  BY <1>5 DEF Reset, Acknowledged, ResetTimesOut, AwaitSpine, SpineWaited, Look,
       Goto, Raise
<1>6. CASE Recentring
  BY <1>6, LookType DEF Recentring
<1>7. CASE Reached
  <2>1. arm' <= Tol /\ since' = SnapTime /\ warned' = warned /\ explicit' = explicit
    BY <1>7, PlateauIsLate, LookType DEF Reached, Settled
  <2> QED
    BY <1>7, <2>1, LookType DEF Reached
<1>8. CASE Missed \/ RecentreLate
  <2> DEFINE Warned == (explicit' => ~warned') /\ (pc' \in {"clear", "rollout"} => warned')
  <2>1. ASSUME Unreached, explicit' = explicit PROVE Warned
    BY <2>1, Zenon DEF Unreached, Goto
  <2>2. ASSUME Raise("arms"), UNCHANGED <<explicit, warned>> PROVE Warned
    BY <2>2 DEF Raise, Goto
  <2>3. (Unreached /\ explicit' = explicit) \/ (Raise("arms") /\ UNCHANGED <<explicit, warned>>)
    BY <1>8, LookType DEF Missed, RecentreLate
  <2>4. Warned
    BY <2>1, <2>2, <2>3
  <2>5. jam' => arm' = MaxError
    BY <1>8, LookType DEF Missed, RecentreLate
  <2> QED
    BY <2>4, <2>5
<1>9. CASE Clear \/ RunRollout \/ Evaluate \/ CallSucceeds \/ Scored
  BY <1>3, <1>9 DEF Clear, RunRollout, Evaluate, CallSucceeds, Scored, Goto, Raise
<1>10. CASE NoService \/ CallFails \/ NoEvaluation \/ Finish
  BY <1>3, <1>10 DEF NoService, CallFails, NoEvaluation, Finish, Done, NotScored, Goto
<1> QED
  BY <1>1, <1>2, <1>4, <1>5, <1>6, <1>7, <1>8, <1>9, <1>10 DEF Next, Step, World, Over

LEMMA InitIInv == Init => IInv
<1> SUFFICES ASSUME Init PROVE IInv
  OBVIOUS
<1>1. TypeOK
  <2>1. 1 \in 1..Episodes /\ 0 \in 0..WallTimeout /\ 0 \in 0..Episodes /\ 0 \in 0..SnapTime /\ MaxError \in Errors
    BY DEF Errors
  <2>2. samples \in Seq(Sample)
    BY EmptySeq DEF Init
  <2> QED
    BY <2>1, <2>2, Zenon DEF Init, TypeOK, Before
<1>2. FilesAreInTurn /\ CleanedInTurn /\ SamplesAreOfThisReset /\ RowIsItsOwn
  BY DEF Init, FilesAreInTurn, CleanedInTurn, SamplesAreOfThisReset, RowIsItsOwn, Before
<1>3. JamIsFar /\ ArmsInPlace
  BY Zenon DEF Init, JamIsFar, ArmsInPlace
<1> QED
  BY <1>1, <1>2, <1>3 DEF IInv

LEMMA NextIInv == IInv /\ [Next]_vars => IInv'
BY TypeStep, FilesStep, RowStep, CleanedStep, SamplesStep, ArmsStep DEF IInv

\* The recentre, the service, the rollout and the score of an episode keep
\* every variable of its kind, a window of samples included.
THEOREM EpisodesTypeCorrect == Spec => []TypeOK
<1>1. IInv => TypeOK
  BY DEF IInv
<1> QED
  BY <1>1, InitIInv, NextIInv, PTL DEF Spec

\* The row an episode leaves holds what an evaluation said that was still to be
\* written when the episode asked for its own: its own, or one overdue from a
\* call that timed out, and no file that was there before (evaluate).
THEOREM RowsAreTheirOwn == Spec => []RowIsItsOwn
<1>1. IInv => RowIsItsOwn
  BY DEF IInv
<1> QED
  BY <1>1, InitIInv, NextIInv, PTL DEF Spec

\* A rollout begins with nothing left over from the episode before it, and,
\* unless the log has a warning or the scene was reset again since, with the
\* arms back for the settling time (run_episode).
THEOREM EpisodesStartClean == Spec => []EpisodeStartsClean
<1>1. IInv => EpisodeStartsClean
  <2> SUFFICES ASSUME IInv, pc = "rollout"
               PROVE  /\ dirty = {} /\ (explicit => ~warned)
                      /\ ~warned /\ ~rebased => arm <= Tol /\ since >= SnapTime /\ ~jam
    BY DEF EpisodeStartsClean
  <2>1. dirty = {} /\ (explicit => ~warned)
    BY DEF IInv, CleanedInTurn, ArmsInPlace
  <2>2. ~warned /\ ~rebased => arm <= Tol /\ since = SnapTime
    BY DEF IInv, ArmsInPlace
  <2>3. jam => ~(arm <= Tol)
    BY DEF IInv, JamIsFar
  <2> QED
    BY <2>1, <2>2, <2>3
<1> QED
  BY <1>1, InitIInv, NextIInv, PTL DEF Spec
=============================================================================
