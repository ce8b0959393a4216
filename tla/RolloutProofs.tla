---------------------------- MODULE RolloutProofs ----------------------------
(***************************************************************************)
(* What holds of every rollout, whatever its length, its time bases and    *)
(* its interleaving of loop, worker and world: one request is in flight    *)
(* and none is ever dropped, no stream that died is followed for longer    *)
(* than its guard allows, and the command stream has no gap.               *)
(***************************************************************************)
EXTENDS Rollout, SequenceTheorems, TLAPS

USE RequestAssumption

Inference == InferenceTypeOK /\ OneInFlight /\ ~dropped

-----------------------------------------------------------------------------
\* The queues.

LEMMA Emptiness ==
  ASSUME NEW S, NEW q \in Seq(S)
  PROVE  Len(q) \in Nat /\ (q = <<>> <=> Len(q) = 0)
BY EmptySeq, LenProperties

LEMMA QueueTypes ==
  ASSUME InferenceTypeOK
  PROVE  /\ requests \in Seq(Observation \cup {STOP}) /\ results \in Seq(Reply)
         /\ Len(requests) \in Nat /\ Len(results) \in Nat
         /\ requests = <<>> <=> Len(requests) = 0
         /\ results = <<>> <=> Len(results) = 0
<1>1. requests \in Seq(Observation \cup {STOP}) /\ results \in Seq(Reply)
  BY DEF InferenceTypeOK
<1> QED
  BY <1>1, Emptiness

-----------------------------------------------------------------------------
\* The calls of the control thread.

LEMMA StartKeeps ==
  ASSUME Inference, NotClosed, StartWorker
  PROVE  Inference' /\ NotClosed'
BY DEF Inference, InferenceTypeOK, OneInFlight, Idle, QueuedRequest, NotClosed, StartWorker

\* The loop's request finds both queues empty and the worker free.
LEMMA SubmitKeeps ==
  ASSUME Inference, NotClosed, ~inFlight, NEW o \in Observation, Submit(o)
  PROVE  Inference' /\ NotClosed'
<1>1. results = <<>> /\ Idle /\ worker # "inferring"
  BY DEF Inference, OneInFlight
<1>2. Len(requests) = 0
  <2>1. Len(requests) \in Nat
    BY QueueTypes DEF Inference
  <2>2. Len(requests) # 1
    BY <1>1, <2>1 DEF Idle, NotClosed
  <2> QED
    BY <1>1, <2>1, <2>2 DEF Idle
<1>3. requests' = Append(requests, o) /\ inFlight' = TRUE /\ dropped' = dropped
      /\ UNCHANGED <<results, worker, item>>
  BY DEF Submit, Inference, InferenceTypeOK
<1>4. /\ requests' \in Seq(Observation \cup {STOP})
      /\ Len(requests') = 1 /\ requests'[1] = o
  BY <1>2, <1>3, QueueTypes, AppendProperties DEF Inference
<1>5. QueuedRequest' /\ NotClosed'
  BY <1>3, <1>4 DEF QueuedRequest, NotClosed
<1>6. InferenceTypeOK'
  BY <1>3, <1>4 DEF Inference, InferenceTypeOK
<1> QED
  BY <1>1, <1>3, <1>5, <1>6 DEF Inference, OneInFlight

\* A reply that is polled was the only one, and ends the request.
LEMMA PollKeeps ==
  ASSUME Inference, NEW kind, Poll(kind)
  PROVE  /\ Inference' /\ (NotClosed => NotClosed')
         /\ Head(results).obs \in Observation
         /\ ~inFlight'
<1>1. results # <<>> /\ results' = Tail(results) /\ ~inFlight'
      /\ UNCHANGED <<dropped, requests, worker, item>>
  BY DEF Poll
<1>2. Len(results) = 1 /\ Idle /\ worker # "inferring"
  BY <1>1 DEF Inference, OneInFlight
<1>3. Head(results) \in Reply /\ results' \in Seq(Reply) /\ Len(results') = 0
  BY <1>1, <1>2, QueueTypes, HeadTailProperties DEF Inference
<1>4. results' = <<>>
  BY <1>3, EmptySeq
<1>5. InferenceTypeOK'
  BY <1>1, <1>3 DEF Inference, InferenceTypeOK, Poll
<1>6. Idle'
  BY <1>1, <1>2 DEF Idle
<1> QED
  BY <1>1, <1>2, <1>3, <1>4, <1>5, <1>6 DEF Inference, OneInFlight, NotClosed, Reply

LEMMA StopKeeps ==
  ASSUME Inference, NotClosed, RequestStop
  PROVE  Inference'
<1>1. requests' = Append(requests, STOP) /\ UNCHANGED <<inFlight, dropped, results, worker, item>>
  BY DEF RequestStop
<1>2. /\ requests' \in Seq(Observation \cup {STOP})
      /\ Len(requests') = Len(requests) + 1
      /\ \A i \in 1..Len(requests) : requests'[i] = requests[i]
      /\ requests'[Len(requests) + 1] = STOP
  BY <1>1, QueueTypes, AppendProperties DEF Inference
<1>3. InferenceTypeOK'
  BY <1>1, <1>2 DEF Inference, InferenceTypeOK
<1>4. Idle => Idle'
  <2> SUFFICES ASSUME Idle PROVE Idle'
    OBVIOUS
  <2>1. Len(requests) \in Nat
    BY QueueTypes DEF Inference
  <2>2. Len(requests) # 1
    BY <2>1 DEF Idle, NotClosed
  <2>3. Len(requests) <= 1
    BY DEF Idle
  <2>4. \A n \in Nat : n <= 1 /\ n # 1 => n = 0
    OBVIOUS
  <2>5. Len(requests) = 0
    BY <2>1, <2>2, <2>3, <2>4, Zenon
  <2> QED
    BY <1>2, <2>5 DEF Idle
<1>5. QueuedRequest => QueuedRequest'
  BY <1>2, QueueTypes DEF QueuedRequest, NotClosed, Inference
<1> QED
  BY <1>1, <1>3, <1>4, <1>5 DEF Inference, OneInFlight

-----------------------------------------------------------------------------
\* The worker.

LEMMA TakeKeeps ==
  ASSUME Inference, TakeRequest
  PROVE  Inference' /\ (NotClosed => NotClosed')
<1>1. /\ worker = "waiting" /\ requests # <<>> /\ Head(requests) # STOP
      /\ requests' = Tail(requests) /\ worker' = "inferring" /\ item' = Head(requests)
      /\ UNCHANGED <<inFlight, dropped, results>>
  BY DEF TakeRequest
<1>2. /\ Head(requests) = requests[1] /\ Head(requests) \in Observation
      /\ requests' \in Seq(Observation \cup {STOP})
      /\ Len(requests') = Len(requests) - 1
      /\ \A i \in 1..Len(requests') : requests'[i] = requests[i + 1]
  BY <1>1, QueueTypes, HeadTailProperties DEF Inference
<1>3. Len(requests) \in Nat \ {0}
  BY <1>1, QueueTypes DEF Inference
<1>4. ~Idle
  BY <1>1, <1>2, <1>3 DEF Idle
<1>5. inFlight /\ QueuedRequest /\ results = <<>>
  BY <1>4 DEF Inference, OneInFlight
<1>6. Idle'
  BY <1>2, <1>3, <1>5 DEF Idle, QueuedRequest
<1>7. InferenceTypeOK'
  BY <1>1, <1>2 DEF Inference, InferenceTypeOK
<1>8. NotClosed => NotClosed'
  BY <1>1, <1>2, <1>3 DEF NotClosed
<1> QED
  BY <1>1, <1>5, <1>6, <1>7, <1>8 DEF Inference, OneInFlight

LEMMA TakeStopKeeps ==
  ASSUME Inference, TakeStop
  PROVE  Inference' /\ ~NotClosed
<1>1. /\ worker = "waiting" /\ requests # <<>> /\ Head(requests) = STOP
      /\ requests' = Tail(requests) /\ worker' = "stopped"
      /\ UNCHANGED <<inFlight, dropped, results, item>>
  BY DEF TakeStop
<1>2. /\ Head(requests) = requests[1]
      /\ requests' \in Seq(Observation \cup {STOP})
      /\ Len(requests') = Len(requests) - 1
  BY <1>1, QueueTypes, HeadTailProperties DEF Inference
<1>3. Len(requests) \in Nat \ {0}
  BY <1>1, QueueTypes DEF Inference
<1>4. ~QueuedRequest /\ ~NotClosed
  BY <1>1, <1>2, <1>3 DEF QueuedRequest, NotClosed
<1>5. Idle => Idle'
  BY <1>2, <1>3 DEF Idle
<1>6. InferenceTypeOK'
  BY <1>1, <1>2 DEF Inference, InferenceTypeOK
<1> QED
  BY <1>1, <1>4, <1>5, <1>6 DEF Inference, OneInFlight

LEMMA DoneKeeps ==
  ASSUME Inference, NEW kind \in {"chunk", "error"}, Done(kind),
         worker' \in {"waiting", "failed"}
  PROVE  Inference' /\ (NotClosed => NotClosed')
<1>1. /\ worker = "inferring" /\ item' = NoItem
      /\ results' = Append(results, [kind |-> kind, obs |-> item])
      /\ UNCHANGED <<inFlight, dropped, requests>>
  BY DEF Done
<1>2. inFlight /\ Idle /\ results = <<>>
  BY <1>1 DEF Inference, OneInFlight
<1>3. [kind |-> kind, obs |-> item] \in Reply
  BY <1>1 DEF Inference, InferenceTypeOK, Reply
<1>4. results' \in Seq(Reply) /\ Len(results') = 1
  BY <1>1, <1>2, <1>3, QueueTypes, AppendProperties DEF Inference
<1>5. InferenceTypeOK'
  BY <1>1, <1>4 DEF Inference, InferenceTypeOK
<1>6. Idle' /\ (NotClosed => NotClosed')
  BY <1>1, <1>2 DEF Idle, NotClosed
<1> QED
  BY <1>1, <1>2, <1>4, <1>5, <1>6 DEF Inference, OneInFlight

LEMMA WorkKeeps ==
  ASSUME Inference, Work
  PROVE  Inference' /\ (NotClosed => NotClosed')
<1>1. CASE TakeRequest
  BY <1>1, TakeKeeps
<1>2. CASE TakeStop
  BY <1>2, TakeStopKeeps
<1>3. CASE Answer
  BY <1>3, DoneKeeps DEF Answer
<1>4. CASE Fail
  BY <1>4, DoneKeeps DEF Fail
<1> QED
  BY <1>1, <1>2, <1>3, <1>4 DEF Work

LEMMA IdleKeeps ==
  ASSUME Inference, UNCHANGED inferenceVars
  PROVE  Inference' /\ (NotClosed => NotClosed')
BY DEF Inference, InferenceTypeOK, OneInFlight, Idle, QueuedRequest, NotClosed, inferenceVars

-----------------------------------------------------------------------------
\* The rollout.

USE PlayerAssumption, RolloutAssumption

LEMMA InitInductive ==
  ASSUME Init
  PROVE  IInv
<1>1. RebaseTicks + 1 \in Time /\ 0 \in Time
  OBVIOUS
<1>2. LoopTypeOK
  <2>1. stateAge \in 0..MaxAge /\ imageAge \in 0..MaxAge
    BY DEF Init
  <2>2. sim \in Time /\ tStart \in Time /\ obs \in Time /\ waited \in 0..RecvTimeout
    BY <1>1 DEF Init
  <2> QED
    BY <2>1, <2>2 DEF Init, PlayerInit, LoopTypeOK, PC
<1>3. InferenceTypeOK /\ requests = <<>> /\ results = <<>> /\ ~inFlight /\ ~dropped
      /\ worker = "none"
  BY EmptySeq DEF Init, InferenceInit, InferenceTypeOK
<1>4. Len(requests) = 0
  BY <1>3, EmptySeq
<1>5. OneInFlight /\ NotClosed
  BY <1>3, <1>4 DEF OneInFlight, Idle, NotClosed
<1> QED
  BY <1>2, <1>3, <1>5 DEF IInv, TypeOK, ClosedLast

\* Time passes within its bounds.
LEMMA ElapseTypes ==
  ASSUME LoopTypeOK, Elapse
  PROVE  sim' \in Time /\ stateAge' \in 0..MaxAge /\ imageAge' \in 0..MaxAge
<1>1. sim' \in Int /\ sim' >= 0
  BY DEF LoopTypeOK, Elapse, NextSim
<1>2. Older(stateAge) \in 0..MaxAge /\ Older(imageAge) \in 0..MaxAge
  BY DEF LoopTypeOK, Older
<1> QED
  BY <1>1, <1>2 DEF LoopTypeOK, Elapse

\* A chunk is installed with a t0 on the sim clock.
LEMMA InstallTypes ==
  ASSUME LoopTypeOK, NEW seen \in Time, NEW installed \in Time, InstallReply(seen, installed)
  PROVE  chunk' \in Playback /\ op' = "set" /\ spoken' = spoken
<1>1. PICK t0 \in Time, offset \in Int : Install(t0, Last, offset)
  BY DEF InstallReply
<1> QED
  BY <1>1 DEF Install, Playback

\* A command, or silence, from the executor.
LEMMA CommandTypes ==
  ASSUME LoopTypeOK, Commands
  PROVE  /\ chunk' = None \/ chunk' \in Playback
         /\ spoken' \in BOOLEAN
         /\ op' \in {"none", "set", "step", "hold", "silent"}
<1> QED
  BY DEF LoopTypeOK, Commands, PlayNothing, DropStale, PlayUnmeasured, PlayCommand, RepeatCommand,
     HoldNothing

\* A step that leaves the queues alone and does not leave the finally.
LEMMA Quietly ==
  ASSUME IInv, LoopTypeOK', UNCHANGED inferenceVars,
         pc \in {"join", "ended"} => pc' \in {"join", "ended"}
  PROVE  IInv'
BY IdleKeeps DEF IInv, TypeOK, Inference, ClosedLast

\* The steps of the loop that leave the worker and its queues alone.
LEMMA QuietStep ==
  ASSUME IInv,
         \/ Approach \/ NoApproach \/ StartFails \/ Observe \/ LoopEnds \/ StaleState
         \/ AsksNothing \/ StaleImage \/ StartsInference
         \/ Blocked \/ InferenceReturns \/ InferenceRaises
         \/ Command \/ Sleep \/ Stop \/ Interrupt \/ Join \/ StatesArrive \/ FramesArrive
         \/ UNCHANGED vars
  PROVE  IInv'
<1> USE DEF IInv, TypeOK
<1>1. CASE Approach
  <2>1. LoopTypeOK'
    BY <1>1 DEF LoopTypeOK, PC, LoopPC, Approach, PlayerReset, world, loopVars, playerVars
  <2>2. UNCHANGED inferenceVars /\ (pc \in {"join", "ended"} => pc' \in {"join", "ended"})
    BY <1>1 DEF Approach, PlayerReset, loopVars, LoopPC
  <2> QED
    BY <2>1, <2>2, Quietly
<1>2. CASE NoApproach
  <2>1. LoopTypeOK'
    BY <1>2 DEF LoopTypeOK, PC, LoopPC, NoApproach, world, loopVars, playerVars
  <2>2. UNCHANGED inferenceVars /\ (pc \in {"join", "ended"} => pc' \in {"join", "ended"})
    BY <1>2 DEF NoApproach, loopVars, LoopPC
  <2> QED
    BY <2>1, <2>2, Quietly
<1>3. CASE StartFails
  <2>1. LoopTypeOK'
    BY <1>3 DEF LoopTypeOK, PC, LoopPC, StartFails, Raise, world, loopVars, playerVars
  <2>2. UNCHANGED inferenceVars /\ (pc \in {"join", "ended"} => pc' \in {"join", "ended"})
    BY <1>3 DEF StartFails, Raise, loopVars, LoopPC
  <2> QED
    BY <2>1, <2>2, Quietly
<1>4. CASE Observe
  <2>1. LoopTypeOK'
    BY <1>4 DEF LoopTypeOK, PC, LoopPC, Observe, NextTick, world, loopVars
  <2>2. UNCHANGED inferenceVars /\ (pc \in {"join", "ended"} => pc' \in {"join", "ended"})
    BY <1>4 DEF Observe, loopVars, LoopPC
  <2> QED
    BY <2>1, <2>2, Quietly
<1>5. CASE LoopEnds
  <2>1. LoopTypeOK'
    BY <1>5 DEF LoopTypeOK, PC, LoopPC, LoopEnds, NextTick, world, loopVars
  <2>2. UNCHANGED inferenceVars /\ (pc \in {"join", "ended"} => pc' \in {"join", "ended"})
    BY <1>5 DEF LoopEnds, loopVars, LoopPC
  <2> QED
    BY <2>1, <2>2, Quietly
<1>6. CASE StaleState
  <2>1. LoopTypeOK'
    BY <1>6 DEF LoopTypeOK, PC, LoopPC, StaleState, Raise, world, loopVars, playerVars
  <2>2. UNCHANGED inferenceVars /\ (pc \in {"join", "ended"} => pc' \in {"join", "ended"})
    BY <1>6 DEF StaleState, Raise, loopVars, LoopPC
  <2> QED
    BY <2>1, <2>2, Quietly
<1>7. CASE AsksNothing
  <2>1. LoopTypeOK'
    BY <1>7 DEF LoopTypeOK, PC, LoopPC, AsksNothing, world, loopVars, playerVars
  <2>2. UNCHANGED inferenceVars /\ (pc \in {"join", "ended"} => pc' \in {"join", "ended"})
    BY <1>7 DEF AsksNothing, loopVars, LoopPC
  <2> QED
    BY <2>1, <2>2, Quietly
<1>8. CASE StaleImage
  <2>1. LoopTypeOK'
    BY <1>8 DEF LoopTypeOK, PC, LoopPC, StaleImage, Raise, world, loopVars, playerVars
  <2>2. UNCHANGED inferenceVars /\ (pc \in {"join", "ended"} => pc' \in {"join", "ended"})
    BY <1>8 DEF StaleImage, Raise, loopVars, LoopPC
  <2> QED
    BY <2>1, <2>2, Quietly
<1>9. CASE StartsInference
  <2>1. LoopTypeOK'
    BY <1>9 DEF LoopTypeOK, PC, LoopPC, StartsInference, world, loopVars, playerVars
  <2>2. UNCHANGED inferenceVars /\ (pc \in {"join", "ended"} => pc' \in {"join", "ended"})
    BY <1>9 DEF StartsInference, loopVars, LoopPC
  <2> QED
    BY <2>1, <2>2, Quietly
<1>10. CASE Blocked
  <2>1. LoopTypeOK'
    BY <1>10, ElapseTypes DEF LoopTypeOK, PC, LoopPC, Blocked, world, loopVars, playerVars
  <2>2. UNCHANGED inferenceVars /\ (pc \in {"join", "ended"} => pc' \in {"join", "ended"})
    BY <1>10 DEF Blocked, loopVars, LoopPC
  <2> QED
    BY <2>1, <2>2, Quietly
<1>11. CASE InferenceReturns
  <2>1. LoopTypeOK'
    BY <1>11, InstallTypes DEF LoopTypeOK, PC, LoopPC, InferenceReturns, world, loopVars, playerVars
  <2>2. UNCHANGED inferenceVars /\ (pc \in {"join", "ended"} => pc' \in {"join", "ended"})
    BY <1>11 DEF InferenceReturns, loopVars, LoopPC
  <2> QED
    BY <2>1, <2>2, Quietly
<1>12. CASE InferenceRaises
  <2>1. LoopTypeOK'
    BY <1>12 DEF LoopTypeOK, PC, LoopPC, InferenceRaises, Raise, world, loopVars, playerVars
  <2>2. UNCHANGED inferenceVars /\ (pc \in {"join", "ended"} => pc' \in {"join", "ended"})
    BY <1>12 DEF InferenceRaises, Raise, loopVars, LoopPC
  <2> QED
    BY <2>1, <2>2, Quietly
<1>13. CASE Command
  <2>1. LoopTypeOK'
    BY <1>13, CommandTypes DEF LoopTypeOK, PC, LoopPC, Command, world, loopVars, playerVars
  <2>2. UNCHANGED inferenceVars /\ (pc \in {"join", "ended"} => pc' \in {"join", "ended"})
    BY <1>13 DEF Command, loopVars, LoopPC
  <2> QED
    BY <2>1, <2>2, Quietly
<1>14. CASE Sleep
  <2>1. LoopTypeOK'
    BY <1>14, ElapseTypes DEF LoopTypeOK, PC, LoopPC, Sleep, world, loopVars, playerVars
  <2>2. UNCHANGED inferenceVars /\ (pc \in {"join", "ended"} => pc' \in {"join", "ended"})
    BY <1>14 DEF Sleep, loopVars, LoopPC
  <2> QED
    BY <2>1, <2>2, Quietly
<1>15. CASE Stop
  <2>1. LoopTypeOK'
    BY <1>15 DEF LoopTypeOK, PC, LoopPC, Stop, world, loopVars, playerVars
  <2>2. UNCHANGED inferenceVars /\ (pc \in {"join", "ended"} => pc' \in {"join", "ended"})
    BY <1>15 DEF Stop, loopVars, LoopPC
  <2> QED
    BY <2>1, <2>2, Quietly
<1>16. CASE Interrupt
  <2>1. LoopTypeOK'
    BY <1>16 DEF LoopTypeOK, PC, LoopPC, Interrupt, Raise, world, loopVars, playerVars
  <2>2. UNCHANGED inferenceVars /\ (pc \in {"join", "ended"} => pc' \in {"join", "ended"})
    BY <1>16 DEF Interrupt, Raise, loopVars, LoopPC
  <2> QED
    BY <2>1, <2>2, Quietly
<1>17. CASE Join
  <2>1. LoopTypeOK'
    BY <1>17 DEF LoopTypeOK, PC, LoopPC, Join, world, loopVars, playerVars
  <2>2. UNCHANGED inferenceVars /\ (pc \in {"join", "ended"} => pc' \in {"join", "ended"})
    BY <1>17 DEF Join, loopVars, LoopPC
  <2> QED
    BY <2>1, <2>2, Quietly
<1>18. CASE StatesArrive
  <2>1. LoopTypeOK'
    BY <1>18 DEF LoopTypeOK, PC, LoopPC, StatesArrive, world, loopVars, playerVars
  <2>2. UNCHANGED inferenceVars /\ (pc \in {"join", "ended"} => pc' \in {"join", "ended"})
    BY <1>18 DEF StatesArrive, loopVars, LoopPC
  <2> QED
    BY <2>1, <2>2, Quietly
<1>19. CASE FramesArrive
  <2>1. LoopTypeOK'
    BY <1>19 DEF LoopTypeOK, PC, LoopPC, FramesArrive, world, loopVars, playerVars
  <2>2. UNCHANGED inferenceVars /\ (pc \in {"join", "ended"} => pc' \in {"join", "ended"})
    BY <1>19 DEF FramesArrive, loopVars, LoopPC
  <2> QED
    BY <2>1, <2>2, Quietly
<1>20. CASE UNCHANGED vars
  BY <1>20, Quietly DEF LoopTypeOK, vars, world, loopVars, playerVars
<1> QED
  BY <1>1, <1>2, <1>3, <1>4, <1>5, <1>6, <1>7, <1>8, <1>9, <1>10, <1>11, <1>12, <1>13, <1>14, <1>15, <1>16, <1>17, <1>18, <1>19, <1>20

\* The steps that touch them.
LEMMA BusyStep ==
  ASSUME IInv, Begin \/ PollsNothing \/ PollsChunk \/ PollsError \/ Asks \/ Close \/ Worker
  PROVE  IInv'
<1>1. Inference /\ LoopTypeOK
  BY DEF IInv, TypeOK, Inference
<1>2. CASE Begin
  <2>1. LoopTypeOK' /\ pc = "wait"
    BY <1>1, <1>2 DEF LoopTypeOK, PC, LoopPC, Begin, world, playerVars
  <2>2. NotClosed
    BY <2>1 DEF IInv, ClosedLast
  <2>3. Inference' /\ NotClosed'
    BY <1>1, <1>2, <2>2, StartKeeps, IdleKeeps DEF Begin
  <2> QED
    BY <2>1, <2>3 DEF IInv, TypeOK, Inference, ClosedLast
<1>3. CASE PollsNothing
  <2>1. LoopTypeOK'
    BY <1>1, <1>3 DEF LoopTypeOK, PC, LoopPC, PollsNothing, world, playerVars
  <2>2. UNCHANGED inferenceVars /\ pc = "poll"
    BY <1>3 DEF PollsNothing, PollEmpty
  <2> QED
    BY <2>1, <2>2, Quietly
<1>4. CASE PollsChunk
  <2>1. pc = "poll" /\ Poll("chunk") /\ InstallReply(Head(results).obs, obs)
    BY <1>4 DEF PollsChunk
  <2>2. Inference' /\ NotClosed' /\ Head(results).obs \in Time
    BY <1>1, <2>1, PollKeeps DEF IInv, ClosedLast
  <2>3. chunk' \in Playback /\ op' = "set" /\ spoken' = spoken
    BY <1>1, <2>1, <2>2, InstallTypes DEF LoopTypeOK
  <2>4. LoopTypeOK'
    BY <1>1, <1>4, <2>3 DEF LoopTypeOK, PC, LoopPC, PollsChunk, world
  <2> QED
    BY <2>2, <2>4 DEF IInv, TypeOK, Inference, ClosedLast
<1>5. CASE PollsError
  <2>1. LoopTypeOK' /\ pc = "poll" /\ Poll("error")
    BY <1>1, <1>5 DEF LoopTypeOK, PC, LoopPC, PollsError, Raise, world, playerVars
  <2>2. Inference' /\ NotClosed'
    BY <1>1, <2>1, PollKeeps DEF IInv, ClosedLast
  <2> QED
    BY <2>1, <2>2 DEF IInv, TypeOK, Inference, ClosedLast
<1>6. CASE Asks
  <2>1. LoopTypeOK' /\ pc = "ask" /\ ~inFlight /\ Submit(obs)
    BY <1>1, <1>6 DEF LoopTypeOK, PC, LoopPC, Asks, MayAsk, world, playerVars
  <2>2. obs \in Observation /\ NotClosed
    BY <1>1, <2>1 DEF LoopTypeOK, IInv, ClosedLast
  <2>3. Inference' /\ NotClosed'
    BY <1>1, <2>1, <2>2, SubmitKeeps
  <2> QED
    BY <2>1, <2>3 DEF IInv, TypeOK, Inference, ClosedLast
<1>7. CASE Close
  <2>1. LoopTypeOK' /\ pc = "close" /\ pc' \in {"join", "ended"}
    BY <1>1, <1>7 DEF LoopTypeOK, PC, LoopPC, Close, world, playerVars
  <2>2. NotClosed
    BY <2>1 DEF IInv, ClosedLast
  <2>3. Inference'
    BY <1>1, <1>7, <2>2, StopKeeps, IdleKeeps DEF Close
  <2> QED
    BY <2>1, <2>3 DEF IInv, TypeOK, Inference, ClosedLast
<1>8. CASE Worker
  <2>1. LoopTypeOK' /\ pc' = pc /\ Work
    BY <1>1, <1>8 DEF LoopTypeOK, Worker, world, loopVars, playerVars
  <2>2. Inference' /\ (NotClosed => NotClosed')
    BY <1>1, <2>1, WorkKeeps
  <2> QED
    BY <2>1, <2>2 DEF IInv, TypeOK, Inference, ClosedLast
<1> QED
  BY <1>2, <1>3, <1>4, <1>5, <1>6, <1>7, <1>8

\* The induction: it holds at the start, and every step of the loop, the
\* worker and the world keeps it.
THEOREM RolloutInductive == Spec => []IInv
<1>1. Init => IInv
  BY InitInductive
<1>2. IInv /\ [Next]_vars => IInv'
  BY QuietStep, BusyStep DEF Next, Loop, Over
<1> QED
  BY <1>1, <1>2, PTL DEF Spec

\* Every variable of the rollout keeps a value of its kind.
THEOREM RolloutTypeCorrect == Spec => []TypeOK
<1>1. IInv => TypeOK
  BY DEF IInv
<1> QED
  BY <1>1, RolloutInductive, PTL

\* The worker's flag is up exactly when one request is out, wherever it is:
\* queued, being answered, or answered and not yet polled.
THEOREM OneRequestAtATime == Spec => []OneInFlight
<1>1. IInv => OneInFlight
  BY DEF IInv
<1> QED
  BY <1>1, RolloutInductive, PTL

\* No rollout ever drops a request.
THEOREM RequestsAreNotDropped == Spec => []NothingDropped
<1>1. IInv => NothingDropped
  BY DEF IInv, NothingDropped
<1> QED
  BY <1>1, RolloutInductive, PTL

-----------------------------------------------------------------------------
\* What the chunks were computed from.

LEMMA WorkAsks ==
  ASSUME Inference, Work
  PROVE  Asked' \subseteq Asked /\ inFlight' = inFlight
<1>1. CASE TakeRequest
  <2>1. requests # <<>> /\ requests' = Tail(requests) /\ item' = Head(requests)
        /\ UNCHANGED <<results, inFlight>>
    BY <1>1 DEF TakeRequest
  <2>2. /\ Head(requests) = requests[1] /\ Len(requests) \in Nat \ {0}
        /\ Len(requests') = Len(requests) - 1
        /\ \A i \in 1..Len(requests') : requests'[i] = requests[i + 1]
    BY <2>1, QueueTypes, HeadTailProperties DEF Inference
  <2>3. item' \in {requests[i] : i \in 1..Len(requests)}
    BY <2>1, <2>2
  <2>4. {requests'[i] : i \in 1..Len(requests')} \subseteq {requests[i] : i \in 1..Len(requests)}
    BY <2>2
  <2> QED BY <2>1, <2>3, <2>4 DEF Asked
<1>2. CASE TakeStop
  <2>1. requests # <<>> /\ requests' = Tail(requests) /\ UNCHANGED <<results, item, inFlight>>
    BY <1>2 DEF TakeStop
  <2>2. /\ Len(requests) \in Nat \ {0}
        /\ Len(requests') = Len(requests) - 1
        /\ \A i \in 1..Len(requests') : requests'[i] = requests[i + 1]
    BY <2>1, QueueTypes, HeadTailProperties DEF Inference
  <2>3. {requests'[i] : i \in 1..Len(requests')} \subseteq {requests[i] : i \in 1..Len(requests)}
    BY <2>2
  <2> QED BY <2>1, <2>3 DEF Asked
<1>3. ASSUME NEW kind \in {"chunk", "error"}, Done(kind)
      PROVE  Asked' \subseteq Asked /\ inFlight' = inFlight
  <2> DEFINE r == [kind |-> kind, obs |-> item]
  <2>1. worker = "inferring" /\ results' = Append(results, r) /\ item' = NoItem
        /\ UNCHANGED <<requests, inFlight>>
    BY <1>3 DEF Done
  <2>2. r \in Reply
    BY <2>1 DEF Inference, InferenceTypeOK, Reply
  <2>3. /\ Len(results') = Len(results) + 1 /\ Len(results) \in Nat
        /\ \A i \in 1..Len(results) : results'[i] = results[i]
        /\ results'[Len(results) + 1] = r
    BY <2>1, <2>2, QueueTypes, AppendProperties DEF Inference
  <2>4. \A i \in 1..Len(results') :
          results'[i].obs \in {item} \cup {results[j].obs : j \in 1..Len(results)}
    <3> SUFFICES ASSUME NEW i \in 1..Len(results')
                 PROVE  results'[i].obs \in {item} \cup {results[j].obs : j \in 1..Len(results)}
      OBVIOUS
    <3>1. CASE i = Len(results) + 1
      BY <2>3, <3>1
    <3>2. CASE i # Len(results) + 1
      BY <2>3, <3>2
    <3> QED BY <3>1, <3>2
  <2>5. {results'[i].obs : i \in 1..Len(results')} \subseteq
          {item} \cup {results[j].obs : j \in 1..Len(results)}
    BY <2>4
  <2>6. {requests'[i] : i \in 1..Len(requests')} = {requests[i] : i \in 1..Len(requests)}
    BY <2>1
  <2>7. item' \notin Observation
    BY <2>1
  <2> QED BY <2>1, <2>5, <2>6, <2>7, Zenon DEF Asked
<1> QED BY <1>1, <1>2, <1>3 DEF Work, Answer, Fail

LEMMA QueueAsks ==
  ASSUME Inference, NEW o \in Observation \cup {STOP}, requests' = Append(requests, o),
         UNCHANGED <<results, item>>
  PROVE  Asked' \subseteq Asked \cup ({o} \cap Observation)
<1>1. /\ Len(requests') = Len(requests) + 1 /\ Len(requests) \in Nat
      /\ \A i \in 1..Len(requests) : requests'[i] = requests[i]
      /\ requests'[Len(requests) + 1] = o
  BY QueueTypes, AppendProperties DEF Inference
<1>2. \A i \in 1..Len(requests') : requests'[i] \in {o} \cup {requests[j] : j \in 1..Len(requests)}
  <2> SUFFICES ASSUME NEW i \in 1..Len(requests')
               PROVE  requests'[i] \in {o} \cup {requests[j] : j \in 1..Len(requests)}
    OBVIOUS
  <2>1. CASE i = Len(requests) + 1
    BY <1>1, <2>1
  <2>2. CASE i # Len(requests) + 1
    BY <1>1, <2>2
  <2> QED BY <2>1, <2>2
<1> QED BY <1>2 DEF Asked

LEMMA PollAsks ==
  ASSUME Inference, NEW kind, Poll(kind)
  PROVE  Asked' \subseteq Asked /\ Head(results).obs \in Asked
<1>1. results # <<>> /\ results' = Tail(results) /\ UNCHANGED <<requests, item>>
  BY DEF Poll
<1>2. /\ Head(results) = results[1] /\ Len(results) \in Nat \ {0}
      /\ Len(results') = Len(results) - 1
      /\ \A i \in 1..Len(results') : results'[i] = results[i + 1]
  BY <1>1, QueueTypes, HeadTailProperties DEF Inference
<1>3. {results'[i].obs : i \in 1..Len(results')} \subseteq {results[i].obs : i \in 1..Len(results)}
  BY <1>2
<1>4. Head(results).obs \in {results[i].obs : i \in 1..Len(results)} /\ Head(results).obs \in Observation
  BY <1>2, PollKeeps
<1> QED BY <1>1, <1>3, <1>4 DEF Asked

\* Real time: each unit adds one to the clock, and at most one to the ages.
LEMMA RealElapse ==
  ASSUME LoopTypeOK, config.real, Elapse
  PROVE  /\ sim' = sim + 1
         /\ imageAge' <= imageAge + 1 /\ imageAge' \in Int
         /\ stateAge' <= stateAge + 1 /\ stateAge' \in Int
  BY DEF Elapse, NextSim, Older, LoopTypeOK

LEMMA LoopNumbers ==
  ASSUME LoopTypeOK
  PROVE  /\ sim \in Int /\ obs \in Int /\ imageAge \in Int /\ stateAge \in Int /\ waited \in Int
         /\ waited >= 0
         /\ chunk # None => chunk.t0 \in Int /\ chunk.last \in Int /\ chunk.offset \in Int
         /\ MaxImageAge \in Int /\ MaxStateAge \in Int /\ RebaseTicks \in Int /\ RebaseTicks >= 0
<1>1. chunk # None => chunk.t0 \in Time /\ chunk.last \in Nat /\ chunk.offset \in Int
  BY DEF LoopTypeOK, Playback
<1> QED BY <1>1 DEF LoopTypeOK

LEMMA LoopInitInv == Init => LoopInv
<1> SUFFICES ASSUME Init PROVE LoopInv
  OBVIOUS
<1>1. LoopModes
  BY DEF Init, InferenceInit, LoopModes
<1>2. Asked = {}
  <2>1. requests = <<>> /\ results = <<>> /\ item = NoItem
    BY DEF Init, InferenceInit
  <2>2. Len(requests) = 0 /\ Len(results) = 0
    BY <2>1, EmptySeq
  <2>3. {requests[i] : i \in 1..Len(requests)} = {} /\ {results[i].obs : i \in 1..Len(results)} = {}
    BY <2>2
  <2>4. item \notin Observation
    BY <2>1
  <2> QED BY <2>3, <2>4, Zenon DEF Asked
<1>3. AttendedChunks
  BY <1>2 DEF Init, PlayerInit, AttendedChunks
<1>4. StatesLive
  BY DEF Init, StatesLive, LoopPC
<1> QED BY <1>1, <1>3, <1>4 DEF LoopInv

LEMMA ModesStep == IInv /\ LoopModes /\ [Next]_vars => LoopModes'
<1> SUFFICES ASSUME IInv, LoopModes, [Next]_vars PROVE LoopModes'
  OBVIOUS
<1>1. config' = config
  BY DEF Next, Loop, Over, vars, Approach, NoApproach, StartFails, Begin, Observe, LoopEnds, StaleState,
     PollsNothing, PollsChunk, PollsError, AsksNothing, StaleImage, Asks, StartsInference, Blocked,
     InferenceReturns, InferenceRaises, Command, Sleep, Stop, Interrupt, Close, Join, Worker,
     StatesArrive, FramesArrive
<1>2. ~config.async => ~inFlight'
  <2>1. Work => inFlight' = inFlight
    BY WorkAsks DEF IInv, TypeOK, Inference
  <2> QED
    BY <2>1 DEF LoopModes, Next, Loop, Over, vars, inferenceVars, Approach, NoApproach, StartFails, Begin,
       Observe, LoopEnds, StaleState, PollsNothing, PollEmpty, PollsChunk, PollsError, Poll, AsksNothing,
       StaleImage, Asks, StartsInference, Blocked, InferenceReturns, InferenceRaises, Command, Sleep,
       Stop, Interrupt, Close, RequestStop, Join, Worker, StatesArrive, FramesArrive
<1>3. ~config.async => pc' # "poll"
  BY DEF LoopModes, Next, Loop, Over, vars, loopVars, Approach, NoApproach, StartFails, Begin, Raise,
     Observe, LoopEnds, StaleState, PollsNothing, PollsChunk, PollsError, AsksNothing,
     StaleImage, Asks, StartsInference, Blocked, InferenceReturns, InferenceRaises, Command, Sleep,
     Stop, Interrupt, Close, Join, Worker, StatesArrive, FramesArrive
<1>4. config.async => pc' # "infer"
  BY DEF LoopModes, Next, Loop, Over, vars, loopVars, Approach, NoApproach, StartFails, Begin, Raise,
     Observe, LoopEnds, StaleState, PollsNothing, PollsChunk, PollsError, AsksNothing,
     StaleImage, Asks, StartsInference, Blocked, InferenceReturns, InferenceRaises, Command, Sleep,
     Stop, Interrupt, Close, Join, Worker, StatesArrive, FramesArrive
<1>5. (config.async /\ pc' \in {"poll", "ask", "command"}) => obs' = sim'
  BY DEF LoopModes, Next, Loop, Over, vars, loopVars, world, Approach, NoApproach, StartFails, Begin, Raise,
     Observe, LoopEnds, StaleState, PollsNothing, PollsChunk, PollsError, AsksNothing,
     StaleImage, Asks, StartsInference, Blocked, InferenceReturns, InferenceRaises, Command, Sleep,
     Stop, Interrupt, Close, Join, Worker, StatesArrive, FramesArrive
<1>6. (~config.async /\ pc' = "command") => chunk' # None
  <2> SUFFICES ASSUME ~config.async, pc' = "command" PROVE chunk' # None
    OBVIOUS
  <2>1. CASE pc = "command"
    <3>1. chunk' = chunk
      BY <2>1 DEF Next, Loop, Over, vars, loopVars, playerVars, Approach, NoApproach, StartFails, Begin,
         Raise, Observe, LoopEnds, StaleState, PollsNothing, PollsChunk, PollsError, AsksNothing,
         StaleImage, Asks, StartsInference, Blocked, InferenceReturns, InferenceRaises, Command, Sleep,
         Stop, Interrupt, Close, Join, Worker, StatesArrive, FramesArrive
    <3> QED BY <2>1, <3>1 DEF LoopModes
  <2>2. CASE pc # "command"
    <3>1. AsksNothing \/ InferenceReturns
      BY <2>2 DEF Next, Loop, Over, vars, loopVars, Approach, NoApproach, StartFails, Begin,
         Raise, Observe, LoopEnds, StaleState, PollsNothing, PollsChunk, PollsError,
         StaleImage, Asks, StartsInference, Blocked, InferenceRaises, Command, Sleep,
         Stop, Interrupt, Close, Join, Worker, StatesArrive, FramesArrive
    <3>2. CASE AsksNothing
      BY <3>2 DEF AsksNothing, MayAsk, NeedsReplan, LoopModes, playerVars
    <3>3. CASE InferenceReturns
      <4>1. chunk' \in Playback
        BY <3>3, InstallTypes DEF InferenceReturns, IInv, TypeOK, LoopTypeOK
      <4> QED BY <4>1
    <3> QED BY <3>1, <3>2, <3>3
  <2> QED BY <2>1, <2>2
<1> QED BY <1>1, <1>2, <1>3, <1>4, <1>5, <1>6 DEF LoopModes

\* A step that takes no time: fewer observations are asked about, the images
\* and the loop's observation are no older, and the chunk goes on or is lost.
LEMMA AttendedKeeps ==
  ASSUME LoopTypeOK, AttendedChunks, config' = config, sim' = sim, obs' \in {obs, sim},
         imageAge' \in Int, imageAge' <= imageAge, Asked' \subseteq Asked, chunk' \in {chunk, None}
  PROVE  AttendedChunks'
<1> SUFFICES ASSUME config.real PROVE AttendedChunks'
  BY DEF AttendedChunks
<1>1. obs <= obs' /\ obs' <= sim' /\ obs' \in Int
  BY LoopNumbers DEF AttendedChunks
<1>2. ASSUME NEW o \in Int, Attended(o)
      PROVE  o <= obs' /\ imageAge' <= MaxImageAge + sim' - o
  BY <1>1, <1>2, LoopNumbers DEF Attended
<1>3. \A o \in Asked : o \in Int
  BY DEF Asked
<1>4. config.async => \A o \in Asked' : o <= obs' /\ imageAge' <= MaxImageAge + sim' - o
  BY <1>2, <1>3 DEF AttendedChunks
<1>5. CASE chunk' = None
  BY <1>1, <1>4, <1>5 DEF AttendedChunks, Attended
<1>6. CASE chunk' = chunk /\ chunk # None
  <2>1. config.async \/ config.timeBase = "observation" => chunk.t0 <= obs'
    BY <1>1, <1>6, LoopNumbers DEF AttendedChunks
  <2>2. config.async /\ config.timeBase = "observation" =>
          chunk.last = Last /\ chunk.t0 <= obs' /\ imageAge' <= MaxImageAge + sim' - chunk.t0
    BY <1>2, <1>6, LoopNumbers DEF AttendedChunks
  <2> QED BY <1>1, <1>4, <1>6, <2>1, <2>2 DEF AttendedChunks, Attended
<1> QED BY <1>5, <1>6

\* A unit of time: the ages grow no faster than the clock.
LEMMA AttendedElapses ==
  ASSUME LoopTypeOK, AttendedChunks, config' = config, obs' = obs, Elapse,
         Asked' = Asked, chunk' = chunk
  PROVE  AttendedChunks'
<1> SUFFICES ASSUME config.real PROVE AttendedChunks'
  BY DEF AttendedChunks
<1>1. sim' = sim + 1 /\ imageAge' <= imageAge + 1 /\ imageAge' \in Int
  BY RealElapse
<1>2. ASSUME NEW o \in Int, Attended(o)
      PROVE  o <= obs /\ imageAge' <= MaxImageAge + sim' - o
  <2>1. o <= obs /\ imageAge <= MaxImageAge + sim - o
    BY <1>2 DEF Attended
  <2>2. sim \in Int /\ imageAge \in Int /\ MaxImageAge \in Int
    BY LoopNumbers
  <2> HIDE RolloutAssumption, PlayerAssumption
  <2> QED BY <1>1, <2>1, <2>2
<1>3. \A o \in Asked : o \in Int
  BY DEF Asked
<1>4. config.async => \A o \in Asked : o <= obs /\ imageAge' <= MaxImageAge + sim' - o
  BY <1>2, <1>3 DEF AttendedChunks
<1>5. chunk # None /\ config.async /\ config.timeBase = "observation" =>
        chunk.last = Last /\ chunk.t0 <= obs /\ imageAge' <= MaxImageAge + sim' - chunk.t0
  BY <1>2, LoopNumbers DEF AttendedChunks
<1>6. obs <= sim'
  BY <1>1, LoopNumbers DEF AttendedChunks
<1> QED BY <1>4, <1>5, <1>6 DEF AttendedChunks, Attended

\* A chunk arrives that was computed from an observation asked about, or from
\* this tick's.
LEMMA AttendedInstalls ==
  ASSUME LoopTypeOK, AttendedChunks, NEW seen \in Time, NEW installed \in Time,
         InstallReply(seen, installed), UNCHANGED <<config, sim, imageAge, obs>>,
         Asked' \subseteq Asked, seen <= obs, config.async => installed = obs,
         config.real /\ config.async => Attended(seen)
  PROVE  AttendedChunks'
<1> SUFFICES ASSUME config.real PROVE AttendedChunks'
  BY DEF AttendedChunks
<1> DEFINE t0 == IF config.timeBase = "arrival" THEN installed ELSE seen
<1>1. PICK offset \in Int : chunk' = [t0 |-> t0, last |-> Last, offset |-> offset]
  BY DEF InstallReply, Install
<1>2. chunk'.t0 = t0 /\ chunk'.last = Last
  BY <1>1
<1>3. config.async \/ config.timeBase = "observation" => t0 <= obs
  BY LoopNumbers
<1>4. config.async /\ config.timeBase = "observation" => t0 = seen /\ Attended(t0)
  OBVIOUS
<1>5. obs <= sim /\ (config.async => \A o \in Asked : Attended(o))
  BY DEF AttendedChunks
<1> QED BY <1>2, <1>3, <1>4, <1>5 DEF AttendedChunks, Attended

LEMMA SameAsked ==
  ASSUME UNCHANGED <<requests, results, item>>
  PROVE  Asked' = Asked
  BY DEF Asked

LEMMA AttendedStep == IInv /\ LoopModes /\ AttendedChunks /\ [Next]_vars => AttendedChunks'
<1> SUFFICES ASSUME IInv, LoopModes, AttendedChunks, [Next]_vars PROVE AttendedChunks'
  OBVIOUS
<1>0. LoopTypeOK /\ Inference /\ imageAge \in Int /\ imageAge <= imageAge
  BY LoopNumbers DEF IInv, TypeOK, Inference
<1>1. CASE \/ Approach \/ NoApproach \/ StartFails \/ Observe \/ LoopEnds \/ StaleState
           \/ AsksNothing \/ StaleImage \/ StartsInference \/ InferenceRaises
           \/ Stop \/ Interrupt \/ Join \/ StatesArrive \/ PollsNothing \/ UNCHANGED vars
  <2>1. /\ UNCHANGED <<config, sim, imageAge, requests, results, item>>
        /\ obs' \in {obs, sim} /\ chunk' \in {chunk, None}
    BY <1>1 DEF vars, world, loopVars, playerVars, inferenceVars, Approach, NoApproach, StartFails, Raise,
       Observe, LoopEnds, StaleState, AsksNothing, StaleImage, StartsInference, InferenceRaises, Stop,
       Interrupt, Join, StatesArrive, PollsNothing, PollEmpty, PlayerReset, NextTick
  <2> QED BY <1>0, <2>1, SameAsked, AttendedKeeps
<1>2. CASE Command
  <2>1. /\ UNCHANGED <<config, sim, imageAge, requests, results, item, obs>>
        /\ chunk' \in {chunk, None}
    BY <1>2 DEF Command, world, inferenceVars, Commands, PlayNothing, DropStale, PlayUnmeasured,
       PlayCommand, RepeatCommand, HoldNothing
  <2> QED BY <1>0, <2>1, SameAsked, AttendedKeeps
<1>3. CASE FramesArrive
  <2>1. /\ UNCHANGED <<config, sim, obs, chunk, requests, results, item>>
        /\ imageAge' \in 0..imageAge - 1
    BY <1>3 DEF FramesArrive, loopVars, playerVars, inferenceVars
  <2>2. imageAge' \in Int /\ imageAge' <= imageAge
    BY <1>0, <2>1
  <2> QED BY <1>0, <2>1, <2>2, SameAsked, AttendedKeeps
<1>4. CASE Begin \/ PollsError \/ Worker \/ Close
  <2>1. UNCHANGED <<config, sim, imageAge, obs, chunk>>
    BY <1>4 DEF Begin, PollsError, Raise, Worker, Close, world, loopVars, playerVars
  <2>2. CASE Begin
    <3>1. UNCHANGED <<requests, results, item>>
      BY <2>2 DEF Begin, StartWorker, inferenceVars
    <3> QED BY <1>0, <2>1, <3>1, SameAsked, AttendedKeeps
  <2>3. CASE PollsError
    BY <1>0, <2>1, <2>3, PollAsks, AttendedKeeps DEF PollsError
  <2>4. CASE Worker
    BY <1>0, <2>1, <2>4, WorkAsks, AttendedKeeps DEF Worker
  <2>5. CASE Close
    <3>1. \/ UNCHANGED <<requests, results, item>>
          \/ requests' = Append(requests, STOP) /\ UNCHANGED <<results, item>>
      BY <2>5 DEF Close, RequestStop, inferenceVars
    <3>2. Asked' \subseteq Asked
      BY <1>0, <3>1, SameAsked, QueueAsks
    <3> QED BY <1>0, <2>1, <3>2, AttendedKeeps
  <2> QED BY <1>4, <2>2, <2>3, <2>4, <2>5
<1>5. CASE Blocked \/ Sleep
  <2>1. UNCHANGED <<config, obs, chunk, requests, results, item>> /\ Elapse
    BY <1>5 DEF Blocked, Sleep, playerVars, inferenceVars
  <2> QED BY <1>0, <2>1, SameAsked, AttendedElapses
<1>6. CASE PollsChunk
  <2>1. /\ pc = "poll" /\ Poll("chunk") /\ InstallReply(Head(results).obs, obs)
        /\ UNCHANGED <<config, sim, imageAge, obs>>
    BY <1>6 DEF PollsChunk, world
  <2>2. Asked' \subseteq Asked /\ Head(results).obs \in Asked /\ config.async
    BY <1>0, <2>1, PollAsks DEF LoopModes
  <2>3. Head(results).obs \in Time /\ obs \in Time
    BY <1>0, <2>2 DEF Asked, LoopTypeOK
  <2>4. config.real => Attended(Head(results).obs)
    BY <2>2 DEF AttendedChunks
  <2> QED
    <3>1. CASE config.real
      BY <1>0, <2>1, <2>2, <2>3, <2>4, <3>1, AttendedInstalls DEF Attended
    <3>2. CASE ~config.real
      BY <2>1, <3>2 DEF AttendedChunks
    <3> QED BY <3>1, <3>2
<1>7. CASE InferenceReturns
  <2>1. /\ pc = "infer" /\ InstallReply(obs, sim)
        /\ UNCHANGED <<config, sim, imageAge, obs, requests, results, item>>
    BY <1>7 DEF InferenceReturns, world, inferenceVars
  <2>2. ~config.async /\ obs \in Time /\ sim \in Time /\ obs <= obs
    BY <1>0, <2>1 DEF LoopModes, LoopTypeOK
  <2> QED BY <1>0, <2>1, <2>2, SameAsked, AttendedInstalls
<1>8. CASE Asks
  <2>1. /\ pc = "ask" /\ config.async /\ ~ImageIsStale /\ ~inFlight /\ Submit(obs)
        /\ UNCHANGED <<config, sim, imageAge, obs, chunk>>
    BY <1>8 DEF Asks, MayAsk, world, playerVars
  <2>2. obs \in Observation /\ obs = sim
    BY <1>0, <2>1 DEF LoopTypeOK, LoopModes
  <2>3. Asked' \subseteq Asked \cup {obs}
    BY <1>0, <2>1, <2>2, QueueAsks DEF Submit
  <2>4. config.real => Attended(obs)
    BY <1>0, <2>1, <2>2, LoopNumbers DEF ImageIsStale, Attended
  <2> QED BY <2>1, <2>3, <2>4 DEF AttendedChunks, Attended
<1> QED BY <1>1, <1>2, <1>3, <1>4, <1>5, <1>6, <1>7, <1>8 DEF Next, Loop, Over

LEMMA LiveStep == IInv /\ StatesLive /\ [Next]_vars => StatesLive'
<1> SUFFICES ASSUME IInv, StatesLive, [Next]_vars, config'.real, pc' \in LoopPC \ {"observe", "sleep"}
             PROVE  stateAge' <= MaxStateAge + waited'
  BY DEF StatesLive
<1>0. LoopTypeOK /\ stateAge \in Int /\ waited \in Int
  BY LoopNumbers DEF IInv, TypeOK
<1>1. CASE Observe
  BY <1>0, <1>1, LoopNumbers DEF Observe, StateIsStale, world
<1>2. CASE Blocked
  <2>1. /\ config.real /\ Elapse /\ waited' = waited + 1 /\ pc = "infer"
    BY <1>2 DEF Blocked
  <2>2. stateAge <= MaxStateAge + waited
    BY <2>1 DEF StatesLive, LoopPC
  <2>3. stateAge' <= stateAge + 1 /\ stateAge' \in Int
    BY <1>0, <2>1, RealElapse
  <2> QED BY <1>0, <2>1, <2>2, <2>3, LoopNumbers
<1>3. CASE StatesArrive
  <2>1. stateAge <= MaxStateAge + waited /\ stateAge' \in 0..stateAge - 1 /\ waited' = waited
    BY <1>3 DEF StatesArrive, StatesLive, loopVars
  <2> QED BY <1>0, <2>1, LoopNumbers
<1>4. CASE ~Observe /\ ~Blocked /\ ~StatesArrive
  <2>1. /\ pc \in LoopPC \ {"observe", "sleep"} /\ UNCHANGED <<config, stateAge, waited>>
    BY <1>4 DEF Next, Loop, Over, vars, loopVars, world, Approach, NoApproach, StartFails, Begin, Raise,
       LoopEnds, StaleState, PollsNothing, PollsChunk, PollsError, AsksNothing,
       StaleImage, Asks, StartsInference, InferenceReturns, InferenceRaises, Command, Sleep,
       Stop, Interrupt, Close, Join, Worker, FramesArrive, LoopPC
  <2> QED BY <2>1 DEF StatesLive
<1> QED BY <1>1, <1>2, <1>3, <1>4

LEMMA LoopInvariance == Spec => [](IInv /\ LoopInv)
<1>1. Init => IInv /\ LoopInv
  BY InitInductive, LoopInitInv
<1>2. IInv /\ [Next]_vars => IInv'
  BY QuietStep, BusyStep DEF Next, Loop, Over
<1>3. IInv /\ LoopInv /\ [Next]_vars => (IInv /\ LoopInv)'
  BY <1>2, ModesStep, AttendedStep, LiveStep DEF LoopInv
<1> QED BY <1>1, <1>3, PTL DEF Spec

\* Every step of a rollout is a call of the player at the tick's own time, the
\* tick's next look at the clock, or nothing to it.
LEMMA LoopPlayStep == IInv /\ [Next]_vars => [PlayerNext]_<<playerVars, obs>>
<1> SUFFICES ASSUME IInv, [Next]_vars
             PROVE  PlayerNext \/ UNCHANGED <<playerVars, obs>>
  OBVIOUS
<1>0. LoopTypeOK /\ Inference
  BY DEF IInv, TypeOK, Inference
<1>1. CASE Approach
  BY <1>1 DEF Approach, PlayerNext
<1>2. CASE Observe \/ LoopEnds
  BY <1>0, <1>2 DEF Observe, LoopEnds, PlayerNext, LoopTypeOK
<1>3. CASE PollsChunk
  <2>1. Poll("chunk") /\ InstallReply(Head(results).obs, obs) /\ obs' = obs
    BY <1>3 DEF PollsChunk
  <2>2. Head(results).obs \in Time
    BY <1>0, <2>1, PollKeeps
  <2> QED BY <1>0, <2>1, <2>2, InstallTypes DEF PlayerNext, InstallSome, LoopTypeOK
<1>4. CASE InferenceReturns
  <2>1. InstallReply(obs, sim) /\ obs' = obs
    BY <1>4 DEF InferenceReturns
  <2> QED BY <1>0, <2>1, InstallTypes DEF PlayerNext, InstallSome, LoopTypeOK
<1>5. CASE Command
  BY <1>5 DEF Command, Commands, PlayerNext
<1>6. CASE ~(Approach \/ Observe \/ LoopEnds \/ PollsChunk \/ InferenceReturns \/ Command)
  BY <1>6 DEF Next, Loop, Over, vars, loopVars, NoApproach, StartFails, Begin, Raise,
     StaleState, PollsNothing, PollsError, AsksNothing,
     StaleImage, Asks, StartsInference, Blocked, InferenceRaises, Sleep,
     Stop, Interrupt, Close, Join, Worker, StatesArrive, FramesArrive
<1> QED BY <1>1, <1>2, <1>3, <1>4, <1>5, <1>6

\* The loop makes every call of a tick with that tick's observation, so what
\* the executor promises of its own clock is what the loop is told.
THEOREM LoopIsPlayer == Spec => LoopPlays
<1>1. Init => PlayerInit /\ obs \in Time
  BY DEF Init
<1>2. IInv /\ [Next]_vars => [PlayerNext]_<<playerVars, obs>>
  BY LoopPlayStep
<1> QED BY <1>1, <1>2, RolloutInductive, PTL DEF Spec, LoopPlays, PlayerSpec

\* The only step from the command to the sleep.
LEMMA OnlyCommand == [Next]_vars /\ pc = "command" /\ pc' = "sleep" => Command
  BY DEF Next, Loop, Over, vars, loopVars, Approach, NoApproach, StartFails, Begin, Raise,
     Observe, LoopEnds, StaleState, PollsNothing, PollsChunk, PollsError, AsksNothing,
     StaleImage, Asks, StartsInference, Blocked, InferenceReturns, InferenceRaises, Sleep,
     Stop, Interrupt, Close, Join, Worker, StatesArrive, FramesArrive

\* No command is sent from joint states older than the guard's limit and the
\* inference that blocked the loop since the guard looked.
THEOREM DeadStreamsStop == Spec => DeadStreamStops
<1>1. IInv /\ LoopInv /\ [Next]_vars =>
        [(Sends /\ config.real) => stateAge <= MaxStateAge + waited]_vars
  BY DEF LoopInv, StatesLive, Sends, LoopPC
<1> QED BY <1>1, LoopInvariance, PTL DEF Spec, DeadStreamStops

\* With inference beside the loop, the rows played after a camera died are
\* bounded by the guard's limit and one chunk: a chunk's t0 is a time at which
\* the guard looked, and past its last row the loop holds.
THEOREM BlindDrivingIsBounded == Spec => BlindDriving
<1> DEFINE Blind ==
      (Sends /\ op' = "step" /\ config.real /\ config.async /\ config.timeBase = "observation")
        => imageAge < MaxImageAge + Last - chunk.offset
<1>1. ASSUME IInv, LoopInv, [Next]_vars, Sends, op' = "step", config.real, config.async,
             config.timeBase = "observation"
      PROVE  imageAge < MaxImageAge + Last - chunk.offset
  <2>1. Command /\ pc = "command" /\ obs = sim
    BY <1>1, OnlyCommand DEF Sends, LoopInv, LoopModes
  <2>2. ~Holds /\ chunk # None
    BY <1>1, <2>1 DEF Command, Commands, PlayNothing, DropStale, PlayUnmeasured, PlayCommand,
       RepeatCommand, HoldNothing
  <2>3. ~(obs - chunk.t0 + chunk.offset >= chunk.last)
    BY <1>1, <2>2 DEF Holds, RanOut, IndexAt
  <2>4. chunk.last = Last /\ imageAge <= MaxImageAge + sim - chunk.t0
    BY <1>1, <2>2 DEF LoopInv, AttendedChunks, Attended
  <2>5. LoopTypeOK
    BY <1>1 DEF IInv, TypeOK
  <2> QED BY <2>1, <2>2, <2>3, <2>4, <2>5, LoopNumbers
<1>2. IInv /\ LoopInv /\ [Next]_vars => [Blind]_vars
  BY <1>1
<1> QED BY <1>2, LoopInvariance, PTL DEF Spec, BlindDriving

\* Once the policy has spoken no tick of a real run is silent, whatever the
\* worker's timing: the loop has a chunk, or holds, and real time never goes
\* back under a chunk.
THEOREM StreamIsNeverSilent == Spec => StreamNeverSilent
<1> DEFINE Speaks ==
      (pc = "command" /\ pc' = "sleep" /\ spoken /\ op' = "silent") =>
         \/ config.timeBase = "arrival" /\ ~config.async
         \/ ~config.real /\ chunk # None /\ chunk' = None
<1>1. ASSUME IInv, LoopInv, [Next]_vars, pc = "command", pc' = "sleep", spoken, op' = "silent"
      PROVE  \/ config.timeBase = "arrival" /\ ~config.async
             \/ ~config.real /\ chunk # None /\ chunk' = None
  <2>1. Commands
    BY <1>1, OnlyCommand DEF Command
  <2>2. chunk = None => config.async
    BY <1>1 DEF LoopInv, LoopModes
  <2>3. DropStale
    BY <1>1, <2>1, <2>2 DEF Commands, Holds, RanOut, PlayNothing, PlayUnmeasured, PlayCommand,
       RepeatCommand, HoldNothing
  <2>4. chunk # None /\ chunk' = None /\ obs < chunk.t0 - RebaseTicks
    BY <2>3 DEF DropStale, Stale
  <2>5. LoopTypeOK /\ config.timeBase \in {"observation", "arrival"}
    BY <1>1 DEF IInv, TypeOK, LoopTypeOK, Config
  <2>6. config.real /\ (config.async \/ config.timeBase = "observation") => FALSE
    BY <1>1, <2>4, <2>5, LoopNumbers DEF LoopInv, AttendedChunks
  <2> QED BY <2>4, <2>5, <2>6
<1>2. IInv /\ LoopInv /\ [Next]_vars => [Speaks]_vars
  BY <1>1
<1> QED BY <1>2, LoopInvariance, PTL DEF Spec, StreamNeverSilent
=============================================================================
