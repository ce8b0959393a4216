----------------------------- MODULE ChunkPlayer -----------------------------
(***************************************************************************)
(* What the control loop relies on of the chunk executor                   *)
(* (camelo/control/chunk_executor.py): which chunk it plays, where in time *)
(* that chunk starts and ends, and at which sim times a call gives a       *)
(* command.  ChunkExecutor implements this specification; the rollout loop *)
(* is composed with it.                                                    *)
(***************************************************************************)
EXTENDS Integers

CONSTANTS
  Time,         \* the sim clock
  RebaseTicks,  \* the 1.0 s of clock regression that drops a chunk
  None

Playback == [t0 : Time, last : Nat, offset : Int]

ASSUME PlayerAssumption ==
  Time \subseteq Int /\ RebaseTicks \in Nat /\ None \notin Playback

VARIABLES
  chunk,   \* the chunk playing, or None: its t0, the index of its last row
           \* and the splice's offset, in time units
  spoken,  \* a command was given since the last reset: one that hold() repeats
  op,      \* what the last call did: set, step or hold, silent if it gave no
           \* command, none before the tick's first call
  obs      \* the sim time the tick's calls are made with

playerVars == <<chunk, spoken, op>>

\* Playback position at t, and whether no unplayed row is left there.
IndexAt(c, t) == t - c.t0 + c.offset

RanOut == IF chunk = None THEN TRUE ELSE IndexAt(chunk, obs) >= chunk.last

\* Mutant: the comparison is the wrong way round.
StaleByAge == IF chunk = None THEN FALSE ELSE chunk.t0 < obs - RebaseTicks

\* The clock was rebased under the chunk.
Stale == IF chunk = None THEN FALSE ELSE obs < chunk.t0 - RebaseTicks

PlayerInit ==
  /\ chunk = None
  /\ spoken = FALSE
  /\ op = "none"

PlayerReset ==
  /\ chunk' = None
  /\ spoken' = FALSE
  /\ op' = "none"

\* The latest chunk wins.
Install(t0, last, offset) ==
  /\ chunk' = [t0 |-> t0, last |-> last, offset |-> offset]
  /\ op' = "set"
  /\ UNCHANGED spoken

\* step(): with no chunk it is silent, a stale one it drops.
PlayNothing ==
  /\ chunk = None
  /\ op' = "silent"
  /\ UNCHANGED <<chunk, spoken>>

DropStale ==
  /\ Stale
  /\ chunk' = None
  /\ op' = "silent"
  /\ UNCHANGED spoken

\* step() before any joint state was read.
PlayUnmeasured ==
  /\ chunk # None /\ ~Stale
  /\ ~spoken
  /\ op' = "silent"
  /\ UNCHANGED <<chunk, spoken>>

PlayCommand ==
  /\ chunk # None /\ ~Stale
  /\ spoken' = TRUE
  /\ op' = "step"
  /\ UNCHANGED chunk

\* hold(), whose only caller asks exhausted() first: the last command again,
\* if there was one.
RepeatCommand ==
  /\ RanOut
  /\ spoken
  /\ op' = "hold"
  /\ UNCHANGED <<chunk, spoken>>

HoldNothing ==
  /\ RanOut
  /\ ~spoken
  /\ op' = "silent"
  /\ UNCHANGED <<chunk, spoken>>

InstallSome ==
  /\ chunk' \in Playback
  /\ op' = "set"
  /\ UNCHANGED spoken

\* The loop looks at the clock again: a call made from here on is judged at
\* the new time.
NextTick ==
  /\ op' = "none"
  /\ UNCHANGED <<chunk, spoken>>

PlayerNext ==
  \/ /\ \/ PlayerReset \/ InstallSome
        \/ PlayNothing \/ DropStale \/ PlayUnmeasured \/ PlayCommand
        \/ RepeatCommand \/ HoldNothing
     /\ UNCHANGED obs
  \/ NextTick /\ obs' \in Time

\* The promise.  A step gives a command exactly when the chunk is not stale at
\* the time it is asked, unless no joint state was ever read; a hold repeats
\* one, and only once no row is left at that time; and once a command was
\* given, a call is silent only if there is no chunk or it drops one.
PlayerSpec == PlayerInit /\ obs \in Time /\ [][PlayerNext]_<<playerVars, obs>>
=============================================================================
