----------------------------- MODULE GripperWire -----------------------------
(***************************************************************************)
(* GripperStage under one name, Gripper, so that it can stand in a module  *)
(* beside the publisher that its command goes to: the two have a Tick, a   *)
(* MaxAge and an Older of their own.                                       *)
(***************************************************************************)
EXTENDS Integers

CONSTANTS
  Fraction, CloseBelow, ReleaseAbove, LatchedValue, HalfOpen,
  HoldTime, SustainTime, DwellTime, None,
  Horizon  \* GripperStage's MaxAge

VARIABLES
  config, closed, okFor, engaged, engagedFor, openFor, sent, closeAny,
  closeInEnv, policy, notOpenFor, rows, missFor, openedOnce

Gripper == INSTANCE GripperStage WITH MaxAge <- Horizon

ASSUME GripperAssumption == Gripper!StageAssumption

GripperSpec == Gripper!Spec

\* The latch lets go of an object only when it has held for hold_s, and every
\* command it was given for the sustain time after that was an opening:
\* no dip in between is forgotten, however the ticks are spaced.
ReleaseIsEarned == Gripper!ReleaseIsEarned

\* The gate closes only after it measured no miss for the dwell: a fly-through
\* banks no credit for the next one.
DwellIsReal == Gripper!DwellIsReal

\* "A close the gate forced is a close the observer sees": unless the gripper
\* was closed, or nothing was sent yet, and inside the envelope when the gate
\* fires on the ball.
GateCloseIsSeen == Gripper!GateCloseIsSeen

\* A policy that goes on commanding an opening gets its gripper back.
LatchLetsGo == Gripper!LatchLetsGo

\* A close is an edge of this episode's own commands: a gripper closed from
\* the first tick, or closed by the episode before, is not a grasp attempt.
CloseIsAnEdge == Gripper!CloseIsAnEdge
=============================================================================
