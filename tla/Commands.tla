-------------------------------- MODULE Commands --------------------------------
(***************************************************************************)
(* The two halves of a control tick that follow the executor: the stages   *)
(* that decide the gripper's opening (GripperWire), and the publisher that *)
(* it is handed to with the arms (CommandPublisher).  They share no state: *)
(* the opening is one number of a command, and the publisher sends any.  A *)
(* behaviour is of one of them, and the other stands where it begins.      *)
(***************************************************************************)
EXTENDS CommandPublisher, GripperWire

VARIABLE chosen

gripperVars ==
  <<config, closed, okFor, engaged, engagedFor, openFor, sent, closeAny,
    closeInEnv, policy, notOpenFor, rows, missFor, openedOnce>>

allVars == <<chosen, vars, gripperVars>>

ChosenInit ==
  /\ chosen \in {"gripper", "publisher"}
  /\ Init /\ Gripper!Init
  /\ chosen = "gripper" => ~real
  /\ chosen = "publisher" => config = (CHOOSE c \in Gripper!Config : TRUE)

OfGripper == chosen = "gripper" /\ UNCHANGED <<chosen, vars>>

OfPublisher == chosen = "publisher" /\ UNCHANGED <<chosen, gripperVars>>

ChosenNext == (OfGripper /\ Gripper!Next) \/ (OfPublisher /\ Next)

Calls == PublishGrippers \/ SetTwist \/ PublishBase \/ RepeatLast \/ SendZero \/ Cancel

\* The chosen one runs under its own fairness.
ChosenSpec ==
  /\ ChosenInit /\ [][ChosenNext]_allVars
  /\ WF_allVars(OfGripper /\ Gripper!Commanded) /\ WF_allVars(OfGripper /\ Gripper!Elapse)
  /\ WF_allVars(OfPublisher /\ Calls) /\ WF_allVars(OfPublisher /\ Timer)
  /\ WF_allVars(OfPublisher /\ Keepalive) /\ WF_allVars(OfPublisher /\ Tick)
=============================================================================
