------------------------------ MODULE MCCommands ------------------------------
(***************************************************************************)
(* A control tick's commands for TLC.  The gripper has four openings: shut,*)
(* half shut, half open, open.  The publisher has two periods of the base  *)
(* to one of the keep-alive, as on the robot, and one speed beyond the     *)
(* limit.                                                                  *)
(***************************************************************************)
EXTENDS Commands

MCFraction == {0, 2, 4, 6}

MCSpeed == {0, 2}
=============================================================================
