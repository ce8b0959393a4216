---------------------------- MODULE MCRolloutParts ----------------------------
(***************************************************************************)
(* Two cameras, of which one may die while the other goes on; and a small  *)
(* executor: one joint of each arm, two sub-steps to a row.                *)
(***************************************************************************)
EXTENDS RolloutParts

MCCamera == <<"head", "wrist">>

MCJoint == {"left", "right"}

Arm(l, r) == [j \in MCJoint |-> IF j = "left" THEN l ELSE r]

Drive(vx, wz) == [a \in Axis |-> IF a = "x" THEN vx ELSE IF a = "w" THEN wz ELSE 0]

MCRow(arm, grip, twist) == [arm |-> arm, grip |-> grip, twist |-> twist]

\* A reach that drives forward at full speed, and a there-and-back that only
\* holds an axis already moving, with an over-open gripper.
MCChunks ==
  { <<MCRow(Arm(0, 0), 0, Drive(2, 0)), MCRow(Arm(2, 0), 0, Drive(2, 0))>>,
    <<MCRow(Arm(1, 1), 2, Drive(1, -1)), MCRow(Arm(0, 0), 2, Drive(1, -1)),
      MCRow(Arm(1, 0), 2, Drive(1, -1))>> }

MCSamples == {Arm(0, 2), Arm(5, 2), NotFinite}

MCLeashes == {NoLeash, 1}
=============================================================================
