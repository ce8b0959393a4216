------------------------------ MODULE MCApproach ------------------------------
(***************************************************************************)
(* The two approaches for TLC.                                             *)
(* By odometry: two waypoints, two legs, two axes, and every stage.        *)
(* By camera: distances in units of the tolerance, 0.05 m.                 *)
(***************************************************************************)
EXTENDS Approaches

MCStages == <<"spine", "navigate", "place_arms", "fine", "start_pose", "done">>

MCAxes == <<"front", "yaw">>

\* Off on one axis, on both, at the goal, and in the tolerance of the first
\* waypoint only.
MCPose ==
  {[front |-> -3, yaw |-> 0], [front |-> 0, yaw |-> 0], [front |-> 1, yaw |-> 0],
   [front |-> 3, yaw |-> 3], [front |-> 0, yaw |-> 3]}

MCVelocity == {v \in [{"front", "yaw"} -> {0, 2}] : v["front"] = 0 \/ v["yaw"] = 0}

MCTolerance == <<1, 0>>

MCPosition == -1..20

\* The simulation's profile, and the rig's.
MCProfiles ==
  {[baseOnly |-> FALSE, continuous |-> FALSE], [baseOnly |-> TRUE, continuous |-> TRUE]}

MCStartError == {-2, 0, 1, 2}
=============================================================================
