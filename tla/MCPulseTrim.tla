---------------------------- MODULE MCPulseTrim ----------------------------
(* Two linear axes, one of them with every kind of error and velocity, and  *)
(* yaw.                                                                     *)
EXTENDS PulseTrim

MCAxes == <<"front", "left", "yaw">>

Errors == [front |-> {-6, 0, 5, 6}, left |-> {0}, yaw |-> {0, 6}]

Speeds == [front |-> {-12, -2, 0, 2, 12}, yaw |-> {-2, 0, 2}]

MCPose ==
  {p \in [{"front", "left", "yaw"} -> -6..6] : \A a \in {"front", "left", "yaw"} : p[a] \in Errors[a]}

\* One axis moves at a time, or two, or the base creeps along the diagonal.
MCVelocity ==
  {[front |-> x, left |-> 0, yaw |-> 0] : x \in Speeds["front"]}
  \cup {[front |-> x, left |-> 0, yaw |-> w] : x \in {0, 12}, w \in Speeds["yaw"]}
  \cup {[front |-> 1, left |-> 1, yaw |-> 0]}
=============================================================================
