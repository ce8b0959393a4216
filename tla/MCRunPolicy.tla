----------------------------- MODULE MCRunPolicy -----------------------------
(***************************************************************************)
(* RunPolicy for TLC: three command lines in use - the benchmark with the  *)
(* policy in this process, the rig with a remote policy, the rig driving   *)
(* its base first - each as it is, with every other value of every one     *)
(* option, and with the pairs of values that meet in the code; on a rig    *)
(* with nothing wrong or one thing wrong.                                  *)
(***************************************************************************)
EXTENDS RunPolicy

Benchmark == [adapter |-> "dummy"]

OnRig ==
  [world |-> "real", backend |-> "remote", actionLayout |-> Layout,
   stateLayout |-> Layout, startPose |-> "file"]

Driving == [approach |-> "perception", profile |-> "rig"] @@ OnRig

Usual == {Benchmark, OnRig, Driving}

With(line, o, v) == (o :> v) @@ line

\* Options the code reads together.
Meeting ==
  { {"startPose", "startPoseCheck"}, {"wait", "keepalive"}, {"activate", "keepalive"},
    {"actionLayout", "stateLayout"}, {"latch", "latchNear"}, {"approachOnly", "skipApproach"},
    {"cameras", "dummyObs"}, {"wireSize", "backend"}, {"async", "backend"} }

OneOff == UNION {{With(line, o, v) : v \in Values(o)} : line \in Usual, o \in Option}

TwoOff ==
  UNION {UNION {{With(With(line, o, v), p, w) : v \in Values(o), w \in Values(p)} :
                  o \in pair, p \in pair} : line \in Usual, pair \in Meeting}

Lines == OneOff \cup TwoOff

Sound == [imports |-> TRUE, streams |-> Stream, shapes |-> TRUE, atStart |-> TRUE, live |-> TRUE, serves |-> Layout]

RigStates ==
  {Sound} \cup {[Sound EXCEPT ![f] = FALSE] : f \in {"imports", "shapes", "atStart", "live"}}
    \cup {[Sound EXCEPT !.streams = Stream \ {s}] : s \in Stream}
    \cup {[Sound EXCEPT !.serves = s] : s \in Emitted \ {Layout}}
=============================================================================
