---------------------------- MODULE BaseQuantizer ----------------------------
(***************************************************************************)
(* The hysteresis quantizer of camelo/control/base_quantizer.py: a         *)
(* continuous base twist (one signed velocity per axis, in units of the    *)
(* axis' pedal speed) becomes one pedal token.  The token held from the    *)
(* previous tick is an argument: the quantizer's whole state.              *)
(***************************************************************************)
EXTENDS Integers, Sequences

CONSTANTS
  Engage,    \* |velocity| at which an idle axis starts to move
  Release    \* a held token survives while its axis stays at or above this

\* __init__ raises ValueError unless release < engage; both are positive speeds.
ASSUME QuantizerAssumption ==
  /\ Engage \in Int /\ Release \in Int
  /\ 0 < Release /\ Release < Engage

Axes == <<"x", "y", "w">>     \* the order max() breaks ties in

Axis == {"x", "y", "w"}

Twist == [Axis -> Int]

ZeroTwist == [a \in Axis |-> 0]

PositiveToken == [x |-> "FWD", y |-> "A", w |-> "A+C"]

NegativeToken == [x |-> "BACK", y |-> "B", w |-> "B+C"]

Tokens == {"NONE", "FWD", "BACK", "A", "B", "A+C", "B+C"}

Magnitude(n) == IF n < 0 THEN -n ELSE n

\* The velocity a twist has in the direction a token stands for.
AlongToken(t, v) ==
  CASE t = "FWD" -> v["x"]   [] t = "BACK" -> -v["x"]
    [] t = "A"   -> v["y"]   [] t = "B"    -> -v["y"]
    [] t = "A+C" -> v["w"]   [] t = "B+C"  -> -v["w"]
    [] OTHER     -> 0

\* max(norm.items(), key=abs): the first axis of the greatest magnitude.
Dominant(v) ==
  IF Magnitude(v["x"]) >= Magnitude(v["y"]) /\ Magnitude(v["x"]) >= Magnitude(v["w"]) THEN "x"
  ELSE IF Magnitude(v["y"]) >= Magnitude(v["w"]) THEN "y"
  ELSE "w"

\* The held token is kept while its own axis stays above the release
\* threshold and no other axis clearly dominates it.
KeepsToken(t, v) ==
  /\ t # "NONE"
  /\ AlongToken(t, v) >= Release
  /\ LET top == Magnitude(v[Dominant(v)])
     IN  top <= AlongToken(t, v) \/ top <= Engage

Quantize(t, v) ==
  IF KeepsToken(t, v) THEN t
  ELSE IF Magnitude(v[Dominant(v)]) < Engage THEN "NONE"
  ELSE IF v[Dominant(v)] > 0 THEN PositiveToken[Dominant(v)]
  ELSE NegativeToken[Dominant(v)]

=============================================================================
