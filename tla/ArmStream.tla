------------------------------- MODULE ArmStream -------------------------------
(***************************************************************************)
(* What the controllers and the session are promised of the arm and        *)
(* gripper stream, whoever publishes on it: each command of the loop goes  *)
(* out once, in order; everything else is a repeat of the newest one; and  *)
(* while the stream is kept alive it is silent for less than Gap.          *)
(***************************************************************************)
EXTENDS Integers

CONSTANT Gap

VARIABLES
  arms,    \* the ordinal of the arms on the wire, 0 before the first
  grips,   \* and of the grippers
  age,     \* how long the arm topic has been silent
  kept     \* whether somebody keeps the stream alive

streamVars == <<arms, grips, age, kept>>

StreamInit == arms = 0 /\ grips = 0 /\ age = 0 /\ kept \in BOOLEAN

\* The next command,
NewArms == arms' = arms + 1 /\ age' = 0 /\ UNCHANGED <<grips, kept>>

\* and its grippers, or not: the hold phase commands arms only.
NewGrips == grips' = arms /\ UNCHANGED <<arms, age, kept>>

\* The newest command again.
Again == arms # 0 /\ age' = 0 /\ UNCHANGED <<arms, grips, kept>>

\* Nothing is sent.
Silence ==
  /\ arms # 0 /\ age' = age + 1
  /\ kept => age' < Gap
  /\ UNCHANGED <<arms, grips, kept>>

\* Nobody keeps it alive any more.
LetGo == kept /\ ~kept' /\ UNCHANGED <<arms, grips, age>>

StreamNext == NewArms \/ NewGrips \/ Again \/ Silence \/ LetGo

StreamSpec == StreamInit /\ [][StreamNext]_streamVars
=============================================================================
