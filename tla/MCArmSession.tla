---------------------------- MODULE MCArmSession ----------------------------
(* Command lines of the arm session for TLC. *)
EXTENDS ArmSession

MCSide == {"left", "right"}

Both == <<"left", "right">>

MCOption(arms_, wait, activate, release, keepalive, gello) ==
  [arms |-> arms_, wait |-> wait, activate |-> activate, release |-> release,
   keepalive |-> keepalive, gello |-> gello]

\* Waiting for an operator and activating, for both arms and for one; without
\* a keep-alive, without a teardown, and without controllers at all.
MCOptions ==
  { MCOption(Both, TRUE, FALSE, TRUE, TRUE, FALSE),
    MCOption(Both, TRUE, TRUE, TRUE, TRUE, FALSE),
    MCOption(Both, FALSE, TRUE, FALSE, TRUE, FALSE),
    MCOption(Both, TRUE, TRUE, TRUE, FALSE, FALSE),
    MCOption(Both, FALSE, FALSE, TRUE, FALSE, TRUE),
    MCOption(<<"left">>, TRUE, FALSE, TRUE, TRUE, TRUE),
    MCOption(<<"left">>, TRUE, TRUE, TRUE, TRUE, TRUE) }

\* An operator activates both arms for a gello rollout.
OperatorOptions == {MCOption(Both, TRUE, FALSE, TRUE, TRUE, TRUE)}

\* The program activates both arms.
ActivateOptions == {MCOption(Both, TRUE, TRUE, TRUE, TRUE, FALSE)}
=============================================================================
