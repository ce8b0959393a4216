------------------------------ MODULE MCRollout ------------------------------
(* A short rollout for TLC: chunks of three rows, replanned after one, that  *)
(* a splice may rewind by a row.                                             *)
EXTENDS Rollout

MCTime == 0..MaxTime

MCOffsets == {0, -1}
=============================================================================
