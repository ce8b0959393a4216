------------------------------ MODULE MCEpisodes ------------------------------
(***************************************************************************)
(* Two episodes, the second after everything the first may leave behind; a *)
(* settle window as long as the pull of the old target, and one error more *)
(* than the tolerance on either side of it.                                *)
(***************************************************************************)
EXTENDS Episodes
=============================================================================
