-------------------------- MODULE MCPlayerRecovery --------------------------
(* Constants for model checking PlayerRecovery.                                *)
EXTENDS PlayerRecovery

CONSTANTS audio, video

MCStreams == {audio, video}
=============================================================================
