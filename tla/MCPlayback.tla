------------------------------ MODULE MCPlayback ------------------------------
(* The configuration has a media of two positions.                             *)
EXTENDS Playback
===============================================================================
