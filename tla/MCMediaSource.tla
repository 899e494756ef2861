----------------------------- MODULE MCMediaSource -----------------------------
(* Constants for model checking MediaSource.                                   *)
EXTENDS MediaSource

(* The second timeline has only a longer duration, the third no audio.         *)
MCTypes == <<{"audio", "video"}, {"audio", "video"}, {"video"}>>
MCDurations == <<1, 2, 2>>
================================================================================
