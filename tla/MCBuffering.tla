------------------------------ MODULE MCBuffering ------------------------------
EXTENDS Buffering

(* Two periods: the timestamps of segments 2 and on count from position 2.     *)
TwoPeriods == [n \in 0..MaxLast |-> IF n < 2 THEN 0 ELSE 2]

(* Partial appends and failures in DASH only: see ContentInPlace.              *)
AppendSizes == [kind \in BOOLEAN |-> IF kind THEN 10 ELSE 3]

Failures == [kind \in BOOLEAN |-> IF kind THEN 0 ELSE 2]
=============================================================================
