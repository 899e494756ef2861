--------------------------- MODULE QualitySelection ---------------------------
(* QualitySelectorImpl.selectQuality (vinyl/src/streaming/abr): which of the   *)
(* qualities of a content type the next segment is taken from.  A quality is   *)
(* [group, switching, decoder, bandwidth, height, audio]; the list is in order *)
(* of preference.                                                              *)
EXTENDS Integers, Sequences, FiniteSets, FiniteSetsExt

Absent == -1

AnyGroup == {}      \* switchingGroupIds is null

(* Bandwidths are compared in units of one over Scale, so that a multiplier in *)
(* tenths, interpolated over the buffer, needs no fraction.                    *)
Scale(o) == 10 * (IF o.high > 0 THEN o.high ELSE 1)

(* state: [previous, decoder, fetchedTime, active, ewmaLow, latest]; previous   *)
(* is an index, 0 when the preceding segment has none of these qualities, and  *)
(* decoder the one of that segment, which need not be that of the list.        *)
bandwidth(o, state) ==
    LET filled == IF state.fetchedTime < o.high THEN state.fetchedTime ELSE o.high
        multiplier == IF state.active /\ o.high > 0
                      THEN o.multiplierLow * o.high + (o.multiplierHigh - o.multiplierLow) * filled
                      ELSE o.multiplierHigh * (Scale(o) \div 10)
        estimate == IF state.active /\ state.latest < state.ewmaLow THEN state.latest ELSE state.ewmaLow
    IN  IF o.maxBandwidth # Absent /\ o.maxBandwidth * Scale(o) < estimate * multiplier
        THEN o.maxBandwidth * Scale(o)
        ELSE estimate * multiplier

withinResolution(o, q) == q.audio \/ Absent \in {o.maxHeight, q.height} \/ q.height <= o.maxHeight

fits(o, state, q) == q.bandwidth = Absent \/ q.bandwidth * Scale(o) <= bandwidth(o, state)

(* The measured bandwidth is lower than the quality of the last segment takes. *)
short(o, state, q) == q.bandwidth > 0 /\ ~fits(o, state, q)

(* Mutant: a buffer that is nearly empty does not hold the quality.            *)
MutNeverHolds(o, state, q) ==
    withinResolution(o, q) /\ short(o, state, q) /\ state.fetchedTime >= o.high

(* The quality is kept: no step down with ample data, none up with little.     *)
holds(o, state, q) ==
    /\ withinResolution(o, q)
    /\ IF short(o, state, q) THEN state.fetchedTime >= o.high ELSE state.fetchedTime < o.low

permitted(qs, o, state, q) ==
    state.previous # 0 =>
        LET p == qs[state.previous] IN
        /\ p.switching = AnyGroup \/ q.group \in p.switching
        /\ (o.restrictDecoder /\ p.audio /\ ~short(o, state, p)) => q.decoder = state.decoder

best(qs, o, state) ==
    LET within == {i \in DOMAIN qs : withinResolution(o, qs[i])}
        chosen == {i \in within : permitted(qs, o, state, qs[i]) /\ fits(o, state, qs[i])}
    IN  CASE chosen # {} -> Min(chosen)
          [] chosen = {} /\ within # {} -> Max(within)
          [] OTHER -> Len(qs)

selectQuality(qs, o, state) ==
    CASE o.strategy = "lowest" -> Len(qs)
      [] o.strategy = "highest" -> 1
      [] o.strategy = "fixed" /\ state.previous # 0 -> state.previous
      [] OTHER ->
            IF state.previous # 0 /\ holds(o, state, qs[state.previous])
            THEN state.previous ELSE best(qs, o, state)
=============================================================================
