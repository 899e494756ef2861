---------------------------- MODULE MediaTimelines ----------------------------
(* What a manifest says of its segments: periods (vinyl/src/track/dash/util/   *)
(* mpd.ts), the segments of a DASH representation in each form in which they   *)
(* can be written (track/dash/timeline/DashRepresentationSegmentProvider.ts),  *)
(* those of an HLS playlist (track/hls/util/hlsSegmentTime.ts), and the lookup *)
(* of the segment at a time (streaming/util/segment.ts).                       *)
(*                                                                             *)
(* Times are whole numbers of one timescale.  A segment is its number, and the *)
(* part of the timeline it is to be appended to.                               *)
EXTENDS Integers, Sequences, FiniteSets, SequencesExt, FiniteSetsExt

Unset == -1     \* an attribute the manifest does not have, the end of live media

Lesser(a, b) == IF a < b THEN a ELSE b

Greater(a, b) == IF a > b THEN a ELSE b

--------------------------------------------------------------------------------
\* Periods: [periods : Seq([start, duration, qualities]), duration]

calculatePeriodStart(mpd) ==
    LET start[i \in DOMAIN mpd.periods] ==
            LET period == mpd.periods[i] IN
            IF period.start # Unset THEN period.start
            ELSE IF i = 1 THEN 0
            ELSE start[i - 1] + Greater(mpd.periods[i - 1].duration, 0)
    IN  start

calculatePeriodEnd(mpd, i) ==
    LET start == calculatePeriodStart(mpd) IN
    CASE mpd.periods[i].duration # Unset -> start[i] + mpd.periods[i].duration
      [] mpd.periods[i].duration = Unset /\ i < Len(mpd.periods) -> start[i + 1]
      [] OTHER -> mpd.duration

periodRange(mpd, i) == [start |-> calculatePeriodStart(mpd)[i], end |-> calculatePeriodEnd(mpd, i)]

isBefore(t, end) == end = Unset \/ t < end

(* The period that spans a time, or 0.                                         *)
getMediaPeriodAtTime(mpd, t) ==
    LET started == {i \in DOMAIN mpd.periods : calculatePeriodStart(mpd)[i] <= t}
        i == Cardinality(started)
    IN  IF i > 0 /\ isBefore(t, calculatePeriodEnd(mpd, i)) THEN i ELSE 0

--------------------------------------------------------------------------------
\* The start of each segment, and the end of the last, in the media's own time

\* S elements: [t, d, r]
calculateSampleTimesFromSegmentTimeline(S) ==
    LET expand(acc, s) ==
            LET t == IF s.t # Unset THEN s.t ELSE acc.next IN
            [next |-> t + (s.r + 1) * s.d, out |-> acc.out \o [k \in 1..(s.r + 1) |-> t + (k - 1) * s.d]]
        all == FoldLeft(expand, [next |-> 0, out |-> <<>>], S)
    IN  Append(all.out, all.next)

(* A ValidationError: no segment of the quality can be had.                    *)
NoTimes == <<>>

(* numSegments: as many as the period takes, or as there are SegmentURLs.      *)
calculateFixedSegmentSampleTimes(d, numSegments, range) ==
    LET n == IF numSegments # Unset THEN numSegments
             ELSE (range.end - range.start + d - 1) \div d
    IN  IF range.end = Unset THEN NoTimes
        ELSE Append([i \in 1..n |-> (i - 1) * d], range.end)

(* The durations of a sidx box from its earliest presentation time.            *)
getSidxSampleTimes(first, durations) ==
    [i \in 1..(Len(durations) + 1) |-> FoldLeft(LAMBDA t, d : t + d, first, SubSeq(durations, 1, i - 1))]

(* Cues say where the clusters begin; the last one lasts to the end of the     *)
(* period.                                                                     *)
createSegmentsFromWebmCues(times, range) ==
    IF times = <<>> \/ range.end = Unset THEN NoTimes ELSE Append(times, range.end)

(* The segments of a playlist follow one another from 0.                       *)
buildSegmentTimeline(durations) == getSidxSampleTimes(0, durations)

sampleTimes(form, range) ==
    CASE form.kind = "timeline" -> calculateSampleTimesFromSegmentTimeline(form.S)
      [] form.kind = "fixed" -> calculateFixedSegmentSampleTimes(form.d, form.count, range)
      [] form.kind = "sidx" -> getSidxSampleTimes(form.first, form.durations)
      [] form.kind = "cues" -> createSegmentsFromWebmCues(form.times, range)
      [] form.kind = "playlist" -> buildSegmentTimeline(form.durations)

sampleToMpdTime(sample, start, presentationTimeOffset) == start + sample - presentationTimeOffset

(* Mutant: media that does not begin at 0 is not moved to its period.          *)
MutIgnoresOffset(form, range) ==
    LET times == sampleTimes(form, range)
        at(i) == sampleToMpdTime(times[i], range.start, 0)
    IN  [i \in 1..(Len(times) - 1) |->
            [number |-> i, start |-> Greater(range.start, at(i)),
             end |-> IF range.end = Unset THEN at(i + 1) ELSE Lesser(range.end, at(i + 1))]]

(* The segments of a quality, cut at the ends of its period.                   *)
createTimeline(form, range) ==
    LET times == sampleTimes(form, range)
        at(i) == sampleToMpdTime(times[i], range.start, form.presentationTimeOffset)
    IN  [i \in 1..(Len(times) - 1) |->
            [number |-> i, start |-> Greater(range.start, at(i)),
             end |-> IF range.end = Unset THEN at(i + 1) ELSE Lesser(range.end, at(i + 1))]]

NoSegment == [number |-> 0, start |-> 0, end |-> 0]

getSegmentAtTime(t, segments, affordance) ==
    LET i == Cardinality({k \in DOMAIN segments : segments[k].start <= t + affordance}) IN
    IF i > 0 /\ t < segments[i].end THEN segments[i] ELSE NoSegment

(* The decoder of a segment, [id, map].  It is the one of its quality in the   *)
(* list, which has no map, but for an HLS segment with another EXT-X-MAP than  *)
(* the first: that one has a decoder of its own, in no list.                   *)
NoMap == 0

decoderOf(q, segment) ==
    LET map == q.form.maps[segment.number] IN
    IF q.form.kind # "playlist" \/ map \in {NoMap, q.form.maps[1]} THEN q.decoder
    ELSE [q.decoder EXCEPT !.map = map]

--------------------------------------------------------------------------------
\* The same in the words of the standard: where the n-th segment of the media begins

SegmentCount(form, range) ==
    CASE form.kind = "timeline" -> FoldLeft(LAMBDA n, s : n + s.r + 1, 0, form.S)
      [] form.kind = "fixed" ->
            IF form.count # Unset THEN form.count
            ELSE Cardinality({i \in 0..(range.end - range.start - 1) : i % form.d = 0})
      [] form.kind \in {"sidx", "playlist"} -> Len(form.durations)
      [] form.kind = "cues" -> Len(form.times)

(* In a timeline it is a repetition of the element that reaches as far as n,   *)
(* counted from the last element with a time of its own.                       *)
TimelineStart(S, n) ==
    LET reach(e) == FoldLeft(LAMBDA k, s : k + s.r + 1, 0, SubSeq(S, 1, e))
        e == CHOOSE x \in DOMAIN S : reach(x) >= n /\ (x = 1 \/ reach(x - 1) < n)
        timed == {x \in 1..e : S[x].t # Unset}
        a == IF timed = {} THEN 1 ELSE Max(timed)
        base == IF timed = {} THEN 0 ELSE S[a].t
    IN  base + FoldLeft(LAMBDA t, s : t + (s.r + 1) * s.d, 0, SubSeq(S, a, e - 1))
             + (n - 1 - reach(e - 1)) * S[e].d

(* On the timeline of the presentation.                                        *)
SegmentStart(form, range, n) ==
    range.start +
    CASE form.kind = "timeline" -> TimelineStart(form.S, n) - form.presentationTimeOffset
      [] form.kind = "fixed" -> (n - 1) * form.d
      [] form.kind \in {"sidx", "playlist"} ->
            form.first - form.presentationTimeOffset
                + FoldLeft(LAMBDA t, d : t + d, 0, SubSeq(form.durations, 1, n - 1))
      [] form.kind = "cues" -> form.times[n] - form.presentationTimeOffset
=============================================================================
