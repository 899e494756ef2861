------------------------------- MODULE Streaming -------------------------------
(* The walk of a segment controller along the media (createSlotForTime and     *)
(* fetchedTime of vinyl/src/streaming/SegmentControllerImpl.ts), composed of   *)
(* the quality selection and of the segments the manifest describes.  Each     *)
(* quality has segments of its own, not always aligned with those of the       *)
(* others, and each period has qualities of its own; bandwidth and buffer      *)
(* change between any two segments.  The cache and the order of requests are   *)
(* module SegmentController.                                                   *)
EXTENDS MediaTimelines, QualitySelection

CONSTANTS
    Manifests,      \* a list of those of MediaTimelines, with the qualities of a period
    Options,        \* a list of those of the quality selector
    Bandwidths,     \* estimates of the network
    Affordance,     \* SEGMENT_START_AFFORDANCE
    EndOfTime       \* bound on the times looked up

OptionType ==
    [strategy : {"lowest", "highest", "best", "fixed"}, high : Nat, low : Nat,
     multiplierLow : Nat, multiplierHigh : Nat, maxBandwidth : Nat \cup {Unset},
     maxHeight : Nat \cup {Unset}, restrictDecoder : BOOLEAN]

IsList(q) == q \in Seq(Range(q))

(* The qualities of a period are all of the content type of the controller,    *)
(* and one may be followed by another of its own group.                        *)
AreQualities(qs) ==
    /\ IsList(qs)
    /\ \A k \in DOMAIN qs : LET q == qs[k] IN
        /\ {q.bandwidth, q.height} \subseteq Nat \cup {Unset} /\ q.audio \in BOOLEAN
        /\ q.switching = AnyGroup \/ q.group \in q.switching
        /\ \A j \in DOMAIN qs : qs[j].audio = q.audio

ASSUME StreamingAssumption ==
    /\ Bandwidths \subseteq Nat /\ Affordance \in Nat /\ EndOfTime \in Nat
    /\ \A o \in DOMAIN Options : Options[o] \in OptionType
    /\ \A m \in DOMAIN Manifests : LET periods == Manifests[m].periods IN
        /\ IsList(periods) /\ periods # <<>>
        /\ \A i \in DOMAIN periods : AreQualities(periods[i].qualities)

VARIABLES
    manifest, option,   \* which of the lists
    active, playhead,
    from, position,     \* what was fetched without a gap: from..position
    previous,           \* [period, quality, decoder] of the segment before position, or None
    ended,              \* no segment was found at position, or none can be had
    last                \* history: the last selection since the playhead moved, and its segment

streamingVars == <<manifest, option, active, playhead, from, position, previous, ended, last>>

NoDecoder == [id |-> 0, map |-> NoMap]

None == [period |-> 0, quality |-> 0, decoder |-> NoDecoder]

NoSelection == [period |-> 0, state |-> [previous |-> 0], quality |-> 0, at |-> 0, segment |-> NoSegment]

mpd == Manifests[manifest]

options == Options[option]

qualities(i) == mpd.periods[i].qualities

(* The segments of a quality are worked out once.                              *)
timelines ==
    [m \in DOMAIN Manifests |-> [i \in DOMAIN Manifests[m].periods |->
        [k \in DOMAIN Manifests[m].periods[i].qualities |->
            createTimeline(Manifests[m].periods[i].qualities[k].form, periodRange(Manifests[m], i))]]]

segmentsOf(i, k) == timelines[manifest][i][k]

(* Qualities that may follow one another are sorted by bandwidth and may be    *)
(* followed by the same ones.                                                  *)
IsLadder(qs) ==
    LET precedes(a, b) == qs[a].switching = AnyGroup \/ qs[b].group \in qs[a].switching IN
    \A a, b \in DOMAIN qs :
        precedes(a, b) =>
            /\ a < b => qs[a].bandwidth >= qs[b].bandwidth
            /\ a > b => qs[a].bandwidth <= qs[b].bandwidth
            /\ \A c \in DOMAIN qs : precedes(b, c) => precedes(a, c)

(* What the program relies on and does not make sure of: the default           *)
(* transformers sort each adaptation set, but a manifest says between which    *)
(* sets there is switching.                                                    *)
Ladders ==
    \A m \in DOMAIN Manifests : \A i \in DOMAIN Manifests[m].periods :
        IsLadder(Manifests[m].periods[i].qualities)

(* Periods and the times that a manifest gives for the media go forward.       *)
Chronological ==
    \A m \in DOMAIN Manifests : \A i \in DOMAIN Manifests[m].periods :
        LET starts == calculatePeriodStart(Manifests[m])
            range == periodRange(Manifests[m], i)
            qs == Manifests[m].periods[i].qualities
        IN  /\ {range.start, range.end} \subseteq Int
            /\ \A j \in DOMAIN Manifests[m].periods : i <= j => starts[i] <= starts[j]
            /\ \A k \in DOMAIN qs :
                LET times == sampleTimes(qs[k].form, range) IN
                /\ times \in Seq(Int) /\ times # <<>> /\ qs[k].form.presentationTimeOffset \in Int
                /\ \A a, b \in DOMAIN times : a <= b => times[a] <= times[b]

(* What a manifest gives of the segments of a quality.  The media of segments  *)
(* of a fixed duration begins at 0: the code does not look at the offset there.*)
IsForm(form) ==
    \/ form.kind = "timeline" /\ form.S \in Seq([t : Int, d : Int, r : Nat])
    \/ form.kind = "fixed" /\ form.d \in Nat \ {0} /\ form.count \in Nat \cup {Unset}
            /\ form.presentationTimeOffset = 0
    \/ form.kind = "sidx" /\ form.first \in Int /\ form.durations \in Seq(Int)
    \/ form.kind = "playlist" /\ form.first = 0 /\ form.durations \in Seq(Int)
            /\ form.maps \in [DOMAIN form.durations -> Nat]
    \/ form.kind = "cues" /\ form.times \in Seq(Int)

AreForms ==
    \A m \in DOMAIN Manifests : \A i \in DOMAIN Manifests[m].periods :
        LET qs == Manifests[m].periods[i].qualities IN \A k \in DOMAIN qs : IsForm(qs[k].form)

StreamingInit ==
    /\ manifest \in DOMAIN Manifests /\ option \in DOMAIN Options
    /\ active \in BOOLEAN
    /\ playhead = 0 /\ from = 0 /\ position = 0
    /\ previous = None /\ ended = FALSE /\ last = NoSelection

fetchedTime == IF playhead \in from..(position - 1) THEN position - playhead ELSE 0

(* createSlotForTime at the next time to fetch, with the network as it is.     *)
Fetch ==
    /\ ~ended
    /\ LET i == getMediaPeriodAtTime(mpd, position) IN
        IF i = 0 \/ qualities(i) = <<>>
        THEN ended' = TRUE /\ UNCHANGED <<from, position, previous, last>>
        ELSE \E low \in Bandwidths, latest \in Bandwidths :
            LET state == [previous |-> IF previous.period = i THEN previous.quality ELSE 0,
                          decoder |-> previous.decoder, fetchedTime |-> fetchedTime,
                          active |-> active, ewmaLow |-> low, latest |-> latest]
                k == selectQuality(qualities(i), options, state)
                segment == getSegmentAtTime(position, segmentsOf(i, k), Affordance)
            IN  /\ active \/ latest = low
                /\ last' = [period |-> i, state |-> state, quality |-> k,
                            at |-> position, segment |-> segment]
                /\ IF segment = NoSegment
                   THEN ended' = TRUE /\ UNCHANGED <<from, position, previous>>
                   ELSE /\ position' = segment.end
                        /\ from' = IF segment.start > position \/ position = from
                                   THEN segment.start ELSE from
                        /\ previous' = [period |-> i, quality |-> k,
                                        decoder |-> decoderOf(qualities(i)[k], segment)]
                        /\ ended' = (segment.end >= EndOfTime)
    /\ UNCHANGED <<manifest, option, active, playhead>>

TimeUpdate ==
    /\ active /\ playhead < position
    /\ playhead' = playhead + 1 /\ last' = NoSelection
    /\ UNCHANGED <<manifest, option, active, from, position, previous, ended>>

(* What lies before the new position stays in the cache or is swept.           *)
Seek ==
    /\ \E t \in 0..(EndOfTime - 1) :
        /\ t \notin from..(position - 1)
        /\ playhead' = t /\ from' = t /\ position' = t
        /\ previous' \in IF t >= position THEN {previous, None} ELSE {None}
    /\ ended' = FALSE /\ last' = NoSelection
    /\ UNCHANGED <<manifest, option, active>>

StreamingNext == Fetch \/ TimeUpdate \/ Seek

StreamingSpec == StreamingInit /\ [][StreamingNext]_streamingVars

--------------------------------------------------------------------------------
\* Properties

(* Whatever form a quality has (of AreForms), the segment looked up at a time is the one  *)
(* the standard places there, the last that begins at or before it, and there  *)
(* is none only before the first and after the last.                           *)
LookupsExact ==
    LET i == getMediaPeriodAtTime(mpd, position) IN
    i # 0 =>
        \A k \in DOMAIN qualities(i) :
            LET form == qualities(i)[k].form
                range == periodRange(mpd, i)
                count == SegmentCount(form, range)
                begun == {n \in 1..count : SegmentStart(form, range, n) <= position}
                segment == getSegmentAtTime(position, segmentsOf(i, k), 0)
            IN  IF segment = NoSegment THEN begun = {} \/ count \in begun
                ELSE /\ begun # {} /\ segment.number = Max(begun)
                     /\ position \in segment.start..(segment.end - 1)

(* A lookup across qualities and periods goes on where the last segment ended: *)
(* it leaves no gap wider than the affordance, never goes back, and finds      *)
(* nothing only where the quality selected has no media.                       *)
NoGap ==
    last # NoSelection =>
        IF last.segment # NoSegment
        THEN last.segment.start <= last.at + Affordance /\ last.segment.end > last.at
        ELSE \A s \in Range(segmentsOf(last.period, last.quality)) : s.start > last.at \/ s.end <= last.at

(* What is fetched is what the manifest has at each time, without a gap.       *)
EveryTimeIsServed == LookupsExact /\ NoGap

chosen == qualities(last.period)[last.quality]

(* The groups that the preceding quality may be followed by are left.          *)
leaves(p) == p.switching # AnyGroup /\ chosen.group \notin p.switching

(* Audio that may not step up to another decoder goes on from a segment with   *)
(* one that none in the list has: nothing in the list is permitted.            *)
stranded(qs, o, state) ==
    /\ state.previous # 0 /\ o.restrictDecoder
    /\ LET p == qs[state.previous] IN
        p.audio /\ ~short(o, state, p) /\ state.decoder # p.decoder

(* The next selection, with the network and the buffer as they were.           *)
reselection ==
    [last.state EXCEPT !.previous = last.quality,
                       !.decoder = IF last.segment = NoSegment THEN chosen.decoder
                                   ELSE decoderOf(chosen, last.segment)]

(* A selection by bandwidth: within the resolution while any quality is; no    *)
(* step up with little data and none down with ample data; no step up of audio *)
(* to another decoder than that of the preceding segment where that is not     *)
(* wanted; no step out of the permitted groups while they have what fits; and  *)
(* selecting again with the same network and buffer changes nothing, so that   *)
(* qualities do not alternate (QualitySelectorImpl.ts:281-354).  Where nothing *)
(* is permitted or nothing permitted fits, the code takes the last of the      *)
(* list, of whatever group, and for audio after a new EXT-X-MAP (stranded)     *)
(* with however much data.                                                     *)
QualityFits ==
    (last # NoSelection /\ options.strategy = "best") =>
        LET qs == qualities(last.period)
            before == last.state.previous
            p == qs[before]
            left == before # 0 /\ leaves(p)
            kept == before # 0 /\ withinResolution(options, p)
            served(q) == /\ withinResolution(options, q)
                         /\ permitted(qs, options, last.state, q)
                         /\ fits(options, last.state, q)
        IN  /\ (\E q \in Range(qs) : withinResolution(options, q)) => withinResolution(options, chosen)
            /\ (kept /\ last.state.fetchedTime >= options.high /\ ~stranded(qs, options, last.state))
                    => chosen.bandwidth >= p.bandwidth
            /\ left => ~\E q \in Range(qs) : served(q)
            /\ ~left =>
                /\ (kept /\ last.state.fetchedTime < options.low) => chosen.bandwidth <= p.bandwidth
                /\ (kept /\ options.restrictDecoder /\ p.audio /\ chosen.bandwidth > p.bandwidth)
                        => chosen.decoder = last.state.decoder
                /\ stranded(qs, options, last.state) \/ stranded(qs, options, reselection)
                        \/ selectQuality(qs, options, reselection) = last.quality

=============================================================================
