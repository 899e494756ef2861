----------------------------- MODULE MCStreaming -----------------------------
(* Manifests and options for model checking Streaming.                         *)
EXTENDS Streaming

Decoder(id) == [id |-> id, map |-> NoMap]

Video(form, group, switching, rate, height) ==
    [form |-> form, group |-> group, switching |-> switching, decoder |-> Decoder(height),
     bandwidth |-> rate, height |-> height, audio |-> FALSE]

Audio(form, rate, decoder) ==
    [form |-> form, group |-> 1, switching |-> AnyGroup, decoder |-> Decoder(decoder),
     bandwidth |-> rate, height |-> Unset, audio |-> TRUE]

Timeline(S, offset) == [kind |-> "timeline", S |-> S, presentationTimeOffset |-> offset]

Fixed(d, count) == [kind |-> "fixed", d |-> d, count |-> count, presentationTimeOffset |-> 0]

Sidx(first, ds, offset) ==
    [kind |-> "sidx", first |-> first, durations |-> ds, presentationTimeOffset |-> offset]

HlsSegments(ds, maps) ==
    [kind |-> "playlist", first |-> 0, durations |-> ds, maps |-> maps, presentationTimeOffset |-> 0]

Cues(times, offset) == [kind |-> "cues", times |-> times, presentationTimeOffset |-> offset]

S(t, d, r) == [t |-> t, d |-> d, r |-> r]

Period(start, duration, qs) == [start |-> start, duration |-> duration, qualities |-> qs]

Mpd(periods, duration) == [periods |-> periods, duration |-> duration]

(* Two periods, the second without a start and cut out of the middle of its    *)
(* media, with boundaries that differ by one between the qualities.            *)
Misaligned ==
    Mpd(<<Period(0, 6, <<Video(Timeline(<<S(Unset, 3, 1)>>, 0), 1, {1}, 8, 2),
                         Video(Timeline(<<S(0, 2, 0), S(Unset, 4, 0)>>, 0), 1, {1}, 3, 1)>>),
          Period(Unset, 6, <<Video(Timeline(<<S(2, 3, 3)>>, 3), 1, {1}, 8, 2),
                             Video(Timeline(<<S(3, 2, 2)>>, 3), 1, {1}, 3, 1)>>)>>, Unset)

(* Segments of a fixed duration in a template and in a list, and a timeline    *)
(* with a jump.                                                                *)
Fixeds ==
    Mpd(<<Period(Unset, Unset, <<Video(Fixed(3, Unset), 1, AnyGroup, 8, 2),
                                 Video(Fixed(4, 2), 1, AnyGroup, 3, 1)>>),
          Period(7, Unset, <<Video(Fixed(2, Unset), 1, AnyGroup, 8, 2),
                             Video(Timeline(<<S(4, 1, 1), S(8, 2, 0)>>, 4), 1, AnyGroup, 3, 1)>>)>>, 12)

(* Audio indexed by a sidx box and by cues.                                    *)
Indexed ==
    Mpd(<<Period(0, 5, <<Audio(Sidx(0, <<2, 3>>, 0), 6, 1), Audio(Cues(<<0, 3>>, 0), 3, 2),
                         Audio(Sidx(1, <<2, 3>>, 1), 1, 1)>>),
          Period(5, 6, <<Audio(Cues(<<4, 6, 9>>, 4), 6, 1), Audio(Sidx(3, <<4, 1, 4>>, 4), 3, 2)>>)>>, Unset)

(* HLS audio: one period without an end, with an ad in the middle whose        *)
(* segments have another map than the first.                                   *)
Playlist ==
    Mpd(<<Period(0, Unset, <<Audio(HlsSegments(<<4, 2, 2, 2>>, <<1, 2, 2, 1>>), 6, 1),
                             Audio(HlsSegments(<<3, 5, 2>>, <<NoMap, 1, NoMap>>), 3, 2)>>)>>, Unset)

(* Two adaptation sets that do not name each other: each is its own group.     *)
TwoSets ==
    Mpd(<<Period(0, 12, <<Video(Fixed(3, Unset), 1, {1}, 8, 2), Video(Fixed(3, Unset), 1, {1}, 3, 1),
                          Video(Fixed(3, Unset), 2, {2}, 6, 2), Video(Fixed(3, Unset), 2, {2}, 2, 1)>>)>>, Unset)

(* A period without the content type.                                          *)
Missing ==
    Mpd(<<Period(0, 5, <<Audio(Sidx(0, <<2, 3>>, 0), 6, 1), Audio(Sidx(0, <<2, 3>>, 0), 3, 2)>>),
          Period(5, 3, <<>>), Period(8, 4, <<Audio(Sidx(0, <<4>>, 0), 3, 1)>>)>>, Unset)

MCManifests == <<Misaligned, Fixeds, Indexed, Playlist, TwoSets, Missing>>

Best ==
    [strategy |-> "best", high |-> 5, low |-> 2, multiplierLow |-> 4, multiplierHigh |-> 9,
     maxBandwidth |-> Unset, maxHeight |-> Unset, restrictDecoder |-> FALSE]

MCOptions ==
    <<Best, [Best EXCEPT !.restrictDecoder = TRUE, !.maxHeight = 1],
      [Best EXCEPT !.maxBandwidth = 3, !.low = 0], [Best EXCEPT !.strategy = "fixed"]>>

(* The theorems of module PlayerProofs apply to these manifests.               *)
ASSUME InstanceAssumption == Ladders /\ Chronological /\ AreForms
=============================================================================
