------------------------------ MODULE PlayerProofs -----------------------------
(* Proofs about the player: Playback over its media element, for any number of *)
(* plays, seeks, calls and faults, any length of the media and any queue of    *)
(* events; PlayerRecovery, for any number of streams, any maxRetries and any   *)
(* number of errors; Streaming, for any manifests, options and bandwidths.     *)
EXTENDS Playback, PlayerRecovery, Streaming,
        SequenceTheorems, FiniteSetTheorems, WellFoundedInduction, TLAPS

\* Playback

(* The last of the events in q that belong to good or bad is a good one; or    *)
(* there is none that is bad, and now holds.                                   *)
Leads(q, good, bad, now) ==
    \/ \E i \in DOMAIN q : q[i] \in good /\ \A j \in DOMAIN q : j > i => q[j] \notin bad
    \/ now /\ \A j \in DOMAIN q : q[j] \notin bad

(* When the events are worked off, the controller seeks as the element does.   *)
SeekingFollows(w) ==
    IF w.media.seeking
    THEN Leads(w.queue, {"seeking"}, {"seeked", "emptied"}, w.ctl.seeking)
    ELSE Leads(w.queue, {"seeked", "emptied"}, {"seeking"}, ~w.ctl.seeking)

Silent(w) == ~w.ctl.playing /\ ~w.ctl.waiting /\ ~w.monitor.polling /\ ~w.monitor.inStall

PausedIsSilent(w) ==
    w.media.paused => Leads(w.queue, {"pause", "seeking", "emptied"}, {"playing", "waiting"}, Silent(w))

MovingPlays(w) ==
    ~w.media.paused /\ ~w.media.seeking /\ w.media.ready = "future"
        => Leads(w.queue, {"playing", "seeked"}, {"waiting", "pause", "ended", "seeking", "emptied"},
                 w.ctl.playing)

Exclusive(w) == ~(w.ctl.playing /\ w.ctl.waiting)

(* What the controller has heard and what it will hear fit the element.        *)
Follows(w) == SeekingFollows(w) /\ PausedIsSilent(w) /\ MovingPlays(w) /\ Exclusive(w)

(* A superseded seek has ended or is about to; those to come are not begun.    *)
SeeksInv ==
    \A s \in Seeks :
        /\ s < current => seek[s].phase \in {"go", "begun", "landed", "emptied", "stuck", "done"}
        /\ s = current => seek[s].phase # "none"
        /\ s > current => seek[s].phase = "none"

PlaybackInv == TypeOK /\ Follows(World) /\ SeeksInv

------------------------------------------------------------------------------
\* Leads, when an event is delivered or queued

(* The first event is worked off: it has set what it leads to.                 *)
LEMMA LeadsTail ==
    ASSUME NEW q \in Seq(Events), q # <<>>, NEW good, NEW bad, good \cap bad = {},
           NEW now \in BOOLEAN, NEW then \in BOOLEAN,
           Leads(q, good, bad, now),
           Head(q) \in good => then,
           Head(q) \notin good \cup bad /\ now => then
    PROVE  Leads(Tail(q), good, bad, then)
<1>1. /\ Tail(q) \in Seq(Events) /\ DOMAIN q = 1..Len(q) /\ Len(q) \in Nat \ {0}
      /\ DOMAIN Tail(q) = 1..(Len(q) - 1) /\ Head(q) = q[1]
      /\ \A i \in 1..(Len(q) - 1) : Tail(q)[i] = q[i + 1]
  OBVIOUS
<1>2. CASE \E i \in DOMAIN q : q[i] \in good /\ \A j \in DOMAIN q : j > i => q[j] \notin bad
  <2>1. PICK i \in DOMAIN q : q[i] \in good /\ \A j \in DOMAIN q : j > i => q[j] \notin bad
    BY <1>2
  <2>2. CASE i = 1
    <3>1. then
      BY <1>1, <2>1, <2>2
    <3>2. \A j \in DOMAIN Tail(q) : Tail(q)[j] \notin bad
      BY <1>1, <2>1, <2>2
    <3> QED BY <3>1, <3>2 DEF Leads
  <2>3. CASE i > 1
    <3>1. i - 1 \in DOMAIN Tail(q) /\ Tail(q)[i - 1] \in good
      BY <1>1, <2>1, <2>3
    <3>2. \A j \in DOMAIN Tail(q) : j > i - 1 => Tail(q)[j] \notin bad
      BY <1>1, <2>1, <2>3
    <3> QED BY <3>1, <3>2 DEF Leads
  <2> QED BY <1>1, <2>2, <2>3
<1>3. CASE now /\ \A j \in DOMAIN q : q[j] \notin bad
  <2>1. then
    BY <1>1, <1>3
  <2>2. \A j \in DOMAIN Tail(q) : Tail(q)[j] \notin bad
    BY <1>1, <1>3
  <2> QED BY <2>1, <2>2 DEF Leads
<1> QED BY <1>2, <1>3 DEF Leads

(* An event is queued that is good, or at least not bad.                       *)
LEMMA LeadsAppend ==
    ASSUME NEW q \in Seq(Events), NEW e \in Events, NEW good, NEW bad,
           NEW now \in BOOLEAN,
           e \in good \/ (Leads(q, good, bad, now) /\ e \notin bad)
    PROVE  Leads(Append(q, e), good, bad, now)
<1> DEFINE p == Append(q, e)
<1>1. /\ DOMAIN q = 1..Len(q) /\ Len(q) \in Nat
      /\ DOMAIN p = 1..(Len(q) + 1) /\ p[Len(q) + 1] = e
      /\ \A i \in 1..Len(q) : p[i] = q[i]
  OBVIOUS
<1> HIDE DEF p
<1>2. CASE e \in good
  <2>1. Len(q) + 1 \in DOMAIN p /\ \A j \in DOMAIN p : ~(j > Len(q) + 1)
    BY <1>1
  <2>2. Leads(p, good, bad, now)
    BY <1>1, <1>2, <2>1 DEF Leads
  <2> QED BY <2>2 DEF p
<1>3. CASE Leads(q, good, bad, now) /\ e \notin bad
  <2>1. CASE \E i \in DOMAIN q : q[i] \in good /\ \A j \in DOMAIN q : j > i => q[j] \notin bad
    <3>1. PICK i \in DOMAIN q : q[i] \in good /\ \A j \in DOMAIN q : j > i => q[j] \notin bad
      BY <2>1
    <3>2. i \in DOMAIN p /\ p[i] \in good /\ \A j \in DOMAIN p : j > i => p[j] \notin bad
      BY <1>1, <1>3, <3>1
    <3>3. Leads(p, good, bad, now)
      BY <3>2 DEF Leads
    <3> QED BY <3>3 DEF p
  <2>2. CASE now /\ \A j \in DOMAIN q : q[j] \notin bad
    <3>1. \A j \in DOMAIN p : p[j] \notin bad
      BY <1>1, <1>3, <2>2
    <3>2. Leads(p, good, bad, now)
      BY <2>2, <3>1 DEF Leads
    <3> QED BY <3>2 DEF p
  <2> QED BY <1>3, <2>1, <2>2 DEF Leads
<1> QED BY <1>2, <1>3

(* What holds already changes for the better.                                  *)
LEMMA LeadsNow ==
    ASSUME NEW q, NEW good, NEW bad, NEW now \in BOOLEAN, NEW then \in BOOLEAN,
           Leads(q, good, bad, now), now => then
    PROVE  Leads(q, good, bad, then)
BY DEF Leads

(* Nothing is queued any more.                                                 *)
LEMMA LeadsEmpty ==
    ASSUME NEW good, NEW bad, NEW now \in BOOLEAN
    PROVE  Leads(<<>>, good, bad, now) <=> now
BY DEF Leads

(* Events are queued one after the other.                                      *)
LEMMA QueuedEvents ==
    ASSUME NEW q \in Seq(Events)
    PROVE  /\ q \o <<>> = q
           /\ \A e \in Events : q \o <<e>> = Append(q, e) /\ Append(q, e) \in Seq(Events)
           /\ \A e, f \in Events : q \o <<e, f>> = Append(Append(q, e), f)
<1>1. q \o <<>> = q
  BY ConcatEmptySeq
<1>2. \A e \in Events : q \o <<e>> = Append(q, e) /\ Append(q, e) \in Seq(Events)
  BY AppendIsConcat, AppendProperties
<1>3. ASSUME NEW e \in Events, NEW f \in Events
      PROVE  q \o <<e, f>> = Append(Append(q, e), f)
  OBVIOUS
<1> QED BY <1>1, <1>2, <1>3

------------------------------------------------------------------------------
\* The record of the state

Medias == [paused : BOOLEAN, ready : {"nothing", "metadata", "future"}, pos : 0..End,
           seeking : BOOLEAN, buffered : BOOLEAN]

Ctls == [playing : BOOLEAN, waiting : BOOLEAN, seeking : BOOLEAN]

PlayRecs == [inner : {"none", "meta", "go", "native", "end"},
             outer : {"none", "pending", "settling", "done"}, aborted : BOOLEAN]

SeekRecs == [phase : SeekPhases, target : 0..End, attempt : 0..RetryLimit,
             outcome : {"none", "resolved", "superseded", "timeout", "aborted"}]

Detectors == [on : BOOLEAN, lastPos : 0..End, attempts : 0..MaxAttempts,
              saw : BOOLEAN, recovered : BOOLEAN]

Monitors == [polling : BOOLEAN, lastPos : 0..End, inStall : BOOLEAN]

Worlds == [media : Medias, queue : Seq(Events), ctl : Ctls, play : [Plays -> PlayRecs],
           pendingPlay : {0} \cup Plays, playAbort : {0} \cup Plays,
           seek : [Seeks -> SeekRecs], detector : Detectors, monitor : Monitors,
           seekTimer : BOOLEAN]

(* A superseded seek is about to end; those to come are not begun.             *)
SeeksFit(sk, c) ==
    \A s \in Seeks :
        /\ s < c => sk[s].phase \in {"go", "begun", "landed", "emptied", "stuck", "done"}
        /\ s = c => sk[s].phase # "none"
        /\ s > c => sk[s].phase = "none"

Good(w) == w \in Worlds /\ Follows(w)

EnvOK == webkit \in BOOLEAN /\ current \in 0..MaxSeeks /\ calls \in 0..MaxCalls /\ faults \in 0..MaxFaults

(* The record of the state has its type exactly when the variables do.         *)
LEMMA WorldIs ==
    TypeOK <=> World \in Worlds /\ EnvOK
BY DEF TypeOK, World, Worlds, EnvOK, Medias, Ctls, PlayRecs, SeekRecs, Detectors, Monitors

(* What a step becomes is the next record of the state.                        *)
LEMMA BecomesIs ==
    ASSUME NEW w, Becomes(w), w \in Worlds
    PROVE  World' = w
BY DEF Becomes, World, Worlds

(* What Follows speaks of.                                                     *)
LEMMA SameView ==
    ASSUME NEW w, NEW v, Follows(w), v.media = w.media, v.queue = w.queue, v.ctl = w.ctl,
           v.monitor = w.monitor
    PROVE  Follows(v)
BY DEF Follows, SeekingFollows, PausedIsSilent, MovingPlays, Exclusive, Silent

(* One of the parts Follows does not speak of is replaced.                     *)
LEMMA PartReplaced ==
    ASSUME NEW w \in Worlds
    PROVE  /\ \A x \in [Plays -> PlayRecs] : [w EXCEPT !.play = x] \in Worlds
           /\ \A x \in [Seeks -> SeekRecs] : [w EXCEPT !.seek = x] \in Worlds
           /\ \A x \in Detectors : [w EXCEPT !.detector = x] \in Worlds
           /\ \A x \in BOOLEAN : [w EXCEPT !.seekTimer = x] \in Worlds
           /\ \A x \in Medias : [w EXCEPT !.media = x] \in Worlds
           /\ \A x \in Seq(Events) : [w EXCEPT !.queue = x] \in Worlds
           /\ \A x \in Ctls : [w EXCEPT !.ctl = x] \in Worlds
           /\ \A x \in Monitors : [w EXCEPT !.monitor = x] \in Worlds
BY DEF Worlds

(* Plays, seeks, the detector and the timer do not matter to Follows.          *)
LEMMA GoodParts ==
    ASSUME NEW w, Good(w)
    PROVE  /\ \A x \in [Plays -> PlayRecs] : Good([w EXCEPT !.play = x])
           /\ \A x \in [Seeks -> SeekRecs] : Good([w EXCEPT !.seek = x])
           /\ \A x \in Detectors : Good([w EXCEPT !.detector = x])
           /\ \A x \in BOOLEAN : Good([w EXCEPT !.seekTimer = x])
<1>0. w \in Worlds /\ Follows(w)
  BY DEF Good
<1>1. ASSUME NEW x \in [Plays -> PlayRecs] PROVE Good([w EXCEPT !.play = x])
  <2> DEFINE v == [w EXCEPT !.play = x]
  <2>1. v \in Worlds
    BY <1>0, PartReplaced
  <2>2. v.media = w.media /\ v.queue = w.queue /\ v.ctl = w.ctl /\ v.monitor = w.monitor
    BY <1>0 DEF Worlds
  <2> HIDE DEF v
  <2>3. Good(v)
    BY <1>0, <2>1, <2>2, SameView DEF Good
  <2> QED BY <2>3 DEF v
<1>2. ASSUME NEW x \in [Seeks -> SeekRecs] PROVE Good([w EXCEPT !.seek = x])
  <2> DEFINE v == [w EXCEPT !.seek = x]
  <2>1. v \in Worlds
    BY <1>0, PartReplaced
  <2>2. v.media = w.media /\ v.queue = w.queue /\ v.ctl = w.ctl /\ v.monitor = w.monitor
    BY <1>0 DEF Worlds
  <2> HIDE DEF v
  <2>3. Good(v)
    BY <1>0, <2>1, <2>2, SameView DEF Good
  <2> QED BY <2>3 DEF v
<1>3. ASSUME NEW x \in Detectors PROVE Good([w EXCEPT !.detector = x])
  <2> DEFINE v == [w EXCEPT !.detector = x]
  <2>1. v \in Worlds
    BY <1>0, PartReplaced
  <2>2. v.media = w.media /\ v.queue = w.queue /\ v.ctl = w.ctl /\ v.monitor = w.monitor
    BY <1>0 DEF Worlds
  <2> HIDE DEF v
  <2>3. Good(v)
    BY <1>0, <2>1, <2>2, SameView DEF Good
  <2> QED BY <2>3 DEF v
<1>4. ASSUME NEW x \in BOOLEAN PROVE Good([w EXCEPT !.seekTimer = x])
  <2> DEFINE v == [w EXCEPT !.seekTimer = x]
  <2>1. v \in Worlds
    BY <1>0, PartReplaced
  <2>2. v.media = w.media /\ v.queue = w.queue /\ v.ctl = w.ctl /\ v.monitor = w.monitor
    BY <1>0 DEF Worlds
  <2> HIDE DEF v
  <2>3. Good(v)
    BY <1>0, <2>1, <2>2, SameView DEF Good
  <2> QED BY <2>3 DEF v
<1> QED BY <1>1, <1>2, <1>3, <1>4

------------------------------------------------------------------------------
\* The element changes and queues events

moving(m) == ~m.paused /\ ~m.seeking /\ m.ready = "future"

(* No event is needed for what the controller need not hear of.                *)
LEMMA QuietChange ==
    ASSUME NEW w \in Worlds, Follows(w), NEW v, v.media \in Medias,
           v.queue = w.queue, v.ctl = w.ctl, v.monitor = w.monitor,
           v.media.seeking = w.media.seeking,
           v.media.paused => w.media.paused,
           moving(v.media) => moving(w.media)
    PROVE  Follows(v)
BY DEF Follows, SeekingFollows, PausedIsSilent, MovingPlays, Exclusive, Silent, moving

(* One event is queued that tells what has changed.                            *)
LEMMA FiredOne ==
    ASSUME NEW w \in Worlds, Follows(w), NEW v, v.media \in Medias,
           NEW e \in Events,
           v.queue = Append(w.queue, e), v.ctl = w.ctl, v.monitor = w.monitor,
           v.media.seeking => e = "seeking" \/ (w.media.seeking /\ e \notin {"seeked", "emptied"}),
           ~v.media.seeking => e = "seeked" \/ (~w.media.seeking /\ e # "seeking"),
           v.media.paused => \/ e \in {"pause", "seeking", "emptied"}
                             \/ w.media.paused /\ e \notin {"playing", "waiting"},
           moving(v.media) => \/ e \in {"playing", "seeked"}
                              \/ /\ moving(w.media)
                                 /\ e \notin {"waiting", "pause", "ended", "seeking", "emptied"}
    PROVE  Follows(v)
<1>1. /\ w.queue \in Seq(Events) /\ w.media \in Medias
      /\ w.ctl.seeking \in BOOLEAN /\ w.ctl.playing \in BOOLEAN
      /\ v.media.seeking \in BOOLEAN /\ w.media.seeking \in BOOLEAN
  BY DEF Worlds, Medias, Ctls
<1>2. SeekingFollows(v)
  <2>1. CASE v.media.seeking
    <3>1. Leads(v.queue, {"seeking"}, {"seeked", "emptied"}, w.ctl.seeking)
      <4>1. e \in {"seeking"} \/ (/\ Leads(w.queue, {"seeking"}, {"seeked", "emptied"}, w.ctl.seeking)
                                   /\ e \notin {"seeked", "emptied"})
        BY <2>1 DEF Follows, SeekingFollows
      <4> QED BY <1>1, <4>1, LeadsAppend
    <3> QED BY <2>1, <3>1 DEF SeekingFollows
  <2>2. CASE ~v.media.seeking
    <3>1. Leads(v.queue, {"seeked", "emptied"}, {"seeking"}, ~w.ctl.seeking)
      <4>1. e \in {"seeked", "emptied"}
              \/ (/\ Leads(w.queue, {"seeked", "emptied"}, {"seeking"}, ~w.ctl.seeking)
                  /\ e \notin {"seeking"})
        BY <2>2 DEF Follows, SeekingFollows
      <4>2. (~w.ctl.seeking) \in BOOLEAN
        BY <1>1
      <4> QED BY <1>1, <4>1, <4>2, LeadsAppend
    <3> QED BY <2>2, <3>1 DEF SeekingFollows
  <2> QED BY <2>1, <2>2
<1>3. PausedIsSilent(v)
  <2> SUFFICES ASSUME v.media.paused
               PROVE  Leads(v.queue, {"pause", "seeking", "emptied"}, {"playing", "waiting"}, Silent(v))
    BY DEF PausedIsSilent
  <2>1. Silent(v) = Silent(w) /\ Silent(w) \in BOOLEAN
    BY DEF Silent
  <2>2. e \in {"pause", "seeking", "emptied"}
          \/ (/\ Leads(w.queue, {"pause", "seeking", "emptied"}, {"playing", "waiting"}, Silent(w))
              /\ e \notin {"playing", "waiting"})
    BY DEF Follows, PausedIsSilent
  <2> QED BY <1>1, <2>1, <2>2, LeadsAppend
<1>4. MovingPlays(v)
  <2> SUFFICES ASSUME moving(v.media)
               PROVE  Leads(v.queue, {"playing", "seeked"},
                            {"waiting", "pause", "ended", "seeking", "emptied"}, w.ctl.playing)
    BY DEF MovingPlays, moving
  <2>1. e \in {"playing", "seeked"}
          \/ (/\ Leads(w.queue, {"playing", "seeked"},
                       {"waiting", "pause", "ended", "seeking", "emptied"}, w.ctl.playing)
              /\ e \notin {"waiting", "pause", "ended", "seeking", "emptied"})
    BY DEF Follows, MovingPlays, moving
  <2> QED BY <1>1, <2>1, LeadsAppend
<1>5. Exclusive(v)
  BY DEF Follows, Exclusive
<1> QED BY <1>2, <1>3, <1>4, <1>5 DEF Follows

(* A list of at most two events fits when each does.                           *)
LEMMA FiresFields ==
    ASSUME NEW w \in Worlds, NEW s \in Seq(Events)
    PROVE  /\ fires(w, s) \in Worlds
           /\ fires(w, s) = [w EXCEPT !.queue = w.queue \o s]
<1>1. fires(w, s) = [w EXCEPT !.queue = w.queue \o s]
  BY DEF fires, Worlds
<1>2. w.queue \o s \in Seq(Events)
  BY ConcatProperties DEF Worlds
<1> QED BY <1>1, <1>2, PartReplaced

(* The current time is set: the element seeks, and may wait.                   *)
LEMMA SetTimeGood ==
    ASSUME NEW w, Good(w), NEW t \in 0..End, NEW data \in BOOLEAN, webkit \in BOOLEAN
    PROVE  /\ Good(setTime(w, t, data))
           /\ setTime(w, t, data).seek = w.seek
<1> DEFINE drops == ~data /\ ~webkit
           waits == drops /\ ~w.media.paused /\ w.media.ready = "future"
           m == [w.media EXCEPT !.pos = t, !.seeking = TRUE, !.buffered = data,
                                !.ready = IF drops THEN "metadata"
                                                           ELSE w.media.ready]
           x == [w EXCEPT !.media = m]
           v == fires(x, IF waits THEN <<"seeking", "waiting">> ELSE <<"seeking">>)
           u == [x EXCEPT !.queue = Append(w.queue, "seeking")]
<1>1. setTime(w, t, data) = v
  BY DEF setTime
<1>2. w \in Worlds /\ Follows(w)
  BY DEF Good
<1>3. m \in Medias /\ m.seeking = TRUE /\ m.paused = w.media.paused
  BY <1>2 DEF Worlds, Medias
<1>4. /\ x \in Worlds /\ x.media = m /\ x.queue = w.queue /\ x.ctl = w.ctl
      /\ x.monitor = w.monitor /\ x.seek = w.seek
  BY <1>2, <1>3 DEF Worlds
<1>5. w.queue \in Seq(Events) /\ "seeking" \in Events /\ "waiting" \in Events
  BY <1>2 DEF Worlds, Events
<1>6. Append(w.queue, "seeking") \in Seq(Events)
  BY <1>5, AppendProperties
<1> HIDE DEF m, x
<1>7. u \in Worlds /\ u.media = m /\ u.queue = Append(w.queue, "seeking") /\ u.ctl = w.ctl
      /\ u.monitor = w.monitor
  BY <1>4, <1>6 DEF Worlds
<1>8. Follows(u)
  <2> HIDE DEF u
  <2> QED BY <1>2, <1>3, <1>5, <1>7, FiredOne DEF moving
<1>9. CASE ~waits
  <2>0. v = fires(x, <<"seeking">>) /\ <<"seeking">> \in Seq(Events)
    BY <1>5, <1>9
  <2>1. v = [x EXCEPT !.queue = x.queue \o <<"seeking">>] /\ v \in Worlds
    <3> HIDE DEF v
    <3> QED BY <1>4, <2>0, FiresFields
  <2>2. v = u
    BY <1>4, <1>5, <2>1, QueuedEvents
  <2>3. v.seek = w.seek
    BY <1>4, <2>1 DEF Worlds
  <2> QED BY <1>1, <1>8, <2>1, <2>2, <2>3 DEF Good
<1>10. CASE waits
  <2>0. v = fires(x, <<"seeking", "waiting">>) /\ <<"seeking", "waiting">> \in Seq(Events)
    BY <1>5, <1>10
  <2>1. v = [x EXCEPT !.queue = x.queue \o <<"seeking", "waiting">>] /\ v \in Worlds
    <3> HIDE DEF v
    <3> QED BY <1>4, <2>0, FiresFields
  <2>2. v.queue = Append(u.queue, "waiting") /\ v.media = m /\ v.ctl = u.ctl
        /\ v.monitor = u.monitor /\ v.seek = w.seek
    <3>1. v.queue = x.queue \o <<"seeking", "waiting">> /\ v.media = x.media /\ v.ctl = x.ctl
          /\ v.monitor = x.monitor /\ v.seek = x.seek
      BY <1>4, <2>1 DEF Worlds
    <3>2. /\ v.media = m /\ v.ctl = u.ctl /\ v.monitor = u.monitor /\ v.seek = w.seek
          /\ x.queue = w.queue /\ u.queue = Append(w.queue, "seeking")
      BY <1>4, <1>5, <1>7, <3>1
    <3>3. v.queue = Append(Append(w.queue, "seeking"), "waiting")
      <4> HIDE DEF u, v
      <4> QED BY <1>4, <1>7, <3>1, <3>2, QueuedEvents
    <3> QED BY <3>2, <3>3
  <2>3. ~m.paused
    BY <1>3, <1>10
  <2>4. Follows(v)
    <3> HIDE DEF u, v
    <3> QED BY <1>3, <1>5, <1>7, <1>8, <2>2, <2>3, FiredOne DEF moving
  <2> QED BY <1>1, <2>1, <2>2, <2>4 DEF Good
<1> QED BY <1>9, <1>10

(* One event is queued after a change of the element.                          *)
LEMMA ChangeFires ==
    ASSUME NEW w, Good(w), NEW m \in Medias, NEW e \in Events,
           m.seeking => e = "seeking" \/ (w.media.seeking /\ e \notin {"seeked", "emptied"}),
           ~m.seeking => e = "seeked" \/ (~w.media.seeking /\ e # "seeking"),
           m.paused => \/ e \in {"pause", "seeking", "emptied"}
                       \/ w.media.paused /\ e \notin {"playing", "waiting"},
           moving(m) => \/ e \in {"playing", "seeked"}
                        \/ /\ moving(w.media)
                           /\ e \notin {"waiting", "pause", "ended", "seeking", "emptied"}
    PROVE  LET v == fires([w EXCEPT !.media = m], <<e>>)
           IN  Good(v) /\ v.seek = w.seek /\ v.media = m /\ v.queue = Append(w.queue, e)
<1> DEFINE x == [w EXCEPT !.media = m]
           v == fires(x, <<e>>)
<1>1. w \in Worlds /\ Follows(w)
  BY DEF Good
<1>2. /\ x \in Worlds /\ x.media = m /\ x.queue = w.queue /\ x.ctl = w.ctl
      /\ x.monitor = w.monitor /\ x.seek = w.seek
  BY <1>1 DEF Worlds
<1> HIDE DEF x
<1>3. w.queue \in Seq(Events) /\ <<e>> \in Seq(Events)
  BY <1>1 DEF Worlds
<1>4. v = [x EXCEPT !.queue = x.queue \o <<e>>] /\ v \in Worlds
  BY <1>2, <1>3, FiresFields
<1>5. v.queue = Append(w.queue, e) /\ v.media = m /\ v.ctl = w.ctl /\ v.monitor = w.monitor
      /\ v.seek = w.seek
  <2>1. v.queue = x.queue \o <<e>> /\ v.media = x.media /\ v.ctl = x.ctl /\ v.monitor = x.monitor
        /\ v.seek = x.seek
    BY <1>2, <1>4 DEF Worlds
  <2> QED BY <1>2, <1>3, <2>1, QueuedEvents
<1> HIDE DEF v
<1>6. Follows(v)
  BY <1>1, <1>5, FiredOne
<1>7. Good(v)
  BY <1>4, <1>6 DEF Good
<1> QED BY <1>5, <1>7 DEF v, x

(* Two events are queued after a change of the element.                        *)
LEMMA ChangeFiresTwo ==
    ASSUME NEW w, Good(w), NEW m \in Medias, NEW e \in Events, NEW f \in Events,
           m.seeking => e = "seeking" \/ (w.media.seeking /\ e \notin {"seeked", "emptied"}),
           ~m.seeking => e = "seeked" \/ (~w.media.seeking /\ e # "seeking"),
           m.paused => \/ e \in {"pause", "seeking", "emptied"}
                       \/ w.media.paused /\ e \notin {"playing", "waiting"},
           moving(m) => \/ e \in {"playing", "seeked"}
                        \/ /\ moving(w.media)
                           /\ e \notin {"waiting", "pause", "ended", "seeking", "emptied"},
           m.seeking => f \notin {"seeked", "emptied"},
           ~m.seeking => f # "seeking",
           m.paused => f \notin {"playing", "waiting"},
           moving(m) => f \notin {"waiting", "pause", "ended", "seeking", "emptied"}
    PROVE  LET v == fires([w EXCEPT !.media = m], <<e, f>>)
           IN  Good(v) /\ v.seek = w.seek
<1> DEFINE x == [w EXCEPT !.media = m]
           y == fires(x, <<e>>)
           v == fires(x, <<e, f>>)
<1>1. Good(y) /\ y.seek = w.seek /\ y.media = m /\ y.queue = Append(w.queue, e)
  BY ChangeFires
<1>2. w \in Worlds /\ y \in Worlds
  BY <1>1 DEF Good
<1>3. x \in Worlds /\ x.queue = w.queue /\ w.queue \in Seq(Events)
  BY <1>2 DEF Worlds
<1>4. y = [x EXCEPT !.queue = w.queue \o <<e>>] /\ v = [x EXCEPT !.queue = w.queue \o <<e, f>>]
  BY <1>3 DEF fires
<1> DEFINE z == fires([y EXCEPT !.media = m], <<f>>)
<1>5. [y EXCEPT !.media = m] = y
  <2> HIDE DEF y
  <2> QED BY <1>1, <1>2 DEF Worlds
<1>6. z = [y EXCEPT !.queue = Append(w.queue, e) \o <<f>>]
  BY <1>1, <1>5 DEF fires
<1>7. Append(w.queue, e) \o <<f>> = w.queue \o <<e, f>>
  BY <1>3, QueuedEvents
<1> HIDE DEF x, y, v
<1>8. z = v
  BY <1>3, <1>4, <1>6, <1>7 DEF Worlds
<1>9. Good(z) /\ z.seek = y.seek
  BY <1>1, ChangeFires
<1> QED BY <1>1, <1>8, <1>9 DEF v, x

(* A change of the element without an event.                                   *)
LEMMA ChangeQuiet ==
    ASSUME NEW w, Good(w), NEW m \in Medias, m.seeking = w.media.seeking,
           m.paused => w.media.paused, moving(m) => moving(w.media)
    PROVE  LET v == [w EXCEPT !.media = m]
           IN  Good(v) /\ v.seek = w.seek
<1> DEFINE v == [w EXCEPT !.media = m]
<1>1. w \in Worlds /\ Follows(w)
  BY DEF Good
<1>2. /\ v \in Worlds /\ v.media = m /\ v.queue = w.queue /\ v.ctl = w.ctl
      /\ v.monitor = w.monitor /\ v.seek = w.seek
  BY <1>1 DEF Worlds
<1> HIDE DEF v
<1>3. Good(v)
  BY <1>1, <1>2, QuietChange DEF Good
<1> QED BY <1>2, <1>3 DEF v

(* A play that settles is still one.                                           *)
LEMMA SettlesType ==
    ASSUME NEW q \in PlayRecs
    PROVE  settles(q) \in PlayRecs /\ [settles(q) EXCEPT !.inner = "end"] \in PlayRecs
           /\ [settles(q) EXCEPT !.aborted = TRUE] \in PlayRecs
BY DEF PlayRecs, settles

(* What playsSettle leaves alone.                                              *)
LEMMA PlaysSettleGood ==
    ASSUME NEW w, w \in Worlds
    PROVE  /\ Good(w) => Good(playsSettle(w))
           /\ playsSettle(w).seek = w.seek
           /\ \E x \in [Plays -> PlayRecs] : playsSettle(w) = [w EXCEPT !.play = x]
<1> DEFINE x == [p \in Plays |-> IF w.play[p].inner = "native"
                                 THEN [settles(w.play[p]) EXCEPT !.inner = "end"] ELSE w.play[p]]
<1>1. w.play \in [Plays -> PlayRecs]
  BY DEF Worlds
<1>2. x \in [Plays -> PlayRecs]
  BY <1>1, SettlesType
<1>3. playsSettle(w) = [w EXCEPT !.play = x]
  BY DEF playsSettle, Worlds
<1> HIDE DEF x
<1>4. playsSettle(w).seek = w.seek
  BY <1>3 DEF Worlds
<1> QED BY <1>2, <1>3, <1>4, GoodParts, SMTT(30)

(* media.play(): playing or waiting is announced, unless it is known.          *)
LEMMA MediaPlayGood ==
    ASSUME NEW w, Good(w)
    PROVE  Good(mediaPlay(w)) /\ mediaPlay(w).seek = w.seek
<1>1. w \in Worlds
  BY DEF Good
<1>2. CASE w.media.paused
  <2> DEFINE m == [w.media EXCEPT !.paused = FALSE]
             e == IF w.media.ready = "future" THEN "playing" ELSE "waiting"
             v == fires([w EXCEPT !.media = m], <<e>>)
  <2>1. mediaPlay(w) = v
    BY <1>1, <1>2 DEF mediaPlay, Worlds
  <2>2. m \in Medias /\ ~m.paused /\ m.seeking = w.media.seeking /\ m.ready = w.media.ready
    BY <1>1 DEF Worlds, Medias
  <2>3. e \in Events /\ e \in {"playing", "waiting"} /\ (m.ready = "future" => e = "playing")
    BY <2>2 DEF Events
  <2> HIDE DEF m, e
  <2>4. Good(v) /\ v.seek = w.seek
    BY <2>2, <2>3, ChangeFires DEF moving
  <2> QED BY <2>1, <2>4
<1>3. CASE ~w.media.paused
  BY <1>1, <1>3, PlaysSettleGood DEF mediaPlay
<1> QED BY <1>2, <1>3

(* media.pause() announces it.                                                 *)
LEMMA MediaPauseGood ==
    ASSUME NEW w, Good(w)
    PROVE  Good(mediaPause(w)) /\ mediaPause(w).seek = w.seek
<1>1. w \in Worlds
  BY DEF Good
<1>2. CASE w.media.paused
  BY <1>2 DEF mediaPause
<1>3. CASE ~w.media.paused
  <2> DEFINE m == [w.media EXCEPT !.paused = TRUE]
             y == [w EXCEPT !.media = m]
  <2>1. m \in Medias /\ m.paused /\ m.seeking = w.media.seeking
    BY <1>1 DEF Worlds, Medias
  <2>2. mediaPause(w) = fires(playsSettle(y), <<"pause">>)
    BY <1>1, <1>3 DEF mediaPause, Worlds
  <2>3. y \in Worlds /\ y.seek = w.seek
    BY <1>1, <2>1 DEF Worlds
  <2>4. PICK x \in [Plays -> PlayRecs] : playsSettle(y) = [y EXCEPT !.play = x]
    BY <2>3, PlaysSettleGood
  <2> DEFINE u == [w EXCEPT !.play = x]
             v == fires([u EXCEPT !.media = m], <<"pause">>)
  <2>5. Good(u)
    BY GoodParts
  <2>6. playsSettle(y) = [u EXCEPT !.media = m] /\ u.media = w.media /\ u.seek = w.seek
    BY <1>1, <2>4 DEF Worlds
  <2> HIDE DEF m, u
  <2>7. "pause" \in Events
    BY DEF Events
  <2>8. Good(v) /\ v.seek = u.seek
    BY <2>1, <2>5, <2>6, <2>7, ChangeFires DEF moving
  <2> QED BY <2>2, <2>6, <2>8
<1> QED BY <1>2, <1>3

------------------------------------------------------------------------------
\* What the controller says

(* The controller announces that it plays, while the element is not paused.    *)
LEMMA DispatchPlayingGood ==
    ASSUME NEW w, Good(w), ~w.media.paused
    PROVE  Good(dispatchPlaying(w)) /\ dispatchPlaying(w).seek = w.seek
<1> DEFINE v == dispatchPlaying(w)
           c == [w.ctl EXCEPT !.playing = TRUE, !.waiting = FALSE]
           n == [polling |-> TRUE, lastPos |-> w.media.pos, inStall |-> FALSE]
<1>1. w \in Worlds /\ Follows(w)
  BY DEF Good
<1>2. v = [w EXCEPT !.ctl = c, !.monitor = n]
  BY DEF dispatchPlaying
<1>3. c \in Ctls /\ n \in Monitors /\ c.seeking = w.ctl.seeking /\ c.playing /\ ~c.waiting
  BY <1>1 DEF Worlds, Ctls, Monitors, Medias
<1> HIDE DEF c, n
<1>4. v \in Worlds /\ v.media = w.media /\ v.queue = w.queue /\ v.ctl = c /\ v.seek = w.seek
  BY <1>1, <1>2, <1>3 DEF Worlds
<1> HIDE DEF v
<1>5. w.ctl.playing \in BOOLEAN /\ c.playing \in BOOLEAN
  BY <1>1, <1>3 DEF Worlds, Ctls
<1>6. MovingPlays(v)
  BY <1>1, <1>3, <1>4, <1>5, LeadsNow DEF Follows, MovingPlays
<1>7. SeekingFollows(v) /\ PausedIsSilent(v) /\ Exclusive(v)
  BY <1>1, <1>3, <1>4 DEF Follows, SeekingFollows, PausedIsSilent, Exclusive
<1> QED BY <1>4, <1>6, <1>7 DEF Good, Follows, v

(* The controller announces that it waits, while the element seeks.            *)
LEMMA DispatchWaitingGood ==
    ASSUME NEW w, Good(w), ~w.media.paused, w.media.seeking
    PROVE  Good(dispatchWaiting(w)) /\ dispatchWaiting(w).seek = w.seek
<1> DEFINE v == dispatchWaiting(w)
           c == [w.ctl EXCEPT !.playing = FALSE, !.waiting = TRUE]
<1>1. w \in Worlds /\ Follows(w)
  BY DEF Good
<1>2. v = [w EXCEPT !.ctl = c]
  BY <1>1 DEF dispatchWaiting, Worlds, Ctls
<1>3. c \in Ctls /\ c.seeking = w.ctl.seeking /\ ~c.playing /\ c.waiting
  BY <1>1 DEF Worlds, Ctls
<1> HIDE DEF c
<1>4. v \in Worlds /\ v.media = w.media /\ v.queue = w.queue /\ v.ctl = c /\ v.seek = w.seek
  BY <1>1, <1>2, <1>3 DEF Worlds
<1> HIDE DEF v
<1>5. SeekingFollows(v) /\ PausedIsSilent(v) /\ Exclusive(v) /\ MovingPlays(v)
  BY <1>1, <1>3, <1>4 DEF Follows, SeekingFollows, PausedIsSilent, Exclusive, MovingPlays
<1> QED BY <1>4, <1>5 DEF Good, Follows, v

------------------------------------------------------------------------------
\* The handlers of the events

SameElement(v, w) ==
    /\ v \in Worlds /\ v.media = w.media /\ v.queue = w.queue
    /\ \A c \in 0..MaxSeeks : SeeksFit(w.seek, c) => SeeksFit(v.seek, c)

(* Waits for an event end.                                                     *)
LEMMA ResolvesIs ==
    ASSUME NEW w \in Worlds, NEW since \in {"meta", "seeking", "seeked"},
           NEW to \in {"go", "begun", "landed", "emptied"}
    PROVE  \E x \in [Seeks -> SeekRecs] :
              /\ resolves(w, since, to) = [w EXCEPT !.seek = x]
              /\ \A c \in 0..MaxSeeks : SeeksFit(w.seek, c) => SeeksFit(x, c)
<1> DEFINE x == [s \in Seeks |-> IF w.seek[s].phase = since THEN [w.seek[s] EXCEPT !.phase = to]
                                 ELSE w.seek[s]]
<1>1. w.seek \in [Seeks -> SeekRecs] /\ to \in SeekPhases
  BY DEF Worlds, SeekPhases
<1>2. x \in [Seeks -> SeekRecs]
  BY <1>1 DEF SeekRecs
<1>3. resolves(w, since, to) = [w EXCEPT !.seek = x]
  BY DEF resolves, Worlds
<1>4. ASSUME NEW s \in Seeks
      PROVE  /\ w.seek[s].phase # since => x[s].phase = w.seek[s].phase
             /\ w.seek[s].phase = since => x[s].phase = to
  BY <1>1 DEF SeekRecs
<1> HIDE DEF x
<1>5. ASSUME NEW c \in 0..MaxSeeks, SeeksFit(w.seek, c) PROVE SeeksFit(x, c)
  BY <1>4, <1>5 DEF SeeksFit
<1> QED BY <1>2, <1>3, <1>5

(* loadedmetadata changes only plays and seeks that wait for it.               *)
LEMMA LoadedMetadataIs ==
    ASSUME NEW w \in Worlds
    PROVE  LET v == onLoadedMetadata(w)
           IN  SameElement(v, w) /\ v.ctl = w.ctl /\ v.monitor = w.monitor
<1>1. PICK x \in [Seeks -> SeekRecs] :
          /\ resolves(w, "meta", "go") = [w EXCEPT !.seek = x]
          /\ \A c \in 0..MaxSeeks : SeeksFit(w.seek, c) => SeeksFit(x, c)
  BY ResolvesIs
<1> DEFINE u == [w EXCEPT !.seek = x]
           y == [p \in Plays |-> IF w.play[p].inner = "meta" THEN [w.play[p] EXCEPT !.inner = "go"]
                                 ELSE w.play[p]]
           v == [u EXCEPT !.play = y]
<1>2. u \in Worlds /\ u.play = w.play
  BY DEF Worlds
<1>3. y \in [Plays -> PlayRecs]
  BY DEF Worlds, PlayRecs
<1>4. onLoadedMetadata(w) = v
  BY <1>1, <1>2 DEF onLoadedMetadata
<1> HIDE DEF y
<1>5. /\ v \in Worlds /\ v.media = w.media /\ v.queue = w.queue /\ v.seek = x
      /\ v.ctl = w.ctl /\ v.monitor = w.monitor
  BY <1>3 DEF Worlds
<1> QED BY <1>1, <1>4, <1>5 DEF SameElement

(* The controller says it plays, and nothing about the element changes.        *)
LEMMA DispatchPlayingIs ==
    ASSUME NEW w \in Worlds
    PROVE  LET v == dispatchPlaying(w)
           IN  /\ v \in Worlds /\ v.media = w.media /\ v.queue = w.queue /\ v.seek = w.seek
               /\ v.ctl.seeking = w.ctl.seeking /\ v.ctl.playing /\ ~v.ctl.waiting
BY DEF dispatchPlaying, Worlds, Ctls, Monitors, Medias

(* The controller says nothing of playing or waiting any more.                 *)
LEMMA DispatchStopIs ==
    ASSUME NEW w \in Worlds
    PROVE  LET v == dispatchStop(w)
           IN  /\ v \in Worlds /\ v.media = w.media /\ v.queue = w.queue /\ v.seek = w.seek
               /\ v.ctl.seeking = w.ctl.seeking /\ Silent(v)
BY DEF dispatchStop, suspend, Worlds, Ctls, Monitors, Silent

(* After playing the controller plays.                                         *)
LEMMA PlayingIs ==
    ASSUME NEW w \in Worlds
    PROVE  LET v == onPlaying(w)
           IN  /\ SameElement(v, w)
               /\ v.ctl.seeking = w.ctl.seeking /\ v.ctl.playing
               /\ Exclusive(w) => Exclusive(v)
<1> DEFINE h == [w EXCEPT !.detector.saw = w.detector.on]
           d == dispatchPlaying(h)
           r == IF w.ctl.playing THEN h ELSE d
<1>1. /\ h \in Worlds /\ h.media = w.media /\ h.queue = w.queue /\ h.seek = w.seek
      /\ h.ctl = w.ctl
  BY DEF Worlds, Detectors
<1>2. /\ d \in Worlds /\ d.media = h.media /\ d.queue = h.queue /\ d.seek = h.seek
      /\ d.ctl.seeking = h.ctl.seeking /\ d.ctl.playing /\ ~d.ctl.waiting
  BY <1>1, DispatchPlayingIs
<1>3. onPlaying(w) = playsSettle(r)
  BY DEF onPlaying
<1> HIDE DEF h, d
<1>4. /\ r \in Worlds /\ r.media = w.media /\ r.queue = w.queue /\ r.seek = w.seek
      /\ r.ctl.seeking = w.ctl.seeking /\ r.ctl.playing
      /\ Exclusive(w) => Exclusive(r)
  BY <1>1, <1>2 DEF Exclusive
<1> HIDE DEF r
<1>5. PICK x \in [Plays -> PlayRecs] : playsSettle(r) = [r EXCEPT !.play = x]
  BY <1>4, PlaysSettleGood
<1> DEFINE v == [r EXCEPT !.play = x]
<1>6. /\ v \in Worlds /\ v.media = r.media /\ v.queue = r.queue /\ v.seek = r.seek
      /\ v.ctl = r.ctl
  BY <1>4 DEF Worlds
<1> QED BY <1>3, <1>4, <1>5, <1>6 DEF SameElement, Exclusive

(* waiting changes neither the seeking state nor the element.                  *)
LEMMA WaitingIs ==
    ASSUME NEW w \in Worlds
    PROVE  LET v == onWaiting(w)
           IN  /\ SameElement(v, w) /\ v.ctl.seeking = w.ctl.seeking
               /\ Exclusive(w) => Exclusive(v)
<1> DEFINE v == dispatchWaiting(w)
<1>1. /\ v \in Worlds /\ v.media = w.media /\ v.queue = w.queue /\ v.seek = w.seek
      /\ v.ctl.seeking = w.ctl.seeking /\ ~v.ctl.playing
  BY DEF dispatchWaiting, Worlds, Ctls
<1> QED BY <1>1 DEF onWaiting, SameElement, Exclusive

(* After ended the controller does not play.                                   *)
LEMMA EndedIs ==
    ASSUME NEW w \in Worlds
    PROVE  LET v == onEnded(w)
           IN  /\ SameElement(v, w) /\ v.ctl.seeking = w.ctl.seeking /\ v.monitor = w.monitor
               /\ ~v.ctl.playing /\ v.ctl.waiting = w.ctl.waiting
BY DEF onEnded, Worlds, Ctls, SameElement

(* After seeking the controller seeks, and says nothing else.                  *)
LEMMA SeekingIs ==
    ASSUME NEW w \in Worlds
    PROVE  LET v == onSeeking(w)
           IN  SameElement(v, w) /\ v.ctl.seeking /\ Silent(v)
<1> DEFINE d == dispatchStop(w)
<1>1. /\ d \in Worlds /\ d.media = w.media /\ d.queue = w.queue /\ d.seek = w.seek /\ Silent(d)
  BY DispatchStopIs
<1>2. onSeeking(w) = [resolves(d, "seeking", "begun") EXCEPT !.ctl.seeking = TRUE,
                                                              !.seekTimer = TRUE]
  BY DEF onSeeking
<1> HIDE DEF d
<1>3. PICK x \in [Seeks -> SeekRecs] :
          /\ resolves(d, "seeking", "begun") = [d EXCEPT !.seek = x]
          /\ \A c \in 0..MaxSeeks : SeeksFit(d.seek, c) => SeeksFit(x, c)
  BY <1>1, ResolvesIs
<1> DEFINE v == [[d EXCEPT !.seek = x] EXCEPT !.ctl.seeking = TRUE, !.seekTimer = TRUE]
<1>4. /\ v \in Worlds /\ v.media = d.media /\ v.queue = d.queue /\ v.seek = x
      /\ v.ctl.seeking /\ v.ctl.playing = d.ctl.playing /\ v.ctl.waiting = d.ctl.waiting
      /\ v.monitor = d.monitor
  BY <1>1 DEF Worlds, Ctls
<1> QED BY <1>1, <1>2, <1>3, <1>4 DEF SameElement, Silent

(* After seeked it no longer seeks, and plays if the element moves.            *)
LEMMA SeekedIs ==
    ASSUME NEW w \in Worlds
    PROVE  LET v == onSeeked(w)
           IN  /\ SameElement(v, w) /\ ~v.ctl.seeking
               /\ ~w.media.paused /\ w.media.ready = "future" => v.ctl.playing
               /\ w.media.paused => (Silent(w) => Silent(v))
               /\ Exclusive(w) => Exclusive(v)
<1>1. PICK x \in [Seeks -> SeekRecs] :
          /\ resolves(w, "seeked", "landed") = [w EXCEPT !.seek = x]
          /\ \A c \in 0..MaxSeeks : SeeksFit(w.seek, c) => SeeksFit(x, c)
  BY ResolvesIs
<1> DEFINE e == [[w EXCEPT !.seek = x] EXCEPT !.ctl.seeking = FALSE]
           h == IF w.ctl.seeking THEN e ELSE w
           d == dispatchPlaying(h)
<1>2. /\ e \in Worlds /\ e.media = w.media /\ e.queue = w.queue /\ e.seek = x
      /\ e.monitor = w.monitor /\ ~e.ctl.seeking
      /\ e.ctl.playing = w.ctl.playing /\ e.ctl.waiting = w.ctl.waiting
  BY DEF Worlds, Ctls
<1>3. onSeeked(w) = announces(h)
  BY <1>1 DEF onSeeked
<1> HIDE DEF e
<1>4. /\ SameElement(h, w) /\ ~h.ctl.seeking /\ h.monitor = w.monitor
      /\ h.ctl.playing = w.ctl.playing /\ h.ctl.waiting = w.ctl.waiting
  BY <1>1, <1>2 DEF SameElement
<1>5. h \in Worlds
  BY <1>4 DEF SameElement
<1> HIDE DEF h
<1>6. /\ d \in Worlds /\ d.media = h.media /\ d.queue = h.queue /\ d.seek = h.seek
      /\ d.ctl.seeking = h.ctl.seeking /\ d.ctl.playing /\ ~d.ctl.waiting
  BY <1>5, DispatchPlayingIs
<1>7. h.media = w.media
  BY <1>4 DEF SameElement
<1>8. CASE h.ctl.playing \/ h.media.paused \/ h.media.ready # "future"
  <2>1. onSeeked(w) = h
    BY <1>3, <1>8 DEF announces
  <2> QED BY <1>4, <1>7, <1>8, <2>1 DEF Silent, Exclusive
<1>9. CASE ~(h.ctl.playing \/ h.media.paused \/ h.media.ready # "future")
  <2>1. onSeeked(w) = d
    BY <1>3, <1>9 DEF announces
  <2> QED BY <1>4, <1>6, <1>7, <1>9, <2>1 DEF SameElement, Silent, Exclusive
<1> QED BY <1>8, <1>9

(* After emptied it says nothing.                                              *)
LEMMA EmptiedIs ==
    ASSUME NEW w \in Worlds
    PROVE  LET v == onEmptied(w)
           IN  SameElement(v, w) /\ ~v.ctl.seeking /\ Silent(v)
<1> DEFINE p == dispatchStop(w)
           d == stopDetector(p)
<1>1. /\ p \in Worlds /\ p.media = w.media /\ p.queue = w.queue /\ p.seek = w.seek
      /\ p.ctl.seeking = w.ctl.seeking /\ Silent(p)
  BY DispatchStopIs
<1> HIDE DEF p
<1>2. noDetector \in Detectors
  BY PlaybackAssumption DEF noDetector, Detectors
<1>3. /\ d \in Worlds /\ d.media = w.media /\ d.queue = w.queue /\ d.seek = w.seek
      /\ d.ctl = p.ctl /\ d.monitor = p.monitor
  BY <1>1, <1>2 DEF stopDetector, Worlds
<1>4. Silent(d) /\ d.ctl.seeking = w.ctl.seeking
  BY <1>1, <1>3 DEF Silent
<1>5. onEmptied(w) = IF w.ctl.seeking
                     THEN [resolves(d, "seeked", "emptied") EXCEPT !.ctl.seeking = FALSE]
                     ELSE d
  BY DEF onEmptied, p
<1> HIDE DEF d
<1>6. PICK x \in [Seeks -> SeekRecs] :
          /\ resolves(d, "seeked", "emptied") = [d EXCEPT !.seek = x]
          /\ \A c \in 0..MaxSeeks : SeeksFit(d.seek, c) => SeeksFit(x, c)
  BY <1>3, ResolvesIs
<1> DEFINE e == [[d EXCEPT !.seek = x] EXCEPT !.ctl.seeking = FALSE]
<1>7. /\ e \in Worlds /\ e.media = d.media /\ e.queue = d.queue /\ e.seek = x
      /\ e.monitor = d.monitor /\ ~e.ctl.seeking
      /\ e.ctl.playing = d.ctl.playing /\ e.ctl.waiting = d.ctl.waiting
  BY <1>3 DEF Worlds, Ctls
<1> HIDE DEF e
<1>8. onEmptied(w) = IF w.ctl.seeking THEN e ELSE d
  BY <1>5, <1>6 DEF e
<1>9. w.ctl.seeking \in BOOLEAN
  BY DEF Worlds, Ctls
<1> QED BY <1>3, <1>4, <1>6, <1>7, <1>8, <1>9 DEF SameElement, Silent

(* The first event is delivered, and the controller does what it must.         *)
LEMMA Delivered ==
    ASSUME NEW w, Good(w), w.queue # <<>>, NEW v \in Worlds,
           v.media = w.media, v.queue = Tail(w.queue),
           Head(w.queue) = "seeking" => v.ctl.seeking,
           Head(w.queue) \in {"seeked", "emptied"} => ~v.ctl.seeking,
           Head(w.queue) \notin {"seeking", "seeked", "emptied"} => v.ctl.seeking = w.ctl.seeking,
           Head(w.queue) \in {"pause", "seeking", "emptied"} => Silent(v),
           Head(w.queue) \in {"loadedmetadata", "seeked", "ended"} /\ w.media.paused /\ Silent(w)
             => Silent(v),
           Head(w.queue) \in {"playing", "seeked"} /\ moving(w.media) => v.ctl.playing,
           Head(w.queue) = "loadedmetadata" => v.ctl.playing = w.ctl.playing,
           Exclusive(v)
    PROVE  Good(v)
<1>1. w \in Worlds /\ Follows(w)
  BY DEF Good
<1>2. /\ w.queue \in Seq(Events) /\ Head(w.queue) \in Events
      /\ w.ctl.seeking \in BOOLEAN /\ w.ctl.playing \in BOOLEAN
      /\ v.ctl.seeking \in BOOLEAN /\ v.ctl.playing \in BOOLEAN
      /\ w.media.seeking \in BOOLEAN
      /\ (~w.ctl.seeking) \in BOOLEAN /\ (~v.ctl.seeking) \in BOOLEAN
  <2>1. w.queue \in Seq(Events)
    BY <1>1 DEF Worlds
  <2>2. Head(w.queue) \in Events
    BY <2>1, HeadTailProperties
  <2> QED BY <1>1, <2>1, <2>2 DEF Worlds, Ctls, Medias
<1>3. SeekingFollows(v)
  <2>1. CASE w.media.seeking
    <3>1. Leads(w.queue, {"seeking"}, {"seeked", "emptied"}, w.ctl.seeking)
      BY <1>1, <2>1 DEF Follows, SeekingFollows
    <3>2. Head(w.queue) \notin {"seeking"} \cup {"seeked", "emptied"} /\ w.ctl.seeking => v.ctl.seeking
      OBVIOUS
    <3>3. Leads(Tail(w.queue), {"seeking"}, {"seeked", "emptied"}, v.ctl.seeking)
      BY <1>2, <3>1, <3>2, LeadsTail
    <3> QED BY <2>1, <3>3 DEF SeekingFollows
  <2>2. CASE ~w.media.seeking
    <3>1. Leads(w.queue, {"seeked", "emptied"}, {"seeking"}, ~w.ctl.seeking)
      BY <1>1, <2>2 DEF Follows, SeekingFollows
    <3>2. Head(w.queue) \notin {"seeked", "emptied"} \cup {"seeking"} /\ ~w.ctl.seeking => ~v.ctl.seeking
      OBVIOUS
    <3>3. Leads(Tail(w.queue), {"seeked", "emptied"}, {"seeking"}, ~v.ctl.seeking)
      BY <1>2, <3>1, <3>2, LeadsTail
    <3> QED BY <2>2, <3>3 DEF SeekingFollows
  <2> QED BY <2>1, <2>2
<1>4. PausedIsSilent(v)
  <2> SUFFICES ASSUME w.media.paused
               PROVE  Leads(Tail(w.queue), {"pause", "seeking", "emptied"}, {"playing", "waiting"}, Silent(v))
    BY DEF PausedIsSilent
  <2>1. Leads(w.queue, {"pause", "seeking", "emptied"}, {"playing", "waiting"}, Silent(w))
    BY <1>1 DEF Follows, PausedIsSilent
  <2>2. Silent(w) \in BOOLEAN /\ Silent(v) \in BOOLEAN
    BY DEF Silent
  <2>3. Head(w.queue) \notin {"pause", "seeking", "emptied"} \cup {"playing", "waiting"} /\ Silent(w)
          => Silent(v)
    BY <1>2 DEF Events
  <2> QED BY <1>2, <2>1, <2>2, <2>3, LeadsTail
<1>5. MovingPlays(v)
  <2> SUFFICES ASSUME moving(w.media)
               PROVE  Leads(Tail(w.queue), {"playing", "seeked"},
                            {"waiting", "pause", "ended", "seeking", "emptied"}, v.ctl.playing)
    BY DEF MovingPlays, moving
  <2>1. Leads(w.queue, {"playing", "seeked"},
              {"waiting", "pause", "ended", "seeking", "emptied"}, w.ctl.playing)
    BY <1>1 DEF Follows, MovingPlays, moving
  <2>2. Head(w.queue) \notin {"playing", "seeked"} \cup {"waiting", "pause", "ended", "seeking", "emptied"}
          => Head(w.queue) = "loadedmetadata"
    BY <1>2 DEF Events
  <2>3. Head(w.queue) \notin {"playing", "seeked"} \cup {"waiting", "pause", "ended", "seeking", "emptied"}
          /\ w.ctl.playing => v.ctl.playing
    BY <2>2
  <2>4. Head(w.queue) \in {"playing", "seeked"} => v.ctl.playing
    OBVIOUS
  <2> QED BY <1>2, <2>1, <2>3, <2>4, LeadsTail
<1> QED BY <1>3, <1>4, <1>5 DEF Good, Follows

(* The event is handled.                                                       *)
LEMMA HandleGood ==
    ASSUME NEW w, Good(w), w.queue # <<>>
    PROVE  LET v == handle([w EXCEPT !.queue = Tail(w.queue)], Head(w.queue))
           IN  /\ Good(v)
               /\ \A c \in 0..MaxSeeks : SeeksFit(w.seek, c) => SeeksFit(v.seek, c)
<1> DEFINE e == Head(w.queue)
           y == [w EXCEPT !.queue = Tail(w.queue)]
<1>1. w \in Worlds /\ Follows(w) /\ w.queue \in Seq(Events)
  BY DEF Good, Worlds
<1>2. e \in Events /\ Tail(w.queue) \in Seq(Events)
  BY <1>1, HeadTailProperties
<1>3. /\ y \in Worlds /\ y.media = w.media /\ y.queue = Tail(w.queue) /\ y.seek = w.seek
      /\ y.ctl = w.ctl /\ y.monitor = w.monitor
  BY <1>1, <1>2 DEF Worlds
<1>4. Exclusive(w) /\ Exclusive(y) /\ (Silent(w) <=> Silent(y))
  BY <1>1, <1>3 DEF Follows, Exclusive, Silent
<1> SUFFICES Good(handle(y, e))
             /\ \A c \in 0..MaxSeeks : SeeksFit(w.seek, c) => SeeksFit(handle(y, e).seek, c)
  OBVIOUS
<1> HIDE DEF y
<1>5. CASE e = "loadedmetadata"
  <2> DEFINE v == onLoadedMetadata(y)
  <2>1. SameElement(v, y) /\ v.ctl = y.ctl /\ v.monitor = y.monitor
    BY <1>3, LoadedMetadataIs
  <2>2. handle(y, e) = v
    BY <1>5 DEF handle
  <2> HIDE DEF v
  <2>3. Exclusive(v) /\ (Silent(y) => Silent(v))
    BY <1>4, <2>1 DEF Exclusive, Silent
  <2>4. Good(v)
    BY <1>3, <1>4, <1>5, <2>1, <2>3, Delivered DEF SameElement
  <2> QED BY <1>3, <2>1, <2>2, <2>4 DEF SameElement
<1>6. CASE e = "playing"
  <2> DEFINE v == onPlaying(y)
  <2>1. SameElement(v, y) /\ v.ctl.seeking = y.ctl.seeking /\ v.ctl.playing /\ Exclusive(v)
    BY <1>3, <1>4, PlayingIs
  <2>2. handle(y, e) = v
    BY <1>6 DEF handle
  <2> HIDE DEF v
  <2>4. /\ v \in Worlds /\ v.media = w.media /\ v.queue = Tail(w.queue)
        /\ v.ctl.seeking = w.ctl.seeking /\ Exclusive(v) /\ v.ctl.playing
    BY <1>3, <2>1 DEF SameElement
  <2>5. Head(w.queue) = "playing"
    BY <1>6
  <2>6. Good(v)
    BY <2>4, <2>5, Delivered
  <2> QED BY <1>3, <2>1, <2>2, <2>6 DEF SameElement
<1>7. CASE e = "waiting"
  <2> DEFINE v == onWaiting(y)
  <2>1. SameElement(v, y) /\ v.ctl.seeking = y.ctl.seeking /\ Exclusive(v)
    BY <1>3, <1>4, WaitingIs
  <2>2. handle(y, e) = v
    BY <1>7 DEF handle
  <2> HIDE DEF v
  <2>4. /\ v \in Worlds /\ v.media = w.media /\ v.queue = Tail(w.queue)
        /\ v.ctl.seeking = w.ctl.seeking /\ Exclusive(v)
    BY <1>3, <2>1 DEF SameElement
  <2>5. Head(w.queue) = "waiting"
    BY <1>7
  <2>6. Good(v)
    BY <2>4, <2>5, Delivered
  <2> QED BY <1>3, <2>1, <2>2, <2>6 DEF SameElement
<1>8. CASE e = "pause"
  <2> DEFINE v == dispatchStop(y)
  <2>1. /\ v \in Worlds /\ v.media = y.media /\ v.queue = y.queue /\ v.seek = y.seek
        /\ v.ctl.seeking = y.ctl.seeking /\ Silent(v)
    BY <1>3, DispatchStopIs
  <2>2. handle(y, e) = v
    BY <1>8 DEF handle
  <2> HIDE DEF v
  <2>3. Exclusive(v)
    BY <2>1 DEF Silent, Exclusive
  <2>4. /\ v \in Worlds /\ v.media = w.media /\ v.queue = Tail(w.queue)
        /\ v.ctl.seeking = w.ctl.seeking /\ Exclusive(v) /\ Silent(v)
    BY <1>3, <2>1, <2>3
  <2>5. Head(w.queue) = "pause"
    BY <1>8
  <2>6. Good(v)
    BY <2>4, <2>5, Delivered
  <2> QED BY <1>3, <2>1, <2>2, <2>6
<1>9. CASE e = "ended"
  <2> DEFINE v == onEnded(y)
  <2>1. /\ SameElement(v, y) /\ v.ctl.seeking = y.ctl.seeking /\ v.monitor = y.monitor
        /\ ~v.ctl.playing /\ v.ctl.waiting = y.ctl.waiting
    BY <1>3, EndedIs
  <2>2. handle(y, e) = v
    BY <1>9 DEF handle
  <2> HIDE DEF v
  <2>3. Exclusive(v) /\ (Silent(y) => Silent(v))
    BY <1>4, <2>1 DEF Exclusive, Silent
  <2>4. Good(v)
    BY <1>3, <1>4, <1>9, <2>1, <2>3, Delivered DEF SameElement
  <2> QED BY <1>3, <2>1, <2>2, <2>4 DEF SameElement
<1>10. CASE e = "seeking"
  <2> DEFINE v == onSeeking(y)
  <2>1. SameElement(v, y) /\ v.ctl.seeking /\ Silent(v)
    BY <1>3, SeekingIs
  <2>2. handle(y, e) = v
    BY <1>10 DEF handle
  <2> HIDE DEF v
  <2>3. Exclusive(v)
    BY <2>1 DEF Silent, Exclusive
  <2>4. /\ v \in Worlds /\ v.media = w.media /\ v.queue = Tail(w.queue)
        /\ v.ctl.seeking /\ Exclusive(v) /\ Silent(v)
    BY <1>3, <2>1, <2>3 DEF SameElement
  <2>5. Head(w.queue) = "seeking"
    BY <1>10
  <2>6. Good(v)
    BY <2>4, <2>5, Delivered
  <2> QED BY <1>3, <2>1, <2>2, <2>6 DEF SameElement
<1>11. CASE e = "seeked"
  <2> DEFINE v == onSeeked(y)
  <2>1. /\ SameElement(v, y) /\ ~v.ctl.seeking
        /\ ~y.media.paused /\ y.media.ready = "future" => v.ctl.playing
        /\ y.media.paused => (Silent(y) => Silent(v))
        /\ Exclusive(v)
    BY <1>3, <1>4, SeekedIs
  <2>2. handle(y, e) = v
    BY <1>11 DEF handle
  <2> HIDE DEF v
  <2>3. moving(w.media) => v.ctl.playing
    BY <1>3, <2>1 DEF moving
  <2>4. Good(v)
    BY <1>3, <1>4, <1>11, <2>1, <2>3, Delivered DEF SameElement
  <2> QED BY <1>3, <2>1, <2>2, <2>4 DEF SameElement
<1>12. CASE e = "emptied"
  <2> DEFINE v == onEmptied(y)
  <2>1. SameElement(v, y) /\ ~v.ctl.seeking /\ Silent(v)
    BY <1>3, EmptiedIs
  <2>2. handle(y, e) = v
    BY <1>12 DEF handle
  <2> HIDE DEF v
  <2>3. Exclusive(v)
    BY <2>1 DEF Silent, Exclusive
  <2>4. /\ v \in Worlds /\ v.media = w.media /\ v.queue = Tail(w.queue)
        /\ ~v.ctl.seeking /\ Exclusive(v) /\ Silent(v)
    BY <1>3, <2>1, <2>3 DEF SameElement
  <2>5. Head(w.queue) = "emptied"
    BY <1>12
  <2>6. Good(v)
    BY <2>4, <2>5, Delivered
  <2> QED BY <1>3, <2>1, <2>2, <2>6 DEF SameElement
<1> QED BY <1>2, <1>5, <1>6, <1>7, <1>8, <1>9, <1>10, <1>11, <1>12 DEF Events

------------------------------------------------------------------------------
\* The seeks

Left == {"go", "begun", "landed", "emptied", "stuck", "done"}

(* Older seeks have ended or are about to, later ones have not begun.          *)
Older(sk, c) ==
    \A s \in Seeks : (s < c => sk[s].phase \in Left) /\ (s > c => sk[s].phase = "none")

(* Only the seek s is different.                                               *)
Put(v, w, s, c) ==
    Good(v) /\ Older(v.seek, c) /\ \A q \in Seeks \ {s} : v.seek[q] = w.seek[q]

(* What is left of SeeksFit is that the last seek has begun.                   *)
LEMMA FitIsOlder ==
    ASSUME NEW sk, NEW c \in 0..MaxSeeks
    PROVE  SeeksFit(sk, c) <=> Older(sk, c) /\ (c \in Seeks => sk[c].phase # "none")
<1>1. MaxSeeks \in Nat
  BY PlaybackAssumption
<1> QED BY <1>1 DEF SeeksFit, Older, Left, Seeks

(* A change of one seek that has begun fits.                                   *)
LEMMA PutFits ==
    ASSUME NEW w, NEW v, NEW c \in 0..MaxSeeks, NEW s \in Seeks, s <= c,
           SeeksFit(w.seek, c), Put(v, w, s, c), v.seek[s].phase # "none"
    PROVE  Good(v) /\ SeeksFit(v.seek, c)
BY FitIsOlder DEF Put

(* One seek is given another record.                                           *)
LEMMA SeekPut ==
    ASSUME NEW w, Good(w), NEW c \in 0..MaxSeeks, Older(w.seek, c),
           NEW s \in Seeks, s <= c, NEW r \in SeekRecs, s = c \/ r.phase \in Left
    PROVE  LET v == [w EXCEPT !.seek[s] = r]
           IN  Put(v, w, s, c) /\ v.seek[s] = r /\ v.media = w.media
<1> DEFINE x == [w.seek EXCEPT ![s] = r]
           v == [w EXCEPT !.seek = x]
<1>1. w \in Worlds /\ w.seek \in [Seeks -> SeekRecs]
  BY DEF Good, Worlds
<1>2. [w EXCEPT !.seek[s] = r] = v
  BY <1>1 DEF Worlds
<1>3. x \in [Seeks -> SeekRecs] /\ x[s] = r /\ \A q \in Seeks \ {s} : x[q] = w.seek[q]
  BY <1>1
<1> HIDE DEF x
<1>4. Good(v)
  BY <1>3, GoodParts
<1>5. v.seek = x /\ v.media = w.media
  BY <1>1 DEF Worlds
<1>6. Older(x, c)
  <2>1. ASSUME NEW q \in Seeks PROVE (q < c => x[q].phase \in Left) /\ (q > c => x[q].phase = "none")
    <3>1. CASE q = s
      BY <1>3, <3>1 DEF Seeks
    <3>2. CASE q # s
      BY <1>3, <3>2 DEF Older
    <3> QED BY <3>1, <3>2
  <2> QED BY <2>1 DEF Older
<1> QED BY <1>2, <1>3, <1>4, <1>5, <1>6 DEF Put

(* A change of one seek, then something else, then another change of it.       *)
LEMMA PutTwice ==
    ASSUME NEW w, NEW x, NEW y, NEW v, NEW s \in Seeks, NEW c,
           Put(x, w, s, c), y.seek = x.seek, Put(v, y, s, c)
    PROVE  Put(v, w, s, c)
BY DEF Put

(* A seek is over.                                                             *)
LEMMA DoneSeekPut ==
    ASSUME NEW w, Good(w), NEW c \in 0..MaxSeeks, Older(w.seek, c),
           NEW s \in Seeks, s <= c,
           NEW outcome \in {"none", "resolved", "superseded", "timeout", "aborted"}
    PROVE  LET v == doneSeek(w, s, outcome)
           IN  Put(v, w, s, c) /\ v.seek[s].phase = "done"
<1> DEFINE r == [w.seek[s] EXCEPT !.phase = "done", !.outcome = outcome]
<1>1. w \in Worlds /\ w.seek[s] \in SeekRecs
  BY DEF Good, Worlds
<1>2. r \in SeekRecs /\ r.phase = "done"
  BY <1>1 DEF SeekRecs, SeekPhases
<1>3. doneSeek(w, s, outcome) = [w EXCEPT !.seek[s] = r]
  BY <1>1 DEF doneSeek, Worlds
<1> HIDE DEF r
<1> QED BY <1>2, <1>3, SeekPut DEF Left

(* The last seek goes to another phase.                                        *)
LEMMA PhasePut ==
    ASSUME NEW w, Good(w), NEW c \in 0..MaxSeeks, Older(w.seek, c), NEW s \in Seeks, s <= c,
           NEW ph \in SeekPhases, s = c \/ ph \in Left
    PROVE  LET v == [w EXCEPT !.seek[s].phase = ph]
           IN  Put(v, w, s, c) /\ v.seek[s].phase = ph
<1> DEFINE r == [w.seek[s] EXCEPT !.phase = ph]
<1>1. w \in Worlds /\ w.seek[s] \in SeekRecs
  BY DEF Good, Worlds
<1>2. r \in SeekRecs /\ r.phase = ph
  BY <1>1 DEF SeekRecs
<1>3. [w EXCEPT !.seek[s].phase = ph] = [w EXCEPT !.seek[s] = r]
  BY <1>1 DEF Worlds
<1> HIDE DEF r
<1> QED BY <1>2, <1>3, SeekPut

(* The position a seek is clamped to exists.                                   *)
LEMMA ClampedIs ==
    ASSUME NEW w \in Worlds, NEW s \in Seeks
    PROVE  clamped(w, s) \in 0..End
<1>1. End \in Nat /\ MinSeekable \in Nat
  BY PlaybackAssumption
<1>2. w.seek[s].target \in 0..End /\ w.media.paused \in BOOLEAN
  BY DEF Worlds, SeekRecs, Medias
<1>3. lastSeekable(w.media.paused) \in 0..End
  BY <1>1, <1>2 DEF lastSeekable
<1> QED BY <1>1, <1>2, <1>3 DEF clamped

(* The position is set, and the last seek waits for seeking.                   *)
LEMMA SeekOncePut ==
    ASSUME NEW w, Good(w), NEW c \in 0..MaxSeeks, Older(w.seek, c), NEW s \in Seeks, s <= c,
           NEW newest \in BOOLEAN, newest => s = c, NEW data \in BOOLEAN, webkit \in BOOLEAN
    PROVE  LET v == seekOnce(w, s, newest, data)
           IN  Put(v, w, s, c) /\ v.seek[s].phase # "none"
<1> DEFINE t == clamped(w, s)
           r == [w.seek[s] EXCEPT !.target = t]
           x == [w EXCEPT !.seek[s] = r]
           issued == setTime(x, t, data)
<1>1. w \in Worlds /\ w.seek[s] \in SeekRecs
  BY DEF Good, Worlds
<1>2. t \in 0..End
  BY <1>1, ClampedIs
<1>3. [w EXCEPT !.seek[s].target = t] = x
  BY <1>1 DEF Worlds
<1>4. seekOnce(w, s, newest, data) = IF newest THEN [issued EXCEPT !.seek[s].phase = "seeking"]
                                     ELSE doneSeek(issued, s, "superseded")
  BY <1>3 DEF seekOnce
<1> HIDE DEF t
<1>5. r \in SeekRecs /\ r.phase = w.seek[s].phase
  BY <1>1, <1>2 DEF SeekRecs
<1>6. s = c \/ r.phase \in Left
  BY <1>5 DEF Older, Seeks
<1> HIDE DEF r
<1>7. Put(x, w, s, c) /\ Good(x)
  BY <1>5, <1>6, SeekPut DEF Put
<1> HIDE DEF x
<1>8. Good(issued) /\ issued.seek = x.seek
  BY <1>2, <1>7, SetTimeGood
<1> HIDE DEF issued
<1>9. Older(issued.seek, c)
  BY <1>7, <1>8 DEF Put
<1>10. CASE newest
  <2>1. "seeking" \in SeekPhases
    BY DEF SeekPhases
  <2>2. /\ Put([issued EXCEPT !.seek[s].phase = "seeking"], issued, s, c)
        /\ [issued EXCEPT !.seek[s].phase = "seeking"].seek[s].phase = "seeking"
    BY <1>8, <1>9, <1>10, <2>1, PhasePut
  <2> QED BY <1>4, <1>7, <1>8, <1>10, <2>2, PutTwice
<1>11. CASE ~newest
  <2>1. /\ Put(doneSeek(issued, s, "superseded"), issued, s, c)
        /\ doneSeek(issued, s, "superseded").seek[s].phase = "done"
    BY <1>8, <1>9, DoneSeekPut
  <2> QED BY <1>4, <1>7, <1>8, <1>11, <2>1, PutTwice
<1> QED BY <1>10, <1>11

(* Seeking to where the element is ends at once; else the position is set.     *)
LEMMA DoSeekPut ==
    ASSUME NEW w, Good(w), NEW c \in 0..MaxSeeks, Older(w.seek, c), NEW s \in Seeks, s <= c,
           NEW newest \in BOOLEAN, newest => s = c, NEW data \in BOOLEAN, webkit \in BOOLEAN
    PROVE  LET v == doSeek(w, s, newest, data)
           IN  Put(v, w, s, c) /\ v.seek[s].phase # "none"
<1>1. /\ Put(doneSeek(w, s, "resolved"), w, s, c)
      /\ doneSeek(w, s, "resolved").seek[s].phase = "done"
  BY DoneSeekPut
<1>2. /\ Put(doneSeek(w, s, "superseded"), w, s, c)
      /\ doneSeek(w, s, "superseded").seek[s].phase = "done"
  BY DoneSeekPut
<1>3. LET v == seekOnce(w, s, newest, data)
      IN  Put(v, w, s, c) /\ v.seek[s].phase # "none"
  BY SeekOncePut
<1> QED BY <1>1, <1>2, <1>3 DEF doSeek

(* The stall detector is started, or stopped.                                  *)
LEMMA DetectorGood ==
    ASSUME NEW w, Good(w)
    PROVE  /\ Good(startDetector(w)) /\ startDetector(w).seek = w.seek
           /\ Good(stopDetector(w)) /\ stopDetector(w).seek = w.seek
<1> DEFINE d == [noDetector EXCEPT !.on = TRUE, !.lastPos = w.media.pos]
<1>1. w \in Worlds
  BY DEF Good
<1>2. noDetector \in Detectors /\ d \in Detectors
  <2>1. noDetector \in Detectors
    BY PlaybackAssumption DEF noDetector, Detectors
  <2>2. w.media.pos \in 0..End
    BY <1>1 DEF Worlds, Medias
  <2> QED BY <2>1, <2>2 DEF Detectors
<1>3. startDetector(w) = [w EXCEPT !.detector = d] /\ stopDetector(w) = [w EXCEPT !.detector = noDetector]
  BY DEF startDetector, stopDetector
<1>4. \A x \in Detectors : [w EXCEPT !.detector = x].seek = w.seek
  BY <1>1 DEF Worlds
<1> HIDE DEF d
<1> QED BY <1>2, <1>3, <1>4, GoodParts

(* The wait of the last seek is over.                                          *)
LEMMA SeekContinuesPut ==
    ASSUME NEW w, Good(w), NEW c \in 0..MaxSeeks, Older(w.seek, c), c \in Seeks,
           NEW data \in BOOLEAN, webkit \in BOOLEAN
    PROVE  LET v == seekContinues(w, c, data)
           IN  Put(v, w, c, c) /\ v.seek[c].phase # "none"
<1> DEFINE stuck == w.seek[c].phase = "stuck"
           retry == /\ w.seek[c].phase # "emptied" /\ w.seek[c].attempt < RetryLimit
                    /\ stuck \/ w.media.pos # w.seek[c].target
           k == IF stuck THEN mediaPlay(w) ELSE w
           r == [w.seek[c] EXCEPT !.attempt = w.seek[c].attempt + 1]
           again == [k EXCEPT !.seek[c] = r]
           issued == setTime(again, w.seek[c].target, data)
           e == IF w.media.paused THEN w ELSE startDetector(w)
<1>1. w \in Worlds /\ w.seek[c] \in SeekRecs
  BY DEF Good, Worlds
<1>2. Good(k) /\ k.seek = w.seek /\ k \in Worlds
  BY MediaPlayGood DEF Good
<1>3. CASE w.seek[c].phase = "emptied"
  <2>1. seekContinues(w, c, data) = doneSeek(w, c, "aborted")
    BY <1>3 DEF seekContinues
  <2> QED BY <2>1, DoneSeekPut
<1>4. CASE retry
  <2>1. seekContinues(w, c, data) = [issued EXCEPT !.seek[c].phase = "seeking"]
    <3>1. [k EXCEPT !.seek[c].attempt = @ + 1] = again
      BY <1>1, <1>2 DEF Worlds
    <3> QED BY <1>4, <3>1 DEF seekContinues
  <2>2. r \in SeekRecs /\ w.seek[c].target \in 0..End
    BY <1>1, <1>4, PlaybackAssumption DEF SeekRecs
  <2> HIDE DEF k, r
  <2>3. Put(again, k, c, c) /\ Good(again)
    BY <1>2, <2>2, SeekPut DEF Put
  <2> HIDE DEF again
  <2>4. Good(issued) /\ issued.seek = again.seek
    BY <2>2, <2>3, SetTimeGood
  <2> HIDE DEF issued
  <2>5. Older(issued.seek, c) /\ "seeking" \in SeekPhases
    BY <2>3, <2>4 DEF Put, SeekPhases
  <2>6. /\ Put([issued EXCEPT !.seek[c].phase = "seeking"], issued, c, c)
        /\ [issued EXCEPT !.seek[c].phase = "seeking"].seek[c].phase = "seeking"
    BY <2>4, <2>5, PhasePut
  <2>7. Put([issued EXCEPT !.seek[c].phase = "seeking"], k, c, c)
    BY <2>3, <2>4, <2>6, PutTwice
  <2> QED BY <1>2, <2>1, <2>6, <2>7 DEF Put
<1>5. CASE w.seek[c].phase # "emptied" /\ ~retry
  <2>1. seekContinues(w, c, data) = doneSeek(e, c, "resolved")
    BY <1>5 DEF seekContinues
  <2>2. Good(e) /\ e.seek = w.seek
    BY DetectorGood
  <2> HIDE DEF e
  <2>3. Put(doneSeek(e, c, "resolved"), e, c, c)
        /\ doneSeek(e, c, "resolved").seek[c].phase = "done"
    BY <2>2, DoneSeekPut
  <2> QED BY <2>1, <2>2, <2>3 DEF Put
<1> QED BY <1>3, <1>4, <1>5

(* A newer seek leaves the last one over, or about to be.                      *)
LEMMA SupersedesOlder ==
    ASSUME NEW w, Good(w), NEW c \in Seeks, SeeksFit(w.seek, c), c < MaxSeeks
    PROVE  Good(supersedes(w, c)) /\ Older(supersedes(w, c).seek, c + 1)
<1>1. c \in 0..MaxSeeks /\ MaxSeeks \in Nat
  BY PlaybackAssumption DEF Seeks
<1>2. w \in Worlds /\ w.seek[c].phase \in SeekPhases
  BY DEF Good, Worlds, SeekRecs
<1>3. Older(w.seek, c) /\ w.seek[c].phase # "none"
  BY <1>1, FitIsOlder
<1>4. CASE w.seek[c].phase \in {"meta", "seeking", "seeked"}
  <2> DEFINE v == doneSeek(w, c, "superseded")
  <2>1. Put(v, w, c, c) /\ v.seek[c].phase = "done" /\ supersedes(w, c) = v
    BY <1>1, <1>3, <1>4, DoneSeekPut DEF supersedes
  <2> HIDE DEF v
  <2>2. Older(v.seek, c + 1)
    BY <1>1, <2>1 DEF Put, Older, Left, Seeks
  <2> QED BY <2>1, <2>2 DEF Put
<1>5. CASE w.seek[c].phase \notin {"meta", "seeking", "seeked"}
  <2>1. w.seek[c].phase \in Left
    BY <1>2, <1>3, <1>5 DEF SeekPhases, Left
  <2>2. Older(w.seek, c + 1)
    BY <1>1, <1>3, <2>1 DEF Older, Seeks
  <2> QED BY <1>5, <2>2 DEF supersedes
<1> QED BY <1>4, <1>5

------------------------------------------------------------------------------
\* The steps

Kept == Good(World') /\ EnvOK' /\ SeeksFit(seek', current')

(* The same of the next state.                                                 *)
LEMMA WorldIsPrimed ==
    TypeOK' <=> World' \in Worlds /\ EnvOK'
BY DEF TypeOK, World, Worlds, EnvOK, Medias, Ctls, PlayRecs, SeekRecs, Detectors, Monitors

(* The invariant in terms of the record of the state.                          *)
LEMMA InvIs ==
    /\ PlaybackInv <=> Good(World) /\ EnvOK /\ SeeksFit(seek, current)
    /\ PlaybackInv' <=> Kept
<1>1. SeeksInv <=> SeeksFit(seek, current)
  BY DEF SeeksInv, SeeksFit
<1>2. SeeksInv' <=> SeeksFit(seek', current')
  BY DEF SeeksInv, SeeksFit
<1>3. Follows(World)' <=> Follows(World')
  BY DEF Follows, SeekingFollows, PausedIsSilent, MovingPlays, Exclusive, Silent, Leads
<1> QED BY <1>1, <1>2, <1>3, WorldIs, WorldIsPrimed DEF PlaybackInv, Kept, Good

(* The fields of the record are the variables.                                 *)
LEMMA WorldFields ==
    /\ World.media = media /\ World.queue = queue /\ World.ctl = ctl /\ World.play = play
    /\ World.pendingPlay = pendingPlay /\ World.playAbort = playAbort /\ World.seek = seek
    /\ World.detector = detector /\ World.monitor = monitor /\ World.seekTimer = seekTimer
BY DEF World

(* The step makes the state what it computes, and that is good.                *)
LEMMA BecomesKept ==
    ASSUME NEW w, Becomes(w), Good(w), EnvOK', SeeksFit(w.seek, current')
    PROVE  Kept
<1>1. w \in Worlds
  BY DEF Good
<1>2. World' = w
  BY <1>1, BecomesIs
<1>3. seek' = w.seek
  BY DEF Becomes
<1> QED BY <1>2, <1>3 DEF Kept

(* What a step leaves alone.                                                   *)
LEMMA EnvKept ==
    ASSUME EnvOK, UNCHANGED env
    PROVE  EnvOK' /\ current' = current
BY DEF EnvOK, env

(* A play's record changes.                                                    *)
LEMMA PlayGood ==
    ASSUME NEW w, Good(w), NEW p \in Plays, NEW q \in PlayRecs
    PROVE  Good([w EXCEPT !.play[p] = q]) /\ [w EXCEPT !.play[p] = q].seek = w.seek
<1> DEFINE x == [w.play EXCEPT ![p] = q]
<1>1. w \in Worlds
  BY DEF Good
<1>2. x \in [Plays -> PlayRecs]
  BY <1>1 DEF Worlds
<1>3. [w EXCEPT !.play[p] = q] = [w EXCEPT !.play = x]
  BY <1>1 DEF Worlds
<1> HIDE DEF x
<1>4. [w EXCEPT !.play = x].seek = w.seek
  BY <1>1 DEF Worlds
<1> QED BY <1>2, <1>3, <1>4, GoodParts

(* Which play is pending does not matter to what the controller says.          *)
LEMMA PendingGood ==
    ASSUME NEW w, Good(w), NEW p \in {0} \cup Plays, NEW q \in {0} \cup Plays
    PROVE  LET v == [w EXCEPT !.pendingPlay = p, !.playAbort = q]
           IN  Good(v) /\ v.seek = w.seek
<1> DEFINE v == [w EXCEPT !.pendingPlay = p, !.playAbort = q]
<1>1. w \in Worlds /\ Follows(w)
  BY DEF Good
<1>2. /\ v \in Worlds /\ v.media = w.media /\ v.queue = w.queue /\ v.ctl = w.ctl
      /\ v.monitor = w.monitor /\ v.seek = w.seek
  BY <1>1 DEF Worlds
<1> HIDE DEF v
<1>3. Good(v)
  BY <1>1, <1>2, SameView DEF Good
<1> QED BY <1>2, <1>3 DEF v

(* While the promise reactions run.                                            *)
LEMMA MicrotaskKeeps ==
    ASSUME PlaybackInv, Microtask
    PROVE  Kept
<1>1. Good(World) /\ EnvOK /\ SeeksFit(World.seek, current) /\ webkit \in BOOLEAN
      /\ current \in 0..MaxSeeks /\ World \in Worlds
  BY InvIs, WorldFields DEF EnvOK, Good
<1>2. Older(World.seek, current)
  BY <1>1, FitIsOlder
<1>3. ASSUME NEW p \in Plays, PlayGoes(p) PROVE Kept
  <2> DEFINE q == [play[p] EXCEPT !.inner = IF play[p].aborted THEN "end" ELSE "native"]
             w == [World EXCEPT !.play[p] = q]
  <2>1. Becomes(IF play[p].aborted THEN w ELSE mediaPlay(w)) /\ UNCHANGED env
    <3>1. [World EXCEPT !.play[p].inner = IF play[p].aborted THEN "end" ELSE "native"] = w
      BY WorldFields DEF World
    <3> QED BY <1>3, <3>1 DEF PlayGoes
  <2>2. q \in PlayRecs
    <3>1. play[p] \in PlayRecs
      BY <1>1, WorldFields DEF Worlds
    <3> QED BY <3>1 DEF PlayRecs
  <2> HIDE DEF q
  <2>3. Good(w) /\ w.seek = World.seek
    BY <1>1, <2>2, PlayGood
  <2> HIDE DEF w
  <2>4. Good(mediaPlay(w)) /\ mediaPlay(w).seek = w.seek
    BY <2>3, MediaPlayGood
  <2> QED BY <1>1, <2>1, <2>3, <2>4, EnvKept, BecomesKept
<1>4. ASSUME NEW p \in Plays, PlaySettles(p) PROVE Kept
  <2> DEFINE q == [play[p] EXCEPT !.outer = "done"]
             w == [World EXCEPT !.play[p] = q]
             v == [w EXCEPT !.pendingPlay = 0, !.playAbort = 0]
  <2>1. Becomes(v) /\ UNCHANGED env
    <3>1. [World EXCEPT !.play[p].outer = "done", !.pendingPlay = 0, !.playAbort = 0] = v
      BY WorldFields DEF World
    <3> QED BY <1>4, <3>1 DEF PlaySettles
  <2>2. q \in PlayRecs
    <3>1. play[p] \in PlayRecs
      BY <1>1, WorldFields DEF Worlds
    <3> QED BY <3>1 DEF PlayRecs
  <2> HIDE DEF q
  <2>3. Good(w) /\ w.seek = World.seek
    BY <1>1, <2>2, PlayGood
  <2> HIDE DEF w
  <2>4. Good(v) /\ v.seek = w.seek
    BY <2>3, PendingGood
  <2> QED BY <1>1, <2>1, <2>3, <2>4, EnvKept, BecomesKept
<1>5. ASSUME NEW s \in Seeks, seek[s].phase # "none" PROVE s <= current
  BY <1>1, <1>2, <1>5, WorldFields DEF Older, Seeks
<1>6. ASSUME NEW s \in Seeks, SeekGoes(s) PROVE Kept
  <2>1. PICK data \in BOOLEAN : Becomes(doSeek(World, s, s = current, data))
    BY <1>6 DEF SeekGoes
  <2>2. UNCHANGED env /\ s <= current /\ (s = current) \in BOOLEAN
    BY <1>5, <1>6 DEF SeekGoes
  <2> DEFINE v == doSeek(World, s, s = current, data)
  <2>3. Put(v, World, s, current) /\ v.seek[s].phase # "none"
    BY <1>1, <1>2, <2>2, DoSeekPut
  <2> HIDE DEF v
  <2>4. Good(v) /\ SeeksFit(v.seek, current)
    BY <1>1, <2>2, <2>3, PutFits
  <2> QED BY <1>1, <2>1, <2>2, <2>4, EnvKept, BecomesKept DEF v
<1>7. ASSUME NEW s \in Seeks, s <= current, Becomes(doneSeek(World, s, "superseded")), UNCHANGED env
      PROVE  Kept
  <2> DEFINE v == doneSeek(World, s, "superseded")
  <2>1. Put(v, World, s, current) /\ v.seek[s].phase = "done"
    BY <1>1, <1>2, <1>7, DoneSeekPut
  <2> HIDE DEF v
  <2>2. Good(v) /\ SeeksFit(v.seek, current)
    BY <1>1, <1>7, <2>1, PutFits
  <2> QED BY <1>1, <1>7, <2>2, EnvKept, BecomesKept DEF v
<1>8. ASSUME NEW s \in Seeks, SeekBegun(s) PROVE Kept
  <2>1. UNCHANGED env /\ s <= current
    BY <1>5, <1>8 DEF SeekBegun
  <2>2. CASE s = current
    <3> DEFINE v == [World EXCEPT !.seek[s].phase = "seeked"]
    <3>1. Becomes(v) /\ "seeked" \in SeekPhases
      BY <1>8, <2>2 DEF SeekBegun, SeekPhases
    <3>2. Put(v, World, s, current) /\ v.seek[s].phase = "seeked"
      BY <1>1, <1>2, <2>1, <2>2, <3>1, PhasePut
    <3> HIDE DEF v
    <3>3. Good(v) /\ SeeksFit(v.seek, current)
      BY <1>1, <2>1, <3>2, PutFits
    <3> QED BY <1>1, <2>1, <3>1, <3>3, EnvKept, BecomesKept
  <2>3. CASE s # current
    BY <1>7, <1>8, <2>1, <2>3 DEF SeekBegun
  <2> QED BY <2>2, <2>3
<1>9. ASSUME NEW s \in Seeks, SeekOver(s) PROVE Kept
  <2>1. UNCHANGED env /\ s <= current
    BY <1>5, <1>9 DEF SeekOver
  <2>2. PICK data \in BOOLEAN : Becomes(IF s = current THEN seekContinues(World, s, data)
                                        ELSE doneSeek(World, s, "superseded"))
    BY <1>9 DEF SeekOver
  <2>3. CASE s = current
    <3> DEFINE v == seekContinues(World, s, data)
    <3>1. Put(v, World, s, current) /\ v.seek[s].phase # "none"
      BY <1>1, <1>2, <2>3, SeekContinuesPut
    <3>2. Becomes(v)
      BY <2>2, <2>3
    <3> HIDE DEF v
    <3>3. Good(v) /\ SeeksFit(v.seek, current)
      BY <1>1, <2>1, <3>1, PutFits
    <3> QED BY <1>1, <2>1, <3>2, <3>3, EnvKept, BecomesKept
  <2>4. CASE s # current
    BY <1>7, <2>1, <2>2, <2>4
  <2> QED BY <2>3, <2>4
<1> QED BY <1>3, <1>4, <1>6, <1>8, <1>9 DEF Microtask

(* An event is delivered.                                                      *)
LEMMA DeliverKeeps ==
    ASSUME PlaybackInv, Deliver
    PROVE  Kept
<1>1. Good(World) /\ EnvOK /\ SeeksFit(World.seek, current)
      /\ current \in 0..MaxSeeks /\ World.queue # <<>>
  BY InvIs, WorldFields DEF EnvOK, Deliver
<1> DEFINE v == handle([World EXCEPT !.queue = Tail(World.queue)], Head(World.queue))
<1>2. Becomes(v) /\ UNCHANGED env
  BY WorldFields DEF Deliver, World
<1>3. Good(v) /\ SeeksFit(v.seek, current)
  BY <1>1, HandleGood
<1> HIDE DEF v
<1> QED BY <1>1, <1>2, <1>3, EnvKept, BecomesKept

(* A timer fires.                                                              *)
LEMMA TimersKeep ==
    ASSUME PlaybackInv, Timers
    PROVE  Kept
<1>1. Good(World) /\ EnvOK /\ SeeksFit(World.seek, current) /\ webkit \in BOOLEAN
      /\ current \in 0..MaxSeeks /\ World \in Worlds
  BY InvIs, WorldFields DEF EnvOK, Good
<1>2. Older(World.seek, current)
  BY <1>1, FitIsOlder
<1>3. CASE SeekTimerFires
  <2> DEFINE w == [World EXCEPT !.seekTimer = FALSE]
  <2>1. /\ Becomes(IF ctl.waiting \/ ~media.seeking \/ media.paused \/ media.buffered THEN w
                   ELSE dispatchWaiting(w))
        /\ UNCHANGED env
    BY <1>3 DEF SeekTimerFires
  <2>2. Good(w) /\ w.seek = World.seek /\ w.media = media
    BY <1>1, GoodParts, WorldFields DEF World
  <2> HIDE DEF w
  <2>3. CASE ctl.waiting \/ ~media.seeking \/ media.paused \/ media.buffered
    BY <1>1, <2>1, <2>2, <2>3, EnvKept, BecomesKept
  <2>4. CASE ~(ctl.waiting \/ ~media.seeking \/ media.paused \/ media.buffered)
    <3>1. Good(dispatchWaiting(w)) /\ dispatchWaiting(w).seek = w.seek
      BY <2>2, <2>4, DispatchWaitingGood
    <3> QED BY <1>1, <2>1, <2>2, <2>4, <3>1, EnvKept, BecomesKept
  <2> QED BY <2>3, <2>4
<1>4. CASE DetectorPolls
  <2>1. UNCHANGED env
    BY <1>4 DEF DetectorPolls
  <2>2. Good(stopDetector(World)) /\ stopDetector(World).seek = World.seek
    BY <1>1, DetectorGood
  <2>3. CASE Becomes(stopDetector(World))
    BY <1>1, <2>1, <2>2, <2>3, EnvKept, BecomesKept
  <2>4. CASE ~media.paused /\ Becomes(stopDetector(dispatchPlaying(World)))
    <3>1. Good(dispatchPlaying(World)) /\ dispatchPlaying(World).seek = World.seek
      BY <1>1, <2>4, DispatchPlayingGood, WorldFields
    <3>2. LET v == stopDetector(dispatchPlaying(World)) IN Good(v) /\ v.seek = World.seek
      BY <3>1, DetectorGood
    <3> QED BY <1>1, <2>1, <2>4, <3>2, EnvKept, BecomesKept
  <2> DEFINE d == [detector EXCEPT !.attempts = detector.attempts + 1, !.recovered = TRUE]
             w == [World EXCEPT !.detector = d]
  <2>5. CASE detector.attempts # MaxAttempts /\ Becomes(setTime(w, media.pos, media.buffered))
    <3>1. detector \in Detectors /\ media \in Medias
      BY <1>1, WorldFields DEF Worlds
    <3>2. d \in Detectors
      <4>1. detector.attempts \in 0..MaxAttempts /\ MaxAttempts \in Nat
        BY <3>1, PlaybackAssumption DEF Detectors
      <4>2. detector.attempts + 1 \in 0..MaxAttempts
        BY <2>5, <4>1
      <4> QED BY <3>1, <4>2 DEF Detectors
    <3>3. media.pos \in 0..End /\ media.buffered \in BOOLEAN
      BY <3>1 DEF Medias
    <3> HIDE DEF d
    <3>4. Good(w) /\ w.seek = World.seek
      BY <1>1, <3>2, GoodParts DEF World
    <3> HIDE DEF w
    <3> DEFINE v == setTime(w, media.pos, media.buffered)
    <3>5. Good(v) /\ v.seek = w.seek
      BY <1>1, <3>3, <3>4, SetTimeGood
    <3> QED BY <1>1, <2>1, <2>5, <3>4, <3>5, EnvKept, BecomesKept
  <2>6. \/ Becomes(stopDetector(World))
        \/ ~media.paused /\ Becomes(stopDetector(dispatchPlaying(World)))
        \/ detector.attempts # MaxAttempts /\ Becomes(setTime(w, media.pos, media.buffered))
    <3>1. w = [World EXCEPT !.detector = [@ EXCEPT !.attempts = detector.attempts + 1,
                                                   !.recovered = TRUE]]
      BY WorldFields DEF World
    <3> HIDE DEF w
    <3> QED BY <1>4, <3>1 DEF DetectorPolls
  <2> QED BY <2>3, <2>4, <2>5, <2>6
<1>5. CASE MonitorPolls
  <2> DEFINE n == IF media.pos > monitor.lastPos
                  THEN [monitor EXCEPT !.inStall = FALSE, !.lastPos = media.pos]
                  ELSE [monitor EXCEPT !.inStall = TRUE]
             v == [World EXCEPT !.monitor = n]
  <2>1. Becomes(v) /\ UNCHANGED env
    BY <1>5, WorldFields DEF MonitorPolls, World
  <2>2. monitor \in Monitors /\ media \in Medias /\ monitor.polling
    BY <1>1, <1>5, WorldFields DEF Worlds, MonitorPolls
  <2>3. media.pos \in 0..End
    BY <2>2 DEF Medias
  <2>4. n \in Monitors
    BY <2>2, <2>3 DEF Monitors
  <2> HIDE DEF n
  <2>5. /\ v \in Worlds /\ v.media = media /\ v.queue = queue /\ v.ctl = ctl /\ v.seek = seek
    BY <1>1, <2>4, WorldFields DEF Worlds
  <2>6. ~Silent(World)
    BY <2>2, WorldFields DEF Silent
  <2> HIDE DEF v
  <2>7. Follows(World)
    BY <1>1 DEF Good
  <2>8. Silent(World) \in BOOLEAN /\ Silent(v) \in BOOLEAN
    BY DEF Silent
  <2>9. PausedIsSilent(v)
    BY <2>5, <2>6, <2>7, <2>8, LeadsNow, WorldFields DEF Follows, PausedIsSilent
  <2>10. SeekingFollows(v) /\ MovingPlays(v) /\ Exclusive(v)
    BY <2>5, <2>7, WorldFields DEF Follows, SeekingFollows, MovingPlays, Exclusive
  <2>11. Good(v)
    BY <2>5, <2>9, <2>10 DEF Good, Follows
  <2> QED BY <1>1, <2>1, <2>5, <2>11, EnvKept, BecomesKept, WorldFields
<1>6. ASSUME NEW s \in Seeks, SeekTimesOut(s) PROVE Kept
  <2>1. UNCHANGED env /\ seek[s].phase \in {"meta", "seeking", "seeked"}
    BY <1>6 DEF SeekTimesOut
  <2>2. s = current
    BY <1>1, <1>2, <2>1, WorldFields DEF Older, Left, Seeks
  <2> DEFINE v == [World EXCEPT !.seek[s].phase = "stuck"]
             u == doneSeek(World, s, "timeout")
  <2>3. Put(v, World, s, current) /\ v.seek[s].phase = "stuck"
    <3>1. "stuck" \in SeekPhases
      BY DEF SeekPhases
    <3> QED BY <1>1, <1>2, <2>2, <3>1, PhasePut
  <2>4. Put(u, World, s, current) /\ u.seek[s].phase = "done"
    BY <1>1, <1>2, <2>2, DoneSeekPut
  <2>5. Becomes(v) \/ Becomes(u)
    BY <1>6 DEF SeekTimesOut
  <2> HIDE DEF u, v
  <2>6. Good(v) /\ SeeksFit(v.seek, current) /\ Good(u) /\ SeeksFit(u.seek, current)
    BY <1>1, <2>2, <2>3, <2>4, PutFits
  <2> QED BY <1>1, <2>1, <2>5, <2>6, EnvKept, BecomesKept
<1>7. ASSUME NEW p \in Plays, PlayTimesOut(p) PROVE Kept
  <2> DEFINE v == [World EXCEPT !.play[p] = settles(play[p])]
  <2>1. Becomes(v) /\ UNCHANGED env
    BY <1>7, WorldFields DEF PlayTimesOut, World
  <2>2. settles(play[p]) \in PlayRecs
    <3>1. play[p] \in PlayRecs
      BY <1>1, WorldFields DEF Worlds
    <3> QED BY <3>1, SettlesType
  <2>3. Good(v) /\ v.seek = World.seek
    BY <1>1, <2>2, PlayGood
  <2> HIDE DEF v
  <2> QED BY <1>1, <2>1, <2>3, EnvKept, BecomesKept
<1> QED BY <1>3, <1>4, <1>5, <1>6, <1>7 DEF Timers

(* The element goes on.                                                        *)
LEMMA ElementKeeps ==
    ASSUME PlaybackInv, Element
    PROVE  Kept
<1>1. Good(World) /\ EnvOK /\ SeeksFit(World.seek, current)
      /\ current \in 0..MaxSeeks /\ World \in Worlds
  BY InvIs, WorldFields DEF EnvOK, Good
<1>2. media \in Medias /\ End \in Nat
  BY <1>1, WorldFields, PlaybackAssumption DEF Worlds
<1>3. {"loadedmetadata", "playing", "waiting", "pause", "ended", "seeked"} \subseteq Events
  BY DEF Events
<1>4. EnvOK' /\ current' = current
  <2>1. CASE UNCHANGED env
    BY <1>1, <2>1, EnvKept
  <2>2. CASE faults < MaxFaults /\ faults' = faults + 1 /\ UNCHANGED <<webkit, current, calls>>
    BY <1>1, <2>2, PlaybackAssumption DEF EnvOK
  <2> QED BY <2>1, <2>2 DEF Element, MetadataLoads, DataArrives, DataRunsOut, SeekCompletes,
                            SeekLandsAway, Advances
<1> SUFFICES \E w : Becomes(w) /\ Good(w) /\ w.seek = World.seek
  BY <1>1, <1>4, BecomesKept
<1>5. CASE MetadataLoads
  <2> DEFINE m == [media EXCEPT !.ready = "metadata"]
             v == fires([World EXCEPT !.media = m], <<"loadedmetadata">>)
  <2>1. Becomes(v)
    <3>1. [World EXCEPT !.media.ready = "metadata"] = [World EXCEPT !.media = m]
      BY WorldFields DEF World
    <3> QED BY <1>5, <3>1 DEF MetadataLoads
  <2>2. m \in Medias /\ m.seeking = media.seeking /\ m.paused = media.paused /\ ~moving(m)
    BY <1>2 DEF Medias, moving
  <2> HIDE DEF m
  <2>3. Good(v) /\ v.seek = World.seek
    BY <1>1, <1>3, <2>2, ChangeFires, WorldFields
  <2> QED BY <2>1, <2>3
<1>6. CASE DataArrives
  <2> DEFINE m == [media EXCEPT !.ready = "future", !.buffered = TRUE]
             x == [World EXCEPT !.media = m]
  <2>1. Becomes(fires(x, IF media.ready # "future" /\ ~media.paused THEN <<"playing">> ELSE <<>>))
    <3>1. [World EXCEPT !.media = [@ EXCEPT !.ready = "future", !.buffered = TRUE]] = x
      BY WorldFields DEF World
    <3> QED BY <1>6, <3>1 DEF DataArrives
  <2>2. m \in Medias /\ m.seeking = media.seeking /\ m.paused = media.paused
        /\ (moving(m) /\ media.ready = "future" => moving(media))
    BY <1>2 DEF Medias, moving
  <2> HIDE DEF m
  <2>3. CASE media.ready # "future" /\ ~media.paused
    <3> DEFINE v == fires(x, <<"playing">>)
    <3>1. Becomes(v)
      BY <2>1, <2>3
    <3>2. Good(v) /\ v.seek = World.seek
      BY <1>1, <1>3, <2>2, <2>3, ChangeFires, WorldFields
    <3> QED BY <3>1, <3>2
  <2>4. CASE ~(media.ready # "future" /\ ~media.paused)
    <3>1. Good(x) /\ x.seek = World.seek
      BY <1>1, <2>2, <2>4, ChangeQuiet, WorldFields DEF moving
    <3>2. Becomes(fires(x, <<>>))
      BY <2>1, <2>4
    <3>3. fires(x, <<>>) = x
      <4>1. x \in Worlds /\ x.queue \in Seq(Events)
        BY <3>1 DEF Good, Worlds
      <4>2. fires(x, <<>>) = [x EXCEPT !.queue = x.queue]
        BY <4>1, QueuedEvents DEF fires
      <4> QED BY <4>1, <4>2 DEF Worlds
    <3> QED BY <3>1, <3>2, <3>3
  <2> QED BY <2>3, <2>4
<1>7. CASE DataRunsOut
  <2> DEFINE m == [media EXCEPT !.ready = "metadata", !.buffered = FALSE]
             x == [World EXCEPT !.media = m]
  <2>1. Becomes(fires(x, IF media.paused THEN <<>> ELSE <<"waiting">>))
    <3>1. [World EXCEPT !.media = [@ EXCEPT !.ready = "metadata", !.buffered = FALSE]] = x
      BY WorldFields DEF World
    <3> QED BY <1>7, <3>1 DEF DataRunsOut
  <2>2. m \in Medias /\ m.seeking = media.seeking /\ m.paused = media.paused /\ ~moving(m)
    BY <1>2 DEF Medias, moving
  <2> HIDE DEF m
  <2>3. CASE ~media.paused
    <3> DEFINE v == fires(x, <<"waiting">>)
    <3>1. Becomes(v)
      BY <2>1, <2>3
    <3>2. Good(v) /\ v.seek = World.seek
      BY <1>1, <1>3, <2>2, <2>3, ChangeFires, WorldFields
    <3> QED BY <3>1, <3>2
  <2>4. CASE media.paused
    <3>1. Good(x) /\ x.seek = World.seek
      BY <1>1, <2>2, <2>4, ChangeQuiet, WorldFields
    <3>2. Becomes(fires(x, <<>>))
      BY <2>1, <2>4
    <3>3. fires(x, <<>>) = x
      <4>1. x \in Worlds /\ x.queue \in Seq(Events)
        BY <3>1 DEF Good, Worlds
      <4>2. fires(x, <<>>) = [x EXCEPT !.queue = x.queue]
        BY <4>1, QueuedEvents DEF fires
      <4> QED BY <4>1, <4>2 DEF Worlds
    <3> QED BY <3>1, <3>2, <3>3
  <2> QED BY <2>3, <2>4
<1>8. CASE SeekCompletes
  <2> DEFINE m == [media EXCEPT !.seeking = FALSE]
             x == [World EXCEPT !.media = m]
             v == fires(x, <<"seeked">>)
             u == fires(x, <<"seeked", "playing">>)
  <2>1. Becomes(v) \/ (Becomes(u) /\ ~media.paused)
    <3>1. [World EXCEPT !.media.seeking = FALSE] = x
      BY WorldFields DEF World
    <3>2. Len(<<"seeked", "playing">>) = 2
      OBVIOUS
    <3> HIDE DEF x
    <3> QED BY <1>8, <3>1, <3>2 DEF SeekCompletes
  <2>2. m \in Medias /\ ~m.seeking /\ m.paused = media.paused
    BY <1>2 DEF Medias
  <2> HIDE DEF m
  <2>3. media.seeking
    BY <1>8 DEF SeekCompletes
  <2>4. Good(v) /\ v.seek = World.seek
    BY <1>1, <1>3, <2>2, <2>3, ChangeFires, WorldFields
  <2>5. ASSUME ~media.paused PROVE Good(u) /\ u.seek = World.seek
    BY <1>1, <1>3, <2>2, <2>3, <2>5, ChangeFiresTwo, WorldFields
  <2> HIDE DEF u, v
  <2> QED BY <2>1, <2>4, <2>5
<1>9. CASE SeekLandsAway
  <2>1. PICK away \in 0..End :
          Becomes(fires([World EXCEPT !.media = [@ EXCEPT !.seeking = FALSE, !.pos = away]],
                        <<"seeked">>))
    BY <1>9 DEF SeekLandsAway
  <2> DEFINE m == [media EXCEPT !.seeking = FALSE, !.pos = away]
             v == fires([World EXCEPT !.media = m], <<"seeked">>)
  <2>2. Becomes(v)
    <3>1. [World EXCEPT !.media = [@ EXCEPT !.seeking = FALSE, !.pos = away]]
            = [World EXCEPT !.media = m]
      BY WorldFields DEF World
    <3> QED BY <2>1, <3>1
  <2>3. m \in Medias /\ ~m.seeking /\ m.paused = media.paused
    BY <1>2 DEF Medias
  <2> HIDE DEF m
  <2>4. Good(v) /\ v.seek = World.seek
    BY <1>1, <1>3, <2>3, ChangeFires, WorldFields
  <2> QED BY <2>2, <2>4
<1>10. CASE Advances
  <2>1. CASE media.pos < End
    <3> DEFINE m == [media EXCEPT !.pos = media.pos + 1]
               v == [World EXCEPT !.media = m]
    <3>1. Becomes(v)
      <4>1. [World EXCEPT !.media.pos = @ + 1] = v
        BY WorldFields DEF World
      <4> QED BY <1>10, <2>1, <4>1 DEF Advances
    <3>2. m \in Medias /\ m.seeking = media.seeking /\ m.paused = media.paused
          /\ (moving(m) => moving(media))
      BY <1>2, <2>1 DEF Medias, moving
    <3> HIDE DEF m
    <3>3. Good(v) /\ v.seek = World.seek
      BY <1>1, <3>2, ChangeQuiet, WorldFields
    <3> QED BY <3>1, <3>3
  <2>2. CASE ~(media.pos < End)
    <3> DEFINE m == [media EXCEPT !.paused = TRUE]
               y == [World EXCEPT !.media = m]
    <3>1. Becomes(fires(playsSettle(y), <<"pause", "ended">>))
      <4>1. [World EXCEPT !.media.paused = TRUE] = y
        BY WorldFields DEF World
      <4> QED BY <1>10, <2>2, <4>1 DEF Advances
    <3>2. m \in Medias /\ m.seeking = media.seeking /\ m.paused /\ ~media.seeking
      BY <1>2, <1>10 DEF Medias, Advances
    <3>3. y \in Worlds
      BY <1>1, <3>2, PartReplaced
    <3>4. PICK z \in [Plays -> PlayRecs] : playsSettle(y) = [y EXCEPT !.play = z]
      BY <3>3, PlaysSettleGood
    <3> DEFINE p == [World EXCEPT !.play = z]
               x == [p EXCEPT !.media = m]
               u == fires(x, <<"pause", "ended">>)
    <3>5. playsSettle(y) = x
      BY <3>4 DEF World
    <3>6. Good(p) /\ p.seek = World.seek /\ p.media = media
      BY <1>1, GoodParts, WorldFields DEF World
    <3> HIDE DEF m, p
    <3>7. Good(u) /\ u.seek = World.seek
      BY <1>3, <3>2, <3>6, ChangeFiresTwo DEF moving
    <3>8. Becomes(u)
      BY <3>1, <3>5
    <3> HIDE DEF u
    <3> QED BY <3>7, <3>8
  <2> QED BY <2>1, <2>2
<1> QED BY <1>5, <1>6, <1>7, <1>8, <1>9, <1>10 DEF Element

(* The application calls.                                                      *)
LEMMA CallsKeep ==
    ASSUME PlaybackInv, Calls
    PROVE  Kept
<1>1. Good(World) /\ EnvOK /\ SeeksFit(World.seek, current) /\ webkit \in BOOLEAN
      /\ current \in 0..MaxSeeks /\ World \in Worlds
  BY InvIs, WorldFields DEF EnvOK, Good
<1>2. Older(World.seek, current) /\ MaxSeeks \in Nat /\ MaxCalls \in Nat
  BY <1>1, FitIsOlder, PlaybackAssumption
<1>3. ASSUME Call, UNCHANGED <<webkit, current, faults>> PROVE EnvOK' /\ current' = current
  BY <1>1, <1>2, <1>3 DEF EnvOK, Call
<1>4. CASE Play
  <2>1. EnvOK' /\ current' = current
    BY <1>3, <1>4 DEF Play
  <2> DEFINE d == startDetector(World)
  <2>2. Good(d) /\ d.seek = World.seek
    BY <1>1, DetectorGood
  <2>3. CASE Becomes(d)
    BY <1>1, <2>1, <2>2, <2>3, BecomesKept
  <2>4. ASSUME NEW p \in Plays,
               Becomes([d EXCEPT
                    !.pendingPlay = p, !.playAbort = p,
                    !.play[p] = [inner |-> IF media.ready = "nothing" THEN "meta" ELSE "go",
                                 outer |-> "pending", aborted |-> FALSE]])
        PROVE  Kept
    <3> DEFINE q == [inner |-> IF media.ready = "nothing" THEN "meta" ELSE "go",
                     outer |-> "pending", aborted |-> FALSE]
               x == [d EXCEPT !.pendingPlay = p, !.playAbort = p]
               v == [x EXCEPT !.play[p] = q]
    <3>1. Becomes(v)
      <4> HIDE DEF d, q
      <4>1. [d EXCEPT !.pendingPlay = p, !.playAbort = p, !.play[p] = q] = v
        BY <2>2 DEF Good, Worlds
      <4> QED BY <2>4, <4>1 DEF q
    <3>2. q \in PlayRecs
      BY DEF PlayRecs
    <3> HIDE DEF d, q
    <3>3. Good(x) /\ x.seek = d.seek
      BY <2>2, PendingGood
    <3> HIDE DEF x
    <3>4. Good(v) /\ v.seek = x.seek
      BY <3>2, <3>3, PlayGood
    <3> QED BY <1>1, <2>1, <2>2, <3>1, <3>3, <3>4, BecomesKept
  <2>5. \/ Becomes(d)
        \/ \E p \in Plays :
              Becomes([d EXCEPT
                    !.pendingPlay = p, !.playAbort = p,
                    !.play[p] = [inner |-> IF media.ready = "nothing" THEN "meta" ELSE "go",
                                 outer |-> "pending", aborted |-> FALSE]])
    BY <1>4 DEF Play
  <2> QED BY <2>3, <2>4, <2>5
<1>5. CASE Pause
  <2>1. EnvOK' /\ current' = current
    BY <1>3, <1>5 DEF Pause
  <2> DEFINE x == [p \in Plays |-> IF p = playAbort THEN [settles(play[p]) EXCEPT !.aborted = TRUE]
                                   ELSE play[p]]
             u == [World EXCEPT !.pendingPlay = 0, !.playAbort = playAbort]
             w == [u EXCEPT !.play = x]
  <2>2. Becomes(mediaPause(w))
    <3>1. [World EXCEPT !.pendingPlay = 0,
                    !.play = [p \in Plays |->
                        IF p = playAbort THEN [settles(@[p]) EXCEPT !.aborted = TRUE] ELSE @[p]]]
            = w
      BY WorldFields DEF World
    <3> HIDE DEF w
    <3> QED BY <1>5, <3>1 DEF Pause
  <2>3. x \in [Plays -> PlayRecs] /\ playAbort \in {0} \cup Plays
    <3>1. play \in [Plays -> PlayRecs] /\ playAbort \in {0} \cup Plays
      BY <1>1, WorldFields DEF Worlds
    <3> QED BY <3>1, SettlesType
  <2> HIDE DEF x
  <2>4. Good(u) /\ u.seek = World.seek
    BY <1>1, <2>3, PendingGood
  <2> HIDE DEF u
  <2>5. Good(w) /\ w.seek = u.seek
    BY <2>3, <2>4, GoodParts DEF Good, Worlds
  <2> HIDE DEF w
  <2>6. Good(mediaPause(w)) /\ mediaPause(w).seek = w.seek
    BY <2>5, MediaPauseGood
  <2> QED BY <1>1, <2>1, <2>2, <2>4, <2>5, <2>6, BecomesKept
<1>6. CASE LoadMedia
  <2>1. EnvOK' /\ current' = current
    BY <1>3, <1>6 DEF LoadMedia
  <2>2. PICK x \in [Plays -> PlayRecs] : playsSettle(World) = [World EXCEPT !.play = x]
    BY <1>1, PlaysSettleGood
  <2> DEFINE q == <<"emptied">>
             v == [World EXCEPT !.play = x, !.media = emptyMedia, !.queue = q]
  <2>3. Becomes(v)
    <3>1. [playsSettle(World) EXCEPT !.media = emptyMedia, !.queue = q] = v
      BY <2>2 DEF World
    <3> QED BY <1>6, <3>1 DEF LoadMedia
  <2>4. emptyMedia \in Medias /\ q \in Seq(Events)
    BY PlaybackAssumption DEF emptyMedia, Medias, Events
  <2>5. v \in Worlds /\ v.media = emptyMedia /\ v.queue = q /\ v.ctl = ctl /\ v.monitor = monitor
        /\ v.seek = World.seek
    BY <1>1, <2>4, WorldFields DEF Worlds
  <2>6. ~emptyMedia.seeking /\ emptyMedia.paused
    BY DEF emptyMedia
  <2>7. \A now, bad : Leads(q, {"seeked", "emptied"}, bad, now)
                      /\ Leads(q, {"pause", "seeking", "emptied"}, bad, now)
    BY DEF Leads
  <2>8. Exclusive(World)
    BY <1>1 DEF Good, Follows
  <2> HIDE DEF q, v
  <2>9. Follows(v)
    BY <2>5, <2>6, <2>7, <2>8, WorldFields
       DEF Follows, SeekingFollows, PausedIsSilent, MovingPlays, Exclusive
  <2> QED BY <1>1, <2>1, <2>3, <2>5, <2>9, BecomesKept DEF Good
<1>7. ASSUME NEW t \in Targets, SeekTo(t) PROVE Kept
  <2> DEFINE c == current + 1
             old == IF current = 0 THEN World ELSE supersedes(World, current)
             x == stopDetector(old)
             w == [x EXCEPT !.seek[c].target = t]
  <2>1. /\ current < MaxSeeks /\ current' = c /\ Call /\ UNCHANGED <<webkit, faults>>
        /\ IF media.ready = "nothing" THEN Becomes([w EXCEPT !.seek[c].phase = "meta"])
           ELSE \E data \in BOOLEAN : Becomes(doSeek(w, c, TRUE, data))
    BY <1>7 DEF SeekTo
  <2>2. c \in Seeks /\ c \in 0..MaxSeeks /\ t \in 0..End
    BY <1>1, <1>2, <2>1, PlaybackAssumption DEF Seeks
  <2>3. EnvOK' /\ current' = c
    BY <1>1, <1>2, <2>1, <2>2 DEF EnvOK, Call
  <2>4. Good(old) /\ Older(old.seek, c)
    <3>1. CASE current = 0
      BY <1>1, <1>2, <3>1 DEF Older, Seeks
    <3>2. CASE current # 0
      <4>1. current \in Seeks
        BY <1>1, <3>2 DEF Seeks
      <4> QED BY <1>1, <2>1, <3>2, <4>1, SupersedesOlder
    <3> QED BY <3>1, <3>2
  <2> HIDE DEF old
  <2>5. Good(x) /\ x.seek = old.seek /\ x \in Worlds
    BY <2>4, DetectorGood DEF Good
  <2> HIDE DEF x
  <2> DEFINE r == [x.seek[c] EXCEPT !.target = t]
  <2>6. r \in SeekRecs
    <3>1. x.seek[c] \in SeekRecs
      BY <2>2, <2>5 DEF Worlds
    <3> QED BY <2>2, <3>1 DEF SeekRecs
  <2>7. w = [x EXCEPT !.seek[c] = r]
    BY <2>2, <2>5 DEF Worlds
  <2> HIDE DEF w, r
  <2>8. c <= c /\ Older(x.seek, c)
    BY <2>2, <2>4, <2>5
  <2> HIDE DEF c
  <2>9. Good(w) /\ Older(w.seek, c)
    BY <2>2, <2>5, <2>6, <2>7, <2>8, SeekPut DEF Put
  <2>10. ASSUME NEW v, Becomes(v), Put(v, w, c, c), v.seek[c].phase # "none" PROVE Kept
    <3>1. Good(v) /\ SeeksFit(v.seek, c)
      BY <2>2, <2>10, FitIsOlder DEF Put
    <3> QED BY <2>3, <2>10, <3>1, BecomesKept
  <2>11. CASE media.ready = "nothing"
    <3> DEFINE v == [w EXCEPT !.seek[c].phase = "meta"]
    <3>1. "meta" \in SeekPhases
      BY DEF SeekPhases
    <3>2. Put(v, w, c, c) /\ v.seek[c].phase = "meta"
      BY <2>2, <2>8, <2>9, <3>1, PhasePut
    <3>3. Becomes(v)
      BY <2>1, <2>11
    <3> HIDE DEF v
    <3> QED BY <2>10, <3>2, <3>3
  <2>12. CASE media.ready # "nothing"
    <3>1. PICK data \in BOOLEAN : Becomes(doSeek(w, c, TRUE, data))
      BY <2>1, <2>12
    <3> DEFINE v == doSeek(w, c, TRUE, data)
    <3>2. Put(v, w, c, c) /\ v.seek[c].phase # "none"
      BY <1>1, <2>2, <2>8, <2>9, DoSeekPut
    <3> HIDE DEF v
    <3> QED BY <2>10, <3>1, <3>2 DEF v
  <2> QED BY <2>11, <2>12
<1> QED BY <1>4, <1>5, <1>6, <1>7 DEF Calls

------------------------------------------------------------------------------
\* What holds always

(* The invariant holds of a new controller and of one that plays.              *)
LEMMA PlaybackInvInit ==
    ASSUME Init
    PROVE  PlaybackInv
<1>1. /\ 0 \in 0..End /\ 0 \in 0..RetryLimit /\ 0 \in 0..MaxAttempts /\ 0 \in 0..MaxSeeks
      /\ 0 \in 0..MaxCalls /\ 0 \in 0..MaxFaults
  BY PlaybackAssumption
<1>2. /\ media \in Medias /\ ~media.seeking /\ media.paused \in BOOLEAN
  <2>1. emptyMedia \in Medias /\ ~emptyMedia.seeking
    BY <1>1 DEF emptyMedia, Medias
  <2>2. playingMedia \in Medias /\ ~playingMedia.seeking
    BY <1>1 DEF playingMedia, Medias
  <2>3. media \in Medias /\ ~media.seeking
    BY <2>1, <2>2 DEF Init
  <2> QED BY <2>3 DEF Medias
<1>3. /\ queue \in Seq(Events) /\ ctl \in Ctls /\ monitor \in Monitors /\ detector \in Detectors
      /\ play \in [Plays -> PlayRecs]
  BY <1>1, <1>2 DEF Init, Ctls, Monitors, Detectors, noDetector, PlayRecs, noPlay
<1>4. seek \in [Seeks -> SeekRecs]
  <2>1. noSeek \in SeekRecs
    BY <1>1 DEF noSeek, SeekRecs, SeekPhases
  <2> QED BY <2>1 DEF Init
<1>5. World \in Worlds /\ EnvOK
  BY <1>1, <1>2, <1>3, <1>4, WorldFields DEF Init, Worlds, World, EnvOK
<1>6. Follows(World)
  <2>1. /\ queue = <<>> /\ ~media.seeking /\ ~ctl.seeking /\ ~(ctl.playing /\ ctl.waiting)
        /\ media.paused => ~ctl.playing /\ ~ctl.waiting /\ ~monitor.polling /\ ~monitor.inStall
        /\ ~media.paused => ctl.playing
    <3>1. queue = <<>> /\ ctl = [playing |-> ~media.paused, waiting |-> FALSE, seeking |-> FALSE]
          /\ monitor = [polling |-> ~media.paused, lastPos |-> 0, inStall |-> FALSE]
      BY DEF Init
    <3> QED BY <1>2, <3>1
  <2>2. \A good, bad : Leads(<<>>, good, bad, TRUE)
    BY DEF Leads
  <2>3. SeekingFollows(World)
    BY <2>1, <2>2, WorldFields DEF SeekingFollows
  <2>4. PausedIsSilent(World)
    BY <2>1, <2>2, WorldFields DEF PausedIsSilent, Silent
  <2>5. MovingPlays(World)
    BY <1>3, <2>1, <2>2, WorldFields, ZenonT(60) DEF MovingPlays, Ctls
  <2> QED BY <2>1, <2>3, <2>4, <2>5, WorldFields DEF Follows, Exclusive
<1>7. SeeksFit(seek, current)
  BY PlaybackAssumption DEF Init, SeeksFit, noSeek, Seeks
<1> QED BY <1>5, <1>6, <1>7, InvIs DEF Good

(* Every step keeps the invariant.                                             *)
LEMMA PlaybackInvNext ==
    ASSUME PlaybackInv, [Next]_vars
    PROVE  PlaybackInv'
<1>1. CASE Next
  BY <1>1, InvIs, MicrotaskKeeps, DeliverKeeps, TimersKeep, ElementKeeps, CallsKeep DEF Next
<1>2. CASE UNCHANGED vars
  BY <1>2 DEF vars, PlaybackInv, TypeOK, SeeksInv, Follows, SeekingFollows, PausedIsSilent,
              MovingPlays, Exclusive, Silent, Leads, World
<1> QED BY <1>1, <1>2

(* The invariant says what the controller agrees on when nothing is queued.    *)
LEMMA PlaybackInvMeans ==
    PlaybackInv => ControllerAgrees /\ SupersededSeeksEnd
<1> SUFFICES ASSUME PlaybackInv PROVE ControllerAgrees /\ SupersededSeeksEnd
  OBVIOUS
<1>1. TypeOK /\ Follows(World) /\ SeeksInv
  BY DEF PlaybackInv
<1>2. ctl \in Ctls /\ media \in Medias /\ monitor \in Monitors
  BY <1>1, WorldIs, WorldFields DEF Worlds
<1>3. ASSUME queue = <<>>
      PROVE  /\ ctl.seeking = media.seeking
             /\ media.paused => Silent(World)
             /\ moving(media) => ctl.playing
  <2>1. ctl.seeking \in BOOLEAN /\ (~ctl.seeking) \in BOOLEAN /\ ctl.playing \in BOOLEAN
        /\ media.seeking \in BOOLEAN
    BY <1>2 DEF Ctls, Medias
  <2>2. \A good, bad : \A now \in BOOLEAN : Leads(<<>>, good, bad, now) => now
    BY LeadsEmpty
  <2>3. ctl.seeking = media.seeking
    <3>1. CASE media.seeking
      BY <1>1, <1>3, <2>1, <2>2, <3>1, WorldFields DEF Follows, SeekingFollows
    <3>2. CASE ~media.seeking
      BY <1>1, <1>3, <2>1, <2>2, <3>2, WorldFields DEF Follows, SeekingFollows
    <3> QED BY <2>1, <3>1, <3>2
  <2>4. media.paused => Silent(World)
    <3>1. Silent(World) \in BOOLEAN
      BY DEF Silent
    <3> QED BY <1>1, <1>3, <2>2, <3>1, WorldFields DEF Follows, PausedIsSilent
  <2>5. moving(media) => ctl.playing
    BY <1>1, <1>3, <2>1, <2>2, WorldFields DEF Follows, MovingPlays, moving
  <2> QED BY <2>3, <2>4, <2>5
<1>4. ~(ctl.playing /\ ctl.waiting)
  BY <1>1, WorldFields DEF Follows, Exclusive
<1>5. RestAgrees
  BY <1>3, <1>4, WorldFields DEF RestAgrees, Rest, Silent
<1>6. AdvancingIsPlaying
  BY <1>3 DEF AdvancingIsPlaying, Rest, moving
<1>7. SupersededSeeksEnd
  BY <1>1 DEF SeeksInv, SupersededSeeksEnd, MicrotaskPending
<1> QED BY <1>1, <1>5, <1>6, <1>7 DEF ControllerAgrees

(* The controller follows its element at all times: the last of the queued     *)
(* events of a kind, or what it says already, agrees with the element.         *)
THEOREM PlaybackInvAlways == Spec => []PlaybackInv
<1>1. Init => PlaybackInv
  BY PlaybackInvInit
<1>2. PlaybackInv /\ [Next]_vars => PlaybackInv'
  BY PlaybackInvNext
<1> QED BY <1>1, <1>2, PTL DEF Spec

(* At rest the controller tells the truth about the element, for any number    *)
(* of plays, seeks, calls and faults and any queue of events.                  *)
THEOREM ControllerAlwaysAgrees == Spec => []ControllerAgrees
<1>1. PlaybackInv => ControllerAgrees
  BY PlaybackInvMeans
<1> QED BY <1>1, PlaybackInvAlways, PTL

(* A newer seek leaves no older one waiting, whatever the number of seeks      *)
(* and wherever the newer call comes.                                          *)
THEOREM SupersededSeeksAlwaysEnd == Spec => []SupersededSeeksEnd
<1>1. PlaybackInv => SupersededSeeksEnd
  BY PlaybackInvMeans
<1> QED BY <1>1, PlaybackInvAlways, PTL

------------------------------------------------------------------------------
\* PlayerRecovery

(* The timer counts a retry whenever it resets, and gives up only once the     *)
(* counter has passed maxRetries.                                              *)
RetriesCounted ==
    /\ timedResets <= currentRetry
    /\ Exhausted => currentRetry > MaxRetries

(* The inductive invariant: the copies of the error state agree.               *)
RecoveryInv ==
    /\ RecoveryTypeOK
    /\ RetriesCounted
    /\ RetryBound
    /\ NoSilentFailure
    /\ NetworkErrorIsWatched

------------------------------------------------------------------------------
(* VinylPlayer.reset leaves no object of the player in an error state.         *)
LEMMA ResetClearsAll ==
    ASSUME RecoveryTypeOK, NoSilentFailure, playerReset
    PROVE  /\ failed' \in [Sources -> Errors \cup {"none"}]
           /\ \A s \in Sources : failed'[s] = "none"
           /\ playerError' = "none"
BY DEF RecoveryTypeOK, NoSilentFailure, playerReset, resetSources, Sources

(* autoReset either does nothing or clears the watch and every error.          *)
LEMMA AutoResetClearsAll ==
    ASSUME RecoveryTypeOK, NoSilentFailure, autoReset
    PROVE  \/ /\ ~watched
              /\ UNCHANGED <<watched, watch, playerError, failed>>
           \/ /\ watched
              /\ watched' = FALSE /\ watch' = "none" /\ playerError' = "none"
              /\ failed' \in [Sources -> Errors \cup {"none"}]
              /\ \A s \in Sources : failed'[s] = "none"
<1>1. CASE ~watched
  BY <1>1 DEF autoReset
<1>2. CASE watched
  <2>1. clear /\ playerReset
    BY <1>2 DEF autoReset
  <2>2. QED
    BY <1>2, <2>1, ResetClearsAll DEF clear
<1>3. QED
  BY <1>1, <1>2

(* setError starts the watch for a network error unless one is watched.        *)
LEMMA SetErrorWatches ==
    ASSUME RecoveryTypeOK, NEW e \in Errors, setError(e)
    PROVE  /\ watched' \in BOOLEAN
           /\ watch' \in Watches
           /\ resetPending' => watched'
           /\ watched => watched' /\ watch' = watch
           /\ ~watched /\ e = "network" => watched' /\ resetPending'
           /\ ~watched /\ e # "network" => ~watched' /\ watch' = watch
<1>1. CASE watched \/ e # "network"
  BY <1>1 DEF setError, RecoveryTypeOK, resetPending
<1>2. CASE ~watched /\ e = "network"
  <2>1. watched' = TRUE /\ watch' = "timer"
    BY <1>2 DEF setError
  <2>2. QED
    BY <1>2, <2>1 DEF Watches, resetPending
<1>3. QED
  BY <1>1, <1>2

------------------------------------------------------------------------------
(* The invariant holds of a new player, before anything has failed.            *)
THEOREM RecoveryInitially == RecoveryInit => RecoveryInv
<1> SUFFICES ASSUME RecoveryInit PROVE RecoveryInv
  OBVIOUS
<1>1. RecoveryTypeOK
  <2>1. failed \in [Sources -> Errors \cup {"none"}]
    BY DEF RecoveryInit
  <2>2. currentRetry \in Nat /\ timedResets \in Nat /\ errors \in 0..MaxErrors
    BY PlayerRecoveryAssumption DEF RecoveryInit
  <2>3. online \in BOOLEAN /\ watched \in BOOLEAN
    BY DEF RecoveryInit
  <2>4. watch \in Watches /\ ~resetPending
    BY DEF RecoveryInit, Watches, resetPending
  <2>5. QED
    BY <2>1, <2>2, <2>3, <2>4 DEF RecoveryInit, RecoveryTypeOK
<1>2. RetriesCounted /\ RetryBound /\ NetworkErrorIsWatched
  BY PlayerRecoveryAssumption
     DEF RecoveryInit, RetriesCounted, RetryBound, NetworkErrorIsWatched, Exhausted
<1>3. NoSilentFailure
  BY DEF RecoveryInit, NoSilentFailure, Sources
<1>4. QED
  BY <1>1, <1>2, <1>3 DEF RecoveryInv

(* An error report keeps the copies in agreement: the player learns of every   *)
(* error that a controller, or the track on behalf of a stream, passes on.     *)
LEMMA ReportPreserves ==
    ASSUME RecoveryInv, NEW s \in Controllers, NEW e \in Errors, report(s, e)
    PROVE  RecoveryInv'
<1> USE PlayerRecoveryAssumption DEF RecoveryInv
<1>1. /\ failed' = [failed EXCEPT ![s] = e]
      /\ playerError' = e
      /\ setError(e)
      /\ errors < MaxErrors /\ errors' = errors + 1
      /\ UNCHANGED <<online, currentRetry, timedResets>>
  BY DEF report
<1>2. s \in Sources /\ s \notin Streams
  BY DEF Sources
<1>3. RecoveryTypeOK'
  BY <1>1, <1>2, SetErrorWatches DEF RecoveryTypeOK, Errors, Sources
<1>4. RetriesCounted'
  BY <1>1, SetErrorWatches DEF RetriesCounted, Exhausted, resetPending, RecoveryTypeOK
<1>5. RetryBound'
  BY <1>1 DEF RetryBound
<1>6. NoSilentFailure'
  BY <1>1, <1>2 DEF NoSilentFailure, RecoveryTypeOK, Errors, Sources, Controllers
<1>7. NetworkErrorIsWatched'
  BY <1>1, SetErrorWatches
     DEF NetworkErrorIsWatched, RetriesCounted, Exhausted, resetPending, RecoveryTypeOK
<1>8. QED
  BY <1>3, <1>4, <1>5, <1>6, <1>7

(* The failure of a stream, retriable or not, keeps the invariant.             *)
LEMMA StreamFailsPreserves ==
    ASSUME RecoveryInv, NEW s \in Streams, NEW e \in Errors, streamFails(s, e)
    PROVE  RecoveryInv'
<1> USE PlayerRecoveryAssumption DEF RecoveryInv
<1>1. /\ errors < MaxErrors /\ errors' = errors + 1
      /\ UNCHANGED <<online, currentRetry, timedResets>>
      /\ s \in Sources /\ "track" \in Sources /\ s # "track"
  BY DEF streamFails, Sources, Controllers
<1>2. CASE failed["track"] = "none"
  <2>1. /\ failed' = [failed EXCEPT ![s] = e, !["track"] = e]
        /\ playerError' = e
        /\ setError(e)
    BY <1>2 DEF streamFails
  <2>2. RecoveryTypeOK'
    BY <1>1, <2>1, SetErrorWatches DEF RecoveryTypeOK, Errors
  <2>3. RetriesCounted'
    BY <1>1, <2>1, SetErrorWatches
       DEF RetriesCounted, Exhausted, resetPending, RecoveryTypeOK
  <2>4. RetryBound'
    BY <1>1 DEF RetryBound
  <2>5. NoSilentFailure'
    BY <1>1, <2>1 DEF NoSilentFailure, RecoveryTypeOK, Errors, Sources
  <2>6. NetworkErrorIsWatched'
    BY <1>1, <2>1, SetErrorWatches
       DEF NetworkErrorIsWatched, RetriesCounted, Exhausted, resetPending, RecoveryTypeOK
  <2>7. QED
    BY <2>2, <2>3, <2>4, <2>5, <2>6
<1>3. CASE failed["track"] # "none"
  <2>1. /\ failed' = [failed EXCEPT ![s] = e]
        /\ UNCHANGED <<playerError, watched, watch>>
    BY <1>3 DEF streamFails
  <2>2. RecoveryTypeOK'
    BY <1>1, <2>1 DEF RecoveryTypeOK, Errors, resetPending
  <2>3. RetriesCounted' /\ RetryBound' /\ NetworkErrorIsWatched'
    BY <1>1, <2>1
       DEF RetriesCounted, RetryBound, NetworkErrorIsWatched, Exhausted, resetPending
  <2>4. NoSilentFailure'
    BY <1>1, <1>3, <2>1 DEF NoSilentFailure, RecoveryTypeOK, Sources
  <2>5. QED
    BY <2>2, <2>3, <2>4
<1>4. QED
  BY <1>2, <1>3

(* The timeout: give up, reset, or wait for the network.                       *)
LEMMA TimerPreserves ==
    ASSUME RecoveryInv, timerFires
    PROVE  RecoveryInv'
<1> USE PlayerRecoveryAssumption DEF RecoveryInv
<1>1. /\ watch = "timer" /\ watched /\ resetPending
      /\ currentRetry' = currentRetry + 1
      /\ UNCHANGED <<online, errors>>
      /\ currentRetry \in Nat /\ timedResets \in Nat
  BY DEF timerFires, RecoveryTypeOK, resetPending
<1>6. MaxRetries \in Nat
  OBVIOUS
<1>2. CASE currentRetry >= MaxRetries
  <2>1. /\ watch' = "none"
        /\ UNCHANGED <<watched, playerError, failed, timedResets>>
    BY <1>2 DEF timerFires
  <2>2. RecoveryTypeOK'
    BY <1>1, <2>1 DEF RecoveryTypeOK, resetPending, Watches
  <2>3. RetriesCounted' /\ NetworkErrorIsWatched'
    BY <1>1, <1>2, <2>1
       DEF RetriesCounted, NetworkErrorIsWatched, Exhausted, resetPending
  <2>4. RetryBound' /\ NoSilentFailure'
    BY <2>1 DEF RetryBound, NoSilentFailure
  <2>5. QED
    BY <2>2, <2>3, <2>4
<1>3. CASE ~(currentRetry >= MaxRetries) /\ online
  <2>1. autoReset /\ timedResets' = timedResets + 1
    BY <1>1, <1>3 DEF timerFires
  <2>2. /\ watched' = FALSE /\ watch' = "none" /\ playerError' = "none"
        /\ failed' \in [Sources -> Errors \cup {"none"}]
        /\ \A s \in Sources : failed'[s] = "none"
    BY <1>1, <2>1, AutoResetClearsAll
  <2>3. RecoveryTypeOK'
    <3>1. currentRetry' \in Nat /\ timedResets' \in Nat
      BY <1>1, <2>1
    <3>2. watch' \in Watches /\ ~resetPending'
      BY <2>2 DEF Watches, resetPending
    <3>3. QED
      BY <1>1, <2>2, <3>1, <3>2 DEF RecoveryTypeOK
  <2>4. RetriesCounted' /\ RetryBound'
    BY <1>1, <1>3, <1>6, <2>1, <2>2 DEF RetriesCounted, RetryBound, Exhausted
  <2>5. NoSilentFailure' /\ NetworkErrorIsWatched'
    BY <2>2 DEF NoSilentFailure, NetworkErrorIsWatched, Sources
  <2>6. QED
    BY <2>3, <2>4, <2>5
<1>4. CASE ~(currentRetry >= MaxRetries) /\ ~online
  <2>1. /\ watch' = "fired"
        /\ UNCHANGED <<watched, playerError, failed, timedResets>>
    BY <1>1, <1>4 DEF timerFires
  <2>2. RecoveryTypeOK'
    BY <1>1, <2>1 DEF RecoveryInv, RecoveryTypeOK, resetPending, Watches
  <2>3. RetriesCounted' /\ NetworkErrorIsWatched'
    BY <1>1, <2>1
       DEF RetriesCounted, NetworkErrorIsWatched, Exhausted, resetPending
  <2>4. RetryBound' /\ NoSilentFailure'
    BY <2>1 DEF RetryBound, NoSilentFailure
  <2>5. QED
    BY <2>2, <2>3, <2>4
<1>5. QED
  BY <1>1, <1>2, <1>3, <1>4

(* The resets that do not count as retries: the network, a playback event.     *)
LEMMA AutoResetPreserves ==
    ASSUME RecoveryInv,
           \/ autoReset /\ UNCHANGED <<currentRetry, timedResets>>
           \/ autoReset /\ currentRetry' = 0 /\ timedResets' = 0,
           online' \in BOOLEAN, UNCHANGED errors
    PROVE  RecoveryInv'
<1> USE PlayerRecoveryAssumption DEF RecoveryInv
<1>1. /\ currentRetry' \in Nat /\ timedResets' \in Nat
      /\ timedResets' <= currentRetry' /\ timedResets' <= MaxRetries
  BY DEF RecoveryTypeOK, RetriesCounted, RetryBound
<1>2. CASE ~watched
  <2>1. UNCHANGED <<watched, watch, playerError, failed>>
    BY <1>2 DEF autoReset
  <2>2. RecoveryTypeOK'
    BY <1>1, <2>1 DEF RecoveryTypeOK, resetPending
  <2>3. QED
    BY <1>1, <1>2, <2>1, <2>2
       DEF RetriesCounted, RetryBound, NoSilentFailure, NetworkErrorIsWatched,
           Exhausted, resetPending
<1>3. CASE watched
  <2>1. /\ watched' = FALSE /\ watch' = "none" /\ playerError' = "none"
        /\ failed' \in [Sources -> Errors \cup {"none"}]
        /\ \A s \in Sources : failed'[s] = "none"
    BY <1>3, AutoResetClearsAll
  <2>2. RecoveryTypeOK'
    BY <1>1, <2>1 DEF RecoveryTypeOK, resetPending, Watches
  <2>3. QED
    BY <1>1, <2>1, <2>2
       DEF RetriesCounted, RetryBound, NoSilentFailure, NetworkErrorIsWatched,
           Exhausted, Sources
<1>4. QED
  BY <1>2, <1>3

(* player.reset() by the application.                                          *)
LEMMA AppResetPreserves ==
    ASSUME RecoveryInv, appReset
    PROVE  RecoveryInv'
<1> USE DEF RecoveryInv
<1>1. /\ watched' = FALSE /\ watch' = "none"
      /\ UNCHANGED <<online, currentRetry, timedResets, errors>>
  BY DEF appReset, clear
<1>2. /\ failed' \in [Sources -> Errors \cup {"none"}]
      /\ \A s \in Sources : failed'[s] = "none"
      /\ playerError' = "none"
  BY ResetClearsAll DEF appReset
<1>3. RecoveryTypeOK'
  BY <1>1, <1>2 DEF RecoveryTypeOK, resetPending, Watches
<1>4. QED
  BY <1>1, <1>2, <1>3
     DEF RetriesCounted, RetryBound, NoSilentFailure, NetworkErrorIsWatched,
         Exhausted, Sources

(* A restart of the track or of the DRM sessions only takes errors away, and   *)
(* those of the streams with that of their track.                              *)
LEMMA RestartPreserves ==
    ASSUME RecoveryInv, trackRestarts \/ drmRestarts
    PROVE  RecoveryInv'
<1> USE PlayerRecoveryAssumption DEF RecoveryInv
<1>1. UNCHANGED <<online, watched, watch, currentRetry, playerError,
                  timedResets, errors>>
  BY DEF trackRestarts, drmRestarts
<1>2. failed' \in [Sources -> Errors \cup {"none"}]
  BY DEF trackRestarts, drmRestarts, RecoveryTypeOK
<1>3. NoSilentFailure'
  BY <1>1 DEF trackRestarts, drmRestarts, NoSilentFailure, RecoveryTypeOK, Sources, Controllers
<1>4. RecoveryTypeOK'
  BY <1>1, <1>2 DEF RecoveryTypeOK, resetPending
<1>5. QED
  BY <1>1, <1>3, <1>4
     DEF RetriesCounted, RetryBound, NetworkErrorIsWatched, Exhausted, resetPending

(* The network state by itself changes nothing that the invariant mentions.    *)
LEMMA UnchangedPreserves ==
    ASSUME RecoveryInv, online' \in BOOLEAN,
           UNCHANGED <<watched, watch, currentRetry, playerError, failed,
                       timedResets, errors>>
    PROVE  RecoveryInv'
<1>1. RecoveryTypeOK'
  BY DEF RecoveryInv, RecoveryTypeOK, resetPending
<1>2. RetriesCounted' /\ RetryBound' /\ NetworkErrorIsWatched'
  BY DEF RecoveryInv, RetriesCounted, RetryBound, NetworkErrorIsWatched,
         Exhausted, resetPending
<1>3. NoSilentFailure'
  BY DEF RecoveryInv, NoSilentFailure
<1>4. QED
  BY <1>1, <1>2, <1>3 DEF RecoveryInv

(* RecoveryInv is inductive: one step per action of the recovery.              *)
THEOREM RecoveryStep == RecoveryInv /\ [RecoveryNext]_recoveryVars => RecoveryInv'
<1> SUFFICES ASSUME RecoveryInv, [RecoveryNext]_recoveryVars
             PROVE  RecoveryInv'
  OBVIOUS
<1>1. CASE \E s \in Controllers, e \in Errors : report(s, e)
  BY <1>1, ReportPreserves
<1>2. CASE \E s \in Streams, e \in Errors : streamFails(s, e)
  BY <1>2, StreamFailsPreserves
<1>3. CASE timerFires
  BY <1>3, TimerPreserves
<1>4. CASE goOnline
  <2>1. CASE resetPending
    BY <1>4, <2>1, AutoResetPreserves DEF goOnline
  <2>2. CASE ~resetPending
    BY <1>4, <2>2, UnchangedPreserves DEF goOnline
  <2>3. QED
    BY <2>1, <2>2
<1>5. CASE goOffline \/ UNCHANGED recoveryVars
  <2>1. /\ online' \in BOOLEAN
        /\ UNCHANGED <<watched, watch, currentRetry, playerError, failed,
                       timedResets, errors>>
    BY <1>5 DEF goOffline, recoveryVars, RecoveryInv, RecoveryTypeOK
  <2>2. QED
    BY <2>1, UnchangedPreserves
<1>6. CASE playbackEvent
  BY <1>6, AutoResetPreserves DEF playbackEvent, RecoveryInv, RecoveryTypeOK
<1>7. CASE appReset
  BY <1>7, AppResetPreserves
<1>8. CASE trackRestarts \/ drmRestarts
  BY <1>8, RestartPreserves
<1>9. QED
  BY <1>1, <1>2, <1>3, <1>4, <1>5, <1>6, <1>7, <1>8 DEF RecoveryNext

(* The inductive invariant holds in every reachable state.                     *)
THEOREM RecoveryInvariant == RecoverySpec => []RecoveryInv
<1>1. RecoveryInv /\ [RecoveryNext]_recoveryVars => RecoveryInv'
  BY RecoveryStep
<1>2. QED
  BY RecoveryInitially, <1>1, PTL DEF RecoverySpec

(* AutoResetControllerImplOptions.maxRetries bounds the timed resets between   *)
(* two playback events, for every interleaving of errors, outages and resets.  *)
THEOREM TimedResetsBounded == RecoverySpec => []RetryBound
<1>1. RecoveryInv => RetryBound
  BY DEF RecoveryInv
<1>2. QED
  BY RecoveryInvariant, <1>1, PTL

(* No controller, track or stream fails without the player knowing, so a reset *)
(* of the player always reaches it.                                            *)
THEOREM NoFailureIsSilent == RecoverySpec => []NoSilentFailure
<1>1. RecoveryInv => NoSilentFailure
  BY DEF RecoveryInv
<1>2. QED
  BY RecoveryInvariant, <1>1, PTL

(* A network error that is not being retried has used up its retries.          *)
THEOREM NetworkErrorsRetried == RecoverySpec => []NetworkErrorIsWatched
<1>1. RecoveryInv => NetworkErrorIsWatched
  BY DEF RecoveryInv
<1>2. QED
  BY RecoveryInvariant, <1>1, PTL

(* The error states of player, controllers, track and streams agree.           *)
THEOREM ErrorsAgreed == RecoverySpec => []ErrorsAgree
<1>1. RecoveryInv => ErrorsAgree
  BY DEF RecoveryInv, ErrorsAgree
<1>2. QED
  BY RecoveryInvariant, <1>1, PTL

------------------------------------------------------------------------------
\* Streaming

(* What a quality is selected from, with n qualities, after a segment with a   *)
(* decoder of D.                                                               *)
Selections(n, D) ==
    [previous : 0..n, decoder : D, fetchedTime : Nat, active : BOOLEAN, ewmaLow : Nat, latest : Nat]

(* The last selection is the one the code makes, of a list of qualities.       *)
SelectionInv ==
    last # NoSelection =>
        /\ last.period \in DOMAIN mpd.periods /\ qualities(last.period) # <<>>
        /\ last.state \in Selections(Len(qualities(last.period)), {last.state.decoder})
        /\ last.quality = selectQuality(qualities(last.period), options, last.state)
        /\ last.at \in Int
        /\ last.segment = getSegmentAtTime(last.at, segmentsOf(last.period, last.quality), Affordance)

StreamingTypeOK ==
    /\ manifest \in DOMAIN Manifests /\ option \in DOMAIN Options
    /\ active \in BOOLEAN /\ playhead \in Int /\ from \in Int /\ position \in Int
    /\ previous # None =>
            /\ previous.period \in DOMAIN mpd.periods
            /\ previous.quality \in DOMAIN qualities(previous.period)

StreamingInv == StreamingTypeOK /\ SelectionInv

--------------------------------------------------------------------------------
\* Numbers

(* Numbers that exist have a least one.                                        *)
LEMMA LeastExists ==
    ASSUME NEW S \in SUBSET Nat, S # {}
    PROVE  \E i \in S : \A j \in S : i <= j
<1>1. PICK x \in S : \A y \in S : ~(<<y, x>> \in OpToRel(<, Nat))
  BY WFMin, NatLessThanWellFounded
<1>2. \A y \in S : ~(y < x)
  BY <1>1 DEF OpToRel
<1>3. ASSUME NEW y \in S PROVE x <= y
  <2>1. x \in Nat /\ y \in Nat /\ ~(y < x)
    BY <1>2
  <2> QED
    BY <2>1
<1> QED
  BY <1>3

(* The least of some numbers.                                                  *)
LEMMA MinIs ==
    ASSUME NEW S \in SUBSET Nat, S # {}
    PROVE  Min(S) \in S /\ \A j \in S : Min(S) <= j
BY LeastExists DEF Min

(* The greatest of some numbers up to n.                                       *)
LEMMA MaxIs ==
    ASSUME NEW n \in Nat, NEW S \in SUBSET (1..n), S # {}
    PROVE  Max(S) \in S /\ \A j \in S : j <= Max(S)
<1> DEFINE T == {n - j : j \in S}
<1>0. \A j \in S : j \in Nat /\ j <= n
  OBVIOUS
<1>1. T \in SUBSET Nat /\ T # {}
  <2>1. ASSUME NEW t \in T PROVE t \in Nat
    <3>1. PICK j \in S : t = n - j
      OBVIOUS
    <3>2. j \in Nat /\ j <= n
      BY <1>0
    <3> QED
      BY <3>1, <3>2
  <2>2. PICK j \in S : TRUE
    OBVIOUS
  <2>3. n - j \in T
    OBVIOUS
  <2> HIDE DEF T
  <2> QED
    BY <2>1, <2>3
<1>2. PICK m \in T : \A i \in T : m <= i
  BY <1>1, LeastExists
<1>3. PICK x \in S : m = n - x
  BY <1>2
<1>4. \A j \in S : x >= j
  <2>1. ASSUME NEW j \in S PROVE x >= j
    <3>1. m <= n - j
      BY <1>2
    <3> QED
      BY <1>3, <3>1
  <2> QED
    BY <2>1
<1> QED
  BY <1>4 DEF Max

(* Products of naturals.                                                       *)
LEMMA ProductNat == ASSUME NEW a \in Nat, NEW b \in Nat PROVE a * b \in Nat
OBVIOUS

(* What fits a bandwidth is cheaper than what does not.                        *)
LEMMA Cheaper ==
    ASSUME NEW a \in Int, NEW b \in Int, NEW c \in Int, NEW s \in Nat \ {0},
           a * s <= b, ~(c * s <= b)
    PROVE  a < c
<1>1. ASSUME c <= a PROVE FALSE
  <2>1. a - c \in Nat
    BY <1>1
  <2>2. (a - c) * s \in Nat
    BY <2>1, ProductNat
  <2>3. (a - c) * s = a * s - c * s
    OBVIOUS
  <2> QED
    BY <2>2, <2>3
<1> QED
  BY <1>1

(* A measured bandwidth is a natural.                                          *)
LEMMA BandwidthNat ==
    ASSUME NEW o \in OptionType, NEW n \in Nat, NEW D, NEW s \in Selections(n, D)
    PROVE  bandwidth(o, s) \in Nat /\ Scale(o) \in Nat \ {0}
<1> DEFINE filled == IF s.fetchedTime < o.high THEN s.fetchedTime ELSE o.high
           multiplier == IF s.active /\ o.high > 0
                         THEN o.multiplierLow * o.high + (o.multiplierHigh - o.multiplierLow) * filled
                         ELSE o.multiplierHigh * (Scale(o) \div 10)
           estimate == IF s.active /\ s.latest < s.ewmaLow THEN s.latest ELSE s.ewmaLow
<1>1. /\ o.high \in Nat /\ o.multiplierLow \in Nat /\ o.multiplierHigh \in Nat
      /\ o.maxBandwidth \in Nat \cup {-1}
  BY DEF OptionType, Unset
<1>2. s.fetchedTime \in Nat /\ s.ewmaLow \in Nat /\ s.latest \in Nat
  BY DEF Selections
<1>3. Scale(o) \in Nat \ {0} /\ Scale(o) \div 10 \in Nat
  BY <1>1 DEF Scale
<1>4. filled \in Nat /\ o.high - filled \in Nat
  BY <1>1, <1>2
<1>5. estimate \in Nat
  BY <1>2
<1> HIDE DEF filled, estimate
<1>6. o.multiplierLow * o.high + (o.multiplierHigh - o.multiplierLow) * filled \in Nat
  <2>1. o.multiplierLow * (o.high - filled) \in Nat /\ o.multiplierHigh * filled \in Nat
    BY <1>1, <1>4, ProductNat
  <2>2. o.multiplierLow * o.high + (o.multiplierHigh - o.multiplierLow) * filled
            = o.multiplierLow * (o.high - filled) + o.multiplierHigh * filled
    BY <1>1, <1>4
  <2> QED
    BY <2>1, <2>2
<1>7. o.multiplierHigh * (Scale(o) \div 10) \in Nat
  BY <1>1, <1>3, ProductNat
<1>8. multiplier \in Nat
  BY <1>6, <1>7
<1> HIDE DEF multiplier
<1>9. estimate * multiplier \in Nat
  BY <1>5, <1>8, ProductNat
<1>10. o.maxBandwidth # -1 => o.maxBandwidth * Scale(o) \in Nat
  BY <1>1, <1>3, ProductNat
<1>11. bandwidth(o, s) = IF o.maxBandwidth # -1 /\ o.maxBandwidth * Scale(o) < estimate * multiplier
                         THEN o.maxBandwidth * Scale(o)
                         ELSE estimate * multiplier
  BY DEF bandwidth, Absent, filled, multiplier, estimate
<1> QED
  BY <1>3, <1>9, <1>10, <1>11

--------------------------------------------------------------------------------
\* Selection

Within(qs, o) == {i \in DOMAIN qs : withinResolution(o, qs[i])}

Fitting(qs, o, s) == {i \in Within(qs, o) : permitted(qs, o, s, qs[i]) /\ fits(o, s, qs[i])}

Switches(p, q) == p.switching = AnyGroup \/ q.group \in p.switching

(* The indices of a list that is not empty.                                    *)
LEMMA ListDomain ==
    ASSUME NEW qs, AreQualities(qs), qs # <<>>
    PROVE  /\ Len(qs) \in Nat \ {0} /\ DOMAIN qs = 1..Len(qs)
           /\ Range(qs) = {qs[i] : i \in DOMAIN qs}
           /\ \A k \in DOMAIN qs :
                /\ qs[k].bandwidth \in Nat \cup {-1} /\ qs[k].audio \in BOOLEAN
                /\ Switches(qs[k], qs[k])
                /\ \A j \in DOMAIN qs : qs[j].audio = qs[k].audio
<1>1. qs \in Seq(Range(qs))
  BY DEF AreQualities, IsList
<1> QED
  BY <1>1 DEF AreQualities, Unset, Switches, Range

(* best is the first quality that fits, or the last within the resolution.     *)
LEMMA BestIs ==
    ASSUME NEW qs, AreQualities(qs), qs # <<>>, NEW o, NEW s
    PROVE  /\ best(qs, o, s) \in DOMAIN qs
           /\ Fitting(qs, o, s) # {} =>
                /\ best(qs, o, s) \in Fitting(qs, o, s)
                /\ \A j \in Fitting(qs, o, s) : best(qs, o, s) <= j
           /\ Fitting(qs, o, s) = {} =>
                best(qs, o, s) = IF Within(qs, o) # {} THEN Max(Within(qs, o)) ELSE Len(qs)
           /\ Within(qs, o) # {} =>
                /\ Max(Within(qs, o)) \in Within(qs, o)
                /\ \A j \in Within(qs, o) : j <= Max(Within(qs, o))
<1> DEFINE W == Within(qs, o)
           F == Fitting(qs, o, s)
<1>1. Len(qs) \in Nat \ {0} /\ DOMAIN qs = 1..Len(qs)
  BY ListDomain
<1>2. W \in SUBSET (1..Len(qs)) /\ F \in SUBSET W
  BY <1>1 DEF Within, Fitting
<1>3. best(qs, o, s) = CASE F # {} -> Min(F)
                         [] F = {} /\ W # {} -> Max(W)
                         [] OTHER -> Len(qs)
  BY DEF best, Within, Fitting
<1> HIDE DEF W, F
<1>4. F \in SUBSET Nat
  BY <1>1, <1>2
<1>5. F # {} => Min(F) \in F /\ \A j \in F : Min(F) <= j
  BY <1>4, MinIs
<1>6. W # {} => Max(W) \in W /\ \A j \in W : j <= Max(W)
  BY <1>1, <1>2, MaxIs
<1>7. Len(qs) \in DOMAIN qs
  BY <1>1
<1>8. /\ F # {} => best(qs, o, s) = Min(F)
      /\ F = {} => best(qs, o, s) = IF W # {} THEN Max(W) ELSE Len(qs)
  BY <1>3
<1>9. best(qs, o, s) \in DOMAIN qs
  BY <1>1, <1>2, <1>5, <1>6, <1>7, <1>8
<1> QED
  BY <1>5, <1>6, <1>8, <1>9 DEF W, F

(* A quality fits the bandwidth or the bandwidth is short of it, and what fits *)
(* is cheaper than what the bandwidth is short of.                             *)
LEMMA FitsOrShort ==
    ASSUME NEW o \in OptionType, NEW n \in Nat, NEW D, NEW s \in Selections(n, D),
           NEW p, p.bandwidth \in Nat \cup {-1}
    PROVE  /\ short(o, s, p) <=> ~fits(o, s, p)
           /\ \A c : /\ c.bandwidth \in Nat \cup {-1}
                     /\ fits(o, s, c) /\ short(o, s, p)
                     => c.bandwidth < p.bandwidth
<1>1. bandwidth(o, s) \in Nat /\ Scale(o) \in Nat \ {0}
  BY BandwidthNat
<1>2. p.bandwidth = 0 => p.bandwidth * Scale(o) = 0
  BY <1>1
<1>3. short(o, s, p) <=> ~fits(o, s, p)
  BY <1>1, <1>2 DEF short, fits, Absent
<1>4. ASSUME NEW c, c.bandwidth \in Nat \cup {-1}, fits(o, s, c), short(o, s, p)
      PROVE  c.bandwidth < p.bandwidth
  <2>1. CASE c.bandwidth = -1
    BY <1>4, <2>1 DEF short
  <2>2. CASE c.bandwidth # -1
    <3>1. c.bandwidth * Scale(o) <= bandwidth(o, s)
      BY <1>4, <2>2 DEF fits, Absent
    <3>2. ~(p.bandwidth * Scale(o) <= bandwidth(o, s))
      BY <1>4 DEF short, fits
    <3>3. c.bandwidth \in Int /\ p.bandwidth \in Int /\ bandwidth(o, s) \in Int
      BY <1>1, <1>4
    <3> QED
      BY <1>1, <3>1, <3>2, <3>3, Cheaper
  <2> QED
    BY <2>1, <2>2
<1> QED
  BY <1>3, <1>4

(* A selection by bandwidth keeps the preceding quality or takes the best.     *)
LEMMA SelectsKeptOrBest ==
    ASSUME NEW qs, AreQualities(qs), qs # <<>>, NEW o \in OptionType, o.strategy = "best",
           NEW D, NEW s \in Selections(Len(qs), D)
    PROVE  /\ selectQuality(qs, o, s) = IF s.previous # 0 /\ holds(o, s, qs[s.previous])
                                        THEN s.previous ELSE best(qs, o, s)
           /\ s.previous # 0 => s.previous \in DOMAIN qs
           /\ selectQuality(qs, o, s) \in DOMAIN qs
<1>1. Len(qs) \in Nat \ {0} /\ DOMAIN qs = 1..Len(qs)
  BY ListDomain
<1>2. s.previous \in 0..Len(qs)
  BY DEF Selections
<1>3. s.previous # 0 => s.previous \in DOMAIN qs
  BY <1>1, <1>2
<1>4. best(qs, o, s) \in DOMAIN qs
  BY BestIs
<1> QED
  BY <1>3, <1>4 DEF selectQuality

(* A preceding quality within the resolution that fits may be selected again.  *)
LEMMA PreviousFits ==
    ASSUME NEW qs, AreQualities(qs), qs # <<>>, NEW o, NEW s,
           NEW k \in DOMAIN qs, s.previous = k, ~stranded(qs, o, s),
           withinResolution(o, qs[k]), fits(o, s, qs[k])
    PROVE  k \in Fitting(qs, o, s)
BY ListDomain DEF Fitting, Within, permitted, Switches, stranded

(* The clauses of QualityFits that hold whatever the order of the list.        *)
LEMMA SelectionWithin ==
    ASSUME NEW qs, AreQualities(qs), qs # <<>>, NEW o \in OptionType, o.strategy = "best",
           NEW D, NEW s \in Selections(Len(qs), D), NEW k, k = selectQuality(qs, o, s)
    PROVE  /\ Within(qs, o) # {} => withinResolution(o, qs[k])
           /\ (s.previous # 0 /\ ~Switches(qs[s.previous], qs[k])) => Fitting(qs, o, s) = {}
<1> DEFINE p == qs[s.previous]
<1>1. CASE s.previous # 0 /\ holds(o, s, p)
  <2>1. k = s.previous /\ k \in DOMAIN qs
    BY <1>1, SelectsKeptOrBest
  <2> QED
    BY <1>1, <2>1, ListDomain DEF holds
<1>2. CASE ~(s.previous # 0 /\ holds(o, s, p))
  <2>1. k = best(qs, o, s)
    BY <1>2, SelectsKeptOrBest
  <2>2. CASE Fitting(qs, o, s) # {}
    <3>1. k \in Fitting(qs, o, s)
      BY <2>1, <2>2, BestIs
    <3> QED
      BY <3>1 DEF Fitting, Within, permitted, Switches
  <2>3. CASE Fitting(qs, o, s) = {}
    <3>1. Within(qs, o) # {} => k \in Within(qs, o)
      BY <2>1, <2>3, BestIs
    <3> QED
      BY <2>3, <3>1 DEF Within
  <2> QED
    BY <2>2, <2>3
<1> QED
  BY <1>1, <1>2

(* No step up with little data, none down with ample data, no step up of audio *)
(* to another decoder.                                                         *)
LEMMA SelectionSteady ==
    ASSUME NEW qs, AreQualities(qs), qs # <<>>, IsLadder(qs),
           NEW o \in OptionType, o.strategy = "best",
           NEW D, NEW s \in Selections(Len(qs), D), NEW k, k = selectQuality(qs, o, s),
           s.previous # 0, withinResolution(o, qs[s.previous])
    PROVE  LET p == qs[s.previous]
               c == qs[k]
           IN  /\ s.fetchedTime >= o.high /\ ~stranded(qs, o, s) => c.bandwidth >= p.bandwidth
               /\ Switches(p, c) =>
                    /\ s.fetchedTime < o.low => c.bandwidth <= p.bandwidth
                    /\ (o.restrictDecoder /\ p.audio /\ c.bandwidth > p.bandwidth)
                            => c.decoder = s.decoder
<1> DEFINE p == qs[s.previous]
           c == qs[k]
<1>1. k \in DOMAIN qs /\ s.previous \in DOMAIN qs
  BY SelectsKeptOrBest
<1>2. /\ DOMAIN qs = 1..Len(qs) /\ Len(qs) \in Nat \ {0}
      /\ p.bandwidth \in Nat \cup {-1} /\ c.bandwidth \in Nat \cup {-1}
  BY <1>1, ListDomain
<1>3. /\ short(o, s, p) <=> ~fits(o, s, p)
      /\ short(o, s, p) /\ fits(o, s, c) => c.bandwidth < p.bandwidth
  BY <1>2, FitsOrShort
<1>4. Switches(p, c) =>
        /\ s.previous < k => p.bandwidth >= c.bandwidth
        /\ s.previous > k => p.bandwidth <= c.bandwidth
  BY <1>1 DEF IsLadder, Switches
<1>5. CASE k = s.previous
  BY <1>2, <1>5
<1>6. CASE k # s.previous
  <2>1. k = best(qs, o, s) /\ ~holds(o, s, p)
    BY <1>6, SelectsKeptOrBest
  <2>2. ASSUME Fitting(qs, o, s) = {} PROVE Switches(p, c) => c.bandwidth <= p.bandwidth
    <3>1. s.previous \in Within(qs, o)
      BY <1>1 DEF Within
    <3>2. s.previous <= k
      BY <2>1, <2>2, <3>1, BestIs
    <3>3. s.previous < k
      BY <1>1, <1>2, <1>6, <3>2
    <3> QED
      BY <1>2, <1>4, <3>3
  <2>3. CASE short(o, s, p)
    <3>1. ~(s.fetchedTime >= o.high)
      BY <2>1, <2>3 DEF holds
    <3>2. Switches(p, c) => c.bandwidth <= p.bandwidth
      <4>1. CASE Fitting(qs, o, s) # {}
        <5>1. fits(o, s, c)
          BY <2>1, <4>1, BestIs DEF Fitting
        <5> QED
          BY <1>2, <1>3, <2>3, <5>1
      <4> QED
        BY <2>2, <4>1
    <3> QED
      BY <1>2, <3>1, <3>2
  <2>4. CASE ~short(o, s, p) /\ Fitting(qs, o, s) # {}
    <3>1. ~(s.fetchedTime < o.low)
      BY <2>1, <2>4 DEF holds
    <3>2. k \in Fitting(qs, o, s) /\ \A j \in Fitting(qs, o, s) : k <= j
      BY <2>1, <2>4, BestIs
    <3>3. permitted(qs, o, s, c)
      BY <3>2 DEF Fitting
    <3>4. Switches(p, c) /\ (o.restrictDecoder /\ p.audio => c.decoder = s.decoder)
      BY <2>4, <3>3 DEF permitted, Switches
    <3>5. ~stranded(qs, o, s) => c.bandwidth >= p.bandwidth
      <4>1. ASSUME ~stranded(qs, o, s) PROVE c.bandwidth >= p.bandwidth
        <5>1. s.previous \in Fitting(qs, o, s)
          BY <1>1, <1>3, <2>4, <4>1, PreviousFits
        <5>2. k < s.previous
          BY <1>1, <1>2, <1>6, <3>2, <5>1
        <5> QED
          BY <1>2, <1>4, <3>4, <5>2
      <4> QED
        BY <4>1
    <3> QED
      BY <3>1, <3>4, <3>5
  <2>5. CASE ~short(o, s, p) /\ Fitting(qs, o, s) = {}
    <3>1. ~(s.fetchedTime < o.low)
      BY <2>1, <2>5 DEF holds
    <3>2. stranded(qs, o, s)
      BY <1>1, <1>3, <2>5, PreviousFits
    <3> QED
      BY <1>2, <2>2, <2>5, <3>1, <3>2
  <2> QED
    BY <2>3, <2>4, <2>5
<1> QED
  BY <1>5, <1>6

(* Selecting again, in the place of a quality that may follow the preceding    *)
(* one, changes nothing.                                                       *)
LEMMA SelectionStable ==
    ASSUME NEW qs, AreQualities(qs), qs # <<>>, IsLadder(qs),
           NEW o \in OptionType, o.strategy = "best",
           NEW D, NEW s \in Selections(Len(qs), D), NEW k, k = selectQuality(qs, o, s),
           s.previous # 0 => Switches(qs[s.previous], qs[k]), NEW d \in D,
           ~stranded(qs, o, s), ~stranded(qs, o, [s EXCEPT !.previous = k, !.decoder = d])
    PROVE  selectQuality(qs, o, [s EXCEPT !.previous = k, !.decoder = d]) = k
<1> DEFINE p == qs[s.previous]
           c == qs[k]
           t == [s EXCEPT !.previous = k, !.decoder = d]
<1> SUFFICES selectQuality(qs, o, t) = k
  OBVIOUS
<1>1. k \in DOMAIN qs /\ (s.previous # 0 => s.previous \in DOMAIN qs)
  BY SelectsKeptOrBest
<1>2. DOMAIN qs = 1..Len(qs) /\ Len(qs) \in Nat \ {0}
  BY ListDomain
<1>3. /\ t \in Selections(Len(qs), D) /\ t.previous = k /\ t.decoder = d
      /\ t.fetchedTime = s.fetchedTime /\ t.active = s.active
      /\ t.ewmaLow = s.ewmaLow /\ t.latest = s.latest
  <2>1. k \in 0..Len(qs)
    BY <1>1, <1>2
  <2>2. t = [previous |-> k, decoder |-> d, fetchedTime |-> s.fetchedTime, active |-> s.active,
             ewmaLow |-> s.ewmaLow, latest |-> s.latest]
    <3> DEFINE u == [s EXCEPT !.previous = k]
    <3>1. u = [previous |-> k, decoder |-> s.decoder, fetchedTime |-> s.fetchedTime,
               active |-> s.active, ewmaLow |-> s.ewmaLow, latest |-> s.latest]
      BY DEF Selections
    <3>2. t = [u EXCEPT !.decoder = d]
      BY DEF Selections
    <3> HIDE DEF u, t
    <3> QED
      BY <3>1, <3>2
  <2> HIDE DEF t
  <2> QED
    BY <2>1, <2>2 DEF Selections
<1>4. ~stranded(qs, o, t)
  OBVIOUS
<1> HIDE DEF t
<1>5. /\ \A q : fits(o, t, q) <=> fits(o, s, q)
      /\ \A q : short(o, t, q) <=> short(o, s, q)
      /\ holds(o, t, c) <=> holds(o, s, c)
  BY <1>3 DEF fits, short, holds, bandwidth
<1>6. CASE holds(o, t, c)
  BY <1>1, <1>2, <1>3, <1>6, SelectsKeptOrBest
<1>7. CASE ~holds(o, t, c)
  <2>1. k = best(qs, o, s)
    BY <1>5, <1>7, SelectsKeptOrBest
  <2>2. selectQuality(qs, o, t) = best(qs, o, t)
    BY <1>3, <1>7, SelectsKeptOrBest
  <2>3. ASSUME NEW j \in Fitting(qs, o, t),
               \/ k \in Fitting(qs, o, s)
               \/ Fitting(qs, o, s) = {}
        PROVE  j \in Fitting(qs, o, s)
    <3>1. j \in Within(qs, o) /\ j \in DOMAIN qs /\ fits(o, s, qs[j]) /\ permitted(qs, o, t, qs[j])
      BY <1>5 DEF Fitting, Within
    <3>2. CASE s.previous = 0
      BY <3>1, <3>2 DEF Fitting, permitted
    <3>3. CASE s.previous # 0
      <4>1. Switches(p, c) /\ Switches(c, qs[j])
        BY <1>1, <1>2, <1>3, <3>1, <3>3 DEF permitted, Switches
      <4>2. Switches(p, qs[j])
        BY <1>1, <3>1, <3>3, <4>1 DEF IsLadder, Switches
      <4>3. ASSUME o.restrictDecoder, p.audio, ~short(o, s, p) PROVE qs[j].decoder = s.decoder
        <5>1. k \in Fitting(qs, o, s)
          <6>1. fits(o, s, p)
            BY <1>1, <3>3, <4>3, FitsOrShort, ListDomain
          <6>2. withinResolution(o, p)
            BY <4>3 DEF withinResolution
          <6>3. s.previous \in Fitting(qs, o, s)
            BY <1>1, <3>3, <6>1, <6>2, PreviousFits
          <6> QED
            BY <2>3, <6>3
        <5>2. c.decoder = s.decoder /\ fits(o, s, c)
          BY <3>3, <4>3, <5>1 DEF Fitting, permitted
        <5>3. c.audio /\ c.bandwidth \in Nat \cup {-1}
          BY <1>1, <3>3, <4>3, ListDomain
        <5>4. ~short(o, t, c)
          BY <1>2, <1>5, <5>2, <5>3, FitsOrShort
        <5>5. qs[j].decoder = d /\ d = c.decoder
          BY <1>1, <1>2, <1>3, <1>4, <3>1, <4>3, <5>3, <5>4 DEF permitted, stranded
        <5> QED
          BY <5>2, <5>5
      <4>4. permitted(qs, o, s, qs[j])
        BY <4>2, <4>3 DEF permitted, Switches
      <4> QED
        BY <3>1, <4>4 DEF Fitting
    <3> QED
      BY <3>2, <3>3
  <2>4. CASE Fitting(qs, o, s) # {}
    <3>1. k \in Fitting(qs, o, s) /\ \A j \in Fitting(qs, o, s) : k <= j
      BY <2>1, <2>4, BestIs
    <3>2. k \in Fitting(qs, o, t)
      BY <1>1, <1>3, <1>4, <1>5, <3>1, PreviousFits DEF Fitting, Within
    <3>3. best(qs, o, t) \in Fitting(qs, o, t) /\ best(qs, o, t) <= k /\ best(qs, o, t) \in DOMAIN qs
      BY <3>2, BestIs
    <3>4. k <= best(qs, o, t)
      BY <2>3, <3>1, <3>3
    <3> QED
      BY <1>1, <1>2, <2>2, <3>3, <3>4
  <2>5. CASE Fitting(qs, o, s) = {}
    <3>1. Fitting(qs, o, t) = {}
      BY <2>3, <2>5
    <3> QED
      BY <2>1, <2>2, <2>5, <3>1, BestIs
  <2> QED
    BY <2>4, <2>5
<1> QED
  BY <1>6, <1>7

(* Whatever the strategy, a quality of the list is selected.                   *)
LEMMA SelectsQuality ==
    ASSUME NEW qs, AreQualities(qs), qs # <<>>, NEW o \in OptionType,
           NEW D, NEW s \in Selections(Len(qs), D)
    PROVE  selectQuality(qs, o, s) \in DOMAIN qs
<1>1. DOMAIN qs = 1..Len(qs) /\ Len(qs) \in Nat \ {0} /\ s.previous \in 0..Len(qs)
  BY ListDomain DEF Selections
<1>2. best(qs, o, s) \in DOMAIN qs
  BY BestIs
<1> QED
  BY <1>1, <1>2 DEF selectQuality

--------------------------------------------------------------------------------
\* Sums

(* Induction up to n, over a set.                                              *)
LEMMA UpTo ==
    ASSUME NEW n \in Nat, NEW K, 0 \in K, \A k \in 1..n : k - 1 \in K => k \in K
    PROVE  \A k \in 0..n : k \in K
<1> DEFINE out == {k \in 0..n : k \notin K}
<1>1. ASSUME out # {} PROVE FALSE
  <2>1. out \in SUBSET Nat
    OBVIOUS
  <2>2. PICK k \in out : \A j \in out : k <= j
    <3> HIDE DEF out
    <3> QED
      BY <1>1, <2>1, LeastExists
  <2>3. k \in 0..n /\ k \notin K /\ k # 0
    OBVIOUS
  <2>4. k \in 1..n /\ k - 1 \in 0..n /\ ~(k <= k - 1)
    BY <2>3
  <2>5. k - 1 \in K
    BY <2>2, <2>4
  <2> QED
    BY <2>3, <2>4, <2>5
<1> QED
  BY <1>1

(* The value of each set of indices is worked out from one without its         *)
(* greatest.                                                                   *)
GoesOn(g, n, base, step) ==
    \A s \in SUBSET (1..n) : g[s] = IF s = {} THEN base ELSE step[Max(s)][g[s \ {Max(s)}]]

(* There are such values.                                                      *)
LEMMA FoldExists ==
    ASSUME NEW n \in Nat, NEW V, NEW base \in V, NEW step \in [1..n -> [V -> V]]
    PROVE  \E g \in [SUBSET (1..n) -> V] : GoesOn(g, n, base, step)
<1> DEFINE I == 1..n
           next(g, s) == IF s = {} THEN base ELSE step[Max(s)][g[s \ {Max(s)}]]
           good(k) == {g \in [SUBSET I -> V] :
                          \A s \in SUBSET I : Cardinality(s) <= k => g[s] = next(g, s)}
           K == {k \in Nat : good(k) # {}}
<1>1. IsFiniteSet(I) /\ Cardinality(I) = n
  <2>1. 1 \in Int /\ n \in Int
    OBVIOUS
  <2> QED
    BY <2>1, FS_Interval
<1>2. \A s \in SUBSET I : IsFiniteSet(s) /\ Cardinality(s) \in 0..n
  <2>1. ASSUME NEW s \in SUBSET I PROVE IsFiniteSet(s) /\ Cardinality(s) \in 0..n
    <3> HIDE DEF I
    <3>1. IsFiniteSet(s) /\ Cardinality(s) <= Cardinality(I)
      BY <1>1, FS_Subset
    <3>2. Cardinality(s) \in Nat
      BY <3>1, FS_CardinalityType
    <3> QED
      BY <1>1, <3>1, <3>2
  <2> QED
    BY <2>1
<1>3. \A s \in SUBSET I : s # {} => Max(s) \in s /\ Max(s) \in I
  BY MaxIs
<1>4. ASSUME NEW g \in [SUBSET I -> V], NEW s \in SUBSET I PROVE next(g, s) \in V
  <2>1. CASE s = {}
    BY <2>1
  <2>2. CASE s # {}
    <3>1. Max(s) \in I /\ g[s \ {Max(s)}] \in V
      BY <1>3, <2>2
    <3>2. step[Max(s)] \in [V -> V]
      BY <3>1
    <3> QED
      BY <2>2, <3>1, <3>2
  <2> QED
    BY <2>1, <2>2
<1>5. 0 \in K
  <2> DEFINE g == [s \in SUBSET I |-> base]
  <2>1. g \in [SUBSET I -> V]
    OBVIOUS
  <2>2. ASSUME NEW s \in SUBSET I, Cardinality(s) <= 0 PROVE g[s] = next(g, s)
    <3>1. s = {}
      BY <1>2, <2>2, FS_EmptySet
    <3> QED
      BY <3>1
  <2>3. g \in good(0)
    BY <2>1, <2>2
  <2> QED
    BY <2>3
<1>6. ASSUME NEW k \in 1..n, k - 1 \in K PROVE k \in K
  <2>1. PICK g \in [SUBSET I -> V] :
            \A s \in SUBSET I : Cardinality(s) <= k - 1 => g[s] = next(g, s)
    BY <1>6
  <2> DEFINE h == [s \in SUBSET I |-> next(g, s)]
  <2>2. h \in [SUBSET I -> V]
    <3> HIDE DEF next
    <3> QED
      BY <1>4
  <2>3. ASSUME NEW s \in SUBSET I, Cardinality(s) <= k PROVE h[s] = next(h, s)
    <3>1. CASE s = {}
      BY <3>1
    <3>2. CASE s # {}
      <4> DEFINE x == Max(s)
                 t == s \ {x}
      <4>1. x \in s /\ t \in SUBSET I /\ IsFiniteSet(s)
        BY <1>2, <1>3, <3>2
      <4>2. Cardinality(t) = Cardinality(s) - 1
        <5> HIDE DEF x
        <5> QED
          BY <4>1, FS_RemoveElement
      <4>3. Cardinality(t) <= k - 1
        BY <1>2, <2>3, <4>2
      <4>4. g[t] = next(g, t)
        <5> HIDE DEF next, t
        <5> QED
          BY <2>1, <4>1, <4>3
      <4>5. h[t] = g[t]
        <5> HIDE DEF next, t
        <5> QED
          BY <4>1, <4>4
      <4> QED
        BY <3>2, <4>5
    <3> QED
      BY <3>1, <3>2
  <2>4. h \in good(k)
    <3> HIDE DEF h, next
    <3> QED
      BY <2>2, <2>3
  <2>5. k \in Nat
    OBVIOUS
  <2> QED
    BY <2>4, <2>5
<1>7. n \in K
  <2> HIDE DEF K
  <2>1. \A k \in 0..n : k \in K
    BY <1>5, <1>6, UpTo
  <2> QED
    BY <2>1
<1>8. PICK g \in good(n) : TRUE
  BY <1>7
<1>9. g \in [SUBSET I -> V] /\ \A s \in SUBSET I : g[s] = next(g, s)
  <2> HIDE DEF next
  <2> QED
    BY <1>2, <1>8
<1> QED
  BY <1>9 DEF GoesOn

(* Along the prefixes of 1..n.                                                 *)
LEMMA AlongPrefixes ==
    ASSUME NEW n \in Nat, NEW k \in 1..n
    PROVE  /\ 1..k \in SUBSET (1..n) /\ 1..k # {}
           /\ Max(1..k) = k /\ (1..k) \ {Max(1..k)} = 1..(k - 1)
<1>1. 1..k \in SUBSET (1..n) /\ 1..k # {} /\ k \in 1..k
  OBVIOUS
<1>2. Max(1..k) \in 1..k /\ k <= Max(1..k)
  BY <1>1, MaxIs
<1>3. Max(1..k) = k
  BY <1>2
<1> QED
  BY <1>1, <1>3

(* A sequence of values, each worked out from the one before.                  *)
IsChain(a, n, V, base, step) ==
    /\ a \in [0..n -> V] /\ a[0] = base
    /\ \A k \in 1..n : a[k] = step[k][a[k - 1]]

(* Values of sets of indices that go on while they are of the kind worked with.*)
Continues(f, n, V, base, step) ==
    /\ f[{}] = base
    /\ \A s \in SUBSET (1..n) : s # {} /\ f[s \ {Max(s)}] \in V =>
            f[s] = step[Max(s)][f[s \ {Max(s)}]]

Along(f, n) == [k \in 0..n |-> f[1..k]]

(* Along the prefixes they are such a sequence.                                *)
LEMMA ChainExists ==
    ASSUME NEW n \in Nat, NEW V, NEW base \in V, NEW step \in [1..n -> [V -> V]], NEW f,
           Continues(f, n, V, base, step)
    PROVE  IsChain(Along(f, n), n, V, base, step)
<1> DEFINE a == [k \in 0..n |-> f[1..k]]
           K == {k \in 0..n : a[k] \in V}
<1>1. a[0] = base
  <2>1. 1..0 = {} /\ 0 \in 0..n
    OBVIOUS
  <2> QED
    BY <2>1 DEF Continues
<1>2. ASSUME NEW k \in 1..n, a[k - 1] \in V PROVE a[k] \in V /\ a[k] = step[k][a[k - 1]]
  <2>1. k \in 0..n /\ k - 1 \in 0..n
    OBVIOUS
  <2>2. a[k] = f[1..k] /\ a[k - 1] = f[1..(k - 1)]
    BY <2>1
  <2>3. /\ 1..k \in SUBSET (1..n) /\ 1..k # {}
        /\ Max(1..k) = k /\ (1..k) \ {Max(1..k)} = 1..(k - 1)
    BY AlongPrefixes
  <2> HIDE DEF a
  <2>4. f[1..k] = step[k][f[1..(k - 1)]]
    BY <1>2, <2>2, <2>3 DEF Continues
  <2>5. step[k] \in [V -> V]
    OBVIOUS
  <2> QED
    BY <1>2, <2>2, <2>4, <2>5
<1>3. \A k \in 0..n : k \in K
  <2>1. 0 \in K
    BY <1>1
  <2>2. \A k \in 1..n : k - 1 \in K => k \in K
    <3>1. \A k \in 1..n : k \in 0..n
      OBVIOUS
    <3> HIDE DEF a
    <3> QED
      BY <1>2, <3>1
  <2> HIDE DEF K
  <2> QED
    BY <2>1, <2>2, UpTo
<1>4. \A k \in 1..n : k - 1 \in 0..n
  OBVIOUS
<1>5. a \in [0..n -> V]
  BY <1>3
<1> HIDE DEF a
<1>6. IsChain(a, n, V, base, step)
  BY <1>1, <1>2, <1>3, <1>4, <1>5 DEF IsChain
<1> QED
  BY <1>6 DEF a, Along

(* Two such sequences agree as far as their steps do.                          *)
LEMMA ChainsAgree ==
    ASSUME NEW n \in Nat, NEW V, NEW a, NEW b, NEW base, NEW step,
           NEW m \in Nat, n <= m, NEW other,
           IsChain(a, n, V, base, step), IsChain(b, m, V, base, other),
           \A k \in 1..n : step[k] = other[k]
    PROVE  \A k \in 0..n : a[k] = b[k]
<1> DEFINE K == {k \in 0..n : a[k] = b[k]}
<1>1. 0 \in K
  BY DEF IsChain
<1>2. ASSUME NEW k \in 1..n, k - 1 \in K PROVE k \in K
  <2>1. k \in 0..n /\ k \in 1..m
    OBVIOUS
  <2> QED
    BY <1>2, <2>1 DEF IsChain
<1>3. \A k \in 0..n : k \in K
  <2> HIDE DEF K
  <2> QED
    BY <1>1, <1>2, UpTo
<1> QED
  BY <1>3

Adding(q) == [i \in 1..Len(q) |-> [v \in Int |-> v + q[i]]]

(* A sum over a sequence goes through the sums over its prefixes.              *)
LEMMA SumGoes ==
    ASSUME NEW q \in Seq(Int), NEW base \in Int
    PROVE  \E a : /\ IsChain(a, Len(q), Int, base, Adding(q))
                  /\ FoldLeft(LAMBDA t, d : t + d, base, q) = a[Len(q)]
<1> DEFINE n == Len(q)
           I == 1..n
           step == Adding(q)
           Is(g) == g = [s \in SUBSET I |-> IF s = {} THEN base ELSE g[s \ {Max(s)}] + q[Max(s)]]
           f == CHOOSE g : Is(g)
<1>1. n \in Nat /\ DOMAIN q = I /\ \A i \in I : q[i] \in Int
  OBVIOUS
<1>2. step \in [1..n -> [Int -> Int]] /\ \A i \in I : \A v \in Int : step[i][v] = v + q[i]
  BY <1>1 DEF Adding
<1>3. FoldLeft(LAMBDA t, d : t + d, base, q) = f[I]
  BY <1>1 DEF FoldLeft, MapThenFoldSet
<1> HIDE DEF n, step
<1>4. \A s \in SUBSET I : s # {} => Max(s) \in I
  BY <1>1, MaxIs
<1>5. PICK g \in [SUBSET I -> Int] : GoesOn(g, n, base, step)
  BY <1>1, <1>2, FoldExists
<1>6. Is(g)
  <2>1. \A s \in SUBSET I : g[s] = IF s = {} THEN base ELSE g[s \ {Max(s)}] + q[Max(s)]
    BY <1>2, <1>4, <1>5 DEF GoesOn
  <2> QED
    BY <2>1
<1>7. Is(f)
  <2> HIDE DEF Is
  <2> QED
    BY <1>6
<1>8. f[{}] = base /\ \A s \in SUBSET I : s # {} => f[s] = f[s \ {Max(s)}] + q[Max(s)]
  <2> HIDE DEF f
  <2> QED
    BY <1>7
<1> HIDE DEF Is, f
<1> DEFINE a == Along(f, n)
<1>9. IsChain(a, n, Int, base, step)
  <2>1. \A s \in SUBSET I : s # {} /\ f[s \ {Max(s)}] \in Int =>
            f[s] = step[Max(s)][f[s \ {Max(s)}]]
    BY <1>2, <1>4, <1>8
  <2>2. Continues(f, n, Int, base, step)
    BY <1>8, <2>1 DEF Continues
  <2> QED
    BY <1>1, <1>2, <2>2, ChainExists
<1>10. a[n] = f[I]
  <2>1. n \in 0..n
    BY <1>1
  <2> QED
    BY <2>1 DEF Along
<1> HIDE DEF a
<1> QED
  BY <1>3, <1>9, <1>10 DEF n, step

(* A sum from a number is that number and the sum.                             *)
LEMMA SumFrom ==
    ASSUME NEW q \in Seq(Int), NEW base \in Int
    PROVE  /\ FoldLeft(LAMBDA t, d : t + d, 0, q) \in Int
           /\ FoldLeft(LAMBDA t, d : t + d, base, q) = base + FoldLeft(LAMBDA t, d : t + d, 0, q)
<1> DEFINE n == Len(q)
           step == Adding(q)
<1>1. n \in Nat /\ \A i \in 1..n : q[i] \in Int
  OBVIOUS
<1>2. \A i \in 1..n : \A v \in Int : step[i][v] = v + q[i]
  BY <1>1 DEF Adding
<1>3. PICK a : IsChain(a, n, Int, base, step) /\ FoldLeft(LAMBDA t, d : t + d, base, q) = a[n]
  BY SumGoes
<1>4. PICK b : IsChain(b, n, Int, 0, step) /\ FoldLeft(LAMBDA t, d : t + d, 0, q) = b[n]
  <2>1. 0 \in Int
    OBVIOUS
  <2> HIDE DEF n, step
  <2>2. \E x : IsChain(x, n, Int, 0, step) /\ FoldLeft(LAMBDA t, d : t + d, 0, q) = x[n]
    BY <2>1, SumGoes DEF n, step
  <2> QED
    BY <2>2
<1> HIDE DEF n, step
<1> DEFINE K == {k \in 0..n : a[k] = base + b[k]}
<1>5. 0 \in K
  <2>1. a[0] = base /\ b[0] = 0
    BY <1>3, <1>4 DEF IsChain
  <2>2. 0 \in 0..n /\ base = base + 0
    BY <1>1
  <2> QED
    BY <2>1, <2>2
<1>6. ASSUME NEW k \in 1..n, k - 1 \in K PROVE k \in K
  <2>1. k \in 0..n /\ k - 1 \in 0..n
    BY <1>1
  <2>2. a[k] = a[k - 1] + q[k] /\ b[k] = b[k - 1] + q[k] /\ a[k - 1] = base + b[k - 1]
    BY <1>2, <1>3, <1>4, <1>6, <2>1 DEF IsChain
  <2>3. a[k - 1] \in Int /\ b[k - 1] \in Int /\ q[k] \in Int
    BY <1>1, <1>3, <1>4, <2>1 DEF IsChain
  <2> QED
    BY <2>1, <2>2, <2>3
<1>7. n \in K
  <2> HIDE DEF K
  <2>1. \A k \in 0..n : k \in K
    BY <1>1, <1>5, <1>6, UpTo
  <2> QED
    BY <1>1, <2>1
<1>8. b[n] \in Int
  <2>1. n \in 0..n
    BY <1>1
  <2>2. b \in [0..n -> Int]
    BY <1>4 DEF IsChain
  <2> QED
    BY <2>1, <2>2
<1> QED
  BY <1>3, <1>4, <1>7, <1>8

--------------------------------------------------------------------------------
\* The elements of a SegmentTimeline

SElement == [t : Int, d : Int, r : Nat]

Lasts(s) == (s.r + 1) * s.d

Counting(q) == [i \in 1..Len(q) |-> [v \in Int |-> v + q[i].r + 1]]

(* The number of segments goes through those of the prefixes.                   *)
LEMMA CountGoes ==
    ASSUME NEW q \in Seq(SElement), NEW base \in Int
    PROVE  \E a : /\ IsChain(a, Len(q), Int, base, Counting(q))
                  /\ FoldLeft(LAMBDA k, s : k + s.r + 1, base, q) = a[Len(q)]
<1> DEFINE n == Len(q)
           I == 1..n
           step == Counting(q)
           Is(g) == g = [s \in SUBSET I |->
                            IF s = {} THEN base ELSE g[s \ {Max(s)}] + q[Max(s)].r + 1]
           f == CHOOSE g : Is(g)
<1>1. n \in Nat /\ DOMAIN q = I /\ \A i \in I : q[i] \in SElement
  OBVIOUS
<1>2. /\ step \in [1..n -> [Int -> Int]]
      /\ \A i \in I : \A v \in Int : step[i][v] = v + q[i].r + 1
  BY <1>1 DEF Counting, SElement
<1>3. FoldLeft(LAMBDA k, s : k + s.r + 1, base, q) = f[I]
  BY <1>1 DEF FoldLeft, MapThenFoldSet
<1> HIDE DEF n, step
<1>4. \A s \in SUBSET I : s # {} => Max(s) \in I
  BY <1>1, MaxIs
<1>5. PICK g \in [SUBSET I -> Int] : GoesOn(g, n, base, step)
  BY <1>1, <1>2, FoldExists
<1>6. Is(g)
  <2>1. \A s \in SUBSET I : g[s] = IF s = {} THEN base ELSE g[s \ {Max(s)}] + q[Max(s)].r + 1
    BY <1>2, <1>4, <1>5 DEF GoesOn
  <2> QED
    BY <2>1
<1>7. Is(f)
  <2> HIDE DEF Is
  <2> QED
    BY <1>6
<1>8. /\ f[{}] = base
      /\ \A s \in SUBSET I : s # {} => f[s] = f[s \ {Max(s)}] + q[Max(s)].r + 1
  <2> HIDE DEF f
  <2> QED
    BY <1>7
<1> HIDE DEF Is, f
<1> DEFINE a == Along(f, n)
<1>9. IsChain(a, n, Int, base, step)
  <2>1. \A s \in SUBSET I : s # {} /\ f[s \ {Max(s)}] \in Int =>
            f[s] = step[Max(s)][f[s \ {Max(s)}]]
    <3>1. ASSUME NEW s \in SUBSET I, s # {}, f[s \ {Max(s)}] \in Int
          PROVE  f[s] = step[Max(s)][f[s \ {Max(s)}]]
      <4> DEFINE v == f[s \ {Max(s)}]
                 i == Max(s)
      <4>1. i \in I /\ v \in Int
        BY <1>4, <3>1
      <4>2. f[s] = v + q[i].r + 1
        BY <1>8, <3>1
      <4> HIDE DEF v, i
      <4>3. step[i][v] = v + q[i].r + 1
        BY <1>2, <4>1
      <4> QED
        BY <4>2, <4>3 DEF v, i
    <3> QED
      BY <3>1
  <2>2. Continues(f, n, Int, base, step)
    BY <1>8, <2>1 DEF Continues
  <2> QED
    BY <1>1, <1>2, <2>2, ChainExists
<1>10. a[n] = f[I]
  <2>1. n \in 0..n
    BY <1>1
  <2> QED
    BY <2>1 DEF Along
<1> HIDE DEF a
<1> QED
  BY <1>3, <1>9, <1>10 DEF n, step

Lengthening(q) == [i \in 1..Len(q) |-> [v \in Int |-> v + Lasts(q[i])]]

(* So does the time they last.                                                  *)
LEMMA LengthGoes ==
    ASSUME NEW q \in Seq(SElement), NEW base \in Int
    PROVE  \E a : /\ IsChain(a, Len(q), Int, base, Lengthening(q))
                  /\ FoldLeft(LAMBDA t, s : t + (s.r + 1) * s.d, base, q) = a[Len(q)]
<1> DEFINE n == Len(q)
           I == 1..n
           step == Lengthening(q)
           Is(g) == g = [s \in SUBSET I |->
                            IF s = {} THEN base ELSE g[s \ {Max(s)}] + Lasts(q[Max(s)])]
           f == CHOOSE g : Is(g)
<1>1. n \in Nat /\ DOMAIN q = I /\ \A i \in I : q[i] \in SElement
  OBVIOUS
<1>2. /\ step \in [1..n -> [Int -> Int]]
      /\ \A i \in I : \A v \in Int : step[i][v] = v + Lasts(q[i])
  <2>1. \A i \in I : Lasts(q[i]) \in Int
    BY <1>1 DEF Lasts, SElement
  <2> QED
    BY <1>1, <2>1 DEF Lengthening
<1>3. FoldLeft(LAMBDA t, s : t + (s.r + 1) * s.d, base, q) = f[I]
  BY <1>1 DEF FoldLeft, MapThenFoldSet, Lasts
<1> HIDE DEF n, step
<1>4. \A s \in SUBSET I : s # {} => Max(s) \in I
  BY <1>1, MaxIs
<1>5. PICK g \in [SUBSET I -> Int] : GoesOn(g, n, base, step)
  BY <1>1, <1>2, FoldExists
<1>6. Is(g)
  <2>1. \A s \in SUBSET I : g[s] = IF s = {} THEN base ELSE g[s \ {Max(s)}] + Lasts(q[Max(s)])
    BY <1>2, <1>4, <1>5 DEF GoesOn
  <2> QED
    BY <2>1
<1>7. Is(f)
  <2> HIDE DEF Is
  <2> QED
    BY <1>6
<1>8. /\ f[{}] = base
      /\ \A s \in SUBSET I : s # {} => f[s] = f[s \ {Max(s)}] + Lasts(q[Max(s)])
  <2> HIDE DEF f
  <2> QED
    BY <1>7
<1> HIDE DEF Is, f
<1> DEFINE a == Along(f, n)
<1>9. IsChain(a, n, Int, base, step)
  <2>1. \A s \in SUBSET I : s # {} /\ f[s \ {Max(s)}] \in Int =>
            f[s] = step[Max(s)][f[s \ {Max(s)}]]
    <3>1. ASSUME NEW s \in SUBSET I, s # {}, f[s \ {Max(s)}] \in Int
          PROVE  f[s] = step[Max(s)][f[s \ {Max(s)}]]
      <4> DEFINE v == f[s \ {Max(s)}]
                 i == Max(s)
      <4>1. i \in I /\ v \in Int
        BY <1>4, <3>1
      <4>2. f[s] = v + Lasts(q[i])
        BY <1>8, <3>1
      <4> HIDE DEF v, i
      <4>3. step[i][v] = v + Lasts(q[i])
        BY <1>2, <4>1
      <4> QED
        BY <4>2, <4>3 DEF v, i
    <3> QED
      BY <3>1
  <2>2. Continues(f, n, Int, base, step)
    BY <1>8, <2>1 DEF Continues
  <2> QED
    BY <1>1, <1>2, <2>2, ChainExists
<1>10. a[n] = f[I]
  <2>1. n \in 0..n
    BY <1>1
  <2> QED
    BY <2>1 DEF Along
<1> HIDE DEF a
<1> QED
  BY <1>3, <1>9, <1>10 DEF n, step

Expansion == [next : Int, out : Seq(Int)]

(* What an element adds.                                                        *)
Expand(acc, s) ==
    LET t == IF s.t # Unset THEN s.t ELSE acc.next IN
    [next |-> t + (s.r + 1) * s.d, out |-> acc.out \o [k \in 1..(s.r + 1) |-> t + (k - 1) * s.d]]

Expanding(q) == [i \in 1..Len(q) |-> [v \in Expansion |-> Expand(v, q[i])]]

(* It is an expansion again.                                                    *)
LEMMA ExpandType ==
    ASSUME NEW acc \in Expansion, NEW s \in SElement
    PROVE  Expand(acc, s) \in Expansion
<1> DEFINE t == IF s.t # Unset THEN s.t ELSE acc.next
           m == s.r + 1
           more == [k \in 1..m |-> t + (k - 1) * s.d]
<1>1. t \in Int /\ m \in Nat /\ s.d \in Int /\ acc.out \in Seq(Int)
  BY DEF Expansion, SElement, Unset
<1> HIDE DEF t, m
<1>2. more \in Seq(Int)
  <2>1. \A k \in 1..m : t + (k - 1) * s.d \in Int
    BY <1>1
  <2> QED
    BY <1>1, <2>1
<1>3. t + m * s.d \in Int
  BY <1>1
<1> HIDE DEF more
<1>4. acc.out \o more \in Seq(Int)
  BY <1>1, <1>2
<1>5. Expand(acc, s) = [next |-> t + m * s.d, out |-> acc.out \o more]
  BY DEF Expand, t, m, more
<1> QED
  BY <1>3, <1>4, <1>5 DEF Expansion

(* The expansion goes through those of the prefixes.                            *)
LEMMA ExpansionGoes ==
    ASSUME NEW q \in Seq(SElement), NEW base \in Expansion
    PROVE  \E a : /\ IsChain(a, Len(q), Expansion, base, Expanding(q))
                  /\ FoldLeft(Expand, base, q) = a[Len(q)]
<1> DEFINE n == Len(q)
           I == 1..n
           step == Expanding(q)
           Is(g) == g = [s \in SUBSET I |->
                            IF s = {} THEN base ELSE Expand(g[s \ {Max(s)}], q[Max(s)])]
           f == CHOOSE g : Is(g)
<1>1. n \in Nat /\ DOMAIN q = I /\ \A i \in I : q[i] \in SElement
  OBVIOUS
<1>2. /\ step \in [1..n -> [Expansion -> Expansion]]
      /\ \A i \in I : \A v \in Expansion : step[i][v] = Expand(v, q[i])
  BY <1>1, ExpandType DEF Expanding
<1>3. FoldLeft(Expand, base, q) = f[I]
  BY <1>1 DEF FoldLeft, MapThenFoldSet, Expand
<1> HIDE DEF n, step
<1>4. \A s \in SUBSET I : s # {} => Max(s) \in I
  BY <1>1, MaxIs
<1>5. PICK g \in [SUBSET I -> Expansion] : GoesOn(g, n, base, step)
  BY <1>1, <1>2, FoldExists
<1>6. Is(g)
  <2>1. \A s \in SUBSET I : g[s] = IF s = {} THEN base ELSE Expand(g[s \ {Max(s)}], q[Max(s)])
    BY <1>2, <1>4, <1>5 DEF GoesOn
  <2> QED
    BY <2>1
<1>7. Is(f)
  <2> HIDE DEF Is
  <2> QED
    BY <1>6
<1>8. /\ f[{}] = base
      /\ \A s \in SUBSET I : s # {} => f[s] = Expand(f[s \ {Max(s)}], q[Max(s)])
  <2> HIDE DEF f
  <2> QED
    BY <1>7
<1> HIDE DEF Is, f
<1> DEFINE a == Along(f, n)
<1>9. IsChain(a, n, Expansion, base, step)
  <2>1. \A s \in SUBSET I : s # {} /\ f[s \ {Max(s)}] \in Expansion =>
            f[s] = step[Max(s)][f[s \ {Max(s)}]]
    <3>1. ASSUME NEW s \in SUBSET I, s # {}, f[s \ {Max(s)}] \in Expansion
          PROVE  f[s] = step[Max(s)][f[s \ {Max(s)}]]
      <4> DEFINE v == f[s \ {Max(s)}]
                 i == Max(s)
      <4>1. i \in I /\ v \in Expansion
        BY <1>4, <3>1
      <4>2. f[s] = Expand(v, q[i])
        BY <1>8, <3>1
      <4> HIDE DEF v, i
      <4>3. step[i][v] = Expand(v, q[i])
        BY <1>2, <4>1
      <4> QED
        BY <4>2, <4>3 DEF v, i
    <3> QED
      BY <3>1
  <2>2. Continues(f, n, Expansion, base, step)
    BY <1>8, <2>1 DEF Continues
  <2> QED
    BY <1>1, <1>2, <2>2, ChainExists
<1>10. a[n] = f[I]
  <2>1. n \in 0..n
    BY <1>1
  <2> QED
    BY <2>1 DEF Along
<1> HIDE DEF a
<1> QED
  BY <1>3, <1>9, <1>10 DEF n, step

(* As far as the first k elements reach, and as long as those from a to b      *)
(* last.                                                                       *)
Reach(S, k) == FoldLeft(LAMBDA n, s : n + s.r + 1, 0, SubSeq(S, 1, k))

Lasting(S, a, b) == FoldLeft(LAMBDA t, s : t + (s.r + 1) * s.d, 0, SubSeq(S, a, b))

(* Each element reaches one further for itself and one for each repetition.    *)
LEMMA ReachGoes ==
    ASSUME NEW S \in Seq(SElement)
    PROVE  /\ Reach(S, 0) = 0
           /\ \A k \in 1..Len(S) : Reach(S, k) = Reach(S, k - 1) + S[k].r + 1
           /\ \A k \in 0..Len(S) : Reach(S, k) \in Nat
           /\ FoldLeft(LAMBDA n, s : n + s.r + 1, 0, S) = Reach(S, Len(S))
<1> DEFINE n == Len(S)
<1>1. n \in Nat /\ 0 \in Int /\ \A k \in 1..n : S[k] \in SElement
  OBVIOUS
<1>2. PICK a : IsChain(a, n, Int, 0, Counting(S)) /\ FoldLeft(LAMBDA k, s : k + s.r + 1, 0, S) = a[n]
  BY <1>1, CountGoes
<1>3. ASSUME NEW k \in 0..n PROVE Reach(S, k) = a[k]
  <2> DEFINE q == SubSeq(S, 1, k)
  <2>1. /\ q \in Seq(SElement) /\ Len(q) = k /\ \A i \in 1..k : q[i] = S[i]
        /\ k \in Nat /\ k <= n
    OBVIOUS
  <2> HIDE DEF q
  <2>2. PICK b : IsChain(b, k, Int, 0, Counting(q)) /\ FoldLeft(LAMBDA j, s : j + s.r + 1, 0, q) = b[k]
    BY <1>1, <2>1, CountGoes
  <2>3. \A i \in 1..k : Counting(q)[i] = Counting(S)[i]
    <3>1. ASSUME NEW i \in 1..k PROVE Counting(q)[i] = Counting(S)[i]
      <4>1. i \in 1..n /\ i \in 1..Len(q)
        BY <1>1, <2>1
      <4> HIDE DEF n
      <4> QED
        BY <2>1, <4>1 DEF Counting, n
    <3> QED
      BY <3>1
  <2>4. b[k] = a[k]
    <3> HIDE DEF n
    <3>1. \A x, y, step, other :
            /\ IsChain(x, k, Int, 0, step) /\ IsChain(y, n, Int, 0, other)
            /\ \A i \in 1..k : step[i] = other[i]
            => \A i \in 0..k : x[i] = y[i]
      BY <1>1, <2>1, ChainsAgree
    <3>2. \A i \in 0..k : b[i] = a[i]
      BY <1>2, <2>2, <2>3, <3>1
    <3> QED
      BY <2>1, <3>2
  <2> QED
    BY <2>2, <2>4 DEF Reach, q
<1>4. a[0] = 0 /\ \A k \in 1..n : a[k] = a[k - 1] + S[k].r + 1
  <2>1. ASSUME NEW k \in 1..n PROVE a[k] = a[k - 1] + S[k].r + 1
    <3>1. k - 1 \in 0..n
      BY <1>1
    <3>2. a[k] = Counting(S)[k][a[k - 1]] /\ a[k - 1] \in Int
      BY <1>2, <3>1 DEF IsChain
    <3> QED
      BY <3>2 DEF Counting
  <2> QED
    BY <1>2, <2>1 DEF IsChain
<1> HIDE DEF n
<1>5. \A k \in 1..n : k \in 0..n /\ k - 1 \in 0..n
  BY <1>1
<1>6. 0 \in 0..n /\ n \in 0..n
  BY <1>1
<1>7. \A k \in 0..n : a[k] \in Nat
  <2> DEFINE K == {k \in 0..n : a[k] \in Nat}
  <2>1. 0 \in K
    BY <1>4, <1>6
  <2>2. ASSUME NEW k \in 1..n, k - 1 \in K PROVE k \in K
    <3>1. a[k] = a[k - 1] + S[k].r + 1 /\ a[k - 1] \in Nat /\ S[k].r \in Nat
      BY <1>1, <1>4, <2>2 DEF SElement
    <3>2. a[k] \in Nat
      BY <3>1
    <3> QED
      BY <1>5, <3>2
  <2>3. \A k \in 0..n : k \in K
    <3> HIDE DEF K
    <3> QED
      BY <1>1, <2>1, <2>2, UpTo
  <2> QED
    BY <2>3
<1> QED
  BY <1>2, <1>3, <1>4, <1>5, <1>6, <1>7 DEF n

(* Each element lasts as long as its repetitions.                              *)
LEMMA LastingGoes ==
    ASSUME NEW S \in Seq(SElement), NEW a \in 1..Len(S)
    PROVE  /\ Lasting(S, a, a - 1) = 0
           /\ \A b \in a..Len(S) : Lasting(S, a, b) = Lasting(S, a, b - 1) + Lasts(S[b])
           /\ \A b \in (a - 1)..Len(S) : Lasting(S, a, b) \in Int
<1> DEFINE p == SubSeq(S, a, Len(S))
           n == Len(S)
<1>1. /\ n \in Nat /\ a \in Nat /\ 0 \in Int
      /\ p \in Seq(SElement) /\ Len(p) = n - a + 1 /\ n - a + 1 \in Nat
      /\ \A i \in 1..(n - a + 1) : p[i] = S[a + i - 1]
  BY SubSeqProperties
<1> HIDE DEF p
<1>2. PICK c : IsChain(c, n - a + 1, Int, 0, Lengthening(p))
  BY <1>1, LengthGoes
<1>3. ASSUME NEW b \in (a - 1)..n PROVE Lasting(S, a, b) = c[b - a + 1]
  <2> DEFINE q == SubSeq(S, a, b)
             k == b - a + 1
  <2>1. /\ q \in Seq(SElement) /\ Len(q) = k /\ \A i \in 1..k : q[i] = S[a + i - 1]
        /\ k \in Nat /\ k <= n - a + 1
    BY <1>1, SubSeqProperties
  <2> HIDE DEF q, k
  <2>2. PICK d : IsChain(d, k, Int, 0, Lengthening(q))
                 /\ FoldLeft(LAMBDA t, s : t + (s.r + 1) * s.d, 0, q) = d[k]
    BY <1>1, <2>1, LengthGoes
  <2>3. \A i \in 1..k : Lengthening(q)[i] = Lengthening(p)[i]
    <3>1. ASSUME NEW i \in 1..k PROVE Lengthening(q)[i] = Lengthening(p)[i]
      <4>1. i \in 1..(n - a + 1) /\ i \in 1..Len(q)
        BY <1>1, <2>1
      <4>2. q[i] = p[i]
        BY <1>1, <2>1, <4>1
      <4> HIDE DEF n
      <4> QED
        BY <1>1, <4>1, <4>2 DEF Lengthening
    <3> QED
      BY <3>1
  <2>4. d[k] = c[k]
    <3> HIDE DEF n
    <3> DEFINE m == n - a + 1
    <3>1. m \in Nat /\ k <= m /\ IsChain(c, m, Int, 0, Lengthening(p))
      BY <1>1, <1>2, <2>1
    <3> HIDE DEF m
    <3>0. k \in Nat /\ m \in Nat /\ k <= m
      BY <2>1, <3>1
    <3>2. \A x, y, step, other :
            /\ IsChain(x, k, Int, 0, step) /\ IsChain(y, m, Int, 0, other)
            /\ \A i \in 1..k : step[i] = other[i]
            => \A i \in 0..k : x[i] = y[i]
      BY <3>0, ChainsAgree
    <3>3. \A i \in 0..k : d[i] = c[i]
      BY <2>2, <2>3, <3>1, <3>2
    <3> QED
      BY <2>1, <3>3
  <2> QED
    BY <2>2, <2>4 DEF Lasting, q, k
<1> HIDE DEF n
<1>4. c[0] = 0 /\ c \in [0..(n - a + 1) -> Int]
  BY <1>2 DEF IsChain
<1>5. ASSUME NEW b \in a..n
      PROVE  Lasting(S, a, b) = Lasting(S, a, b - 1) + Lasts(S[b])
  <2> DEFINE k == b - a + 1
  <2>1. /\ k \in 1..(n - a + 1) /\ k - 1 \in 0..(n - a + 1) /\ a + k - 1 = b
        /\ b \in (a - 1)..n /\ b - 1 \in (a - 1)..n /\ (b - 1) - a + 1 = k - 1
    BY <1>1
  <2>2. Lasting(S, a, b) = c[k] /\ Lasting(S, a, b - 1) = c[k - 1]
    <3>1. Lasting(S, a, b) = c[b - a + 1] /\ Lasting(S, a, b - 1) = c[(b - 1) - a + 1]
      BY <1>3, <2>1
    <3> QED
      BY <2>1, <3>1
  <2> HIDE DEF k
  <2>3. c[k] = Lengthening(p)[k][c[k - 1]] /\ c[k - 1] \in Int
    BY <1>2, <1>4, <2>1 DEF IsChain
  <2>4. p[k] = S[b]
    BY <1>1, <2>1
  <2> QED
    BY <1>1, <2>1, <2>2, <2>3, <2>4 DEF Lengthening
<1>6. a - 1 \in (a - 1)..n /\ (a - 1) - a + 1 = 0
  <2>1. a <= n
    BY DEF n
  <2> QED
    BY <1>1, <2>1
<1>7. Lasting(S, a, a - 1) = 0
  <2>1. Lasting(S, a, a - 1) = c[(a - 1) - a + 1]
    BY <1>3, <1>6
  <2> QED
    BY <1>4, <1>6, <2>1
<1>8. ASSUME NEW b \in (a - 1)..n PROVE Lasting(S, a, b) \in Int
  <2>1. b - a + 1 \in 0..(n - a + 1)
    BY <1>1
  <2> QED
    BY <1>3, <1>4, <2>1
<1> QED
  BY <1>5, <1>7, <1>8 DEF n

(* The last element up to e with a time of its own, and where e begins.        *)
Timed(S, e) == {x \in 1..e : S[x].t # Unset}

Anchor(S, e) == IF Timed(S, e) = {} THEN 1 ELSE Max(Timed(S, e))

Begins(S, e) ==
    (IF Timed(S, e) = {} THEN 0 ELSE S[Anchor(S, e)].t) + Lasting(S, Anchor(S, e), e - 1)

(* An element with a time of its own begins there, the first one otherwise at  *)
(* 0, and any other where the one before it ends.                              *)
LEMMA BeginsWhere ==
    ASSUME NEW S \in Seq(SElement), NEW e \in 1..Len(S)
    PROVE  /\ Begins(S, e) \in Int
           /\ S[e].t # Unset => Begins(S, e) = S[e].t
           /\ S[e].t = Unset /\ e = 1 => Begins(S, e) = 0
           /\ S[e].t = Unset /\ e # 1 =>
                e - 1 \in 1..Len(S) /\ Begins(S, e) = Begins(S, e - 1) + Lasts(S[e - 1])
<1>1. /\ Len(S) \in Nat /\ e \in Nat /\ e >= 1 /\ e <= Len(S)
      /\ \A x \in 1..Len(S) : S[x] \in SElement /\ S[x].t \in Int /\ Lasts(S[x]) \in Int
  <2>1. ASSUME NEW x \in 1..Len(S) PROVE S[x] \in SElement /\ S[x].t \in Int /\ Lasts(S[x]) \in Int
    <3>1. S[x] \in SElement
      OBVIOUS
    <3>2. S[x].t \in Int /\ S[x].d \in Int /\ S[x].r \in Nat
      BY <3>1 DEF SElement
    <3>3. Lasts(S[x]) \in Int
      BY <3>2 DEF Lasts
    <3> QED
      BY <3>1, <3>2, <3>3
  <2> QED
    BY <2>1
<1>2. ASSUME NEW x \in 1..Len(S), Timed(S, x) # {}
      PROVE  Max(Timed(S, x)) \in Timed(S, x) /\ \A j \in Timed(S, x) : j <= Max(Timed(S, x))
  <2>1. Timed(S, x) \in SUBSET (1..x) /\ x \in Nat
    BY DEF Timed
  <2> QED
    BY <1>2, <2>1, MaxIs
<1>3. ASSUME NEW x \in 1..Len(S) PROVE Anchor(S, x) \in 1..x
  <2>1. CASE Timed(S, x) = {}
    BY <1>1, <2>1 DEF Anchor
  <2>2. CASE Timed(S, x) # {}
    <3>1. Max(Timed(S, x)) \in Timed(S, x)
      BY <1>2, <2>2
    <3>2. Max(Timed(S, x)) \in 1..x
      BY <3>1 DEF Timed
    <3> QED
      BY <2>2, <3>2 DEF Anchor
  <2> QED
    BY <2>1, <2>2
<1>4. Begins(S, e) \in Int
  <2>1. Anchor(S, e) \in 1..Len(S) /\ e - 1 \in (Anchor(S, e) - 1)..Len(S)
    BY <1>1, <1>3
  <2>2. Lasting(S, Anchor(S, e), e - 1) \in Int
    BY <2>1, LastingGoes
  <2>3. S[Anchor(S, e)].t \in Int
    BY <1>1, <2>1
  <2> QED
    BY <2>2, <2>3 DEF Begins
<1>5. ASSUME S[e].t # Unset PROVE Begins(S, e) = S[e].t
  <2>1. e \in Timed(S, e)
    BY <1>1, <1>5 DEF Timed
  <2>2. Max(Timed(S, e)) = e
    <3>1. Max(Timed(S, e)) \in Timed(S, e) /\ e <= Max(Timed(S, e))
      BY <1>2, <2>1
    <3>2. Max(Timed(S, e)) \in 1..e
      BY <3>1 DEF Timed
    <3> QED
      BY <1>1, <3>1, <3>2
  <2>3. Lasting(S, e, e - 1) = 0
    BY LastingGoes
  <2>4. Begins(S, e) = S[e].t + 0
    BY <2>1, <2>2, <2>3 DEF Begins, Anchor
  <2> QED
    BY <1>1, <2>4
<1>6. ASSUME S[e].t = Unset, e = 1 PROVE Begins(S, e) = 0
  <2>1. Timed(S, e) = {}
    BY <1>6 DEF Timed
  <2>2. Lasting(S, 1, e - 1) = 0
    BY <1>6, LastingGoes
  <2> QED
    BY <2>1, <2>2 DEF Begins, Anchor
<1>7. ASSUME S[e].t = Unset, e # 1
      PROVE  e - 1 \in 1..Len(S) /\ Begins(S, e) = Begins(S, e - 1) + Lasts(S[e - 1])
  <2> DEFINE p == e - 1
             a == Anchor(S, p)
  <2>1. p \in 1..Len(S)
    BY <1>1, <1>7
  <2>2. Timed(S, e) = Timed(S, p)
    <3>1. \A x : x \in 1..e <=> x \in 1..p \/ x = e
      BY <1>1, <2>1
    <3> HIDE DEF p
    <3> QED
      BY <1>7, <3>1 DEF Timed
  <2>3. Anchor(S, e) = a
    BY <2>2 DEF Anchor
  <2>4. a \in 1..p
    BY <1>3, <2>1
  <2>5. a \in 1..Len(S) /\ p \in a..Len(S) /\ p - 1 \in (a - 1)..Len(S)
    <3> HIDE DEF a, p
    <3> QED
      BY <1>1, <2>1, <2>4
  <2> HIDE DEF a
  <2>6. Lasting(S, a, p) = Lasting(S, a, p - 1) + Lasts(S[p]) /\ Lasting(S, a, p - 1) \in Int
    <3> HIDE DEF p
    <3> QED
      BY <2>5, LastingGoes
  <2> DEFINE base == IF Timed(S, p) = {} THEN 0 ELSE S[a].t
  <2>7. base \in Int
    BY <1>1, <2>5
  <2>8. Begins(S, e) = base + Lasting(S, a, p) /\ Begins(S, p) = base + Lasting(S, a, p - 1)
    BY <2>2, <2>3 DEF Begins, a
  <2> HIDE DEF base
  <2>9. Begins(S, e) = Begins(S, p) + Lasts(S[p])
    <3>1. Lasts(S[p]) \in Int
      BY <1>1, <2>1
    <3> HIDE DEF p
    <3> QED
      BY <2>6, <2>7, <2>8, <3>1
  <2> QED
    BY <2>1, <2>9
<1> QED
  BY <1>4, <1>5, <1>6, <1>7

(* The expansion of the first k elements: each has its segments at its         *)
(* beginning and one duration after another, and the next is where the last    *)
(* ends.                                                                       *)
Expanded(S, k, acc) ==
    /\ acc \in Expansion /\ Len(acc.out) = Reach(S, k)
    /\ IF k = 0 THEN acc.next = 0 ELSE acc.next = Begins(S, k) + Lasts(S[k])
    /\ \A e \in 1..k : \A j \in 1..(S[e].r + 1) :
            acc.out[Reach(S, e - 1) + j] = Begins(S, e) + (j - 1) * S[e].d

(* One element more.                                                           *)
LEMMA ExpandedStep ==
    ASSUME NEW S \in Seq(SElement), NEW k \in 1..Len(S), NEW acc, Expanded(S, k - 1, acc)
    PROVE  Expanded(S, k, Expand(acc, S[k]))
<1> DEFINE s == S[k]
           t == IF s.t # Unset THEN s.t ELSE acc.next
           more == [j \in 1..(s.r + 1) |-> t + (j - 1) * s.d]
           b == Expand(acc, s)
<1>1. Len(S) \in Nat /\ k \in Nat /\ k >= 1 /\ s \in SElement /\ k - 1 \in 0..Len(S) /\ k \in 0..Len(S)
  OBVIOUS
<1>2. s.t \in Int /\ s.r \in Nat /\ s.d \in Int
  BY <1>1 DEF SElement
<1>3. acc \in Expansion /\ acc.out \in Seq(Int) /\ acc.next \in Int
  BY DEF Expanded, Expansion
<1>4. t = Begins(S, k) /\ t \in Int
  <2>1. CASE s.t # Unset
    BY <1>2, <2>1, BeginsWhere
  <2>2. CASE s.t = Unset /\ k = 1
    <3>1. acc.next = 0
      BY <2>2 DEF Expanded
    <3> QED
      BY <2>2, <3>1, BeginsWhere
  <2>3. CASE s.t = Unset /\ k # 1
    <3>1. k - 1 # 0
      BY <1>1, <2>3
    <3>2. acc.next = Begins(S, k - 1) + Lasts(S[k - 1])
      BY <3>1 DEF Expanded
    <3> QED
      BY <1>3, <2>3, <3>2, BeginsWhere
  <2> QED
    BY <2>1, <2>2, <2>3
<1>5. b = [next |-> t + (s.r + 1) * s.d, out |-> acc.out \o more]
  BY DEF Expand
<1>6. b \in Expansion
  BY <1>1, <1>3, ExpandType
<1> HIDE DEF s, t, b
<1>7. more \in Seq(Int) /\ Len(more) = s.r + 1
  <2> DEFINE m == s.r + 1
  <2>1. m \in Nat
    BY <1>2
  <2> HIDE DEF m
  <2>2. \A j \in 1..m : t + (j - 1) * s.d \in Int
    BY <1>2, <1>4, <2>1
  <2>3. more = [j \in 1..m |-> t + (j - 1) * s.d]
    BY DEF m
  <2> HIDE DEF more
  <2>4. more \in [1..m -> Int]
    BY <2>2, <2>3
  <2>5. more \in Seq(Int) /\ Len(more) = m
    BY <2>1, <2>4
  <2> QED
    BY <2>5 DEF m
<1>8. \A j \in 1..(s.r + 1) : more[j] = t + (j - 1) * s.d
  OBVIOUS
<1> HIDE DEF more
<1>9. /\ Len(b.out) = Len(acc.out) + Len(more)
      /\ \A i \in 1..Len(acc.out) : b.out[i] = acc.out[i]
      /\ \A j \in 1..Len(more) : b.out[Len(acc.out) + j] = more[j]
  <2>1. b.out = acc.out \o more
    BY <1>5
  <2>2. /\ Len(acc.out \o more) = Len(acc.out) + Len(more)
        /\ \A i \in 1..(Len(acc.out) + Len(more)) :
                (acc.out \o more)[i] = IF i <= Len(acc.out) THEN acc.out[i] ELSE more[i - Len(acc.out)]
    BY <1>3, <1>7, ConcatProperties
  <2> DEFINE m == Len(acc.out)
             l == Len(more)
  <2>3. m \in Nat /\ l \in Nat
    BY <1>3, <1>7
  <2> HIDE DEF m, l
  <2>4. \A i \in 1..m : i \in 1..(m + l) /\ i <= m
    BY <2>3
  <2>5. \A j \in 1..l : m + j \in 1..(m + l) /\ ~(m + j <= m) /\ (m + j) - m = j
    BY <2>3
  <2>6. ASSUME NEW i \in 1..m PROVE b.out[i] = acc.out[i]
    BY <2>1, <2>2, <2>4 DEF m, l
  <2>7. ASSUME NEW j \in 1..l PROVE b.out[m + j] = more[j]
    <3>1. b.out[m + j] = IF m + j <= m THEN acc.out[m + j] ELSE more[(m + j) - m]
      BY <2>1, <2>2, <2>5 DEF m, l
    <3> QED
      BY <2>5, <3>1
  <2> QED
    BY <2>1, <2>2, <2>6, <2>7 DEF m, l
<1>10. /\ Len(acc.out) = Reach(S, k - 1) /\ Reach(S, k) = Reach(S, k - 1) + s.r + 1
       /\ \A e \in 0..Len(S) : Reach(S, e) \in Nat
  BY <1>1, ReachGoes DEF Expanded, s
<1>11. Len(b.out) = Reach(S, k)
  <2>1. Reach(S, k - 1) \in Nat /\ s.r \in Nat
    BY <1>1, <1>2, <1>10
  <2>2. Len(b.out) = Reach(S, k - 1) + (s.r + 1)
    BY <1>7, <1>9, <1>10
  <2>3. Reach(S, k) = Reach(S, k - 1) + s.r + 1
    BY <1>10
  <2> QED
    BY <2>1, <2>2, <2>3
<1>12. b.next = Begins(S, k) + Lasts(S[k])
  BY <1>4, <1>5 DEF Lasts, s
<1>13. ASSUME NEW e \in 1..k, NEW j \in 1..(S[e].r + 1)
       PROVE  b.out[Reach(S, e - 1) + j] = Begins(S, e) + (j - 1) * S[e].d
  <2>1. CASE e = k
    <3>1. j \in 1..Len(more) /\ Reach(S, e - 1) = Len(acc.out)
      BY <1>7, <1>10, <1>13, <2>1 DEF s
    <3>2. b.out[Reach(S, e - 1) + j] = t + (j - 1) * s.d
      BY <1>7, <1>8, <1>9, <3>1
    <3> QED
      BY <1>4, <2>1, <3>2 DEF s
  <2>2. CASE e # k
    <3>1. e \in 1..(k - 1) /\ e \in 1..Len(S) /\ e - 1 \in 0..Len(S) /\ e \in 0..Len(S)
      BY <1>1, <2>2
    <3>2. acc.out[Reach(S, e - 1) + j] = Begins(S, e) + (j - 1) * S[e].d
      BY <3>1 DEF Expanded
    <3>3. Reach(S, e - 1) + j \in 1..Len(acc.out)
      <4>1. Reach(S, e) <= Reach(S, k - 1)
        <5> DEFINE K == {i \in 0..Len(S) : i < e \/ Reach(S, e) <= Reach(S, i)}
        <5>1. 0 \in K
          BY <1>1, <3>1
        <5>2. ASSUME NEW i \in 1..Len(S), i - 1 \in K PROVE i \in K
          <6>0. i \in 0..Len(S) /\ i - 1 \in 0..Len(S)
            BY <1>1
          <6>1. /\ i \in 0..Len(S) /\ Reach(S, i) \in Nat /\ Reach(S, i - 1) \in Nat
                /\ Reach(S, e) \in Nat
            BY <1>10, <3>1, <6>0
          <6>2. Reach(S, i) = Reach(S, i - 1) + S[i].r + 1
            BY ReachGoes
          <6>3. S[i].r \in Nat
            <7>1. S[i] \in SElement
              OBVIOUS
            <7> QED
              BY <7>1 DEF SElement
          <6>4. CASE i < e
            BY <6>1, <6>4
          <6>5. CASE i = e
            BY <6>1, <6>5
          <6>6. CASE i > e
            <7>1. ~(i - 1 < e)
              BY <1>1, <3>1, <6>6
            <7>2. Reach(S, e) <= Reach(S, i - 1)
              BY <5>2, <7>1
            <7> QED
              BY <6>1, <6>2, <6>3, <7>2
          <6> QED
            BY <1>1, <3>1, <6>4, <6>5, <6>6
        <5>3. k - 1 \in K
          <6> HIDE DEF K
          <6>1. \A i \in 0..Len(S) : i \in K
            BY <1>1, <5>1, <5>2, UpTo
          <6> QED
            BY <1>1, <6>1
        <5>4. ~(k - 1 < e)
          BY <1>1, <3>1
        <5> QED
          BY <5>3, <5>4
      <4>2. Reach(S, e) = Reach(S, e - 1) + S[e].r + 1 /\ S[e].r \in Nat
        <5>1. S[e] \in SElement
          BY <3>1
        <5> QED
          BY <3>1, <5>1, ReachGoes DEF SElement
      <4>3. /\ Reach(S, e) \in Nat /\ Reach(S, e - 1) \in Nat /\ Reach(S, k - 1) \in Nat
            /\ Len(acc.out) = Reach(S, k - 1)
        BY <1>1, <1>10, <3>1
      <4>4. j \in Nat /\ j >= 1 /\ j <= S[e].r + 1
        BY <1>13, <4>2
      <4>5. S[e].r \in Nat /\ Reach(S, e - 1) + j <= Reach(S, e - 1) + (S[e].r + 1)
        BY <4>2, <4>3, <4>4
      <4>6. Reach(S, e - 1) + j <= Reach(S, e)
        BY <4>2, <4>3, <4>4, <4>5
      <4>7. Reach(S, e - 1) + j \in Nat /\ Reach(S, e - 1) + j >= 1
        BY <4>3, <4>4
      <4> QED
        BY <4>1, <4>3, <4>6, <4>7
    <3> QED
      BY <1>9, <3>2, <3>3
  <2> QED
    BY <2>1, <2>2
<1>14. k # 0
  BY <1>1
<1> QED
  BY <1>6, <1>11, <1>12, <1>13, <1>14 DEF Expanded, b, s

(* A SegmentTimeline is read as the standard has it: each segment begins at the *)
(* repetition of the element that reaches as far.                              *)
LEMMA TimelineIsRead ==
    ASSUME NEW S \in Seq(SElement)
    PROVE  LET times == calculateSampleTimesFromSegmentTimeline(S)
               count == FoldLeft(LAMBDA n, s : n + s.r + 1, 0, S)
           IN  /\ count \in Nat /\ Len(times) = count + 1
               /\ \A n \in 1..count : times[n] = TimelineStart(S, n) /\ times[n] \in Int
<1> DEFINE times == calculateSampleTimesFromSegmentTimeline(S)
           count == FoldLeft(LAMBDA n, s : n + s.r + 1, 0, S)
           l == Len(S)
           start == [next |-> 0, out |-> <<>>]
<1>1. l \in Nat /\ start \in Expansion /\ \A k \in 1..l : S[k] \in SElement
  BY DEF Expansion
<1>2. /\ Reach(S, 0) = 0 /\ \A k \in 1..l : Reach(S, k) = Reach(S, k - 1) + S[k].r + 1
      /\ \A k \in 0..l : Reach(S, k) \in Nat
      /\ count = Reach(S, l)
  BY ReachGoes
<1> HIDE DEF start
<1>3. PICK a : IsChain(a, l, Expansion, start, Expanding(S)) /\ FoldLeft(Expand, start, S) = a[l]
  BY <1>1, ExpansionGoes
<1>4. times = Append(a[l].out, a[l].next)
  <2>1. times = Append(FoldLeft(Expand, start, S).out, FoldLeft(Expand, start, S).next)
    BY DEF calculateSampleTimesFromSegmentTimeline, Expand, start
  <2> QED
    BY <1>3, <2>1
<1> HIDE DEF times, count
<1>5. Expanded(S, 0, a[0])
  <2>1. a[0] = start
    BY <1>3 DEF IsChain
  <2>2. start.next = 0 /\ start.out = <<>> /\ Len(<<>>) = 0
    BY DEF start
  <2>3. \A e : ~(e \in 1..0)
    OBVIOUS
  <2> QED
    BY <1>1, <1>2, <2>1, <2>2, <2>3 DEF Expanded
<1>6. ASSUME NEW k \in 1..l, Expanded(S, k - 1, a[k - 1]) PROVE Expanded(S, k, a[k])
  <2>1. a[k - 1] \in Expansion
    BY <1>6 DEF Expanded
  <2>2. a[k] = Expanding(S)[k][a[k - 1]]
    BY <1>3 DEF IsChain
  <2>3. a[k] = Expand(a[k - 1], S[k])
    BY <2>1, <2>2 DEF Expanding
  <2> QED
    BY <1>6, <2>3, ExpandedStep
<1>7. Expanded(S, l, a[l])
  <2> DEFINE K == {k \in 0..l : Expanded(S, k, a[k])}
  <2>1. 0 \in K
    BY <1>1, <1>5
  <2>2. ASSUME NEW k \in 1..l, k - 1 \in K PROVE k \in K
    <3>1. k \in 0..l
      BY <1>1
    <3> QED
      BY <1>6, <2>2, <3>1
  <2>3. l \in K
    <3> HIDE DEF K, l
    <3>1. \A k \in 0..l : k \in K
      BY <1>1, <2>1, <2>2, UpTo
    <3> QED
      BY <1>1, <3>1
  <2> QED
    BY <2>3
<1>8. a[l].out \in Seq(Int) /\ a[l].next \in Int /\ Len(a[l].out) = count
  BY <1>2, <1>7 DEF Expanded, Expansion
<1> HIDE DEF l
<1>9. /\ count \in Nat /\ Len(times) = count + 1
      /\ \A n \in 1..count : times[n] = a[l].out[n] /\ times[n] \in Int
  <2> DEFINE out == a[l].out
  <2>1. out \in Seq(Int) /\ times = Append(out, a[l].next) /\ Len(out) = count /\ Len(out) \in Nat
    BY <1>4, <1>8
  <2> HIDE DEF out
  <2> QED
    BY <1>8, <2>1 DEF out
<1>10. ASSUME NEW n \in 1..count PROVE a[l].out[n] = TimelineStart(S, n)
  <2> DEFINE reach(e) == Reach(S, e)
             reachesFirst(x) == reach(x) >= n /\ (x = 1 \/ reach(x - 1) < n)
             e == CHOOSE x \in DOMAIN S : reachesFirst(x)
  <2>1. DOMAIN S = 1..l
    BY DEF l
  <2>2. \E x \in 1..l : reachesFirst(x)
    <3> DEFINE far == {x \in 0..l : Reach(S, x) >= n}
    <3>1. l \in far
      BY <1>1, <1>2
    <3>2. far \in SUBSET Nat
      BY <1>1
    <3>3. PICK x \in far : \A y \in far : x <= y
      <4> HIDE DEF far
      <4> QED
        BY <3>1, <3>2, LeastExists
    <3>4. x \in 0..l /\ Reach(S, x) >= n
      OBVIOUS
    <3>5. x # 0
      BY <1>2, <1>9, <3>4
    <3>6. x \in 1..l /\ x - 1 \in 0..l /\ ~(x <= x - 1)
      BY <1>1, <3>4, <3>5
    <3>7. ~(Reach(S, x - 1) >= n)
      BY <3>3, <3>6
    <3>8. Reach(S, x - 1) < n
      <4>1. Reach(S, x - 1) \in Nat /\ n \in Nat
        BY <1>2, <1>9, <3>6
      <4> QED
        BY <3>7, <4>1
    <3> QED
      BY <3>4, <3>6, <3>8
  <2>3. e \in 1..l /\ reachesFirst(e)
    <3> HIDE DEF reachesFirst
    <3>1. \E x \in DOMAIN S : reachesFirst(x)
      BY <2>1, <2>2
    <3> QED
      BY <2>1, <3>1
  <2>4. TimelineStart(S, n) = Begins(S, e) + (n - 1 - Reach(S, e - 1)) * S[e].d
    BY DEF TimelineStart, Begins, Anchor, Timed, Lasting, Reach
  <2> HIDE DEF e
  <2> DEFINE j == n - Reach(S, e - 1)
  <2>5. /\ Reach(S, e) \in Nat /\ Reach(S, e - 1) \in Nat /\ Reach(S, e) = Reach(S, e - 1) + S[e].r + 1
        /\ n \in Nat /\ n >= 1
    <3>1. e \in 0..l /\ e - 1 \in 0..l
      BY <1>1, <2>3
    <3> QED
      BY <1>2, <1>9, <2>3, <3>1
  <2>6. S[e].r \in Nat
    BY <1>1, <2>3 DEF SElement
  <2>7. Reach(S, e - 1) < n
    <3>1. CASE e = 1
      <4>1. e - 1 = 0
        BY <3>1
      <4>2. Reach(S, e - 1) = 0
        BY <1>2, <4>1
      <4> QED
        BY <2>5, <4>2
    <3>2. CASE e # 1
      BY <2>3, <3>2
    <3> QED
      BY <3>1, <3>2
  <2>8. j \in 1..(S[e].r + 1) /\ Reach(S, e - 1) + j = n
    BY <2>3, <2>5, <2>6, <2>7
  <2>9. j - 1 = n - 1 - Reach(S, e - 1)
    BY <2>5
  <2> HIDE DEF j
  <2>10. a[l].out[Reach(S, e - 1) + j] = Begins(S, e) + (j - 1) * S[e].d
    BY <1>7, <2>3, <2>8 DEF Expanded
  <2> QED
    BY <2>4, <2>8, <2>9, <2>10
<1> QED
  BY <1>9, <1>10 DEF times, count

(* The multiples of d below L are as many as segments of that duration take to *)
(* cover L.                                                                    *)
LEMMA Multiples ==
    ASSUME NEW L \in Int, NEW d \in Nat, d > 0
    PROVE  LET n == (L + d - 1) \div d IN
           /\ n \in Int
           /\ Cardinality({i \in 0..(L - 1) : i % d = 0}) = IF n > 0 THEN n ELSE 0
<1> DEFINE x == L + d - 1
           n == x \div d
           M == {i \in 0..(L - 1) : i % d = 0}
<1>1. x \in Int /\ n \in Int /\ d * n <= x /\ x < d * n + d
  OBVIOUS
<1> HIDE DEF n
<1>2. d * n \in Int /\ d * n <= L + d - 1 /\ L - 1 < d * n
  BY <1>1
<1>3. CASE n <= 0
  <2>1. d * n <= d * 0
    BY <1>1, <1>3
  <2>2. L - 1 < 0
    BY <1>2, <2>1
  <2>3. M = {}
    BY <2>2
  <2> QED
    BY <1>1, <1>3, <2>3, FS_EmptySet DEF n
<1>4. CASE n > 0
  <2> DEFINE f == [k \in 1..n |-> d * (k - 1)]
  <2>1. ASSUME NEW k \in 1..n PROVE d * (k - 1) \in M
    <3>1. k - 1 \in Nat /\ k <= n
      BY <1>1
    <3> DEFINE j == k - 1
    <3>2. j \in Nat /\ j <= n - 1
      BY <1>1, <3>1
    <3> HIDE DEF j
    <3>3. d * j <= d * (n - 1) /\ d * j \in Nat /\ (d * j) % d = 0
      BY <1>1, <3>2
    <3>4. d * (n - 1) = d * n - d
      BY <1>1
    <3>5. d * j <= L - 1
      BY <1>2, <3>3, <3>4
    <3>6. d * j \in 0..(L - 1)
      BY <3>3, <3>5
    <3> QED
      BY <3>3, <3>6 DEF j
  <2>2. ASSUME NEW k \in 1..n, NEW j \in 1..n, d * (k - 1) = d * (j - 1) PROVE k = j
    <3> DEFINE a == k - 1
               b == j - 1
    <3>1. a \in Int /\ b \in Int /\ d * a = d * b
      BY <1>1, <2>2
    <3> HIDE DEF a, b
    <3>2. a = b
      BY <3>1
    <3> QED
      BY <1>1, <3>2 DEF a, b
  <2>3. ASSUME NEW i \in M PROVE \E k \in 1..n : i = d * (k - 1)
    <3> DEFINE q == i \div d
    <3>1. i \in Nat /\ i <= L - 1 /\ i % d = 0
      OBVIOUS
    <3>2. i = d * q /\ q \in Int
      BY <3>1
    <3> HIDE DEF q
    <3>3. q >= 0
      BY <3>1, <3>2
    <3>4. d * q < d * n
      BY <1>2, <3>1, <3>2
    <3>5. q < n
      BY <1>1, <3>2, <3>4
    <3>6. q + 1 \in 1..n /\ (q + 1) - 1 = q
      BY <1>1, <3>2, <3>3, <3>5
    <3> QED
      BY <3>2, <3>6
  <2> HIDE DEF M
  <2>4. f \in Bijection(1..n, M)
    <3>1. f \in [1..n -> M]
      BY <2>1
    <3>2. \A k, j \in 1..n : f[k] = f[j] => k = j
      BY <2>2
    <3>3. \A i \in M : \E k \in 1..n : f[k] = i
      BY <2>3
    <3> HIDE DEF f
    <3> QED
      BY <3>1, <3>2, <3>3 DEF Bijection, Injection, Surjection, IsInjective
  <2>5. n \in Nat
    BY <1>1, <1>4
  <2>6. Cardinality(M) = n
    <3> HIDE DEF f
    <3>1. ExistsBijection(1..n, M)
      BY <2>4 DEF ExistsBijection
    <3> QED
      BY <2>5, <3>1, FS_CountingElements
  <2> QED
    BY <1>1, <1>4, <2>6 DEF n, M
<1> QED
  BY <1>1, <1>3, <1>4

(* Segments of a fixed duration are read as the standard has it, where the     *)
(* media begins at 0.                                                          *)
LEMMA FixedIsRead ==
    ASSUME NEW d \in Nat, d > 0, NEW numSegments \in Nat \cup {Unset}, NEW range,
           range.start \in Int, range.end \in Int, range.end # Unset
    PROVE  LET times == calculateFixedSegmentSampleTimes(d, numSegments, range)
               count == IF numSegments # Unset THEN numSegments
                        ELSE Cardinality({i \in 0..(range.end - range.start - 1) : i % d = 0})
           IN  /\ count \in Nat /\ Len(times) = count + 1
               /\ \A n \in 1..count : times[n] = (n - 1) * d
<1> DEFINE L == range.end - range.start
           n == IF numSegments # Unset THEN numSegments ELSE (L + d - 1) \div d
           count == IF numSegments # Unset THEN numSegments
                    ELSE Cardinality({i \in 0..(L - 1) : i % d = 0})
           starts == [i \in 1..n |-> (i - 1) * d]
           times == calculateFixedSegmentSampleTimes(d, numSegments, range)
<1>1. L \in Int
  OBVIOUS
<1>2. times = Append(starts, range.end)
  BY DEF calculateFixedSegmentSampleTimes
<1> HIDE DEF L, times
<1>3. n \in Int /\ count = IF n > 0 THEN n ELSE 0
  <2>1. CASE numSegments # Unset
    <3>1. numSegments \in Nat
      BY <2>1
    <3> QED
      BY <2>1, <3>1
  <2>2. CASE numSegments = Unset
    BY <1>1, <2>2, Multiples
  <2> QED
    BY <2>1, <2>2
<1> HIDE DEF n, count
<1>4. count \in Nat /\ 1..n = 1..count
  BY <1>3
<1>5. starts = [i \in 1..count |-> (i - 1) * d]
  BY <1>4
<1> HIDE DEF starts
<1>6. starts \in Seq(Int) /\ Len(starts) = count /\ \A i \in 1..count : starts[i] = (i - 1) * d
  <2>1. \A i \in 1..count : (i - 1) * d \in Int
    BY <1>4
  <2> QED
    BY <1>4, <1>5, <2>1
<1>7. Len(times) = count + 1 /\ \A i \in 1..count : times[i] = starts[i]
  BY <1>2, <1>4, <1>6
<1> QED
  BY <1>4, <1>6, <1>7 DEF times, count, L

(* Durations that follow one another are read as the standard has them.        *)
LEMMA DurationsAreRead ==
    ASSUME NEW durations \in Seq(Int), NEW first \in Int
    PROVE  LET times == getSidxSampleTimes(first, durations) IN
           /\ Len(times) = Len(durations) + 1
           /\ \A n \in 1..Len(durations) :
                LET sum == FoldLeft(LAMBDA t, d : t + d, 0, SubSeq(durations, 1, n - 1)) IN
                times[n] = first + sum /\ sum \in Int
<1> DEFINE l == Len(durations)
           times == getSidxSampleTimes(first, durations)
<1>1. l \in Nat
  OBVIOUS
<1>2. times = [i \in 1..(l + 1) |->
                    FoldLeft(LAMBDA t, d : t + d, first, SubSeq(durations, 1, i - 1))]
  BY DEF getSidxSampleTimes
<1>3. ASSUME NEW n \in 1..(l + 1)
      PROVE  LET sum == FoldLeft(LAMBDA t, d : t + d, 0, SubSeq(durations, 1, n - 1)) IN
             times[n] = first + sum /\ sum \in Int
  <2> DEFINE q == SubSeq(durations, 1, n - 1)
  <2>1. \A i \in 1..(n - 1) : durations[i] \in Int
    BY <1>1
  <2>2. q \in Seq(Int)
    BY <1>1, <2>1, SubSeqProperties
  <2>3. times[n] = FoldLeft(LAMBDA t, d : t + d, first, q)
    BY <1>2
  <2> HIDE DEF q, times
  <2>4. /\ FoldLeft(LAMBDA t, d : t + d, 0, q) \in Int
        /\ FoldLeft(LAMBDA t, d : t + d, first, q) = first + FoldLeft(LAMBDA t, d : t + d, 0, q)
    BY <2>2, SumFrom
  <2> QED
    BY <2>3, <2>4 DEF q
<1>4. Len(times) = l + 1
  <2>1. \A n \in 1..(l + 1) : times[n] \in Int
    <3>1. ASSUME NEW n \in 1..(l + 1) PROVE times[n] \in Int
      <4> DEFINE sum == FoldLeft(LAMBDA t, d : t + d, 0, SubSeq(durations, 1, n - 1))
      <4>1. times[n] = first + sum /\ sum \in Int
        BY <1>3
      <4> HIDE DEF sum, times
      <4> QED
        BY <4>1
    <3> HIDE DEF times
    <3> QED
      BY <3>1
  <2>2. DOMAIN times = 1..(l + 1) /\ times = [n \in DOMAIN times |-> times[n]]
    BY <1>2
  <2> HIDE DEF l, times
  <2>3. times \in [1..(l + 1) -> Int]
    BY <2>1, <2>2
  <2> QED
    BY <1>1, <2>3
<1>5. \A n \in 1..l : n \in 1..(l + 1)
  BY <1>1
<1> HIDE DEF times
<1> QED
  BY <1>3, <1>4, <1>5 DEF times

(* Each form of a manifest is read as the standard has it.                     *)
LEMMA FormIsRead ==
    ASSUME NEW form, IsForm(form), form.presentationTimeOffset \in Int,
           NEW range, range.start \in Int, range.end \in Int, sampleTimes(form, range) # <<>>
    PROVE  LET times == sampleTimes(form, range)
               count == SegmentCount(form, range)
           IN  /\ count = Len(times) - 1
               /\ \A n \in 1..count :
                    sampleToMpdTime(times[n], range.start, form.presentationTimeOffset)
                        = SegmentStart(form, range, n)
<1> DEFINE times == sampleTimes(form, range)
           count == SegmentCount(form, range)
           offset == form.presentationTimeOffset
<1>1. CASE form.kind = "timeline" /\ form.S \in Seq([t : Int, d : Int, r : Nat])
  <2>1. form.S \in Seq(SElement)
    BY <1>1 DEF SElement
  <2>2. /\ times = calculateSampleTimesFromSegmentTimeline(form.S)
        /\ count = FoldLeft(LAMBDA n, s : n + s.r + 1, 0, form.S)
        /\ \A n : SegmentStart(form, range, n) = range.start + (TimelineStart(form.S, n) - offset)
    BY <1>1 DEF sampleTimes, SegmentCount, SegmentStart
  <2> HIDE DEF times, count
  <2>3. /\ count \in Nat /\ Len(times) = count + 1
        /\ \A n \in 1..count : times[n] = TimelineStart(form.S, n) /\ times[n] \in Int
    BY <2>1, <2>2, TimelineIsRead
  <2>4. \A n \in 1..count : sampleToMpdTime(times[n], range.start, offset) = SegmentStart(form, range, n)
    BY <2>2, <2>3 DEF sampleToMpdTime
  <2> QED
    BY <2>3, <2>4 DEF times, count
<1>2. CASE /\ form.kind = "fixed" /\ form.d \in Nat \ {0} /\ form.count \in Nat \cup {Unset}
           /\ form.presentationTimeOffset = 0
  <2> DEFINE d == form.d
             numSegments == form.count
  <2>1. /\ times = calculateFixedSegmentSampleTimes(d, numSegments, range)
        /\ count = IF numSegments # Unset THEN numSegments
                   ELSE Cardinality({i \in 0..(range.end - range.start - 1) : i % d = 0})
        /\ \A n : SegmentStart(form, range, n) = range.start + (n - 1) * d
    <3>1. times = calculateFixedSegmentSampleTimes(d, numSegments, range)
      BY <1>2 DEF sampleTimes
    <3>2. count = IF numSegments # Unset THEN numSegments
                  ELSE Cardinality({i \in 0..(range.end - range.start - 1) : i % d = 0})
      BY <1>2 DEF SegmentCount
    <3>3. \A n : SegmentStart(form, range, n) = range.start + (n - 1) * d
      BY <1>2 DEF SegmentStart
    <3> QED
      BY <3>1, <3>2, <3>3
  <2>0. d \in Nat /\ d > 0 /\ numSegments \in Nat \cup {Unset}
    BY <1>2
  <2>e. range.end # Unset
    BY <2>1 DEF calculateFixedSegmentSampleTimes, NoTimes
  <2> HIDE DEF times, count, d, numSegments
  <2>2. /\ count \in Nat /\ Len(times) = count + 1
        /\ \A n \in 1..count : times[n] = (n - 1) * d
    <3>1. LET t == calculateFixedSegmentSampleTimes(d, numSegments, range)
              c == IF numSegments # Unset THEN numSegments
                   ELSE Cardinality({i \in 0..(range.end - range.start - 1) : i % d = 0})
          IN  /\ c \in Nat /\ Len(t) = c + 1
              /\ \A n \in 1..c : t[n] = (n - 1) * d
      BY <2>0, <2>e, FixedIsRead, ZenonT(60)
    <3> QED
      BY <2>1, <3>1
  <2>3. ASSUME NEW n \in 1..count
        PROVE  sampleToMpdTime(times[n], range.start, offset) = SegmentStart(form, range, n)
    <3> DEFINE x == (n - 1) * d
    <3>1. x \in Int
      BY <2>0, <2>2
    <3>2. times[n] = x /\ SegmentStart(form, range, n) = range.start + x
      BY <2>1, <2>2
    <3> HIDE DEF x
    <3> QED
      BY <1>2, <3>1, <3>2 DEF sampleToMpdTime
  <2> QED
    BY <2>2, <2>3 DEF times, count
<1>3. CASE /\ form.kind \in {"sidx", "playlist"} /\ form.first \in Int /\ form.durations \in Seq(Int)
           /\ form.kind = "playlist" => form.first = 0
  <2> DEFINE first == form.first
             durations == form.durations
  <2>1. /\ times = getSidxSampleTimes(first, durations)
        /\ count = Len(durations)
        /\ \A n : SegmentStart(form, range, n) = range.start + (first - offset
                    + FoldLeft(LAMBDA t, d : t + d, 0, SubSeq(durations, 1, n - 1)))
    <3>1. CASE form.kind = "sidx"
      BY <3>1 DEF sampleTimes, SegmentCount, SegmentStart
    <3>2. CASE form.kind = "playlist"
      BY <1>3, <3>2 DEF sampleTimes, SegmentCount, SegmentStart, buildSegmentTimeline
    <3> QED
      BY <1>3, <3>1, <3>2
  <2> HIDE DEF times, count, first, durations
  <2>2. first \in Int /\ durations \in Seq(Int)
    BY <1>3 DEF first, durations
  <2>3. /\ Len(times) = Len(durations) + 1
        /\ \A n \in 1..Len(durations) :
             LET sum == FoldLeft(LAMBDA t, d : t + d, 0, SubSeq(durations, 1, n - 1)) IN
             times[n] = first + sum /\ sum \in Int
    BY <2>1, <2>2, DurationsAreRead
  <2>4. Len(times) = count + 1 /\ count \in Nat
    <3>1. Len(times) = Len(durations) + 1
      BY <2>3
    <3>2. Len(durations) \in Nat
      BY <2>2
    <3> QED
      BY <2>1, <3>1, <3>2
  <2>5. ASSUME NEW n \in 1..count
        PROVE  sampleToMpdTime(times[n], range.start, offset) = SegmentStart(form, range, n)
    <3> DEFINE sum == FoldLeft(LAMBDA t, d : t + d, 0, SubSeq(durations, 1, n - 1))
    <3>1. times[n] = first + sum /\ sum \in Int
      BY <2>1, <2>3
    <3>2. SegmentStart(form, range, n) = range.start + (first - offset + sum)
      BY <2>1
    <3> HIDE DEF sum
    <3> QED
      BY <2>2, <3>1, <3>2 DEF sampleToMpdTime
  <2> QED
    BY <2>4, <2>5 DEF times, count
<1>4. CASE form.kind = "cues" /\ form.times \in Seq(Int)
  <2>1. /\ times = Append(form.times, range.end) /\ count = Len(form.times)
        /\ \A n : SegmentStart(form, range, n) = range.start + (form.times[n] - offset)
    BY <1>4 DEF sampleTimes, SegmentCount, SegmentStart, createSegmentsFromWebmCues, NoTimes
  <2> HIDE DEF times, count
  <2>2. /\ Len(times) = count + 1 /\ count \in Nat
        /\ \A n \in 1..count : times[n] = form.times[n] /\ times[n] \in Int
    BY <1>4, <2>1
  <2>3. \A n \in 1..count : sampleToMpdTime(times[n], range.start, offset) = SegmentStart(form, range, n)
    BY <2>1, <2>2 DEF sampleToMpdTime
  <2> QED
    BY <2>2, <2>3 DEF times, count
<1> QED
  BY <1>1, <1>2, <1>3, <1>4 DEF IsForm

--------------------------------------------------------------------------------
\* Lookups

(* Indices of a list that come with all smaller ones are as many as the        *)
(* greatest of them.                                                           *)
LEMMA Prefix ==
    ASSUME NEW n \in Nat, NEW K \in SUBSET (1..n),
           \A a, b \in 1..n : a <= b /\ b \in K => a \in K
    PROVE  Cardinality(K) \in 0..n /\ K = 1..Cardinality(K)
<1>1. CASE K = {}
  BY <1>1, FS_EmptySet
<1>2. CASE K # {}
  <2>1. Max(K) \in K /\ \A j \in K : j <= Max(K)
    BY <1>2, MaxIs
  <2> DEFINE m == Max(K)
  <2>2. m \in 1..n /\ m \in K /\ \A j \in K : j <= m
    BY <2>1
  <2> HIDE DEF m
  <2>3. K = 1..m
    <3>1. ASSUME NEW j \in K PROVE j \in 1..m
      BY <2>2
    <3>2. ASSUME NEW j \in 1..m PROVE j \in K
      <4>1. j \in 1..n /\ j <= m
        BY <2>2
      <4> QED
        BY <2>2, <4>1
    <3> QED
      BY <3>1, <3>2
  <2>4. Cardinality(1..m) = m
    <3>1. 1 \in Int /\ m \in Int /\ m \in Nat /\ m >= 1
      BY <2>2
    <3>2. Cardinality(1..m) = IF 1 > m THEN 0 ELSE m - 1 + 1
      BY <3>1, FS_Interval
    <3> QED
      BY <3>1, <3>2
  <2> QED
    BY <2>2, <2>3, <2>4
<1> QED
  BY <1>1, <1>2

IsChronological(segments) ==
    /\ segments \in Seq([number : Nat \ {0}, start : Int, end : Int])
    /\ \A a, b \in DOMAIN segments :
            a <= b => segments[a].start <= segments[b].start /\ segments[a].end <= segments[b].end

(* A lookup finds a segment that begins in time and has not ended; it finds    *)
(* none where there is none.                                                   *)
LEMMA LookupIs ==
    ASSUME NEW segments, IsChronological(segments), NEW t \in Int, NEW affordance \in Nat
    PROVE  LET s == getSegmentAtTime(t, segments, affordance) IN
           /\ s.start \in Int /\ s.end \in Int
           /\ s # NoSegment => s.start <= t + affordance /\ s.end > t
           /\ s = NoSegment => \A x \in Range(segments) : x.start > t \/ x.end <= t
<1> DEFINE K == {k \in DOMAIN segments : segments[k].start <= t + affordance}
           m == Cardinality(K)
           s == getSegmentAtTime(t, segments, affordance)
<1>1. /\ Len(segments) \in Nat /\ DOMAIN segments = 1..Len(segments)
      /\ \A k \in DOMAIN segments : segments[k] \in [number : Nat \ {0}, start : Int, end : Int]
  <2> DEFINE T == [number : Nat \ {0}, start : Int, end : Int]
  <2>1. segments \in Seq(T)
    BY DEF IsChronological
  <2> HIDE DEF T
  <2>2. /\ Len(segments) \in Nat /\ DOMAIN segments = 1..Len(segments)
        /\ \A k \in DOMAIN segments : segments[k] \in T
    BY <2>1
  <2> QED
    BY <2>2 DEF T
<1>2. \A k \in DOMAIN segments :
        segments[k].number # 0 /\ segments[k].start \in Int /\ segments[k].end \in Int
  BY <1>1
<1>3. m \in 0..Len(segments) /\ K = 1..m
  <2>1. K \in SUBSET (1..Len(segments))
    BY <1>1
  <2>2. \A a, b \in 1..Len(segments) : a <= b /\ b \in K => a \in K
    <3>1. ASSUME NEW a \in 1..Len(segments), NEW b \in 1..Len(segments), a <= b, b \in K
          PROVE  a \in K
      <4>1. segments[a].start <= segments[b].start /\ segments[b].start <= t + affordance
        BY <1>1, <3>1 DEF IsChronological
      <4> QED
        BY <1>1, <1>2, <4>1
    <3> QED
      BY <3>1
  <2> HIDE DEF K
  <2> QED
    BY <1>1, <2>1, <2>2, Prefix
<1>4. s = IF m > 0 /\ t < segments[m].end THEN segments[m] ELSE NoSegment
  BY DEF getSegmentAtTime
<1>5. m > 0 => m \in K /\ m \in DOMAIN segments
  <2> HIDE DEF K, m
  <2> QED
    BY <1>1, <1>3
<1>6. \A k \in DOMAIN segments : k \in K <=> segments[k].start <= t + affordance
  OBVIOUS
<1> HIDE DEF K, m, s
<1>7. CASE m > 0 /\ t < segments[m].end
  <2>1. s = segments[m] /\ s # NoSegment
    BY <1>2, <1>4, <1>5, <1>7 DEF NoSegment
  <2> QED
    BY <1>2, <1>5, <1>6, <1>7, <2>1 DEF s
<1>8. CASE ~(m > 0 /\ t < segments[m].end)
  <2>1. s = NoSegment /\ s.start \in Int /\ s.end \in Int
    BY <1>4, <1>8 DEF NoSegment
  <2>2. ASSUME NEW x \in Range(segments) PROVE x.start > t \/ x.end <= t
    <3>1. PICK k \in DOMAIN segments : x = segments[k]
      BY DEF Range
    <3>2. CASE k \in K
      <4>1. k \in Int /\ m \in Int /\ k <= m /\ m > 0
        BY <1>1, <1>3, <3>2
      <4>2. segments[k].end <= segments[m].end
        BY <1>5, <4>1 DEF IsChronological
      <4>3. segments[m].end <= t
        BY <1>2, <1>5, <1>8, <4>1
      <4> QED
        BY <1>2, <1>5, <3>1, <4>1, <4>2, <4>3
    <3>3. CASE k \notin K
      BY <1>2, <1>6, <3>1, <3>3
    <3> QED
      BY <3>2, <3>3
  <2> QED
    BY <2>1, <2>2 DEF s
<1> QED
  BY <1>7, <1>8

(* A lookup of a period finds one of the manifest or none.                     *)
LEMMA PeriodIs ==
    ASSUME NEW m \in DOMAIN Manifests, NEW t,
           getMediaPeriodAtTime(Manifests[m], t) # 0
    PROVE  getMediaPeriodAtTime(Manifests[m], t) \in DOMAIN Manifests[m].periods
<1> DEFINE periods == Manifests[m].periods
           started == {i \in DOMAIN periods : calculatePeriodStart(Manifests[m])[i] <= t}
           n == Cardinality(started)
<1>1. Len(periods) \in Nat /\ DOMAIN periods = 1..Len(periods)
  <2>1. IsList(periods)
    BY StreamingAssumption
  <2> QED
    BY <2>1 DEF IsList
<1>2. IsFiniteSet(1..Len(periods)) /\ Cardinality(1..Len(periods)) = Len(periods)
  <2>1. 1 \in Int /\ Len(periods) \in Int
    BY <1>1
  <2>2. /\ IsFiniteSet(1..Len(periods))
        /\ Cardinality(1..Len(periods)) = IF 1 > Len(periods) THEN 0 ELSE Len(periods) - 1 + 1
    BY <2>1, FS_Interval
  <2> QED
    BY <1>1, <2>2
<1>3. started \subseteq 1..Len(periods)
  BY <1>1
<1> HIDE DEF started
<1>4. n \in Nat /\ n <= Len(periods)
  <2>1. IsFiniteSet(started) /\ Cardinality(started) <= Cardinality(1..Len(periods))
    BY <1>2, <1>3, FS_Subset
  <2>2. Cardinality(started) \in Nat
    BY <2>1, FS_CardinalityType
  <2> QED
    BY <1>2, <2>1, <2>2
<1>5. getMediaPeriodAtTime(Manifests[m], t) \in {n, 0}
  BY DEF getMediaPeriodAtTime, started
<1> QED
  BY <1>1, <1>4, <1>5

(* It spans the time.                                                          *)
LEMMA PeriodSpans ==
    ASSUME Chronological, NEW m \in DOMAIN Manifests, NEW t \in Int,
           getMediaPeriodAtTime(Manifests[m], t) # 0
    PROVE  LET range == periodRange(Manifests[m], getMediaPeriodAtTime(Manifests[m], t))
           IN  range.start <= t /\ (range.end = Unset \/ t < range.end)
<1> DEFINE periods == Manifests[m].periods
           starts == calculatePeriodStart(Manifests[m])
           started == {i \in DOMAIN periods : starts[i] <= t}
           n == Cardinality(started)
           found == getMediaPeriodAtTime(Manifests[m], t)
<1>1. Len(periods) \in Nat /\ DOMAIN periods = 1..Len(periods)
  <2>1. IsList(periods)
    BY StreamingAssumption
  <2> QED
    BY <2>1 DEF IsList
<1>2. \A i, j \in 1..Len(periods) : i <= j => starts[i] <= starts[j]
  BY <1>1 DEF Chronological
<1>3. \A i \in 1..Len(periods) : starts[i] \in Int
  BY <1>1 DEF Chronological, periodRange
<1> HIDE DEF starts
<1>4. n \in 0..Len(periods) /\ started = 1..n
  <2>1. started \in SUBSET (1..Len(periods))
    BY <1>1
  <2>2. \A a, b \in 1..Len(periods) : a <= b /\ b \in started => a \in started
    <3>1. ASSUME NEW a \in 1..Len(periods), NEW b \in 1..Len(periods), a <= b, b \in started
          PROVE  a \in started
      <4>1. starts[a] <= starts[b] /\ starts[b] <= t /\ starts[a] \in Int /\ starts[b] \in Int
        BY <1>2, <1>3, <3>1
      <4> QED
        BY <1>1, <4>1
    <3> QED
      BY <3>1
  <2> HIDE DEF started
  <2> QED
    BY <1>1, <2>1, <2>2, Prefix
<1>5. found = IF n > 0 /\ isBefore(t, calculatePeriodEnd(Manifests[m], n)) THEN n ELSE 0
  BY DEF getMediaPeriodAtTime, starts
<1>6. found = n /\ n > 0 /\ isBefore(t, calculatePeriodEnd(Manifests[m], n))
  BY <1>5
<1>7. n \in started
  <2> HIDE DEF started, n
  <2> QED
    BY <1>4, <1>6
<1>8. starts[n] <= t
  BY <1>7
<1> QED
  BY <1>6, <1>8 DEF periodRange, isBefore, starts

--------------------------------------------------------------------------------
\* The invariant

(* What the assumptions say of the manifest and the options in use.            *)
LEMMA InUse ==
    ASSUME StreamingTypeOK
    PROVE  /\ options \in OptionType
           /\ \A i \in DOMAIN mpd.periods : AreQualities(qualities(i))
BY StreamingAssumption DEF StreamingTypeOK, options, mpd, qualities

(* Where the segments of a form begin, and the last one ends.                  *)
Boundaries(form, range) ==
    [n \in DOMAIN sampleTimes(form, range) |->
        sampleToMpdTime(sampleTimes(form, range)[n], range.start, form.presentationTimeOffset)]

(* Segments in order, each from one boundary to the next within the range.     *)
AreBetween(segments, at, count, range) ==
    /\ count \in Nat /\ at \in [1..(count + 1) -> Int] /\ range.start \in Int /\ range.end \in Int
    /\ IsChronological(segments) /\ DOMAIN segments = 1..count
    /\ \A n \in 1..count :
        /\ segments[n].number = n
        /\ segments[n].start = Greater(range.start, at[n])
        /\ segments[n].end = IF range.end = Unset THEN at[n + 1] ELSE Lesser(range.end, at[n + 1])

(* The segments of a quality lie so.                                           *)
LEMMA TimelineIs ==
    ASSUME Chronological, NEW m \in DOMAIN Manifests, NEW i \in DOMAIN Manifests[m].periods,
           NEW k \in DOMAIN Manifests[m].periods[i].qualities
    PROVE  LET form == Manifests[m].periods[i].qualities[k].form
               range == periodRange(Manifests[m], i)
           IN  AreBetween(timelines[m][i][k], Boundaries(form, range),
                          Len(sampleTimes(form, range)) - 1, range)
<1> DEFINE form == Manifests[m].periods[i].qualities[k].form
           range == periodRange(Manifests[m], i)
           times == sampleTimes(form, range)
           segments == timelines[m][i][k]
           at == Boundaries(form, range)
           start(n) == Greater(range.start, at[n])
           end(n) == IF range.end = Unset THEN at[n + 1] ELSE Lesser(range.end, at[n + 1])
           T == [number : Nat \ {0}, start : Int, end : Int]
           count == Len(times) - 1
<1>1. segments = createTimeline(form, range)
  BY DEF timelines
<1>2. /\ times \in Seq(Int) /\ times # <<>> /\ form.presentationTimeOffset \in Int
      /\ range.start \in Int /\ range.end \in Int
      /\ \A a, b \in DOMAIN times : a <= b => times[a] <= times[b]
  BY DEF Chronological
<1>3. at = [n \in DOMAIN times |-> sampleToMpdTime(times[n], range.start, form.presentationTimeOffset)]
  BY DEF Boundaries
<1>4. segments =
        [n \in 1..count |->
            [number |-> n,
             start |-> Greater(range.start,
                               sampleToMpdTime(times[n], range.start, form.presentationTimeOffset)),
             end |-> IF range.end = Unset
                     THEN sampleToMpdTime(times[n + 1], range.start, form.presentationTimeOffset)
                     ELSE Lesser(range.end,
                            sampleToMpdTime(times[n + 1], range.start, form.presentationTimeOffset))]]
  BY <1>1 DEF createTimeline
<1> HIDE DEF times, form, range, segments, at
<1>5. count \in Nat /\ Len(times) = count + 1 /\ DOMAIN times = 1..(count + 1)
  BY <1>2
<1>6. \A n \in 1..(count + 1) : times[n] \in Int
  BY <1>2, <1>5
<1> HIDE DEF count
<1>7. at \in [1..(count + 1) -> Int]
  BY <1>2, <1>3, <1>5, <1>6 DEF sampleToMpdTime
<1>8. \A a, b \in 1..(count + 1) : a <= b => at[a] <= at[b]
  <2>1. ASSUME NEW a \in 1..(count + 1), NEW b \in 1..(count + 1), a <= b PROVE at[a] <= at[b]
    <3>1. times[a] \in Int /\ times[b] \in Int /\ times[a] <= times[b]
      BY <1>2, <1>5, <1>6, <2>1
    <3> QED
      BY <1>2, <1>3, <1>5, <3>1 DEF sampleToMpdTime
  <2> QED
    BY <2>1
<1>9. \A n \in 1..count : n \in 1..(count + 1) /\ n + 1 \in 1..(count + 1)
  BY <1>5
<1>10. segments = [n \in 1..count |-> [number |-> n, start |-> start(n), end |-> end(n)]]
  BY <1>3, <1>4, <1>5, <1>9
<1>11. \A n \in 1..count : start(n) \in Int /\ end(n) \in Int
  BY <1>2, <1>7, <1>9 DEF Greater, Lesser
<1>12. \A a, b \in 1..count : a <= b => start(a) <= start(b) /\ end(a) <= end(b)
  <2>1. ASSUME NEW a \in 1..count, NEW b \in 1..count, a <= b
        PROVE  start(a) <= start(b) /\ end(a) <= end(b)
    <3>1. a + 1 <= b + 1
      BY <1>5, <2>1
    <3>2. /\ at[a] \in Int /\ at[b] \in Int /\ at[a + 1] \in Int /\ at[b + 1] \in Int
          /\ at[a] <= at[b] /\ at[a + 1] <= at[b + 1]
      BY <1>7, <1>8, <1>9, <2>1, <3>1
    <3>3. start(a) <= start(b)
      BY <1>2, <3>2 DEF Greater
    <3>4. end(a) <= end(b)
      <4>1. CASE range.end = Unset
        BY <3>2, <4>1
      <4>2. CASE range.end # Unset
        <5>1. end(a) = Lesser(range.end, at[a + 1]) /\ end(b) = Lesser(range.end, at[b + 1])
          BY <4>2
        <5> HIDE DEF end
        <5> QED
          BY <1>2, <3>2, <5>1 DEF Lesser
      <4> QED
        BY <4>1, <4>2
    <3> QED
      BY <3>3, <3>4
  <2> QED
    BY <2>1
<1>13. \A n \in 1..count :
        /\ segments[n].number = n
        /\ segments[n].start = Greater(range.start, at[n])
        /\ segments[n].end = IF range.end = Unset THEN at[n + 1] ELSE Lesser(range.end, at[n + 1])
  BY <1>10
<1> HIDE DEF start, end
<1>14. DOMAIN segments = 1..count
  BY <1>10
<1>15. segments \in Seq(T)
  <2>1. \A n \in 1..count : segments[n] \in T
    BY <1>10, <1>11
  <2> HIDE DEF T
  <2> QED
    BY <1>5, <1>10, <2>1
<1>16. IsChronological(segments)
  BY <1>10, <1>12, <1>14, <1>15 DEF IsChronological
<1>17. AreBetween(segments, at, count, range)
  BY <1>2, <1>5, <1>7, <1>13, <1>14, <1>16 DEF AreBetween
<1> QED
  BY <1>17 DEF times, form, range, segments, at, count

(* A segment brought by a selection of the manifest in use is looked up in     *)
(* order.                                                                      *)
LEMMA LooksUp ==
    ASSUME Chronological, StreamingTypeOK, NEW i \in DOMAIN mpd.periods,
           NEW k \in DOMAIN qualities(i)
    PROVE  IsChronological(segmentsOf(i, k))
BY TimelineIs DEF StreamingTypeOK, mpd, qualities, segmentsOf, AreBetween

(* The next fetch keeps the invariant.                                         *)
LEMMA FetchKeeps ==
    ASSUME Chronological, StreamingInv, Fetch PROVE StreamingInv'
<1> DEFINE i == getMediaPeriodAtTime(mpd, position)
<1>1. /\ StreamingTypeOK /\ SelectionInv
      /\ UNCHANGED <<manifest, option, active, playhead>>
  BY DEF StreamingInv, Fetch
<1>2. mpd' = mpd /\ options' = options /\ \A j : qualities(j)' = qualities(j)
  BY <1>1 DEF mpd, options, qualities
<1>3. \A j, k : segmentsOf(j, k)' = segmentsOf(j, k)
  BY <1>1 DEF segmentsOf
<1>4. CASE i = 0 \/ qualities(i) = <<>>
  <2>1. UNCHANGED <<from, position, previous, last>>
    BY <1>4 DEF Fetch
  <2> QED
    BY <1>1, <1>2, <1>3, <2>1 DEF StreamingInv, StreamingTypeOK, SelectionInv
<1>5. CASE ~(i = 0 \/ qualities(i) = <<>>)
  <2>1. i \in DOMAIN mpd.periods /\ qualities(i) # <<>>
    BY <1>1, <1>5, PeriodIs DEF mpd, StreamingTypeOK
  <2> DEFINE State(low, latest) ==
                [previous |-> IF previous.period = i THEN previous.quality ELSE 0,
                 decoder |-> previous.decoder, fetchedTime |-> fetchedTime, active |-> active, ewmaLow |-> low, latest |-> latest]
             K(low, latest) == selectQuality(qualities(i), options, State(low, latest))
             S(low, latest) ==
                getSegmentAtTime(position, segmentsOf(i, K(low, latest)), Affordance)
  <2>2. PICK low \in Bandwidths, latest \in Bandwidths :
            LET segment == S(low, latest) IN
            /\ last' = [period |-> i, state |-> State(low, latest), quality |-> K(low, latest),
                        at |-> position, segment |-> segment]
            /\ IF segment = NoSegment
               THEN UNCHANGED <<from, position, previous>>
               ELSE /\ position' = segment.end
                    /\ from' = IF segment.start > position \/ position = from
                               THEN segment.start ELSE from
                    /\ previous' = [period |-> i, quality |-> K(low, latest),
                                    decoder |-> decoderOf(qualities(i)[K(low, latest)], segment)]
    BY <1>5, ZenonT(60) DEF Fetch
  <2> DEFINE state == State(low, latest)
             k == K(low, latest)
             segment == S(low, latest)
  <2>3. AreQualities(qualities(i)) /\ options \in OptionType
    BY <1>1, <2>1, InUse
  <2>4. Len(qualities(i)) \in Nat \ {0} /\ DOMAIN qualities(i) = 1..Len(qualities(i))
    BY <2>1, <2>3, ListDomain
  <2>5. state \in Selections(Len(qualities(i)), {state.decoder})
    <3>1. fetchedTime \in Nat
      BY <1>1 DEF fetchedTime, StreamingTypeOK
    <3>2. (IF previous.period = i THEN previous.quality ELSE 0) \in 0..Len(qualities(i))
      <4>1. CASE previous = None
        <5>1. i # 0 => previous.period # i
          BY <4>1 DEF None
        <5> QED
          BY <1>5, <2>4, <5>1
      <4>2. CASE previous # None
        BY <1>1, <2>4, <4>2 DEF StreamingTypeOK
      <4> QED
        BY <4>1, <4>2
    <3>3. low \in Nat /\ latest \in Nat /\ active \in BOOLEAN
      BY <1>1, StreamingAssumption DEF StreamingTypeOK
    <3> QED
      BY <3>1, <3>2, <3>3 DEF Selections
  <2>6. k \in DOMAIN qualities(i)
    <3> HIDE DEF state
    <3> QED
      BY <2>1, <2>3, <2>5, SelectsQuality DEF state
  <2>7. position \in Int /\ Affordance \in Nat /\ IsChronological(segmentsOf(i, k))
    BY <1>1, <2>1, <2>6, LooksUp, StreamingAssumption DEF StreamingTypeOK
  <2>8. segment.start \in Int /\ segment.end \in Int
    <3> HIDE DEF k
    <3> QED
      BY <2>7, LookupIs DEF k
  <2>9. /\ last'.period = i /\ last'.state = state /\ last'.quality = k
        /\ last'.at = position /\ last'.segment = segment
    BY <2>2
  <2>10. \/ UNCHANGED <<from, position, previous>>
         \/ /\ position' = segment.end /\ from' \in {segment.start, from}
            /\ previous'.period = i /\ previous'.quality = k
    BY <2>2
  <2> HIDE DEF i, state, k, segment
  <2>11. SelectionInv'
    <3>1. k = selectQuality(qualities(i), options, state)
          /\ segment = getSegmentAtTime(position, segmentsOf(i, k), Affordance)
      BY DEF k, state, segment
    <3>2. /\ last'.period \in DOMAIN mpd'.periods /\ qualities(last.period)' # <<>>
          /\ last'.state \in Selections(Len(qualities(last.period)'), {last'.state.decoder})
      BY <1>2, <2>1, <2>5, <2>9 DEF qualities
    <3>3. last'.quality = selectQuality(qualities(last.period)', options', last'.state)
      BY <1>2, <2>9, <3>1 DEF qualities
    <3>4. last'.segment = getSegmentAtTime(last'.at, segmentsOf(last.period, last.quality)', Affordance)
      BY <1>1, <2>9, <3>1 DEF segmentsOf
    <3>5. last'.at \in Int
      BY <2>7, <2>9
    <3> QED
      BY <3>2, <3>3, <3>4, <3>5 DEF SelectionInv
  <2>12. StreamingTypeOK'
    <3>1. from' \in Int /\ position' \in Int
      BY <1>1, <2>8, <2>10 DEF StreamingTypeOK
    <3>2. previous' # None => /\ previous'.period \in DOMAIN mpd'.periods
                              /\ previous'.quality \in DOMAIN qualities(previous.period)'
      <4>1. CASE UNCHANGED previous
        BY <1>1, <1>2, <4>1 DEF StreamingTypeOK, qualities
      <4>2. CASE previous'.period = i /\ previous'.quality = k
        BY <1>2, <2>1, <2>6, <4>2 DEF qualities
      <4> QED
        BY <2>10, <4>1, <4>2
    <3> QED
      BY <1>1, <3>1, <3>2 DEF StreamingTypeOK
  <2> QED
    BY <2>11, <2>12 DEF StreamingInv
<1> QED
  BY <1>4, <1>5

(* Every step keeps the invariant.                                             *)
LEMMA StreamingInvStep ==
    ASSUME Chronological, StreamingInv, [StreamingNext]_streamingVars PROVE StreamingInv'
<1>1. CASE Fetch
  BY <1>1, FetchKeeps
<1>2. ASSUME UNCHANGED <<manifest, option, active>>, last' = NoSelection,
             playhead' \in Int, from' \in Int, position' \in Int,
             previous' = previous \/ previous' = None
      PROVE  StreamingInv'
  BY <1>2 DEF StreamingInv, StreamingTypeOK, SelectionInv, mpd, qualities
<1>3. CASE TimeUpdate
  BY <1>2, <1>3 DEF TimeUpdate, StreamingInv, StreamingTypeOK
<1>4. CASE Seek
  BY <1>2, <1>4, StreamingAssumption DEF Seek
<1>5. CASE UNCHANGED streamingVars
  BY <1>5 DEF streamingVars, StreamingInv, StreamingTypeOK, SelectionInv, mpd, options, qualities, segmentsOf
<1> QED
  BY <1>1, <1>3, <1>4, <1>5 DEF StreamingNext

(* Whatever the manifests, options and bandwidths, the last selection is one   *)
(* of the period it was made in, with all that the code knew then.             *)
THEOREM StreamingInvAlways == ASSUME Chronological PROVE StreamingSpec => []StreamingInv
<1>1. StreamingInit => StreamingInv
  BY DEF StreamingInit, StreamingInv, StreamingTypeOK, SelectionInv
<1>2. StreamingInv /\ [StreamingNext]_streamingVars => StreamingInv'
  BY StreamingInvStep
<1> QED
  BY <1>1, <1>2, PTL DEF StreamingSpec

(* Over any manifest whose segments follow one another in time the walk across *)
(* qualities and periods leaves no gap wider than the affordance and never     *)
(* goes back (createSlotForTime, getSegmentAtTime).                            *)
THEOREM NeverAGap == ASSUME Chronological PROVE StreamingSpec => []NoGap
<1>1. StreamingInv => NoGap
  <2> SUFFICES ASSUME StreamingInv, last # NoSelection PROVE NoGap
    BY DEF NoGap
  <2> DEFINE i == last.period
             k == last.quality
  <2>1. /\ StreamingTypeOK /\ i \in DOMAIN mpd.periods /\ qualities(i) # <<>>
        /\ last.state \in Selections(Len(qualities(i)), {last.state.decoder})
        /\ k = selectQuality(qualities(i), options, last.state)
        /\ last.at \in Int /\ last.segment = getSegmentAtTime(last.at, segmentsOf(i, k), Affordance)
    BY DEF StreamingInv, SelectionInv
  <2>2. k \in DOMAIN qualities(i)
    BY <2>1, InUse, SelectsQuality
  <2> HIDE DEF i, k
  <2>3. IsChronological(segmentsOf(i, k)) /\ Affordance \in Nat
    BY <2>1, <2>2, LooksUp, StreamingAssumption
  <2>4. /\ last.segment # NoSegment =>
                last.segment.start <= last.at + Affordance /\ last.segment.end > last.at
        /\ last.segment = NoSegment =>
                \A s \in Range(segmentsOf(i, k)) : s.start > last.at \/ s.end <= last.at
    BY <2>1, <2>3, LookupIs
  <2> QED
    BY <2>4 DEF NoGap, i, k
<1> QED
  BY <1>1, StreamingInvAlways, PTL

(* The segment looked up is the last that has begun.                           *)
LEMMA LookupIsLast ==
    ASSUME NEW segments, NEW at, NEW count, NEW range, AreBetween(segments, at, count, range),
           NEW t \in Int, range.start <= t, range.end = Unset \/ t < range.end
    PROVE  LET begun == {n \in 1..count : at[n] <= t}
               segment == getSegmentAtTime(t, segments, 0)
           IN  IF segment = NoSegment THEN begun = {} \/ count \in begun
               ELSE /\ begun # {} /\ segment.number = Max(begun)
                    /\ t \in segment.start..(segment.end - 1)
<1> DEFINE begun == {n \in 1..count : at[n] <= t}
           K == {n \in DOMAIN segments : segments[n].start <= t + 0}
           c == Cardinality(K)
           segment == getSegmentAtTime(t, segments, 0)
<1>1. /\ count \in Nat /\ range.start \in Int /\ range.end \in Int
      /\ IsChronological(segments) /\ DOMAIN segments = 1..count
      /\ \A n \in 1..count :
            /\ segments[n].number = n
            /\ segments[n].start = Greater(range.start, at[n])
            /\ segments[n].end = IF range.end = Unset THEN at[n + 1]
                                 ELSE Lesser(range.end, at[n + 1])
  BY DEF AreBetween
<1>2. at \in [1..(count + 1) -> Int]
  BY DEF AreBetween
<1>3. \A n \in 1..count : at[n] \in Int /\ at[n + 1] \in Int
  BY <1>1, <1>2
<1>4. \A n \in 1..count : segments[n].start \in Int /\ segments[n].end \in Int
  BY <1>1, <1>3 DEF Greater, Lesser
<1>5. K = begun
  <2>1. ASSUME NEW n \in 1..count PROVE segments[n].start <= t + 0 <=> at[n] <= t
    <3>1. at[n] \in Int /\ segments[n].start = Greater(range.start, at[n])
      BY <1>1, <1>3
    <3> QED
      BY <1>1, <3>1 DEF Greater
  <2> QED
    BY <1>1, <2>1
<1>6. c \in 0..count /\ K = 1..c
  <2>1. K \in SUBSET (1..count)
    BY <1>1
  <2>2. \A a, b \in 1..count : a <= b /\ b \in K => a \in K
    <3>1. ASSUME NEW a \in 1..count, NEW b \in 1..count, a <= b, b \in K PROVE a \in K
      <4>1. segments[a].start <= segments[b].start /\ segments[b].start <= t + 0
        BY <1>1, <3>1 DEF IsChronological
      <4> QED
        BY <1>1, <1>4, <4>1
    <3> QED
      BY <3>1
  <2> HIDE DEF K
  <2> QED
    BY <1>1, <2>1, <2>2, Prefix
<1>7. segment = IF c > 0 /\ t < segments[c].end THEN segments[c] ELSE NoSegment
  BY DEF getSegmentAtTime
<1> HIDE DEF K, c
<1>8. begun = 1..c
  BY <1>5, <1>6
<1> HIDE DEF segment
<1>9. CASE c > 0 /\ t < segments[c].end
  <2>1. segment = segments[c] /\ c \in 1..count
    BY <1>1, <1>6, <1>7, <1>9
  <2>2. segment.number = c /\ c # 0
    BY <1>1, <2>1
  <2>3. segment # NoSegment
    BY <2>2 DEF NoSegment
  <2>4. at[c] <= t
    BY <1>8, <2>1
  <2>5. segment.start <= t
    <3>1. at[c] \in Int /\ segments[c].start = Greater(range.start, at[c])
      BY <1>1, <1>3, <2>1
    <3> QED
      BY <1>1, <2>1, <2>4, <3>1 DEF Greater
  <2>6. t \in segment.start..(segment.end - 1)
    BY <1>4, <1>9, <2>1, <2>5
  <2> HIDE DEF begun
  <2>7. c \in begun /\ begun \in SUBSET (1..count) /\ \A j \in begun : j <= c
    BY <1>1, <1>8, <2>1
  <2>8. Max(begun) = c
    <3>1. Max(begun) \in begun /\ \A j \in begun : j <= Max(begun)
      BY <1>1, <2>7, MaxIs
    <3>2. Max(begun) <= c /\ c <= Max(begun) /\ Max(begun) \in 1..count
      BY <2>7, <3>1
    <3> QED
      BY <1>1, <2>1, <3>2
  <2> QED
    BY <2>2, <2>3, <2>6, <2>7, <2>8 DEF segment, begun
<1>10. CASE ~(c > 0 /\ t < segments[c].end)
  <2>1. segment = NoSegment
    BY <1>7, <1>10
  <2>2. CASE c = 0
    <3>1. begun = {}
      BY <1>8, <2>2
    <3> QED
      BY <2>1, <3>1 DEF segment
  <2>3. CASE c # 0
    <3>1. c \in 1..count /\ c > 0
      BY <1>1, <1>6, <2>3
    <3>2. segments[c].end <= t
      BY <1>4, <1>10, <3>1
    <3>3. /\ at[c + 1] \in Int
          /\ segments[c].end = IF range.end = Unset THEN at[c + 1]
                               ELSE Lesser(range.end, at[c + 1])
      BY <1>1, <1>3, <3>1
    <3>4. at[c + 1] <= t
      BY <1>1, <3>2, <3>3 DEF Lesser
    <3>5. ~(c + 1 \in 1..count)
      <4>1. ASSUME c + 1 \in 1..count PROVE FALSE
        <5>1. c + 1 \in begun
          BY <3>4, <4>1
        <5> QED
          BY <1>8, <3>1, <5>1
      <4> QED
        BY <4>1
    <3>6. c = count
      BY <1>1, <3>1, <3>5
    <3>7. count \in begun
      BY <1>8, <3>1, <3>6
    <3> QED
      BY <2>1, <3>7 DEF segment
  <2> QED
    BY <2>2, <2>3
<1> QED
  BY <1>9, <1>10

(* It is the one that the standard places there.                               *)
LEMMA LookupIsExact ==
    ASSUME Chronological, AreForms, NEW m \in DOMAIN Manifests, NEW t \in Int,
           NEW i, i = getMediaPeriodAtTime(Manifests[m], t), i # 0,
           NEW k \in DOMAIN Manifests[m].periods[i].qualities
    PROVE  LET form == Manifests[m].periods[i].qualities[k].form
               range == periodRange(Manifests[m], i)
               count == SegmentCount(form, range)
               begun == {n \in 1..count : SegmentStart(form, range, n) <= t}
               segment == getSegmentAtTime(t, timelines[m][i][k], 0)
           IN  IF segment = NoSegment THEN begun = {} \/ count \in begun
               ELSE /\ begun # {} /\ segment.number = Max(begun)
                    /\ t \in segment.start..(segment.end - 1)
<1> DEFINE form == Manifests[m].periods[i].qualities[k].form
           range == periodRange(Manifests[m], i)
           count == SegmentCount(form, range)
           segments == timelines[m][i][k]
           at == Boundaries(form, range)
<1>1. i \in DOMAIN Manifests[m].periods
  BY PeriodIs
<1>2. range.start <= t /\ (range.end = Unset \/ t < range.end)
  BY PeriodSpans
<1>3. /\ count = Len(sampleTimes(form, range)) - 1
      /\ \A n \in 1..count :
            sampleToMpdTime(sampleTimes(form, range)[n], range.start, form.presentationTimeOffset)
                = SegmentStart(form, range, n)
  <2>1. /\ IsForm(form) /\ form.presentationTimeOffset \in Int /\ range.start \in Int
        /\ range.end \in Int /\ sampleTimes(form, range) # <<>>
    BY <1>1 DEF Chronological, AreForms
  <2> HIDE DEF form, range
  <2> QED
    BY <2>1, FormIsRead
<1>4. AreBetween(segments, at, count, range)
  BY <1>1, <1>3, TimelineIs
<1>5. \A n \in 1..count : at[n] = SegmentStart(form, range, n)
  <2>1. count \in Nat /\ DOMAIN at = 1..(count + 1)
    <3> HIDE DEF at, count, range, segments
    <3> QED
      BY <1>4 DEF AreBetween
  <2>2. DOMAIN at = DOMAIN sampleTimes(form, range)
    BY DEF Boundaries
  <2>3. \A n \in 1..count : n \in DOMAIN sampleTimes(form, range)
    BY <2>1, <2>2
  <2> QED
    BY <1>3, <2>3 DEF Boundaries
<1> HIDE DEF form, range, count, segments, at
<1>6. {n \in 1..count : SegmentStart(form, range, n) <= t} = {n \in 1..count : at[n] <= t}
  BY <1>5
<1>7. LET begun == {n \in 1..count : at[n] <= t}
          segment == getSegmentAtTime(t, segments, 0)
      IN  IF segment = NoSegment THEN begun = {} \/ count \in begun
          ELSE /\ begun # {} /\ segment.number = Max(begun)
               /\ t \in segment.start..(segment.end - 1)
  BY <1>2, <1>4, LookupIsLast
<1> QED
  BY <1>6, <1>7 DEF form, range, count, segments

(* Over any manifest whose times go forward, each time is served by the        *)
(* segment the standard places there, in whatever form it is written, and no   *)
(* gap opens (DashRepresentationSegmentProvider, getSegmentAtTime).            *)
THEOREM TimesAlwaysServed ==
    ASSUME Chronological, AreForms PROVE StreamingSpec => []EveryTimeIsServed
<1>1. StreamingInv => LookupsExact
  <2> SUFFICES ASSUME StreamingInv PROVE LookupsExact
    OBVIOUS
  <2>1. manifest \in DOMAIN Manifests /\ position \in Int
    BY DEF StreamingInv, StreamingTypeOK
  <2> QED
    BY <2>1, LookupIsExact DEF LookupsExact, mpd, qualities, segmentsOf
<1> QED
  BY <1>1, StreamingInvAlways, NeverAGap, PTL DEF EveryTimeIsServed

(* Over any manifest whose qualities form ladders of bandwidths the selection  *)
(* keeps its hysteresis, its caps and its groups, and does not alternate       *)
(* (QualitySelectorImpl.selectQuality).                                        *)
THEOREM SelectionsAlwaysFit ==
    ASSUME Chronological, Ladders PROVE StreamingSpec => []QualityFits
<1>1. StreamingInv => QualityFits
  <2> SUFFICES ASSUME StreamingInv, last # NoSelection, options.strategy = "best" PROVE QualityFits
    BY DEF QualityFits
  <2> DEFINE i == last.period
             qs == qualities(i)
             s == last.state
             k == last.quality
             p == qs[s.previous]
  <2>1. /\ StreamingTypeOK /\ i \in DOMAIN mpd.periods /\ qs # <<>>
        /\ s \in Selections(Len(qs), {s.decoder}) /\ k = selectQuality(qs, options, s)
    BY DEF StreamingInv, SelectionInv
  <2>2. AreQualities(qs) /\ options \in OptionType
    BY <2>1, InUse
  <2>3. IsLadder(qs)
    BY <2>1 DEF Ladders, StreamingTypeOK, mpd, qualities
  <2>4. chosen = qs[k] /\ \A q : leaves(q) <=> ~Switches(q, qs[k])
    BY DEF chosen, leaves, Switches
  <2>5. Range(qs) = {qs[j] : j \in DOMAIN qs}
    BY <2>1, <2>2, ListDomain
  <2> HIDE DEF qs, s, k, i
  <2>6. (\E q \in Range(qs) : withinResolution(options, q)) => withinResolution(options, qs[k])
    BY <2>1, <2>2, <2>5, SelectionWithin DEF Within
  <2>7. s.previous # 0 /\ ~Switches(p, qs[k]) =>
            ~\E q \in Range(qs) : /\ withinResolution(options, q) /\ permitted(qs, options, s, q)
                                  /\ fits(options, s, q)
    BY <2>1, <2>2, <2>5, SelectionWithin DEF Fitting, Within
  <2>8. s.previous # 0 /\ withinResolution(options, p) =>
            /\ s.fetchedTime >= options.high /\ ~stranded(qs, options, s)
                    => qs[k].bandwidth >= p.bandwidth
            /\ Switches(p, qs[k]) =>
                /\ s.fetchedTime < options.low => qs[k].bandwidth <= p.bandwidth
                /\ (options.restrictDecoder /\ p.audio /\ qs[k].bandwidth > p.bandwidth)
                        => qs[k].decoder = s.decoder
    BY <2>1, <2>2, <2>3, SelectionSteady
  <2>9. (s.previous # 0 => Switches(p, qs[k])) /\ ~stranded(qs, options, s) /\ ~stranded(qs, options, reselection)
            => selectQuality(qs, options, reselection) = k
    <3> DEFINE d == IF last.segment = NoSegment THEN chosen.decoder ELSE decoderOf(chosen, last.segment)
               D == {s.decoder, d}
    <3>1. reselection = [s EXCEPT !.previous = k, !.decoder = d]
      BY DEF reselection, s, k
    <3> HIDE DEF d
    <3>2. s \in Selections(Len(qs), D) /\ d \in D
      BY <2>1 DEF Selections
    <3> HIDE DEF D
    <3> QED
      BY <2>1, <2>2, <2>3, <3>1, <3>2, SelectionStable
  <2> HIDE DEF p
  <2>10. QualityFits <=>
            LET left == s.previous # 0 /\ leaves(p)
                kept == s.previous # 0 /\ withinResolution(options, p)
            IN  /\ (\E q \in Range(qs) : withinResolution(options, q))
                        => withinResolution(options, chosen)
                /\ (kept /\ s.fetchedTime >= options.high /\ ~stranded(qs, options, s))
                        => chosen.bandwidth >= p.bandwidth
                /\ left => ~\E q \in Range(qs) : /\ withinResolution(options, q)
                                                 /\ permitted(qs, options, s, q)
                                                 /\ fits(options, s, q)
                /\ ~left =>
                    /\ (kept /\ s.fetchedTime < options.low) => chosen.bandwidth <= p.bandwidth
                    /\ (kept /\ options.restrictDecoder /\ p.audio /\ chosen.bandwidth > p.bandwidth)
                            => chosen.decoder = s.decoder
                    /\ stranded(qs, options, s) \/ stranded(qs, options, reselection)
                            \/ selectQuality(qs, options, reselection) = k
    BY DEF QualityFits, p, qs, s, k, i
  <2> QED
    BY <2>4, <2>6, <2>7, <2>8, <2>9, <2>10
<1> QED
  BY <1>1, StreamingInvAlways, PTL
=============================================================================
