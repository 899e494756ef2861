------------------------ MODULE TrackControllerProofs ------------------------
(* Proofs about TrackController, for any content, any breaks with any number   *)
(* of ads, any queue and any number of calls.                                  *)
EXTENDS TrackController, TLAPS, FiniteSetTheorems, SequenceTheorems, WellFoundedInduction

------------------------------------------------------------------------------
\* The states between two nested calls

SoundJobs == {job \in Jobs : job.kind = "preroll" => job.track # NoTrack}

(* What has a type.                                                            *)
Typed(w) ==
    /\ w \in [tc : Controllers, ads : AdControllers, jobs : Seq(SoundJobs),
              media : [active : SUBSET Tracks, ended : BOOLEAN]]
    /\ Len(w.tc.queue) <= MaxQueue
    /\ w.ads.brk.n <= w.ads.brk.total + 1

(* What holds also while setCurrentTrack is under way.                         *)
Loose(w) ==
    /\ Typed(w)
    /\ w.media.active \subseteq {w.tc.track}
    /\ IsAd(w.tc.track) => w.tc.track.parent = w.tc.adParent

(* What holds between the calls.                                               *)
Good(w) ==
    /\ Loose(w)
    /\ IsAd(w.tc.track) => w.ads.brk.id = w.tc.track.brk /\ w.tc.track.n <= w.ads.brk.n

------------------------------------------------------------------------------
\* Sequences and the order of breaks

(* The first of a set of breaks is one of them.                                *)
LEMMA FirstIn ==
    ASSUME NEW bs \in SUBSET Breaks, bs # {}
    PROVE  First(bs) \in bs
<1> DEFINE places == {Start[b] : b \in bs}
           below == {ss \in Nat \X Nat : ss[1] < ss[2]}
<1>1. places \subseteq Nat /\ places # {}
  BY TrackControllerAssumption
<1>2. IsWellFoundedOn(below, Nat)
  BY NatLessThanWellFounded DEF OpToRel
<1>3. PICK x \in places : \A y \in places : <<y, x>> \notin below
  <2> HIDE DEF places, below
  <2>1. QED
    BY <1>1, <1>2, WFMin
<1>4. PICK b \in bs : x = Start[b]
  BY <1>3
<1>5. ASSUME NEW c \in bs PROVE Start[b] <= Start[c]
  <2>1. Start[c] \in places /\ Start[c] \in Nat /\ Start[b] \in Nat
    BY TrackControllerAssumption
  <2>2. ~(Start[c] < Start[b])
    BY <1>3, <1>4, <2>1
  <2>3. QED
    BY <2>1, <2>2
<1>6. QED
  BY <1>5 DEF First

(* RemoveAt leaves a sequence over the same set.                               *)
LEMMA RemoveAtType ==
    ASSUME NEW S, NEW s \in Seq(S), NEW i \in DOMAIN s
    PROVE  RemoveAt(s, i) \in Seq(S)
<1>1. i \in 1..Len(s) /\ \A j \in 1..Len(s) : s[j] \in S
  BY ElementOfSeq, LenProperties
<1>2. SubSeq(s, 1, i - 1) \in Seq(S)
  BY <1>1, SubSeqProperties
<1>3. SubSeq(s, i + 1, Len(s)) \in Seq(S)
  BY <1>1, SubSeqProperties
<1>4. QED
  BY <1>2, <1>3, ConcatProperties DEF RemoveAt

(* Content has no break, ads have one.                                         *)
LEMMA TrackFacts ==
    /\ \A u \in Uris : Content(u) \in Tracks
    /\ \A u : ~IsAd(Content(u))
    /\ NoTrack \notin Tracks
    /\ \A t \in Tracks \cup {NoTrack} : IsAd(t) => t \in Tracks /\ t.parent \in Uris
    /\ \A t \in Tracks \cup {NoTrack} :
          /\ t.parent \in Uris \cup {NoUri} /\ t.n \in Nat /\ t.brk \in Breaks \cup {NoBreak}
          /\ ~IsAd(t) => t = Content(t.parent)
BY TrackControllerAssumption DEF Content, Tracks, IsAd, NoTrack, NoUri, NoBreak

(* Of no break: the controller has none.                                       *)
LEMMA BreakFacts ==
    \A s \in BreakStates \cup {NoState} :
        /\ s.id = NoBreak <=> s = NoState
        /\ s.ad # "none" => s \in BreakStates
        /\ s.n \in Nat /\ s.total \in Int
BY TrackControllerAssumption DEF BreakStates, NoState, NoBreak

------------------------------------------------------------------------------
\* setCurrentTrack and next

(* The parts of setCurrentTrack before and after the call of setAdsProvider.   *)
leave(w, t) ==
    [w EXCEPT !.tc.track = t,
              !.media.active = @ \ {w.tc.track},
              !.media.ended = @ /\ w.tc.track \notin w.media.active]

leaveFor(w, t) == [leave(w, t) EXCEPT !.tc.adParent = t.parent]

enter(w, t, checkPreroll) ==
    CASE t = NoTrack -> w
      [] t # NoTrack /\ checkPreroll ->
             [w EXCEPT !.jobs = Append(@, NewJob("preroll", w.ads.provider, t))]
      [] OTHER -> IF w.tc.track = t THEN activate(w, t) ELSE w

(* The record of the whole state, taken apart.                                 *)
LEMMA TypedParts ==
    ASSUME NEW w, Typed(w)
    PROVE  /\ w.tc \in Controllers /\ w.ads \in AdControllers
           /\ w.jobs \in Seq(SoundJobs)
           /\ w.media \in [active : SUBSET Tracks, ended : BOOLEAN]
           /\ w.tc.track \in Tracks \cup {NoTrack}
           /\ w.tc.adParent \in Uris \cup {NoUri}
           /\ w.tc.queue \in Seq(Uris)
           /\ w.ads.brk \in BreakStates \cup {NoState}
           /\ w.ads.pending \in SUBSET Breaks
BY DEF Typed, Controllers, AdControllers

(* activate, of the current track.                                             *)
LEMMA ActivateLoose ==
    ASSUME NEW w, Loose(w), w.tc.track \in Tracks
    PROVE  /\ Loose(activate(w, w.tc.track))
           /\ activate(w, w.tc.track).tc = w.tc
           /\ activate(w, w.tc.track).ads = w.ads
<1> DEFINE t == w.tc.track
           v == activate(w, t)
           mediaEnded == IF t \in w.media.active THEN w.media.ended ELSE FALSE
<1>1. w.media.ended \in BOOLEAN
  BY DEF Loose, Typed
<1>2. mediaEnded \in BOOLEAN
  BY <1>1
<1>4. v = [w EXCEPT !.media.ended = mediaEnded, !.media.active = @ \cup {t}]
  BY DEF activate
<1> HIDE DEF v, mediaEnded
<1>5. v.media \in [active : SUBSET Tracks, ended : BOOLEAN]
  BY <1>2, <1>4 DEF Loose, Typed
<1>6. v.tc = w.tc /\ v.ads = w.ads /\ v.jobs = w.jobs /\ v.media.active = w.media.active \cup {t}
  BY <1>4 DEF Loose, Typed
<1>7. v \in [tc : Controllers, ads : AdControllers, jobs : Seq(SoundJobs),
             media : [active : SUBSET Tracks, ended : BOOLEAN]]
  BY <1>4, <1>5, <1>6, TypedParts DEF Loose, Typed
<1>8. QED
  BY <1>6, <1>7 DEF Loose, Typed, v

(* The previous track is left: nothing is active.                              *)
LEMMA LeaveLoose ==
    ASSUME NEW w, Typed(w), w.media.active \subseteq {w.tc.track},
           NEW t \in Tracks \cup {NoTrack}
    PROVE  /\ Loose(leaveFor(w, t))
           /\ leaveFor(w, t).tc.track = t
           /\ leaveFor(w, t).ads = w.ads
           /\ IsAd(t) /\ t.parent = w.tc.adParent =>
                  Loose(leave(w, t)) /\ leave(w, t).tc.track = t /\ leave(w, t).ads = w.ads
<1>1. t.parent \in Uris \cup {NoUri}
  BY TrackFacts
<1>2. QED
  BY <1>1 DEF Loose, Typed, leave, leaveFor, Controllers

(* The track is entered, if it is still the current one.                       *)
LEMMA EnterLoose ==
    ASSUME NEW w, Loose(w), NEW t \in Tracks \cup {NoTrack}, NEW c \in BOOLEAN
    PROVE  /\ Loose(enter(w, t, c))
           /\ enter(w, t, c).tc = w.tc
           /\ enter(w, t, c).ads = w.ads
<1>1. CASE t = NoTrack
  BY <1>1 DEF enter
<1>2. CASE t # NoTrack /\ c
  <2> DEFINE job == NewJob("preroll", w.ads.provider, t)
  <2>1. w.ads.provider \in Uris \cup {NoUri} /\ w.jobs \in Seq(SoundJobs)
    BY TypedParts DEF Loose, AdControllers
  <2>2. job \in SoundJobs
    BY <1>2, <2>1 DEF NewJob, SoundJobs, Jobs
  <2>3. Append(w.jobs, job) \in Seq(SoundJobs)
    BY <2>1, <2>2, AppendProperties
  <2>4. enter(w, t, c) = [w EXCEPT !.jobs = Append(w.jobs, job)]
    BY <1>2 DEF enter
  <2> HIDE DEF job
  <2>5. QED
    BY <2>3, <2>4 DEF Loose, Typed
<1>3. CASE t # NoTrack /\ ~c
  <2>1. enter(w, t, c) = IF w.tc.track = t THEN activate(w, t) ELSE w
    BY <1>3 DEF enter
  <2>2. QED
    BY <1>3, <2>1, ActivateLoose
<1>4. QED
  BY <1>1, <1>2, <1>3

(* assignProvider changes nothing but the provider and what belongs to it.     *)
LEMMA AssignProviderLoose ==
    ASSUME NEW w, Loose(w), NEW u \in Uris \cup {NoUri}
    PROVE  /\ Loose(assignProvider(w, u))
           /\ assignProvider(w, u).tc = w.tc
           /\ assignProvider(w, u).ads.brk = w.ads.brk
BY ZenonT(60) DEF Loose, Typed, assignProvider, AdControllers

(* setCurrentTrack of a content track, called while no break is in progress.   *)
LEMMA SetContentAssign ==
    ASSUME NEW w, Typed(w), w.media.active \subseteq {w.tc.track},
           NEW u \in Uris \cup {NoUri}, NEW c \in BOOLEAN
    PROVE  LET v == setCurrentTrackWith(assignProvider, w, Content(u), c) IN
           Loose(v) /\ ~IsAd(v.tc.track) /\ v.ads.brk = w.ads.brk
<1> DEFINE t == Content(u)
           here == assignProvider(leaveFor(w, t), t.parent)
<1>1. t \in Tracks \cup {NoTrack} /\ ~IsAd(t) /\ t.parent = u
  BY TrackFacts DEF Content, NoTrack
<1>2. Loose(leaveFor(w, t)) /\ leaveFor(w, t).tc.track = t /\ leaveFor(w, t).ads = w.ads
  BY <1>1, LeaveLoose
<1>3. Loose(here) /\ here.tc.track = t /\ here.ads.brk = w.ads.brk
  BY <1>1, <1>2, AssignProviderLoose
<1>4. setCurrentTrackWith(assignProvider, w, t, c) = enter(here, t, c)
  BY <1>1 DEF setCurrentTrackWith, enter, leave, leaveFor
<1> HIDE DEF here
<1>5. Loose(enter(here, t, c)) /\ enter(here, t, c).tc = here.tc /\ enter(here, t, c).ads = here.ads
  BY <1>1, <1>3, EnterLoose
<1>6. QED
  BY <1>1, <1>3, <1>4, <1>5

(* The queue changes: every job is stale.                                      *)
LEMMA QueueChangedTyped ==
    ASSUME NEW w, Typed(w)
    PROVE  /\ queueChanged(w).jobs \in Seq(SoundJobs)
           /\ queueChanged(w) = [w EXCEPT !.jobs = queueChanged(w).jobs]
<1> DEFINE e(i) == [w.jobs[i] EXCEPT !.stale = TRUE]
<1>1. w.jobs \in Seq(SoundJobs) /\ Len(w.jobs) \in Nat /\ DOMAIN w.jobs = 1..Len(w.jobs)
  BY TypedParts, LenProperties
<1>2. ASSUME NEW i \in 1..Len(w.jobs) PROVE e(i) \in SoundJobs
  <2>1. w.jobs[i] \in SoundJobs
    BY <1>1, ElementOfSeq
  <2>2. QED
    BY <2>1 DEF SoundJobs, Jobs
<1>3. [i \in 1..Len(w.jobs) |-> e(i)] \in Seq(SoundJobs)
  <2> HIDE DEF e
  <2> DEFINE f == [i \in 1..Len(w.jobs) |-> e(i)]
  <2>1. f \in [1..Len(w.jobs) -> SoundJobs]
    BY <1>2
  <2> HIDE DEF f
  <2>2. f \in Seq(SoundJobs)
    BY <1>1, <2>1, SeqDef
  <2>3. QED
    BY <2>2 DEF f
<1>4. queueChanged(w) = [w EXCEPT !.jobs = [i \in 1..Len(w.jobs) |-> e(i)]]
  BY <1>1 DEF queueChanged
<1> HIDE DEF e
<1>5. QED
  BY <1>3, <1>4 DEF Typed

(* What setQueue does before it sets the current track.                        *)
requeue(w, u, q) ==
    [queueChanged(w) EXCEPT !.tc.current = u, !.tc.queue = q]

(* It leaves the current track and the ads alone.                              *)
LEMMA RequeueTyped ==
    ASSUME NEW w, Loose(w), NEW u \in Uris \cup {NoUri},
           NEW q \in Seq(Uris), Len(q) <= MaxQueue
    PROVE  /\ Loose(requeue(w, u, q))
           /\ requeue(w, u, q).ads = w.ads
           /\ requeue(w, u, q).tc.track = w.tc.track
<1> DEFINE js == queueChanged(w).jobs
<1>1. js \in Seq(SoundJobs) /\ queueChanged(w) = [w EXCEPT !.jobs = js]
  BY QueueChangedTyped DEF Loose
<1>2. requeue(w, u, q) =
         [w EXCEPT !.jobs = js, !.tc.current = u, !.tc.queue = q]
  BY <1>1 DEF requeue, Loose, Typed
<1> DEFINE newTc == [w.tc EXCEPT !.current = u, !.queue = q]
<1>3. requeue(w, u, q) = [w EXCEPT !.jobs = js, !.tc = newTc]
  <2> HIDE DEF js
  <2>1. QED
    BY <1>2 DEF Loose, Typed
<1>4. newTc \in Controllers
  BY TypedParts DEF Loose, Controllers
<1>5. newTc.queue = q /\ newTc.track = w.tc.track /\ newTc.adParent = w.tc.adParent
  BY TypedParts DEF Loose, Controllers
<1> HIDE DEF js, newTc
<1>6. QED
  BY <1>1, <1>3, <1>4, <1>5 DEF Loose, Typed

(* setQueue with the entry that is current changes the queue and the jobs.     *)
LEMMA QueueOnlyTyped ==
    ASSUME NEW w, Loose(w), NEW q \in Seq(Uris), Len(q) <= MaxQueue
    PROVE  /\ Loose(setQueueOnly(w, q))
           /\ setQueueOnly(w, q).ads = w.ads
           /\ setQueueOnly(w, q).tc.track = w.tc.track
           /\ setQueueOnly(w, q).tc.queue = q
<1> DEFINE js == queueChanged(w).jobs
<1>1. js \in Seq(SoundJobs) /\ queueChanged(w) = [w EXCEPT !.jobs = js]
  BY QueueChangedTyped DEF Loose
<1>2. setQueueOnly(w, q) = [w EXCEPT !.jobs = js, !.tc.queue = q]
  BY <1>1 DEF setQueueOnly, Loose, Typed
<1> DEFINE newTc == [w.tc EXCEPT !.queue = q]
<1>3. setQueueOnly(w, q) = [w EXCEPT !.jobs = js, !.tc = newTc]
  <2> HIDE DEF js
  <2>1. QED
    BY <1>2 DEF Loose, Typed
<1>4. newTc \in Controllers
  BY TypedParts DEF Loose, Controllers
<1>5. newTc.queue = q /\ newTc.track = w.tc.track /\ newTc.adParent = w.tc.adParent
  BY TypedParts DEF Loose, Controllers
<1> HIDE DEF js, newTc
<1>6. QED
  BY <1>1, <1>3, <1>4, <1>5 DEF Loose, Typed

(* next() within the handler of 'adBreakCompleted'.                            *)
LEMMA NextAssign ==
    ASSUME NEW w, Loose(w)
    PROVE  LET v == nextWith(assignProvider, w) IN
           Loose(v) /\ ~IsAd(v.tc.track) /\ v.ads.brk = w.ads.brk
<1>1. w.tc.queue \in Seq(Uris) /\ Len(w.tc.queue) <= MaxQueue /\ Len(w.tc.queue) \in Nat
  BY TypedParts, LenProperties DEF Loose, Typed
<1>2. CASE w.tc.queue = <<>>
  <2> DEFINE r == requeue(w, NoUri, <<>>)
  <2>1. Loose(r) /\ r.ads = w.ads
    BY <1>1, <1>2, RequeueTyped
  <2>2. nextWith(assignProvider, w) =
           setCurrentTrackWith(assignProvider, r, Content(NoUri), TRUE)
    BY <1>2 DEF nextWith, setQueueWith, requeue
  <2> HIDE DEF r
  <2>3. Typed(r) /\ r.media.active \subseteq {r.tc.track}
    BY <2>1 DEF Loose
  <2>4. NoUri \in Uris \cup {NoUri} /\ TRUE \in BOOLEAN /\ r.ads.brk = w.ads.brk
    BY <2>1
  <2>5. LET v == setCurrentTrackWith(assignProvider, r, Content(NoUri), TRUE) IN
        Loose(v) /\ ~IsAd(v.tc.track) /\ v.ads.brk = r.ads.brk
    BY <2>3, <2>4, SetContentAssign
  <2>6. QED
    BY <2>2, <2>4, <2>5
<1>3. CASE w.tc.queue # <<>>
  <2> DEFINE u == Head(w.tc.queue)
             q == Tail(w.tc.queue)
             r == requeue(w, u, q)
  <2>1. u \in Uris /\ q \in Seq(Uris) /\ Len(q) <= MaxQueue
    BY <1>1, <1>3, HeadTailProperties, TrackControllerAssumption
  <2>2. Loose(r) /\ r.ads = w.ads
    BY <2>1, RequeueTyped
  <2>3. nextWith(assignProvider, w) =
           setCurrentTrackWith(assignProvider, r, Content(u), TRUE)
    BY <1>3 DEF nextWith, setQueueWith, requeue
  <2> HIDE DEF r, u, q
  <2>4. Typed(r) /\ r.media.active \subseteq {r.tc.track}
    BY <2>2 DEF Loose
  <2>5. u \in Uris \cup {NoUri} /\ TRUE \in BOOLEAN /\ r.ads.brk = w.ads.brk
    BY <2>1, <2>2
  <2>6. LET v == setCurrentTrackWith(assignProvider, r, Content(u), TRUE) IN
        Loose(v) /\ ~IsAd(v.tc.track) /\ v.ads.brk = r.ads.brk
    BY <2>4, <2>5, SetContentAssign
  <2>7. QED
    BY <2>3, <2>5, <2>6
<1>4. QED
  BY <1>2, <1>3

(* When a break is over its handler has found the way back to some content.    *)
LEMMA BreakCompletedContent ==
    ASSUME NEW w, Loose(w), NEW b
    PROVE  LET v == onAdBreakCompleted(w, b) IN
           Loose(v) /\ ~IsAd(v.tc.track) /\ v.ads.brk = w.ads.brk
<1> DEFINE back == Content(w.tc.adParent)
<1>1. w.tc.adParent \in Uris \cup {NoUri} /\ w.tc.track \in Tracks \cup {NoTrack}
  BY TypedParts DEF Loose
<1>3. CASE w.tc.adParent = NoUri
  <2>1. ~IsAd(w.tc.track)
    BY <1>1, <1>3, TrackFacts, TrackControllerAssumption DEF Loose, NoUri
  <2>2. onAdBreakCompleted(w, b) = w
    BY <1>3 DEF onAdBreakCompleted
  <2>3. QED
    BY <2>1, <2>2
<1>4. back \in w.media.active => ~IsAd(w.tc.track)
  BY TrackFacts DEF Loose
<1>5. /\ Loose(setCurrentTrackWith(assignProvider, w, back, FALSE))
      /\ ~IsAd(setCurrentTrackWith(assignProvider, w, back, FALSE).tc.track)
      /\ setCurrentTrackWith(assignProvider, w, back, FALSE).ads.brk = w.ads.brk
  BY <1>1, SetContentAssign DEF Loose
<1>7. /\ Loose(nextWith(assignProvider, w))
      /\ ~IsAd(nextWith(assignProvider, w).tc.track)
      /\ nextWith(assignProvider, w).ads.brk = w.ads.brk
  BY NextAssign
<1>8. CASE w.tc.adParent # NoUri /\ Placement[b] = "postroll"
  <2>1. onAdBreakCompleted(w, b) =
           IF w.tc.queue # <<>> THEN nextWith(assignProvider, w)
           ELSE IF back \in w.media.active THEN w
           ELSE setCurrentTrackWith(assignProvider, w, back, FALSE)
    BY <1>8 DEF onAdBreakCompleted
  <2> HIDE DEF back
  <2>2. QED
    BY <1>4, <1>5, <1>7, <2>1
<1>9. CASE w.tc.adParent # NoUri /\ Placement[b] # "postroll"
  <2>1. onAdBreakCompleted(w, b) =
           IF back \in w.media.active THEN w
           ELSE setCurrentTrackWith(assignProvider, w, back, FALSE)
    BY <1>9 DEF onAdBreakCompleted
  <2> HIDE DEF back
  <2>2. QED
    BY <1>4, <1>5, <2>1
<1>10. QED
  BY <1>3, <1>8, <1>9

------------------------------------------------------------------------------
\* Completing ads and breaks

(* completeAdBreak leaves no break, and no ad as the current track.            *)
LEMMA CompleteAdBreakGood ==
    ASSUME NEW w, Loose(w)
    PROVE  LET v == completeAdBreak(w) IN
           /\ Loose(v) /\ v.ads.brk = NoState
           /\ Good(w) \/ ~IsAd(w.tc.track) => ~IsAd(v.tc.track)
<1> DEFINE b == w.ads.brk.id
           done == IF Placement[b] = "midroll" THEN w.ads.done ELSE w.ads.done \cup {b}
           spent == IF Placement[b] = "midroll" THEN w.ads.spent \cup {b} ELSE w.ads.spent
           cleared == [w EXCEPT !.ads.brk = NoState, !.ads.done = done, !.ads.spent = spent]
<1>1. w.ads.brk \in BreakStates \cup {NoState} /\ w.tc.track \in Tracks \cup {NoTrack}
  BY TypedParts DEF Loose
<1>2. CASE b = NoBreak
  <2>1. w.ads.brk = NoState
    BY <1>1, <1>2, BreakFacts
  <2>2. Good(w) => ~IsAd(w.tc.track)
    BY <1>2 DEF Good, IsAd
  <2>3. QED
    BY <1>2, <2>1, <2>2 DEF completeAdBreak
<1>3. CASE b # NoBreak
  <2>1. b \in Breaks
    BY <1>1, <1>3 DEF BreakStates, NoState
  <2>2. done \in SUBSET Breaks /\ spent \in SUBSET Breaks
    BY <2>1, TypedParts DEF Loose, AdControllers
  <2>3. completeAdBreak(w) = onAdBreakCompleted(cleared, b)
    BY <1>3 DEF completeAdBreak
  <2>4. Loose(cleared) /\ cleared.ads.brk = NoState
    <3> HIDE DEF done, spent
    <3>1. NoState \in BreakStates \cup {NoState} /\ NoState.n <= NoState.total + 1
      BY DEF NoState
    <3> DEFINE newAds == [w.ads EXCEPT !.brk = NoState, !.done = done, !.spent = spent]
    <3>2. newAds \in AdControllers /\ newAds.brk = NoState
      BY <2>2, <3>1, TypedParts DEF Loose, AdControllers
    <3>3. cleared = [w EXCEPT !.ads = newAds]
      BY DEF Loose, Typed
    <3> HIDE DEF newAds, cleared
    <3>4. QED
      BY <3>1, <3>2, <3>3 DEF Loose, Typed
  <2> HIDE DEF cleared, b
  <2>5. QED
    BY <2>3, <2>4, BreakCompletedContent
<1>4. QED
  BY <1>2, <1>3

(* setAdsProvider, called for a content track.                                 *)
LEMMA SetAdsProviderGood ==
    ASSUME NEW w, Loose(w), ~IsAd(w.tc.track), NEW u \in Uris \cup {NoUri}
    PROVE  LET v == setAdsProvider(w, u) IN Loose(v) /\ ~IsAd(v.tc.track)
<1> DEFINE cleared == [w EXCEPT !.ads.pending = {}]
           v == completeAdBreak(cleared)
           moved == [v EXCEPT !.ads.provider = u, !.ads.known = FALSE,
                              !.ads.done = {}, !.ads.spent = {}]
<1>1. Loose(cleared) /\ cleared.tc.track = w.tc.track
  BY DEF Loose, Typed, AdControllers
<1>2. Loose(v) /\ ~IsAd(v.tc.track)
  <2> HIDE DEF cleared
  <2>1. QED
    BY <1>1, CompleteAdBreakGood
<1>3. Loose(moved) /\ moved.tc = v.tc
  <2> HIDE DEF v
  <2>1. QED
    BY <1>2 DEF Loose, Typed, AdControllers
<1>4. setAdsProvider(w, u) = IF w.ads.provider = u THEN w ELSE moved
  BY DEF setAdsProvider
<1> HIDE DEF moved
<1>5. QED
  BY <1>2, <1>3, <1>4

(* setCurrentTrack of a content track.                                         *)
LEMMA SetContentGood ==
    ASSUME NEW w, Typed(w), w.media.active \subseteq {w.tc.track},
           NEW u \in Uris \cup {NoUri}, NEW c \in BOOLEAN
    PROVE  Good(setCurrentTrack(w, Content(u), c))
<1> DEFINE t == Content(u)
           here == setAdsProvider(leaveFor(w, t), t.parent)
<1>1. t \in Tracks \cup {NoTrack} /\ ~IsAd(t) /\ t.parent = u
  BY TrackFacts DEF Content, NoTrack
<1>2. Loose(leaveFor(w, t)) /\ leaveFor(w, t).tc.track = t
  BY <1>1, LeaveLoose
<1>3. Loose(here) /\ ~IsAd(here.tc.track)
  BY <1>1, <1>2, SetAdsProviderGood
<1>4. setCurrentTrack(w, t, c) = enter(here, t, c)
  BY <1>1 DEF setCurrentTrack, setCurrentTrackWith, enter, leave, leaveFor
<1> HIDE DEF here
<1>5. Loose(enter(here, t, c)) /\ enter(here, t, c).tc = here.tc
  BY <1>1, <1>3, EnterLoose
<1>6. QED
  BY <1>3, <1>4, <1>5 DEF Good

(* setQueue with another current entry.                                        *)
LEMMA SetQueueGood ==
    ASSUME NEW w, Loose(w), NEW u \in Uris \cup {NoUri},
           NEW q \in Seq(Uris), Len(q) <= MaxQueue
    PROVE  Good(setQueue(w, u, q))
<1> DEFINE r == requeue(w, u, q)
<1>1. Loose(r)
  BY RequeueTyped
<1>2. setQueue(w, u, q) = setCurrentTrack(r, Content(u), TRUE)
  BY DEF setQueue, setQueueWith, setCurrentTrack, requeue
<1> HIDE DEF r
<1>3. Typed(r) /\ r.media.active \subseteq {r.tc.track}
  BY <1>1 DEF Loose
<1>4. QED
  BY <1>2, <1>3, SetContentGood

(* next() of the application or after the end of a track.                      *)
LEMMA NextGood ==
    ASSUME NEW w, Loose(w)
    PROVE  Good(next(w))
<1>1. w.tc.queue \in Seq(Uris) /\ Len(w.tc.queue) <= MaxQueue /\ Len(w.tc.queue) \in Nat
  BY TypedParts, LenProperties DEF Loose, Typed
<1>2. CASE w.tc.queue = <<>>
  <2>1. next(w) = setQueue(w, NoUri, <<>>)
    BY <1>2 DEF next, nextWith, setQueue
  <2>2. <<>> \in Seq(Uris) /\ Len(<<>>) <= MaxQueue
    BY <1>1, <1>2
  <2>3. QED
    BY <2>1, <2>2, SetQueueGood
<1>3. CASE w.tc.queue # <<>>
  <2>1. next(w) = setQueue(w, Head(w.tc.queue), Tail(w.tc.queue))
    BY <1>3 DEF next, nextWith, setQueue
  <2>2. /\ Head(w.tc.queue) \in Uris /\ Tail(w.tc.queue) \in Seq(Uris)
        /\ Len(Tail(w.tc.queue)) <= MaxQueue
    BY <1>1, <1>3, HeadTailProperties, TrackControllerAssumption
  <2>3. QED
    BY <2>1, <2>2, SetQueueGood
<1>4. QED
  BY <1>2, <1>3

(* Between the calls, an ad is current only during a break.                    *)
LEMMA GoodContent ==
    ASSUME NEW w, Good(w), w.ads.brk = NoState
    PROVE  ~IsAd(w.tc.track)
BY DEF Good, IsAd, NoState

(* completeAdBreak between the calls.                                          *)
LEMMA CompleteBreakGood ==
    ASSUME NEW w, Good(w)
    PROVE  /\ Good(completeAdBreak(w))
           /\ completeAdBreak(w).ads.brk = NoState
           /\ ~IsAd(completeAdBreak(w).tc.track)
<1>1. Loose(w)
  BY DEF Good
<1>2. QED
  BY <1>1, CompleteAdBreakGood DEF Good

(* The ad in progress of a break changes its state.                            *)
LEMMA AdStateGood ==
    ASSUME NEW w, Good(w), w.ads.brk # NoState,
           NEW a \in {"none", "entered", "started", "completed", "dropped"}
    PROVE  Good([w EXCEPT !.ads.brk.ad = a])
<1> DEFINE newBrk == [w.ads.brk EXCEPT !.ad = a]
           newAds == [w.ads EXCEPT !.brk = newBrk]
<1>1. w.ads.brk \in BreakStates /\ w.ads \in AdControllers
  BY TypedParts DEF Good, Loose
<1>2. /\ newBrk \in BreakStates /\ newBrk.id = w.ads.brk.id
      /\ newBrk.n = w.ads.brk.n /\ newBrk.total = w.ads.brk.total
  BY <1>1 DEF BreakStates
<1>3. newAds \in AdControllers /\ newAds.brk = newBrk
  <2> HIDE DEF newBrk
  <2>1. QED
    BY <1>1, <1>2 DEF AdControllers
<1>4. [w EXCEPT !.ads.brk.ad = a] = [w EXCEPT !.ads = newAds]
  BY <1>1 DEF Good, Loose, Typed, AdControllers
<1> HIDE DEF newBrk, newAds
<1>5. QED
  BY <1>2, <1>3, <1>4 DEF Good, Loose, Typed

(* completeAd, and with the last ad its break.                                 *)
LEMMA CompleteAdGood ==
    ASSUME NEW w, Good(w)
    PROVE  Good(completeAd(w))
<1>1. CASE w.ads.brk.ad \notin {"entered", "started"}
  BY <1>1 DEF completeAd
<1>2. CASE w.ads.brk.ad \in {"entered", "started"}
  <2> DEFINE a == IF w.ads.brk.ad = "started" THEN "completed" ELSE "dropped"
             v == [w EXCEPT !.ads.brk.ad = a]
  <2>1. w.ads.brk # NoState
    BY <1>2 DEF NoState
  <2>2. Good(v)
    BY <2>1, AdStateGood
  <2>3. completeAd(w) = IF v.ads.brk.n >= v.ads.brk.total THEN completeAdBreak(v) ELSE v
    BY <1>2 DEF completeAd
  <2> HIDE DEF v
  <2>4. QED
    BY <2>2, <2>3, CompleteBreakGood
<1>3. QED
  BY <1>1, <1>2

------------------------------------------------------------------------------
\* Going on to the next ad or break

(* The lock of nextAdOrBreak is taken or released.                             *)
LEMMA LockGood ==
    ASSUME NEW w, Good(w), NEW l \in {"no", "list", "settling"}
    PROVE  Good([w EXCEPT !.ads.loadingNext = l])
BY DEF Good, Loose, Typed, AdControllers

(* Breaks become pending.                                                      *)
LEMMA PendingGood ==
    ASSUME NEW w, Good(w), NEW bs \in SUBSET Breaks
    PROVE  Good([w EXCEPT !.ads.pending = bs])
BY DEF Good, Loose, Typed, AdControllers

(* A new break begins while no ad is current.                                  *)
LEMMA NextBreakGood ==
    ASSUME NEW w, Good(w), ~IsAd(w.tc.track)
    PROVE  Good(nextBreak(w))
<1>1. CASE w.ads.pending = {}
  BY <1>1, LockGood DEF nextBreak
<1>2. CASE w.ads.pending # {}
  <2> DEFINE b == First(w.ads.pending)
             newAds == [w.ads EXCEPT !.pending = @ \ {b}, !.brk = NewState(b),
                                   !.loadingNext = "list"]
  <2>1. w.ads.pending \in SUBSET Breaks /\ w.ads \in AdControllers
    BY TypedParts DEF Good, Loose
  <2>2. b \in Breaks
    BY <1>2, <2>1, FirstIn
  <2>3. NewState(b) \in BreakStates /\ NewState(b).n <= NewState(b).total + 1
    BY <2>2, TrackControllerAssumption DEF NewState, NoState, BreakStates
  <2>4. nextBreak(w) = [w EXCEPT !.ads = newAds]
    BY <1>2, <2>1 DEF nextBreak, Good, Loose, Typed, AdControllers
  <2>5. newAds \in AdControllers /\ newAds.brk = NewState(b)
    <3> HIDE DEF b
    <3>1. QED
      BY <2>1, <2>3 DEF AdControllers
  <2> HIDE DEF newAds, b
  <2>6. QED
    BY <2>3, <2>4, <2>5 DEF Good, Loose, Typed
<1>3. QED
  BY <1>1, <1>2

(* nextAdOrBreak goes on with the break in progress, or the next one.          *)
LEMMA NextAdOrBreakGood ==
    ASSUME NEW w, Good(w)
    PROVE  Good(nextAdOrBreak(w))
<1>1. Good([w EXCEPT !.ads.loadingNext = "list"])
  BY LockGood
<1>2. w.ads.brk = NoState => Good(nextBreak(w))
  BY GoodContent, NextBreakGood
<1>3. QED
  BY <1>1, <1>2 DEF nextAdOrBreak

(* setPendingBreaks.                                                           *)
LEMMA SetPendingBreaksGood ==
    ASSUME NEW w, Good(w), NEW bs \in SUBSET Breaks
    PROVE  Good(setPendingBreaks(w, bs))
BY PendingGood, NextAdOrBreakGood DEF setPendingBreaks

(* failAd.                                                                     *)
LEMMA FailAdGood ==
    ASSUME NEW w, Good(w)
    PROVE  Good(failAd(w))
BY CompleteAdGood, NextAdOrBreakGood DEF failAd

(* The ad controller's handler of 'ended'.                                     *)
LEMMA EndAdGood ==
    ASSUME NEW w, Good(w)
    PROVE  Good(endAd(w))
BY CompleteAdGood, NextAdOrBreakGood DEF endAd

(* The total of a break is known.                                              *)
LEMMA TotalGood ==
    ASSUME NEW w, Good(w), w.ads.brk # NoState,
           NEW total \in 0..MaxAds, w.ads.brk.total \in {-1, total}
    PROVE  Good([w EXCEPT !.ads.brk.total = total])
<1> DEFINE newBrk == [w.ads.brk EXCEPT !.total = total]
           newAds == [w.ads EXCEPT !.brk = newBrk]
<1>1. w.ads.brk \in BreakStates /\ w.ads \in AdControllers
  BY TypedParts DEF Good, Loose
<1>2. /\ newBrk \in BreakStates /\ newBrk.id = w.ads.brk.id /\ newBrk.n = w.ads.brk.n
      /\ newBrk.total = total
  BY <1>1 DEF BreakStates
<1>3. newAds \in AdControllers /\ newAds.brk = newBrk
  <2> HIDE DEF newBrk
  <2>1. QED
    BY <1>1, <1>2 DEF AdControllers
<1>4. [w EXCEPT !.ads.brk.total = total] = [w EXCEPT !.ads = newAds]
  BY <1>1 DEF Good, Loose, Typed, AdControllers
<1>5. w.ads.brk.n \in Nat /\ w.ads.brk.n <= total + 1
  BY <1>1, TrackControllerAssumption DEF Good, Loose, Typed, BreakStates
<1> HIDE DEF newBrk, newAds
<1>6. QED
  BY <1>2, <1>3, <1>4, <1>5 DEF Good, Loose, Typed

(* The next ad of the break is entered.                                        *)
LEMMA StartAdGood ==
    ASSUME NEW w, Good(w), w.ads.brk # NoState, w.ads.brk.n < w.ads.brk.total
    PROVE  Good(startAd(w))
<1> DEFINE m == w.ads.brk.n + 1
           newBrk == [w.ads.brk EXCEPT !.n = m, !.ad = "entered"]
           newAds == [w.ads EXCEPT !.brk = newBrk, !.loadingNext = "settling"]
           ad == [parent |-> w.tc.adParent, brk |-> w.ads.brk.id, n |-> m]
           job == NewJob("options", NoUri, ad)
           js == IF w.tc.adParent = NoUri THEN w.jobs ELSE Append(w.jobs, job)
<1>1. /\ w.ads.brk \in BreakStates /\ w.ads \in AdControllers /\ w.jobs \in Seq(SoundJobs)
      /\ w.tc.adParent \in Uris \cup {NoUri}
  BY TypedParts DEF Good, Loose
<1>2. m \in 1..MaxAds /\ w.ads.brk.n <= m /\ m <= w.ads.brk.total + 1 /\ w.ads.brk.id \in Breaks
  <2>1. w.ads.brk.n \in Nat /\ w.ads.brk.total \in 0..MaxAds \cup {-1} /\ w.ads.brk.id \in Breaks
    BY <1>1, TrackControllerAssumption DEF BreakStates
  <2>2. QED
    BY <2>1, TrackControllerAssumption
<1>3. /\ newBrk \in BreakStates /\ newBrk.id = w.ads.brk.id
      /\ newBrk.n = m /\ newBrk.total = w.ads.brk.total
  <2>1. m \in 0..(MaxAds + 1)
    BY <1>2, TrackControllerAssumption
  <2> HIDE DEF m
  <2>2. QED
    BY <1>1, <2>1 DEF BreakStates
<1>4. newAds \in AdControllers /\ newAds.brk = newBrk
  <2> HIDE DEF newBrk
  <2>1. QED
    BY <1>1, <1>3 DEF AdControllers
<1>5. js \in Seq(SoundJobs)
  <2>1. CASE w.tc.adParent = NoUri
    BY <1>1, <2>1
  <2>2. CASE w.tc.adParent # NoUri
    <3> HIDE DEF m
    <3>1. ad \in Tracks
      BY <1>1, <1>2, <2>2 DEF Tracks
    <3>2. job \in SoundJobs
      BY <3>1 DEF NewJob, SoundJobs, Jobs
    <3>3. QED
      BY <1>1, <2>2, <3>2, AppendProperties
  <2>3. QED
    BY <2>1, <2>2
<1>6. startAd(w) = [w EXCEPT !.ads = newAds, !.jobs = js]
  <2>1. startAd(w) = [w EXCEPT !.ads.brk.n = m, !.ads.brk.ad = "entered",
                               !.ads.loadingNext = "settling", !.jobs = js]
    BY DEF startAd
  <2>2. newAds = [w.ads EXCEPT !.brk.n = m, !.brk.ad = "entered", !.loadingNext = "settling"]
    <3> HIDE DEF m
    <3>1. QED
      BY <1>1 DEF AdControllers
  <2> HIDE DEF m, js, newAds
  <2>3. QED
    BY <2>1, <2>2 DEF Good, Loose, Typed
<1>7. w.tc.track \in Tracks \cup {NoTrack} /\ w.tc.track.n \in Nat /\ w.ads.brk.n \in Nat
  BY <1>1, TypedParts, TrackFacts, BreakFacts DEF Good, Loose
<1>8. IsAd(w.tc.track) => w.ads.brk.id = w.tc.track.brk /\ w.tc.track.n <= m
  BY <1>2, <1>7 DEF Good
<1>9. Good([w EXCEPT !.ads = newAds, !.jobs = js])
  <2> HIDE DEF m, newBrk, newAds, js
  <2>1. QED
    BY <1>2, <1>3, <1>4, <1>5, <1>8 DEF Good, Loose, Typed
<1>10. QED
  BY <1>6, <1>9

(* The break has used up its playout limit.                                    *)
LEMMA LimitGood ==
    ASSUME NEW w, Good(w), w.ads.brk # NoState
    PROVE  Good([w EXCEPT !.ads.brk.n = w.ads.brk.total + 1, !.ads.brk.ad = "none"])
<1> DEFINE m == w.ads.brk.total + 1
           newBrk == [w.ads.brk EXCEPT !.n = m, !.ad = "none"]
           newAds == [w.ads EXCEPT !.brk = newBrk]
<1>1. w.ads.brk \in BreakStates /\ w.ads \in AdControllers
  BY TypedParts DEF Good, Loose
<1>2. m \in 0..(MaxAds + 1) /\ w.ads.brk.n <= m /\ w.ads.brk.n \in Nat
  BY <1>1, TrackControllerAssumption DEF Good, Loose, Typed, BreakStates
<1>3. /\ newBrk \in BreakStates /\ newBrk.id = w.ads.brk.id
      /\ newBrk.n = m /\ newBrk.total = w.ads.brk.total
  <2> HIDE DEF m
  <2>1. QED
    BY <1>1, <1>2, TrackControllerAssumption DEF BreakStates
<1>4. newAds \in AdControllers /\ newAds.brk = newBrk
  <2> HIDE DEF newBrk
  <2>1. QED
    BY <1>1, <1>3 DEF AdControllers
<1>5. [w EXCEPT !.ads.brk.n = m, !.ads.brk.ad = "none"] = [w EXCEPT !.ads = newAds]
  <2> HIDE DEF m
  <2>1. QED
    BY <1>1 DEF Good, Loose, Typed, AdControllers
<1>6. w.tc.track \in Tracks \cup {NoTrack} /\ w.tc.track.n \in Nat
  BY TypedParts, TrackFacts DEF Good, Loose
<1>7. m <= w.ads.brk.total + 1
  BY <1>1, TrackControllerAssumption DEF BreakStates
<1>8. IsAd(w.tc.track) => w.ads.brk.id = w.tc.track.brk /\ w.tc.track.n <= m
  BY <1>2, <1>6 DEF Good
<1>9. Good([w EXCEPT !.ads = newAds])
  <2> HIDE DEF m, newBrk, newAds
  <2>1. QED
    BY <1>3, <1>4, <1>7, <1>8 DEF Good, Loose, Typed
<1>10. QED
  BY <1>5, <1>9

------------------------------------------------------------------------------
\* Promise callbacks

(* A promise gets a callback.                                                  *)
LEMMA AppendJobGood ==
    ASSUME NEW w, Good(w), NEW job \in SoundJobs
    PROVE  Good([w EXCEPT !.jobs = Append(@, job)])
<1> DEFINE js == Append(w.jobs, job)
<1>1. js \in Seq(SoundJobs)
  BY TypedParts, AppendProperties DEF Good, Loose
<1> HIDE DEF js
<1>2. Good([w EXCEPT !.jobs = js])
  BY <1>1 DEF Good, Loose, Typed
<1>3. QED
  BY <1>2 DEF js

(* The job whose callback runs is taken from the others.                       *)
LEMMA WithoutGood ==
    ASSUME Good(World), NEW i \in DOMAIN jobs
    PROVE  /\ Good(Without(i))
           /\ Without(i).tc = tc /\ Without(i).ads = ads
           /\ jobs[i] \in SoundJobs
<1> DEFINE js == RemoveAt(jobs, i)
<1>1. jobs \in Seq(SoundJobs)
  BY TypedParts DEF Good, Loose, World
<1>2. js \in Seq(SoundJobs) /\ jobs[i] \in SoundJobs
  BY <1>1, RemoveAtType, ElementOfSeq, LenProperties
<1>3. Without(i) = [World EXCEPT !.jobs = js]
  BY DEF Without, World
<1> HIDE DEF js
<1>4. Good(Without(i))
  BY <1>2, <1>3 DEF Good, Loose, Typed, World
<1>5. QED
  BY <1>2, <1>3, <1>4 DEF World

(* enterRoll makes breaks of the provider pending.                             *)
LEMMA EnterRollGood ==
    ASSUME NEW w, Good(w), NEW job \in Jobs
    PROVE  Good(enterRoll(w, job))
<1>1. CASE interrupted(w, job)
  BY <1>1 DEF enterRoll
<1>2. CASE ~interrupted(w, job)
  <2>1. job.provider \in Uris
    BY <1>2 DEF interrupted, Jobs
  <2>2. open(w, job.provider, job.kind) \in SUBSET Breaks
    BY <2>1, TrackControllerAssumption DEF open, NoUri
  <2>3. QED
    BY <1>2, <2>2, SetPendingBreaksGood DEF enterRoll
<1>3. QED
  BY <1>1, <1>2

(* activate between the calls.                                                 *)
LEMMA ActivateGood ==
    ASSUME NEW w, Good(w), w.tc.track \in Tracks
    PROVE  Good(activate(w, w.tc.track))
BY ActivateLoose DEF Good

(* The track controller's handler of 'ended'.                                  *)
LEMMA OnEndedGood ==
    ASSUME NEW w, Good(w)
    PROVE  Good(onEnded(w))
<1> DEFINE job == NewJob("postroll", w.ads.provider, NoTrack)
<1>1. w.ads.provider \in Uris \cup {NoUri}
  BY TypedParts DEF Good, Loose, AdControllers
<1>2. job \in SoundJobs
  BY <1>1 DEF NewJob, SoundJobs, Jobs
<1>3. Good([w EXCEPT !.jobs = Append(@, job)])
  BY <1>2, AppendJobGood
<1> HIDE DEF job
<1>4. onEnded(w) = IF CurrentIsAd(w) \/ w.tc.current = NoUri THEN w
                   ELSE [w EXCEPT !.jobs = Append(@, job)]
  BY DEF onEnded, job
<1>5. QED
  BY <1>3, <1>4

(* An ad of the break in progress becomes current.                             *)
LEMMA SetAdGood ==
    ASSUME NEW w, Good(w), NEW ad \in Tracks \cup {NoTrack},
           w.tc.adParent = ad.parent, w.ads.brk # NoState,
           w.ads.brk.id = ad.brk, w.ads.brk.n = ad.n
    PROVE  Good(setCurrentTrack(w, ad, FALSE))
<1> DEFINE left == leave(w, ad)
<1>1. IsAd(ad)
  BY TypedParts, BreakFacts DEF Good, Loose, IsAd
<1>2. Loose(left) /\ left.tc.track = ad /\ left.ads = w.ads
  BY <1>1, LeaveLoose DEF Good, Loose
<1>3. setCurrentTrack(w, ad, FALSE) = enter(left, ad, FALSE)
  BY <1>1 DEF setCurrentTrack, setCurrentTrackWith, enter, leave
<1> HIDE DEF left
<1>4. /\ Loose(enter(left, ad, FALSE)) /\ enter(left, ad, FALSE).tc = left.tc
      /\ enter(left, ad, FALSE).ads = left.ads
  BY <1>2, EnterLoose
<1> DEFINE v == enter(left, ad, FALSE)
<1>5. v.tc.track = ad /\ v.ads.brk.id = ad.brk /\ v.ads.brk.n = ad.n
  BY <1>2, <1>4
<1>6. ad.n \in Nat /\ ad.n <= ad.n
  BY TrackFacts
<1> HIDE DEF v
<1>7. Loose(v) => Good(v)
  BY <1>5, <1>6 DEF Good
<1>8. QED
  BY <1>3, <1>4, <1>7 DEF v

------------------------------------------------------------------------------
\* The invariant of the specification

TrackInv == Good(World) /\ calls \in 0..MaxCalls

(* What the invariant says of the variables.                                   *)
LEMMA InvMeans ==
    /\ TrackInv => TypeOK
    /\ TrackInv => OneActive
    /\ TrackInv => AdHasBreak
<1> SUFFICES ASSUME TrackInv PROVE TypeOK /\ OneActive /\ AdHasBreak
  OBVIOUS
<1>1. Good(World)
  BY DEF TrackInv
<1>2. /\ tc \in Controllers /\ ads \in AdControllers /\ jobs \in Seq(SoundJobs)
      /\ media \in [active : SUBSET Tracks, ended : BOOLEAN]
      /\ Len(tc.queue) <= MaxQueue
  BY <1>1 DEF Good, Loose, Typed, World
<1>3. jobs \in Seq(Jobs)
  BY <1>2, SeqMonotonic DEF SoundJobs
<1>4. TypeOK
  BY <1>2, <1>3 DEF TypeOK, TrackInv
<1>5. OneActive
  BY <1>1 DEF OneActive, Good, Loose, World
<1>6. AdHasBreak
  BY <1>1 DEF AdHasBreak, Good, Loose, World
<1>7. QED
  BY <1>4, <1>5, <1>6

(* The invariant of the next state, from that of the record it becomes.        *)
LEMMA BecomeInv ==
    ASSUME NEW v, Good(v), Become(v), calls' \in 0..MaxCalls
    PROVE  TrackInv'
<1>1. World' = v
  BY DEF Become, World, Good, Loose, Typed
<1>2. Good(World')
  BY <1>1
<1>3. QED
  BY <1>2 DEF TrackInv, World, Good, Loose, Typed, IsAd

(* The invariant holds before anything is loaded.                              *)
THEOREM TrackInit == Init => TrackInv
<1> SUFFICES ASSUME Init PROVE TrackInv
  OBVIOUS
<1>1. <<>> \in Seq(Uris) /\ <<>> \in Seq(SoundJobs) /\ Len(<<>>) <= MaxQueue
  BY TrackControllerAssumption
<1>2. tc \in Controllers /\ Len(tc.queue) <= MaxQueue
  BY <1>1 DEF Init, Controllers
<1>3. ads \in AdControllers /\ ads.brk.n <= ads.brk.total + 1
  BY DEF Init, AdControllers, NoState
<1>4. media \in [active : SUBSET Tracks, ended : BOOLEAN]
  BY DEF Init
<1>5. ~IsAd(tc.track) /\ media.active \subseteq {tc.track}
  BY DEF Init, IsAd, NoTrack, Content
<1>6. Good(World)
  BY <1>1, <1>2, <1>3, <1>4, <1>5 DEF Init, Good, Loose, Typed, World
<1>7. calls \in 0..MaxCalls
  BY TrackControllerAssumption DEF Init
<1>8. QED
  BY <1>6, <1>7 DEF TrackInv

------------------------------------------------------------------------------
\* The steps

(* A call of the application is counted.                                       *)
LEMMA CallCounted ==
    ASSUME TrackInv, Call
    PROVE  calls' \in 0..MaxCalls
BY TrackControllerAssumption DEF TrackInv, Call

(* The record of the state has the variables as its fields.                    *)
LEMMA WorldFields ==
    /\ World.tc = tc /\ World.ads = ads /\ World.jobs = jobs
    /\ World.media = media
BY DEF World

(* Callbacks of promises, in whatever order they settle, preserve it.          *)
THEOREM SettleStep == TrackInv /\ Settle => TrackInv'
<1> SUFFICES ASSUME TrackInv, Settle PROVE TrackInv'
  OBVIOUS
<1> USE DEF TrackInv
<1>1. CASE listResolves
  <2>1. calls' \in 0..MaxCalls
    BY <1>1 DEF listResolves
  <2>2. CASE ads.brk = NoState
    <3>1. Good(nextBreak(World))
      BY <2>2, WorldFields, GoodContent, NextBreakGood
    <3>2. Become(nextBreak(World))
      BY <1>1, <2>2 DEF listResolves
    <3>3. QED
      BY <2>1, <3>1, <3>2, BecomeInv
  <2>3. CASE ads.brk # NoState
    <3>1. PICK total \in Totals :
             LET w == [World EXCEPT !.ads.brk.total = total] IN
             IF w.ads.brk.n < total THEN Become(startAd(w))
             ELSE Become(nextBreak(completeAdBreak([w EXCEPT !.ads.brk.ad = "none"])))
      BY <1>1, <2>3 DEF listResolves
    <3> DEFINE w == [World EXCEPT !.ads.brk.total = total]
               v == [w EXCEPT !.ads.brk.ad = "none"]
    <3>2. ads \in AdControllers /\ ads.brk \in BreakStates
      BY <2>3, WorldFields, TypedParts DEF Good, Loose
    <3>3. total \in 0..MaxAds /\ ads.brk.total \in {-1, total}
      BY <2>3, <3>1, <3>2 DEF Totals, BreakStates
    <3>4. Good(w)
      BY <2>3, <3>3, WorldFields, TotalGood
    <3>5. w.ads.brk.total = total /\ w.ads.brk # NoState
      <4>1. w.ads.brk = [ads.brk EXCEPT !.total = total]
        BY <3>2 DEF World, AdControllers
      <4>2. w.ads.brk.total = total /\ w.ads.brk.id \in Breaks
        BY <3>2, <4>1 DEF BreakStates
      <4>3. QED
        BY <4>2, TrackControllerAssumption DEF NoState, NoBreak
    <3> HIDE DEF w
    <3>6. CASE w.ads.brk.n < total
      <4>1. Good(startAd(w))
        BY <3>4, <3>5, <3>6, StartAdGood
      <4>2. Become(startAd(w))
        BY <3>1, <3>6 DEF w
      <4>3. QED
        BY <2>1, <4>1, <4>2, BecomeInv
    <3>7. CASE ~(w.ads.brk.n < total)
      <4>1. Good(v)
        BY <3>4, <3>5, AdStateGood
      <4>2. Become(nextBreak(completeAdBreak(v)))
        BY <3>1, <3>7 DEF w
      <4> HIDE DEF v
      <4>3. Good(nextBreak(completeAdBreak(v)))
        BY <4>1, CompleteBreakGood, NextBreakGood
      <4>4. QED
        BY <2>1, <4>2, <4>3, BecomeInv
    <3>8. QED
      BY <3>6, <3>7
  <2>4. QED
    BY <2>2, <2>3
<1>2. CASE listRejects
  <2>1. Good(nextBreak(completeAdBreak(World)))
    BY CompleteBreakGood, NextBreakGood
  <2>2. QED
    BY <1>2, <2>1, BecomeInv DEF listRejects
<1>3. CASE nextAdOrBreakEnds
  <2> DEFINE v == [World EXCEPT !.ads.loadingNext = "no"]
  <2>1. Good(v)
    BY LockGood
  <2>2. Become(v) /\ calls' = calls
    BY <1>3 DEF nextAdOrBreakEnds, Become, World
  <2> HIDE DEF v
  <2>3. QED
    BY <2>1, <2>2, BecomeInv
<1>4. ASSUME NEW i \in DOMAIN jobs, prerollSettles(i) PROVE TrackInv'
  <2> DEFINE job == jobs[i]
             w == enterRoll(Without(i), job)
  <2>1. job \in SoundJobs /\ job.kind = "preroll" /\ calls' \in 0..MaxCalls
    BY <1>4, WithoutGood DEF prerollSettles, Settles
  <2>2. job \in Jobs /\ job.track \in Tracks
    BY <2>1 DEF SoundJobs, Jobs
  <2>3. Good(w)
    BY <2>2, WithoutGood, EnterRollGood
  <2>4. Become(IF rollEntered(w, job) \/ w.tc.track # job.track THEN w
               ELSE activate(w, job.track))
    BY <1>4 DEF prerollSettles
  <2> HIDE DEF w, job
  <2>5. w.tc.track = job.track => Good(activate(w, job.track))
    BY <2>2, <2>3, ActivateGood
  <2>6. QED
    BY <2>1, <2>3, <2>4, <2>5, BecomeInv
<1>5. ASSUME NEW i \in DOMAIN jobs, postrollSettles(i) PROVE TrackInv'
  <2> DEFINE job == jobs[i]
             w == enterRoll(Without(i), job)
             over == [w EXCEPT !.jobs = Append(@, NewJob("advance", NoUri, NoTrack))]
  <2>1. job \in Jobs /\ calls' \in 0..MaxCalls
    BY <1>5, WithoutGood DEF postrollSettles, Settles, SoundJobs
  <2>2. Good(w)
    BY <2>1, WithoutGood, EnterRollGood
  <2>3. NewJob("advance", NoUri, NoTrack) \in SoundJobs
    BY DEF NewJob, SoundJobs, Jobs
  <2>4. Good(over)
    <3> HIDE DEF w
    <3>1. QED
      BY <2>2, <2>3, AppendJobGood
  <2>5. Become(IF rollEntered(w, job) \/ job.stale THEN w ELSE over)
    BY <1>5 DEF postrollSettles
  <2> HIDE DEF w, job, over
  <2>6. QED
    BY <2>1, <2>2, <2>4, <2>5, BecomeInv
<1>6. ASSUME NEW i \in DOMAIN jobs, advance(i) PROVE TrackInv'
  <2>1. Good(Without(i)) /\ calls' \in 0..MaxCalls
    BY <1>6, WithoutGood DEF advance, Settles
  <2>2. Good(next(Without(i)))
    BY <2>1, NextGood DEF Good
  <2>3. Become(IF jobs[i].stale \/ tc.queue = <<>> THEN Without(i) ELSE next(Without(i)))
    BY <1>6 DEF advance
  <2>4. QED
    BY <2>1, <2>2, <2>3, BecomeInv
<1>7. ASSUME NEW i \in DOMAIN jobs, optionsSettle(i) PROVE TrackInv'
  <2> DEFINE ad == jobs[i].track
             w == Without(i)
  <2>1. Good(w) /\ w.tc = tc /\ w.ads = ads /\ ad \in Tracks \cup {NoTrack}
    BY WithoutGood DEF SoundJobs, Jobs
  <2>2. calls' \in 0..MaxCalls
    BY <1>7 DEF optionsSettle, Settles
  <2>3. CASE optionsInterrupted(ad)
    <3>1. Become(w)
      BY <1>7, <2>3 DEF optionsSettle
    <3>2. QED
      BY <2>1, <2>2, <3>1, BecomeInv
  <2>4. CASE ~optionsInterrupted(ad)
    <3>1. Become(setCurrentTrack(w, ad, FALSE)) \/ Become(failAd(w))
      BY <1>7, <2>4 DEF optionsSettle
    <3>2. /\ tc.adParent = ad.parent /\ ads.brk # NoState
          /\ ads.brk.id = ad.brk /\ ads.brk.n = ad.n
      BY <2>4 DEF optionsInterrupted, NoState
    <3> HIDE DEF w, ad
    <3>3. Good(setCurrentTrack(w, ad, FALSE))
      BY <2>1, <3>2, SetAdGood
    <3>4. Good(failAd(w))
      BY <2>1, FailAdGood
    <3>5. QED
      BY <2>2, <3>1, <3>3, <3>4, BecomeInv
  <2>5. QED
    BY <2>3, <2>4
<1>8. QED
  BY <1>1, <1>2, <1>3, <1>4, <1>5, <1>6, <1>7 DEF Settle

(* Events of the media element, timers and errors preserve it.                 *)
THEOREM EventStep == TrackInv /\ Event => TrackInv'
<1> SUFFICES ASSUME TrackInv, Event PROVE TrackInv'
  OBVIOUS
<1> USE DEF TrackInv
<1>1. CASE adsDiscovered
  <2> DEFINE v == [World EXCEPT !.ads.known = TRUE]
  <2>1. Good(v)
    BY DEF Good, Loose, Typed, AdControllers
  <2>2. Become(v) /\ calls' = calls
    BY <1>1 DEF adsDiscovered, Become, World
  <2> HIDE DEF v
  <2>3. QED
    BY <2>1, <2>2, BecomeInv
<1>2. CASE ended
  <2> DEFINE w == [World EXCEPT !.media.ended = TRUE]
  <2>1. Good(w)
    BY DEF Good, Loose, Typed
  <2>2. Become(endedHandlers(w)) /\ calls' = calls
    BY <1>2 DEF ended
  <2> HIDE DEF w
  <2>3. Good(endedHandlers(w))
    BY <2>1, OnEndedGood, EndAdGood DEF endedHandlers
  <2>4. QED
    BY <2>2, <2>3, BecomeInv
<1>3. CASE playing
  <2> DEFINE a == IF ads.brk.ad = "entered" THEN "started" ELSE "completed"
             v == [World EXCEPT !.ads.brk.ad = a]
  <2>1. ads.brk # NoState
    BY <1>3 DEF playing, NoState
  <2>2. Good(v)
    BY <2>1, WorldFields, AdStateGood
  <2>3. Become(v) /\ calls' = calls
    BY <1>3 DEF playing, Become, World
  <2> HIDE DEF v
  <2>4. QED
    BY <2>2, <2>3, BecomeInv
<1>4. CASE timeUpdate
  <2> DEFINE midrolls == open(World, ads.provider, "midroll")
             reached(b) == {c \in midrolls : Start[c] <= Start[b]}
  <2>1. PICK b \in midrolls : Become(setPendingBreaks(World, reached(b)))
    BY <1>4 DEF timeUpdate
  <2>2. ads.provider \in Uris
    BY <1>4, WorldFields, TypedParts DEF timeUpdate, Good, Loose, AdControllers
  <2>3. reached(b) \in SUBSET Breaks
    BY <2>2, TrackControllerAssumption DEF open, NoUri
  <2> HIDE DEF reached
  <2>4. Good(setPendingBreaks(World, reached(b)))
    BY <2>3, SetPendingBreaksGood
  <2>5. QED
    BY <1>4, <2>1, <2>4, BecomeInv DEF timeUpdate
<1>5. CASE enforcePlayoutLimits
  <2> DEFINE w == [World EXCEPT !.ads.brk.n = ads.brk.total + 1, !.ads.brk.ad = "none"]
             v == IF ads.brk.n >= ads.brk.total THEN completeAdBreak(w) ELSE w
  <2>1. ads.brk # NoState
    BY <1>5 DEF enforcePlayoutLimits, NoState
  <2>2. Good(w)
    BY <2>1, WorldFields, LimitGood
  <2>3. Good(v)
    <3> HIDE DEF w
    <3>1. QED
      BY <2>2, CompleteBreakGood
  <2>4. Become(nextAdOrBreak(v)) /\ calls' = calls
    BY <1>5 DEF enforcePlayoutLimits
  <2> HIDE DEF w, v
  <2>5. QED
    BY <2>3, <2>4, NextAdOrBreakGood, BecomeInv
<1>6. CASE loadTimeout
  <2>1. Good(failAd(World))
    BY FailAdGood
  <2>2. QED
    BY <1>6, <2>1, BecomeInv DEF loadTimeout
<1>7. CASE trackError
  <2>1. Good(failAd(World))
    BY FailAdGood
  <2>2. calls' \in 0..MaxCalls
    BY <1>7, CallCounted DEF trackError
  <2>3. QED
    BY <1>7, <2>1, <2>2, BecomeInv DEF trackError
<1>8. CASE seekBack
  <2> DEFINE newAds == IF HasAd(World) THEN ads ELSE [ads EXCEPT !.spent = {}]
             v == [World EXCEPT !.ads = newAds, !.media.ended = FALSE]
  <2>1. ads \in AdControllers
    BY WorldFields, TypedParts DEF Good, Loose
  <2>2. newAds \in AdControllers /\ newAds.brk = ads.brk
    BY <2>1 DEF AdControllers
  <2>3. Become(v)
    BY <1>8 DEF seekBack, Become, World
  <2>4. Good(v)
    <3> HIDE DEF newAds
    <3>1. QED
      BY <2>1, <2>2 DEF Good, Loose, Typed, World
  <2>5. calls' \in 0..MaxCalls
    BY <1>8, CallCounted DEF seekBack
  <2> HIDE DEF v
  <2>6. QED
    BY <2>3, <2>4, <2>5, BecomeInv
<1>9. QED
  BY <1>1, <1>2, <1>3, <1>4, <1>5, <1>6, <1>7, <1>8 DEF Event

(* A list that load() and enqueue() are given.                                 *)
LEMMA ListFacts ==
    ASSUME NEW us \in Lists
    PROVE  us \in Seq(Uris) /\ us # <<>> /\ Len(us) \in 1..MaxQueue
<1>1. PICK n \in 1..MaxQueue : us \in [1..n -> Uris]
  BY DEF Lists
<1>2. us \in Seq(Uris) /\ Len(us) = n
  BY <1>1, SeqDef, TrackControllerAssumption
<1>3. QED
  BY <1>1, <1>2, EmptySeq, TrackControllerAssumption

(* Calls of the application preserve it.                                       *)
THEOREM ApplicationStep == TrackInv /\ Application => TrackInv'
<1> SUFFICES ASSUME TrackInv, Application PROVE TrackInv'
  OBVIOUS
<1> USE DEF TrackInv
<1>1. Loose(World) /\ tc.queue \in Seq(Uris)
  BY WorldFields, TypedParts DEF Good, Loose
<1>2. <<>> \in Seq(Uris) /\ Len(<<>>) <= MaxQueue /\ NoUri \in Uris \cup {NoUri}
  BY TrackControllerAssumption
<1>3. ASSUME NEW us \in Lists, load(us) PROVE TrackInv'
  <2>1. /\ Head(us) \in Uris \cup {NoUri} /\ Tail(us) \in Seq(Uris)
        /\ Len(Tail(us)) <= MaxQueue
    BY ListFacts, HeadTailProperties, TrackControllerAssumption
  <2>2. Good(setQueue(World, Head(us), Tail(us)))
    BY <1>1, <2>1, SetQueueGood
  <2>3. calls' \in 0..MaxCalls
    BY <1>3, CallCounted DEF load
  <2>4. QED
    BY <1>3, <2>2, <2>3, BecomeInv DEF load
<1>4. ASSUME NEW us \in Lists, enqueue(us) PROVE TrackInv'
  <2> DEFINE q == tc.queue \o us
             w == setQueueOnly(World, q)
  <2>1. q \in Seq(Uris) /\ Len(q) <= MaxQueue
    BY <1>1, <1>4, ListFacts, ConcatProperties DEF enqueue
  <2>2. Loose(w) /\ w.ads = ads /\ w.tc.track = tc.track
    BY <1>1, <2>1, WorldFields, QueueOnlyTyped
  <2>3. Good(w)
    BY <2>2, WorldFields DEF Good
  <2>4. calls' \in 0..MaxCalls
    BY <1>4, CallCounted DEF enqueue
  <2>5. Become(IF tc.track = NoTrack THEN next(w) ELSE w)
    BY <1>4 DEF enqueue
  <2> HIDE DEF w
  <2>6. Good(next(w))
    BY <2>2, NextGood
  <2>7. QED
    BY <2>3, <2>4, <2>5, <2>6, BecomeInv
<1>5. CASE nextTrack
  <2>1. Good(next(World)) /\ calls' \in 0..MaxCalls
    BY <1>1, <1>5, NextGood, CallCounted DEF nextTrack
  <2>2. QED
    BY <1>5, <2>1, BecomeInv DEF nextTrack
<1>6. CASE clearQueue
  <2> DEFINE w == setQueueOnly(World, <<>>)
  <2>1. Loose(w) /\ w.ads = ads /\ w.tc.track = tc.track
    BY <1>1, <1>2, WorldFields, QueueOnlyTyped
  <2>2. Good(w)
    BY <2>1, WorldFields DEF Good
  <2>3. calls' \in 0..MaxCalls
    BY <1>6, CallCounted DEF clearQueue
  <2>4. QED
    BY <1>6, <2>2, <2>3, BecomeInv DEF clearQueue
<1>7. CASE unload
  <2>1. Good(setQueue(World, NoUri, <<>>))
    BY <1>1, <1>2, SetQueueGood
  <2>2. calls' \in 0..MaxCalls
    BY <1>7, CallCounted DEF unload
  <2>3. QED
    BY <1>7, <2>1, <2>2, BecomeInv DEF unload
<1>8. CASE skipAd
  <2>1. Good(nextAdOrBreak(completeAd(World)))
    BY CompleteAdGood, NextAdOrBreakGood
  <2>2. calls' \in 0..MaxCalls
    BY <1>8, CallCounted DEF skipAd
  <2>3. QED
    BY <1>8, <2>1, <2>2, BecomeInv DEF skipAd
<1>9. CASE skipAdBreak
  <2>1. Good(nextAdOrBreak(completeAdBreak(World)))
    BY CompleteBreakGood, NextAdOrBreakGood
  <2>2. calls' \in 0..MaxCalls
    BY <1>9, CallCounted DEF skipAdBreak
  <2>3. QED
    BY <1>9, <2>1, <2>2, BecomeInv DEF skipAdBreak
<1>10. QED
  BY <1>3, <1>4, <1>5, <1>6, <1>7, <1>8, <1>9 DEF Application

(* Every step preserves it.                                                    *)
THEOREM TrackStep == TrackInv /\ [Next]_vars => TrackInv'
<1> SUFFICES ASSUME TrackInv, [Next]_vars PROVE TrackInv'
  OBVIOUS
<1>1. CASE Next
  BY <1>1, SettleStep, EventStep, ApplicationStep DEF Next
<1>2. CASE UNCHANGED vars
  BY <1>2 DEF vars, TrackInv, World, Good, Loose, Typed, IsAd
<1>3. QED
  BY <1>1, <1>2

------------------------------------------------------------------------------
(* The invariant of every reachable state.                                     *)
THEOREM TrackInvariant == Spec => []TrackInv
BY TrackInit, TrackStep, PTL DEF Spec

(* The state has its type: in particular the queue stays within its bound and  *)
(* no activation, nested or late, makes the absence of a track the active one. *)
THEOREM TypeCorrect == Spec => []TypeOK
BY TrackInvariant, InvMeans, PTL

(* Only the current track is ever active, however deep setCurrentTrack,        *)
(* setAdsProvider and the handler of 'adBreakCompleted' call one another.      *)
THEOREM OneActiveHolds == Spec => []OneActive
BY TrackInvariant, InvMeans, PTL

(* An ad is current only during its break, and is pegged to the content that   *)
(* the end of the break goes back to.                                          *)
THEOREM AdHasBreakHolds == Spec => []AdHasBreak
BY TrackInvariant, InvMeans, PTL

------------------------------------------------------------------------------
\* The current entry plays, and a break moves on

(* A preroll of the track is about to be decided on.                           *)
rollFor(js, t) == \E i \in DOMAIN js : js[i].kind = "preroll" /\ js[i].track = t

(* The current track is active or about to be, unless there is none.           *)
Supplied(w) ==
    \/ w.tc.track = NoTrack
    \/ w.tc.track \in w.media.active
    \/ rollFor(w.jobs, w.tc.track)

(* The current track is the current entry of the queue, or an ad in its place. *)
InPlace(w) ==
    /\ w.tc.adParent = w.tc.current
    /\ IsAd(w.tc.track) \/ w.tc.track = Content(w.tc.current)

(* Without a provider there are no breaks.                                     *)
BreaksProvided(w) ==
    w.ads.provider = NoUri => w.ads.brk = NoState /\ w.ads.pending = {}

(* What moves a break on.  An ad that has started is also one that the media   *)
(* element has not ended: the end of an ad asks for the list once more.        *)
Moving(w) ==
    \/ w.ads.loadingNext = "list"
    \/ w.ads.brk.ad \in {"entered", "dropped"}
    \/ /\ w.ads.loadingNext = "no"
       /\ w.ads.brk.ad \in {"started", "completed"}
       /\ ~w.media.ended
       /\ w.media.active # {} \/ rollFor(w.jobs, w.tc.track)

(* What holds between the calls, but for what moves a break on.                *)
Calm(w) ==
    /\ Good(w)
    /\ InPlace(w)
    /\ BreaksProvided(w)
    /\ w.ads.brk = NoState => Supplied(w)

Sure(w) == Calm(w) /\ (w.ads.brk # NoState => Moving(w))

(* What holds of v, when it follows from w with the end of a break.            *)
BreakOver(v, w) ==
    /\ InPlace(v)
    /\ Supplied(v)
    /\ BreaksProvided(v)
    /\ v.ads.brk = NoState
    /\ w.ads.pending = {} => v.ads.pending = {}

(* A preroll that is asked for is found among the jobs, and so are the others. *)
LEMMA AppendedRoll ==
    ASSUME NEW js \in Seq(SoundJobs), NEW job \in SoundJobs, NEW t
    PROVE  /\ job.kind = "preroll" => rollFor(Append(js, job), job.track)
           /\ rollFor(js, t) => rollFor(Append(js, job), t)
<1> DEFINE ks == Append(js, job)
<1>1. /\ Len(js) \in Nat /\ DOMAIN js = 1..Len(js)
      /\ ks \in Seq(SoundJobs) /\ Len(ks) = Len(js) + 1 /\ DOMAIN ks = 1..Len(ks)
      /\ ks[Len(js) + 1] = job
      /\ \A i \in 1..Len(js) : ks[i] = js[i]
  BY AppendProperties, LenProperties
<1> HIDE DEF ks
<1>2. Len(js) + 1 \in DOMAIN ks
  BY <1>1
<1>3. job.kind = "preroll" => rollFor(ks, job.track)
  BY <1>1, <1>2 DEF rollFor
<1>4. ASSUME rollFor(js, t) PROVE rollFor(ks, t)
  <2>1. PICK i \in DOMAIN js : js[i].kind = "preroll" /\ js[i].track = t
    BY <1>4 DEF rollFor
  <2>2. i \in DOMAIN ks /\ ks[i] = js[i]
    BY <1>1, <2>1
  <2>3. QED
    BY <2>1, <2>2 DEF rollFor
<1>5. QED
  BY <1>3, <1>4 DEF ks

(* What RemoveAt leaves was there.                                             *)
LEMMA RemoveAtLeaves ==
    ASSUME NEW S, NEW s \in Seq(S), NEW i \in DOMAIN s
    PROVE  LET r == RemoveAt(s, i) IN
           /\ DOMAIN r = 1..(Len(s) - 1) /\ Len(s) \in Nat /\ i \in 1..Len(s)
           /\ DOMAIN s = 1..Len(s)
           /\ \A k \in 1..(Len(s) - 1) : r[k] = IF k < i THEN s[k] ELSE s[k + 1]
<1> DEFINE front == SubSeq(s, 1, i - 1)
           back == SubSeq(s, i + 1, Len(s))
<1>1. Len(s) \in Nat /\ DOMAIN s = 1..Len(s) /\ i \in 1..Len(s)
  BY LenProperties
<1>2. \A n \in 1..Len(s) : s[n] \in S
  BY <1>1, ElementOfSeq
<1>3. /\ front \in Seq(S) /\ Len(front) = i - 1
      /\ \A n \in 1..(i - 1) : front[n] = s[n]
  <2>1. \A n \in 1..(i - 1) : s[n] \in S
    BY <1>1, <1>2
  <2>2. 1 \in Int /\ i - 1 \in Int
    BY <1>1
  <2>3. Len(front) = (IF 1 <= i - 1 THEN i - 1 - 1 + 1 ELSE 0)
    BY <2>1, <2>2, SubSeqProperties
  <2>4. \A n \in 1..(i - 1 - 1 + 1) : front[n] = s[1 + n - 1]
    BY <2>1, <2>2, SubSeqProperties
  <2>5. front \in Seq(S)
    BY <2>1, <2>2, SubSeqProperties
  <2>6. QED
    BY <1>1, <2>3, <2>4, <2>5
<1>4. /\ back \in Seq(S) /\ Len(back) = Len(s) - i
      /\ \A n \in 1..(Len(s) - i) : back[n] = s[i + n]
  <2>1. \A n \in (i + 1)..Len(s) : s[n] \in S
    BY <1>1, <1>2
  <2>2. i + 1 \in Int /\ Len(s) \in Int
    BY <1>1
  <2>3. Len(back) = (IF i + 1 <= Len(s) THEN Len(s) - (i + 1) + 1 ELSE 0)
    BY <2>1, <2>2, SubSeqProperties
  <2>4. \A n \in 1..(Len(s) - (i + 1) + 1) : back[n] = s[i + 1 + n - 1]
    BY <2>1, <2>2, SubSeqProperties
  <2>5. back \in Seq(S)
    BY <2>1, <2>2, SubSeqProperties
  <2>6. Len(s) - (i + 1) + 1 = Len(s) - i /\ \A n \in 1..(Len(s) - i) : i + 1 + n - 1 = i + n
    BY <1>1
  <2>7. QED
    BY <1>1, <2>3, <2>4, <2>5, <2>6
<1> DEFINE both == front \o back
<1>5. RemoveAt(s, i) = both
  BY DEF RemoveAt
<1> HIDE DEF front, back
<1>6. /\ both \in Seq(S) /\ Len(both) = Len(front) + Len(back)
      /\ \A n \in 1..(Len(front) + Len(back)) :
            both[n] = IF n <= Len(front) THEN front[n] ELSE back[n - Len(front)]
  BY <1>3, <1>4, ConcatProperties
<1> HIDE DEF both
<1>7. DOMAIN both = 1..(Len(s) - 1)
  BY <1>1, <1>3, <1>4, <1>6, LenProperties
<1>8. ASSUME NEW k \in 1..(Len(s) - 1)
      PROVE  both[k] = IF k < i THEN s[k] ELSE s[k + 1]
  <2>1. both[k] = IF k <= i - 1 THEN front[k] ELSE back[k - (i - 1)]
    BY <1>1, <1>3, <1>4, <1>6, <1>8
  <2>2. CASE k < i
    <3>1. k \in 1..(i - 1) /\ k <= i - 1
      BY <1>1, <1>8, <2>2
    <3>2. QED
      BY <1>3, <2>1, <2>2, <3>1
  <2>3. CASE ~(k < i)
    <3>1. /\ ~(k <= i - 1) /\ k - (i - 1) \in 1..(Len(s) - i)
          /\ i + (k - (i - 1)) = k + 1
      BY <1>1, <1>8, <2>3
    <3>2. QED
      BY <1>4, <2>1, <2>3, <3>1
  <2>4. QED
    BY <2>2, <2>3
<1>9. QED
  BY <1>1, <1>5, <1>7, <1>8

(* RemoveAt keeps every other element of a sequence.                           *)
LEMMA RemoveAtKeeps ==
    ASSUME NEW S, NEW s \in Seq(S), NEW i \in DOMAIN s, NEW j \in DOMAIN s, i # j
    PROVE  \E k \in DOMAIN RemoveAt(s, i) : RemoveAt(s, i)[k] = s[j]
<1> DEFINE r == RemoveAt(s, i)
<1>1. /\ DOMAIN r = 1..(Len(s) - 1) /\ Len(s) \in Nat /\ i \in 1..Len(s)
      /\ DOMAIN s = 1..Len(s)
      /\ \A k \in 1..(Len(s) - 1) : r[k] = IF k < i THEN s[k] ELSE s[k + 1]
  BY RemoveAtLeaves
<1> HIDE DEF r
<1>2. CASE j < i
  <2>1. j \in 1..(Len(s) - 1)
    BY <1>1, <1>2
  <2>2. r[j] = s[j]
    BY <1>1, <1>2, <2>1
  <2>3. QED
    BY <1>1, <2>1, <2>2 DEF r
<1>3. CASE i < j
  <2>1. j - 1 \in 1..(Len(s) - 1) /\ ~(j - 1 < i) /\ j - 1 + 1 = j
    BY <1>1, <1>3
  <2>2. r[j - 1] = s[j]
    BY <1>1, <2>1
  <2>3. QED
    BY <1>1, <2>1, <2>2 DEF r
<1>4. QED
  BY <1>1, <1>2, <1>3

(* A callback that is no preroll of the track leaves the preroll to come.      *)
LEMMA RemovedRoll ==
    ASSUME NEW js \in Seq(SoundJobs), NEW i \in DOMAIN js, NEW t,
           js[i].kind # "preroll" \/ js[i].track # t, rollFor(js, t)
    PROVE  rollFor(RemoveAt(js, i), t)
<1>1. PICK j \in DOMAIN js : js[j].kind = "preroll" /\ js[j].track = t
  BY DEF rollFor
<1>2. i # j
  BY <1>1
<1>3. PICK k \in DOMAIN RemoveAt(js, i) : RemoveAt(js, i)[k] = js[j]
  BY <1>2, RemoveAtKeeps
<1>4. QED
  BY <1>1, <1>3 DEF rollFor

(* A change of the queue leaves the prerolls to come.                          *)
LEMMA StaleRoll ==
    ASSUME NEW w, Typed(w), NEW t, rollFor(w.jobs, t)
    PROVE  rollFor(queueChanged(w).jobs, t)
<1>1. w.jobs \in Seq(SoundJobs) /\ DOMAIN w.jobs = 1..Len(w.jobs)
  BY TypedParts, LenProperties
<1>2. PICK j \in DOMAIN w.jobs : w.jobs[j].kind = "preroll" /\ w.jobs[j].track = t
  BY DEF rollFor
<1>3. w.jobs[j] \in Jobs
  BY <1>1, ElementOfSeq DEF SoundJobs
<1> DEFINE js == [i \in DOMAIN w.jobs |-> [w.jobs[i] EXCEPT !.stale = TRUE]]
<1>4. queueChanged(w).jobs = js
  BY DEF queueChanged, Typed
<1>5. j \in DOMAIN js /\ js[j].kind = "preroll" /\ js[j].track = t
  BY <1>2, <1>3 DEF Jobs
<1> HIDE DEF js
<1>6. QED
  BY <1>4, <1>5 DEF rollFor

(* activate changes nothing but what is active.                                *)
LEMMA ActivateKeeps ==
    ASSUME NEW w, Typed(w), NEW t
    PROVE  LET v == activate(w, t) IN
           /\ v.tc = w.tc /\ v.ads = w.ads /\ v.jobs = w.jobs
           /\ v.media.active = w.media.active \cup {t}
           /\ ~w.media.ended => ~v.media.ended
<1> DEFINE mediaEnded == IF t \in w.media.active THEN w.media.ended ELSE FALSE
           v == activate(w, t)
<1>1. v = [w EXCEPT !.media.ended = mediaEnded, !.media.active = @ \cup {t}]
  BY DEF activate
<1>2. ~w.media.ended => ~mediaEnded
  OBVIOUS
<1> HIDE DEF mediaEnded, v
<1>3. /\ v.tc = w.tc /\ v.ads = w.ads /\ v.jobs = w.jobs
      /\ v.media.active = w.media.active \cup {t} /\ v.media.ended = mediaEnded
  BY <1>1 DEF Typed
<1>4. ~w.media.ended => ~v.media.ended
  BY <1>2, <1>3
<1>5. QED
  BY <1>3, <1>4 DEF v

(* A track is entered: it is active or about to be, and no preroll is lost.    *)
LEMMA EnterSupplies ==
    ASSUME NEW w, Loose(w), NEW t \in Tracks \cup {NoTrack}, NEW c \in BOOLEAN
    PROVE  LET v == enter(w, t, c) IN
           /\ w.tc.track = t => Supplied(v)
           /\ Supplied(w) => Supplied(v)
           /\ ~w.media.ended => ~v.media.ended
           /\ c /\ t # NoTrack => rollFor(v.jobs, t)
           /\ \A x : rollFor(w.jobs, x) => rollFor(v.jobs, x)
           /\ w.media.active \subseteq v.media.active
<1> DEFINE v == enter(w, t, c)
<1>1. CASE t = NoTrack
  <2>1. v = w
    BY <1>1 DEF enter
  <2>2. QED
    BY <1>1, <2>1 DEF Supplied
<1>2. CASE t # NoTrack /\ c
  <2> DEFINE job == NewJob("preroll", w.ads.provider, t)
             js == Append(w.jobs, job)
  <2>1. w.ads.provider \in Uris \cup {NoUri} /\ w.jobs \in Seq(SoundJobs)
    BY TypedParts DEF Loose, AdControllers
  <2>2. job \in SoundJobs /\ job.kind = "preroll" /\ job.track = t
    BY <1>2, <2>1 DEF NewJob, SoundJobs, Jobs
  <2> HIDE DEF job
  <2>3. rollFor(js, t) /\ \A x : rollFor(w.jobs, x) => rollFor(js, x)
    BY <2>1, <2>2, AppendedRoll
  <2>4. v = [w EXCEPT !.jobs = js]
    BY <1>2 DEF enter, job
  <2> HIDE DEF js, v
  <2>5. v.tc = w.tc /\ v.media = w.media /\ v.jobs = js
    BY <2>4 DEF Loose, Typed
  <2>6. (w.tc.track = t => Supplied(v)) /\ (Supplied(w) => Supplied(v))
    BY <2>3, <2>5 DEF Supplied
  <2>7. QED
    BY <2>3, <2>5, <2>6 DEF v
<1>3. CASE t # NoTrack /\ ~c
  <2>1. v = IF w.tc.track = t THEN activate(w, t) ELSE w
    BY <1>3 DEF enter
  <2> DEFINE a == activate(w, t)
  <2>2. /\ a.tc = w.tc /\ a.jobs = w.jobs
        /\ a.media.active = w.media.active \cup {t}
        /\ ~w.media.ended => ~a.media.ended
    BY ActivateKeeps DEF Loose
  <2> HIDE DEF v, a
  <2>3. w.tc.track = t => Supplied(a)
    BY <2>2 DEF Supplied
  <2>4. Supplied(w) => Supplied(a)
    BY <2>2 DEF Supplied
  <2>5. v = IF w.tc.track = t THEN a ELSE w
    BY <2>1 DEF a
  <2>6. CASE w.tc.track = t
    BY <1>3, <2>2, <2>3, <2>5, <2>6 DEF v
  <2>7. CASE w.tc.track # t
    BY <1>3, <2>5, <2>7 DEF v
  <2>8. QED
    BY <2>6, <2>7
<1>4. QED
  BY <1>1, <1>2, <1>3

(* What leaving the current track for the content of the queue does.           *)
LEMMA LeavePlaces ==
    ASSUME NEW w, Typed(w), NEW u \in Uris \cup {NoUri}, w.tc.current = u
    PROVE  LET v == leaveFor(w, Content(u)) IN
           /\ InPlace(v) /\ v.tc.track = Content(u) /\ v.ads = w.ads /\ v.jobs = w.jobs
           /\ ~w.media.ended => ~v.media.ended
<1> DEFINE t == Content(u)
           left == w.tc.track \notin w.media.active
           v == leaveFor(w, t)
<1>1. t.parent = u
  BY DEF Content
<1>2. v = [w EXCEPT !.tc.track = t, !.tc.adParent = u,
                    !.media.active = @ \ {w.tc.track}, !.media.ended = @ /\ left]
  BY <1>1 DEF leaveFor, leave, Typed
<1> HIDE DEF t, v
<1>3. /\ v.tc.track = t /\ v.tc.adParent = u /\ v.tc.current = w.tc.current
      /\ v.ads = w.ads /\ v.jobs = w.jobs
  BY <1>2 DEF Typed, Controllers
<1>4. v.media.ended = (w.media.ended /\ left)
  BY <1>2 DEF Typed
<1>5. ~w.media.ended => ~v.media.ended
  BY <1>4
<1>6. QED
  BY <1>3, <1>5 DEF InPlace, v, t

(* The provider is changed while no break is in progress.                      *)
LEMMA AssignProviderKeeps ==
    ASSUME NEW w, Typed(w), BreaksProvided(w), w.ads.brk = NoState, NEW u
    PROVE  LET v == assignProvider(w, u) IN
           /\ v.tc = w.tc /\ v.jobs = w.jobs /\ v.media = w.media
           /\ v.ads.brk = NoState
           /\ BreaksProvided(v)
           /\ w.ads.pending = {} => v.ads.pending = {}
BY DEF assignProvider, Typed, AdControllers, BreaksProvided

(* setCurrentTrack of the content of the queue after a break.                  *)
LEMMA SetContentAfterBreak ==
    ASSUME NEW w, Typed(w), w.media.active \subseteq {w.tc.track},
           BreaksProvided(w), w.ads.brk = NoState,
           NEW u \in Uris \cup {NoUri}, w.tc.current = u, NEW c \in BOOLEAN
    PROVE  BreakOver(setCurrentTrackWith(assignProvider, w, Content(u), c), w)
<1> DEFINE t == Content(u)
           left == leaveFor(w, t)
           here == assignProvider(left, t.parent)
<1>1. t \in Tracks \cup {NoTrack} /\ ~IsAd(t) /\ t.parent = u
  BY TrackFacts DEF Content, NoTrack
<1>2. Loose(left) /\ left.tc.track = t /\ left.ads = w.ads /\ InPlace(left)
  BY <1>1, LeaveLoose, LeavePlaces
<1>3. BreaksProvided(left)
  BY <1>2 DEF BreaksProvided
<1>4. setCurrentTrackWith(assignProvider, w, t, c) = enter(here, t, c)
  BY <1>1 DEF setCurrentTrackWith, enter, leave, leaveFor
<1> HIDE DEF left
<1>5. Loose(here)
  BY <1>1, <1>2, AssignProviderLoose
<1>6. /\ here.tc = left.tc /\ here.ads.brk = NoState /\ BreaksProvided(here)
      /\ w.ads.pending = {} => here.ads.pending = {}
  <2>1. Typed(left) /\ left.ads.brk = NoState /\ left.ads.pending = w.ads.pending
    BY <1>2 DEF Loose
  <2>2. QED
    BY <1>3, <2>1, AssignProviderKeeps
<1>7. here.tc.track = t /\ InPlace(here)
  BY <1>2, <1>6 DEF InPlace
<1> HIDE DEF here, t
<1> DEFINE v == enter(here, t, c)
<1>8. v.tc = here.tc /\ v.ads = here.ads /\ Supplied(v)
  BY <1>1, <1>5, <1>7, EnterLoose, EnterSupplies
<1> HIDE DEF v
<1>9. BreakOver(v, w)
  BY <1>6, <1>7, <1>8 DEF BreakOver, InPlace, BreaksProvided
<1>10. QED
  BY <1>4, <1>9 DEF v, t

(* requeue puts the new entry in its place.                                    *)
LEMMA RequeueKeeps ==
    ASSUME NEW w, Typed(w), NEW u, NEW q
    PROVE  LET r == requeue(w, u, q) IN
           /\ r.tc.current = u /\ r.tc.queue = q /\ r.tc.track = w.tc.track
           /\ r.ads = w.ads /\ r.media = w.media
<1>1. queueChanged(w) = [w EXCEPT !.jobs = queueChanged(w).jobs]
  BY QueueChangedTyped
<1> DEFINE js == queueChanged(w).jobs
<1>2. requeue(w, u, q) = [w EXCEPT !.jobs = js, !.tc.current = u, !.tc.queue = q]
  BY <1>1 DEF requeue, Typed
<1> DEFINE newTc == [w.tc EXCEPT !.current = u, !.queue = q]
<1> HIDE DEF js
<1>3. requeue(w, u, q) = [w EXCEPT !.jobs = js, !.tc = newTc]
  BY <1>2 DEF Typed
<1>4. newTc.current = u /\ newTc.queue = q /\ newTc.track = w.tc.track
  BY TypedParts DEF Controllers
<1> HIDE DEF newTc
<1>5. QED
  BY <1>3, <1>4 DEF Typed

(* next() within the handler of 'adBreakCompleted'.                            *)
LEMMA NextAfterBreak ==
    ASSUME NEW w, Loose(w), BreaksProvided(w), w.ads.brk = NoState
    PROVE  BreakOver(nextWith(assignProvider, w), w)
<1> DEFINE u == IF w.tc.queue = <<>> THEN NoUri ELSE Head(w.tc.queue)
           q == IF w.tc.queue = <<>> THEN <<>> ELSE Tail(w.tc.queue)
           r == requeue(w, u, q)
<1>1. w.tc.queue \in Seq(Uris) /\ Len(w.tc.queue) <= MaxQueue /\ Len(w.tc.queue) \in Nat
  BY TypedParts, LenProperties DEF Loose, Typed
<1>2. u \in Uris \cup {NoUri} /\ q \in Seq(Uris) /\ Len(q) <= MaxQueue
  <2>1. CASE w.tc.queue = <<>>
    BY <1>1, <2>1
  <2>2. CASE w.tc.queue # <<>>
    <3>1. /\ Head(w.tc.queue) \in Uris /\ Tail(w.tc.queue) \in Seq(Uris)
          /\ Len(Tail(w.tc.queue)) = Len(w.tc.queue) - 1
      BY <1>1, <2>2, HeadTailProperties
    <3>2. QED
      BY <1>1, <2>2, <3>1, TrackControllerAssumption
  <2>3. QED
    BY <2>1, <2>2
<1>3. nextWith(assignProvider, w) = setCurrentTrackWith(assignProvider, r, Content(u), TRUE)
  BY DEF nextWith, setQueueWith, requeue
<1> HIDE DEF u, q
<1>4. Loose(r)
  BY <1>2, RequeueTyped
<1>5. r.tc.current = u /\ r.ads = w.ads
  BY RequeueKeeps DEF Loose
<1> HIDE DEF r
<1>6. BreakOver(setCurrentTrackWith(assignProvider, r, Content(u), TRUE), r)
  <2>1. Typed(r) /\ r.media.active \subseteq {r.tc.track}
    BY <1>4 DEF Loose
  <2>2. BreaksProvided(r) /\ r.ads.brk = NoState
    BY <1>5 DEF BreaksProvided
  <2>3. QED
    BY <1>2, <1>5, <2>1, <2>2, SetContentAfterBreak
<1>7. QED
  BY <1>3, <1>5, <1>6 DEF BreakOver

(* The handler of 'adBreakCompleted' hands the element back: whatever it does  *)
(* or leaves alone, the current entry is active or about to be.                *)
LEMMA HandlerSupplies ==
    ASSUME NEW w, Loose(w), InPlace(w), BreaksProvided(w), w.ads.brk = NoState, NEW b
    PROVE  BreakOver(onAdBreakCompleted(w, b), w)
<1> DEFINE back == Content(w.tc.adParent)
           resumed == setCurrentTrackWith(assignProvider, w, back, FALSE)
<1>1. w.tc.adParent \in Uris \cup {NoUri} /\ w.tc.track \in Tracks \cup {NoTrack}
  BY TypedParts DEF Loose
<1>2. BreakOver(resumed, w)
  <2>1. Typed(w) /\ w.media.active \subseteq {w.tc.track} /\ w.tc.current = w.tc.adParent
    BY DEF Loose, InPlace
  <2>2. QED
    BY <1>1, <2>1, SetContentAfterBreak
<1>3. BreakOver(nextWith(assignProvider, w), w)
  BY NextAfterBreak
<1>4. ASSUME back \in w.media.active PROVE BreakOver(w, w)
  BY <1>4 DEF BreakOver, Supplied, Loose
<1>5. CASE w.tc.adParent = NoUri
  <2>1. ~IsAd(w.tc.track)
    BY <1>1, <1>5, TrackFacts, TrackControllerAssumption DEF Loose, NoUri
  <2>2. w.tc.track = NoTrack
    BY <1>5, <2>1 DEF InPlace, NoTrack
  <2>3. onAdBreakCompleted(w, b) = w
    BY <1>5 DEF onAdBreakCompleted
  <2>4. QED
    BY <2>2, <2>3 DEF BreakOver, Supplied
<1>6. CASE w.tc.adParent # NoUri /\ Placement[b] = "postroll"
  <2>1. onAdBreakCompleted(w, b) =
           IF w.tc.queue # <<>> THEN nextWith(assignProvider, w)
           ELSE IF back \in w.media.active THEN w ELSE resumed
    BY <1>6 DEF onAdBreakCompleted
  <2> HIDE DEF back, resumed
  <2>2. QED
    BY <1>2, <1>3, <1>4, <2>1
<1>7. CASE w.tc.adParent # NoUri /\ Placement[b] # "postroll"
  <2>1. onAdBreakCompleted(w, b) = IF back \in w.media.active THEN w ELSE resumed
    BY <1>7 DEF onAdBreakCompleted
  <2> HIDE DEF back, resumed
  <2>2. QED
    BY <1>2, <1>4, <2>1
<1>8. QED
  BY <1>5, <1>6, <1>7

(* completeAdBreak of a break in progress.                                     *)
LEMMA CompleteBreakSupplies ==
    ASSUME NEW w, Loose(w), InPlace(w), BreaksProvided(w), w.ads.brk # NoState
    PROVE  BreakOver(completeAdBreak(w), w)
<1> DEFINE b == w.ads.brk.id
           done == IF Placement[b] = "midroll" THEN w.ads.done ELSE w.ads.done \cup {b}
           spent == IF Placement[b] = "midroll" THEN w.ads.spent \cup {b} ELSE w.ads.spent
           cleared == [w EXCEPT !.ads.brk = NoState, !.ads.done = done, !.ads.spent = spent]
<1>1. w.ads.brk \in BreakStates \cup {NoState}
  BY TypedParts DEF Loose
<1>2. b # NoBreak /\ b \in Breaks
  BY <1>1, BreakFacts DEF BreakStates
<1>3. done \in SUBSET Breaks /\ spent \in SUBSET Breaks
  BY <1>2, TypedParts DEF Loose, AdControllers
<1>4. completeAdBreak(w) = onAdBreakCompleted(cleared, b)
  BY <1>2 DEF completeAdBreak
<1> HIDE DEF done, spent
<1> DEFINE newAds == [w.ads EXCEPT !.brk = NoState, !.done = done, !.spent = spent]
<1>5. /\ newAds \in AdControllers /\ newAds.brk = NoState
      /\ newAds.pending = w.ads.pending /\ newAds.provider = w.ads.provider
  BY <1>3, TypedParts DEF Loose, AdControllers
<1>6. cleared = [w EXCEPT !.ads = newAds]
  BY DEF Loose, Typed
<1> HIDE DEF newAds, cleared
<1>7. cleared.ads = newAds /\ cleared.tc = w.tc
  BY <1>6 DEF Loose, Typed
<1>8. Loose(cleared)
  <2>1. NoState.n <= NoState.total + 1
    BY DEF NoState
  <2>2. QED
    BY <1>5, <1>6, <2>1 DEF Loose, Typed
<1>9. InPlace(cleared) /\ BreaksProvided(cleared)
  BY <1>5, <1>7 DEF InPlace, BreaksProvided
<1>10. BreakOver(onAdBreakCompleted(cleared, b), cleared)
  BY <1>5, <1>7, <1>8, <1>9, HandlerSupplies
<1>11. QED
  BY <1>4, <1>5, <1>7, <1>10 DEF BreakOver

(* setAdsProvider either finds its provider set or leaves no break behind, and *)
(* then the track that called it is still current unless another is supplied.  *)
LEMMA SetAdsProviderSupplies ==
    ASSUME NEW w, Loose(w), ~IsAd(w.tc.track), InPlace(w), BreaksProvided(w),
           NEW u \in Uris \cup {NoUri}
    PROVE  LET v == setAdsProvider(w, u) IN
           /\ Loose(v) /\ InPlace(v) /\ BreaksProvided(v)
           /\ \/ v = w /\ w.ads.provider = u
              \/ v.ads.brk = NoState /\ (Supplied(v) \/ v.tc = w.tc)
<1> DEFINE cleared == [w EXCEPT !.ads.pending = {}]
           x == completeAdBreak(cleared)
           moved == [x EXCEPT !.ads.provider = u, !.ads.known = FALSE,
                              !.ads.done = {}, !.ads.spent = {}]
           v == setAdsProvider(w, u)
<1>1. Loose(v)
  BY SetAdsProviderGood
<1>2. v = IF w.ads.provider = u THEN w ELSE moved
  BY DEF setAdsProvider
<1>3. CASE w.ads.provider = u
  <2> HIDE DEF v, moved
  <2>1. v = w
    BY <1>2, <1>3
  <2>2. QED
    BY <1>1, <1>3, <2>1 DEF v
<1>4. CASE w.ads.provider # u
  <2>1. /\ Loose(cleared) /\ cleared.tc = w.tc /\ cleared.ads.pending = {}
        /\ cleared.ads.brk = w.ads.brk /\ cleared.ads.provider = w.ads.provider
    BY DEF Loose, Typed, AdControllers
  <2>2. InPlace(cleared) /\ BreaksProvided(cleared)
    BY <2>1 DEF InPlace, BreaksProvided
  <2> HIDE DEF cleared
  <2>3. x.ads.brk = NoState /\ x.ads.pending = {} /\ InPlace(x) /\ (Supplied(x) \/ x.tc = w.tc)
    <3>1. CASE cleared.ads.brk = NoState
      <4>1. x = cleared
        BY <3>1 DEF completeAdBreak, NoState
      <4>2. QED
        BY <2>1, <2>2, <3>1, <4>1
    <3>2. CASE cleared.ads.brk # NoState
      <4>1. BreakOver(x, cleared)
        BY <2>1, <2>2, <3>2, CompleteBreakSupplies
      <4>2. QED
        BY <2>1, <4>1 DEF BreakOver
    <3>3. QED
      BY <3>1, <3>2
  <2>4. Loose(x)
    BY <2>1, CompleteAdBreakGood
  <2> HIDE DEF x
  <2>5. /\ moved.tc = x.tc /\ moved.media = x.media /\ moved.jobs = x.jobs
        /\ moved.ads.brk = x.ads.brk /\ moved.ads.pending = x.ads.pending
    BY <2>4 DEF Loose, Typed, AdControllers
  <2> HIDE DEF moved
  <2>6. InPlace(moved) /\ BreaksProvided(moved) /\ moved.ads.brk = NoState
    BY <2>3, <2>5 DEF InPlace, BreaksProvided
  <2>7. Supplied(moved) \/ moved.tc = w.tc
    BY <2>3, <2>5 DEF Supplied
  <2> HIDE DEF v
  <2>8. v = moved
    BY <1>2, <1>4
  <2>9. QED
    BY <1>1, <2>6, <2>7, <2>8 DEF v
<1>5. QED
  BY <1>3, <1>4

(* What moved a break on still does when its lock and ad are what they were,   *)
(* and the preroll of the current track is asked for.                          *)
LEMMA MovingToRoll ==
    ASSUME NEW w, NEW v, Moving(w), v.ads = w.ads, ~w.media.ended => ~v.media.ended,
           rollFor(v.jobs, v.tc.track)
    PROVE  Moving(v)
BY DEF Moving

(* setCurrentTrack of the current entry, with its preroll.                     *)
LEMMA SetContentSure ==
    ASSUME NEW w, Typed(w), w.media.active \subseteq {w.tc.track},
           NEW u \in Uris \cup {NoUri}, w.tc.current = u,
           BreaksProvided(w), w.ads.brk # NoState => Moving(w)
    PROVE  Sure(setCurrentTrack(w, Content(u), TRUE))
<1> DEFINE t == Content(u)
           left == leaveFor(w, t)
           here == setAdsProvider(left, u)
           v == enter(here, t, TRUE)
<1>1. t \in Tracks \cup {NoTrack} /\ ~IsAd(t) /\ t.parent = u
  BY TrackFacts DEF Content, NoTrack
<1>2. Loose(left) /\ left.tc.track = t /\ left.ads = w.ads /\ InPlace(left)
  BY <1>1, LeaveLoose, LeavePlaces
<1>3. ~w.media.ended => ~left.media.ended
  BY LeavePlaces
<1>4. BreaksProvided(left)
  BY <1>2 DEF BreaksProvided
<1>5. setCurrentTrack(w, t, TRUE) = v
  BY <1>1 DEF setCurrentTrack, setCurrentTrackWith, enter, leave, leaveFor
<1>6. Good(v)
  BY <1>5, SetContentGood
<1> HIDE DEF left
<1>7. /\ Loose(here) /\ InPlace(here) /\ BreaksProvided(here)
      /\ \/ here = left /\ left.ads.provider = u
         \/ here.ads.brk = NoState /\ (Supplied(here) \/ here.tc = left.tc)
  BY <1>1, <1>2, <1>4, SetAdsProviderSupplies
<1> HIDE DEF here, t
<1>8. /\ v.tc = here.tc /\ v.ads = here.ads
      /\ here.tc.track = t => Supplied(v)
      /\ Supplied(here) => Supplied(v)
      /\ ~here.media.ended => ~v.media.ended
      /\ t # NoTrack => rollFor(v.jobs, t)
  BY <1>1, <1>7, EnterLoose, EnterSupplies
<1> HIDE DEF v
<1>9. Supplied(v)
  BY <1>2, <1>7, <1>8
<1>10. Calm(v)
  BY <1>6, <1>7, <1>8, <1>9 DEF Calm, InPlace, BreaksProvided
<1>11. ASSUME v.ads.brk # NoState PROVE Moving(v)
  <2>1. here = left /\ left.ads.provider = u /\ v.ads = w.ads
    BY <1>2, <1>7, <1>8, <1>11
  <2>2. u # NoUri
    BY <1>2, <1>11, <2>1 DEF BreaksProvided
  <2>3. t # NoTrack
    BY <1>1, <2>2 DEF NoTrack, Content
  <2>4. rollFor(v.jobs, v.tc.track)
    BY <1>2, <1>8, <2>1, <2>3
  <2>5. ~w.media.ended => ~v.media.ended
    BY <1>3, <1>8, <2>1
  <2>6. Moving(w)
    BY <1>11, <2>1
  <2>7. QED
    BY <2>1, <2>4, <2>5, <2>6, MovingToRoll
<1>12. QED
  BY <1>5, <1>10, <1>11 DEF Sure, t


(* setQueue with another current entry.                                        *)
LEMMA SetQueueSure ==
    ASSUME NEW w, Loose(w), BreaksProvided(w), w.ads.brk # NoState => Moving(w),
           NEW u \in Uris \cup {NoUri}, NEW q \in Seq(Uris), Len(q) <= MaxQueue
    PROVE  Sure(setQueue(w, u, q))
<1> DEFINE r == requeue(w, u, q)
<1>1. Loose(r)
  BY RequeueTyped
<1>2. /\ r.tc.current = u /\ r.tc.track = w.tc.track /\ r.ads = w.ads /\ r.media = w.media
  BY RequeueKeeps DEF Loose
<1>3. Moving(w) => Moving(r)
  <2>1. ASSUME rollFor(w.jobs, w.tc.track) PROVE rollFor(r.jobs, r.tc.track)
    <3>1. r.jobs = queueChanged(w).jobs
      <4>1. queueChanged(w) = [w EXCEPT !.jobs = queueChanged(w).jobs]
        BY QueueChangedTyped DEF Loose
      <4> DEFINE js == queueChanged(w).jobs
      <4>2. r = [queueChanged(w) EXCEPT !.tc.current = u, !.tc.queue = q]
        BY DEF requeue
      <4>3. r = [w EXCEPT !.jobs = js, !.tc.current = u, !.tc.queue = q]
        BY <4>1, <4>2 DEF Loose, Typed
      <4> HIDE DEF js, r
      <4>4. r.jobs = js
        BY <4>3 DEF Loose, Typed
      <4>5. QED
        BY <4>4 DEF js
    <3>2. QED
      BY <1>2, <2>1, <3>1, StaleRoll DEF Loose
  <2> HIDE DEF r
  <2>2. QED
    BY <1>2, <2>1 DEF Moving
<1>4. setQueue(w, u, q) = setCurrentTrack(r, Content(u), TRUE)
  BY DEF setQueue, setQueueWith, setCurrentTrack, requeue
<1> HIDE DEF r
<1>5. Typed(r) /\ r.media.active \subseteq {r.tc.track}
  BY <1>1 DEF Loose
<1>6. BreaksProvided(r) /\ (r.ads.brk # NoState => Moving(r))
  BY <1>2, <1>3 DEF BreaksProvided
<1>7. QED
  BY <1>2, <1>4, <1>5, <1>6, SetContentSure

(* next() of the application or after the end of a track.                      *)
LEMMA NextSure ==
    ASSUME NEW w, Loose(w), BreaksProvided(w), w.ads.brk # NoState => Moving(w)
    PROVE  Sure(next(w))
<1>1. w.tc.queue \in Seq(Uris) /\ Len(w.tc.queue) <= MaxQueue /\ Len(w.tc.queue) \in Nat
  BY TypedParts, LenProperties DEF Loose, Typed
<1>2. CASE w.tc.queue = <<>>
  <2>1. next(w) = setQueue(w, NoUri, <<>>)
    BY <1>2 DEF next, nextWith, setQueue
  <2>2. <<>> \in Seq(Uris) /\ Len(<<>>) <= MaxQueue
    BY <1>1, <1>2
  <2>3. QED
    BY <2>1, <2>2, SetQueueSure
<1>3. CASE w.tc.queue # <<>>
  <2>1. next(w) = setQueue(w, Head(w.tc.queue), Tail(w.tc.queue))
    BY <1>3 DEF next, nextWith, setQueue
  <2>2. /\ Head(w.tc.queue) \in Uris /\ Tail(w.tc.queue) \in Seq(Uris)
        /\ Len(Tail(w.tc.queue)) = Len(w.tc.queue) - 1
    BY <1>1, <1>3, HeadTailProperties
  <2>3. Len(Tail(w.tc.queue)) <= MaxQueue
    BY <1>1, <2>2, TrackControllerAssumption
  <2>4. QED
    BY <2>1, <2>2, <2>3, SetQueueSure
<1>4. QED
  BY <1>2, <1>3

(* setQueue with the entry that is current.                                    *)
LEMMA QueueOnlySure ==
    ASSUME NEW w, Sure(w), NEW q \in Seq(Uris), Len(q) <= MaxQueue
    PROVE  Sure(setQueueOnly(w, q))
<1> DEFINE js == queueChanged(w).jobs
           v == setQueueOnly(w, q)
<1>1. Loose(w) /\ Typed(w)
  BY DEF Sure, Calm, Good, Loose
<1>2. js \in Seq(SoundJobs) /\ queueChanged(w) = [w EXCEPT !.jobs = js]
  BY <1>1, QueueChangedTyped
<1>3. v = [w EXCEPT !.jobs = js, !.tc.queue = q]
  BY <1>2 DEF setQueueOnly
<1>4. \A x : rollFor(w.jobs, x) => rollFor(js, x)
  BY <1>1, StaleRoll
<1>5. Loose(v) /\ v.ads = w.ads /\ v.tc.track = w.tc.track
  BY <1>1, QueueOnlyTyped
<1> HIDE DEF js, v
<1>6. /\ v.jobs = js /\ v.media = w.media
      /\ v.tc.current = w.tc.current /\ v.tc.adParent = w.tc.adParent
  BY <1>1, <1>3 DEF Typed, Controllers
<1>7. Good(v)
  BY <1>5 DEF Sure, Calm, Good
<1>8. InPlace(v) /\ BreaksProvided(v)
  BY <1>5, <1>6 DEF Sure, Calm, InPlace, BreaksProvided
<1>9. Supplied(w) => Supplied(v)
  BY <1>4, <1>5, <1>6 DEF Supplied
<1>10. Moving(w) => Moving(v)
  BY <1>4, <1>5, <1>6 DEF Moving
<1>11. Sure(v)
  BY <1>5, <1>7, <1>8, <1>9, <1>10 DEF Sure, Calm
<1>12. QED
  BY <1>11 DEF v

(* What a change that leaves the tracks and the breaks alone preserves.        *)
LEMMA CalmKept ==
    ASSUME NEW w, NEW v, Calm(w), Good(v),
           v.tc = w.tc, v.ads.brk = w.ads.brk, v.ads.provider = w.ads.provider,
           v.ads.pending = w.ads.pending, w.media.active \subseteq v.media.active,
           \A x : rollFor(w.jobs, x) => rollFor(v.jobs, x)
    PROVE  Calm(v)
BY DEF Calm, InPlace, BreaksProvided, Supplied

(* What moves a break on still does when nothing it depends on goes away.      *)
LEMMA MovingKept ==
    ASSUME NEW w, NEW v, Moving(w),
           v.tc.track = w.tc.track, v.ads.brk = w.ads.brk,
           v.ads.loadingNext = w.ads.loadingNext,
           ~w.media.ended => ~v.media.ended,
           w.media.active \subseteq v.media.active,
           \A x : rollFor(w.jobs, x) => rollFor(v.jobs, x)
    PROVE  Moving(v)
BY DEF Moving

(* The lock of nextAdOrBreak is taken or released.                             *)
LEMMA LockCalm ==
    ASSUME NEW w, Calm(w), NEW l \in {"no", "list", "settling"}
    PROVE  LET v == [w EXCEPT !.ads.loadingNext = l] IN
           /\ Calm(v) /\ v.ads.loadingNext = l /\ v.ads.brk = w.ads.brk
<1> DEFINE v == [w EXCEPT !.ads.loadingNext = l]
<1>1. Good(v)
  BY LockGood DEF Calm
<1>2. /\ v.tc = w.tc /\ v.ads.brk = w.ads.brk /\ v.ads.provider = w.ads.provider
      /\ v.ads.pending = w.ads.pending /\ v.media = w.media /\ v.jobs = w.jobs
      /\ v.ads.loadingNext = l
  BY DEF Calm, Good, Loose, Typed, AdControllers
<1> HIDE DEF v
<1>3. Calm(v)
  BY <1>1, <1>2, CalmKept
<1>4. QED
  BY <1>2, <1>3 DEF v

(* A break is completed, if there is one.                                      *)
LEMMA CompleteBreakCalm ==
    ASSUME NEW w, Calm(w)
    PROVE  Calm(completeAdBreak(w)) /\ completeAdBreak(w).ads.brk = NoState
<1>1. Good(completeAdBreak(w)) /\ completeAdBreak(w).ads.brk = NoState
  BY CompleteBreakGood DEF Calm
<1>2. CASE w.ads.brk = NoState
  <2>1. completeAdBreak(w) = w
    BY <1>2 DEF completeAdBreak, NoState
  <2>2. QED
    BY <1>2, <2>1
<1>3. CASE w.ads.brk # NoState
  <2>1. BreakOver(completeAdBreak(w), w)
    BY <1>3, CompleteBreakSupplies DEF Calm, Good
  <2>2. QED
    BY <1>1, <2>1 DEF BreakOver, Calm
<1>4. QED
  BY <1>2, <1>3

(* The next break, if one is pending, is moved on by its list.                 *)
LEMMA NextBreakSure ==
    ASSUME NEW w, Calm(w), w.ads.brk = NoState
    PROVE  Sure(nextBreak(w))
<1>1. CASE w.ads.pending = {}
  <2> DEFINE v == [w EXCEPT !.ads.loadingNext = "settling"]
  <2>1. Calm(v) /\ v.ads.brk = NoState
    BY LockCalm
  <2>2. nextBreak(w) = v
    BY <1>1 DEF nextBreak
  <2> HIDE DEF v
  <2>3. QED
    BY <2>1, <2>2 DEF Sure
<1>2. CASE w.ads.pending # {}
  <2> DEFINE b == First(w.ads.pending)
             v == [w EXCEPT !.ads.pending = @ \ {b}, !.ads.brk = NewState(b),
                            !.ads.loadingNext = "list"]
  <2>1. nextBreak(w) = v
    BY <1>2 DEF nextBreak
  <2>2. Good(v)
    <3>1. ~IsAd(w.tc.track)
      BY GoodContent DEF Calm
    <3>2. QED
      BY <2>1, <3>1, NextBreakGood DEF Calm
  <2>3. b \in Breaks
    BY <1>2, TypedParts, FirstIn DEF Calm, Good, Loose
  <2> HIDE DEF b
  <2>4. NewState(b) # NoState
    BY <2>3, TrackControllerAssumption DEF NewState, NoState, NoBreak
  <2>5. /\ v.tc = w.tc /\ v.ads.brk = NewState(b) /\ v.ads.provider = w.ads.provider
        /\ v.ads.loadingNext = "list"
    BY DEF Calm, Good, Loose, Typed, AdControllers
  <2> HIDE DEF v
  <2>6. v.ads.provider # NoUri
    BY <1>2, <2>5 DEF Calm, BreaksProvided
  <2>7. Calm(v)
    BY <2>2, <2>4, <2>5, <2>6 DEF Calm, InPlace, BreaksProvided
  <2>8. Moving(v)
    BY <2>5 DEF Moving
  <2>9. QED
    BY <2>1, <2>7, <2>8 DEF Sure
<1>3. QED
  BY <1>1, <1>2

(* nextAdOrBreak moves a break on, unless a call of it that does so already is *)
(* under way.                                                                  *)
LEMMA NextAdOrBreakSure ==
    ASSUME NEW w, Calm(w),
           w.ads.brk # NoState /\ w.ads.loadingNext # "no" => Moving(w)
    PROVE  Sure(nextAdOrBreak(w))
<1> DEFINE v == [w EXCEPT !.ads.loadingNext = "list"]
<1>1. Calm(v) /\ v.ads.loadingNext = "list"
  BY LockCalm
<1>2. nextAdOrBreak(w) =
         IF \/ w.ads.loadingNext # "no"
            \/ w.ads.brk = NoState /\ w.ads.pending = {}
         THEN w
         ELSE IF w.ads.brk = NoState THEN nextBreak(w) ELSE v
  BY DEF nextAdOrBreak
<1> HIDE DEF v
<1>3. Sure(v)
  BY <1>1 DEF Sure, Moving
<1>4. w.ads.brk = NoState => Sure(nextBreak(w))
  BY NextBreakSure
<1>5. w.ads.brk = NoState \/ w.ads.loadingNext # "no" => Sure(w)
  BY DEF Sure
<1>6. QED
  BY <1>2, <1>3, <1>4, <1>5

(* The ad in progress of a break changes its state.                            *)
LEMMA AdStateCalm ==
    ASSUME NEW w, Calm(w), w.ads.brk # NoState,
           NEW a \in {"none", "entered", "started", "completed", "dropped"}
    PROVE  LET v == [w EXCEPT !.ads.brk.ad = a] IN
           /\ Calm(v) /\ v.ads.brk.ad = a /\ v.ads.brk # NoState
           /\ v.ads.loadingNext = w.ads.loadingNext
           /\ v.tc = w.tc /\ v.media = w.media /\ v.jobs = w.jobs
<1> DEFINE v == [w EXCEPT !.ads.brk.ad = a]
           newBrk == [w.ads.brk EXCEPT !.ad = a]
<1>1. Good(v)
  BY AdStateGood DEF Calm
<1>2. w.ads.brk \in BreakStates /\ w.ads \in AdControllers /\ Typed(w)
  BY TypedParts DEF Calm, Good, Loose
<1>3. newBrk.ad = a /\ newBrk.id \in Breaks
  BY <1>2 DEF BreakStates
<1>4. newBrk # NoState
  BY <1>3, TrackControllerAssumption DEF NoState, NoBreak
<1>5. /\ v.tc = w.tc /\ v.media = w.media /\ v.jobs = w.jobs
      /\ v.ads.brk = newBrk /\ v.ads.provider = w.ads.provider
      /\ v.ads.loadingNext = w.ads.loadingNext
  BY <1>2 DEF Typed, AdControllers
<1> HIDE DEF v, newBrk
<1>6. Calm(v)
  BY <1>1, <1>4, <1>5 DEF Calm, InPlace, BreaksProvided
<1>7. QED
  BY <1>3, <1>4, <1>5, <1>6 DEF v

(* completeAd ends the break with its last ad, or leaves its lock alone.       *)
LEMMA CompleteAdCalm ==
    ASSUME NEW w, Calm(w)
    PROVE  LET v == completeAd(w) IN
           /\ Calm(v)
           /\ \/ v.ads.brk = NoState
              \/ v = w
              \/ /\ v.ads.loadingNext = w.ads.loadingNext
                 /\ v.tc = w.tc /\ v.media = w.media /\ v.jobs = w.jobs
                 /\ \/ v.ads.brk.ad = "dropped"
                    \/ v.ads.brk.ad = "completed" /\ w.ads.brk.ad = "started"
<1>1. CASE w.ads.brk.ad \notin {"entered", "started"}
  BY <1>1 DEF completeAd
<1>2. CASE w.ads.brk.ad \in {"entered", "started"}
  <2> DEFINE a == IF w.ads.brk.ad = "started" THEN "completed" ELSE "dropped"
             v == [w EXCEPT !.ads.brk.ad = a]
  <2>1. w.ads.brk # NoState
    BY <1>2 DEF NoState
  <2>2. /\ Calm(v) /\ v.ads.brk.ad = a /\ v.ads.loadingNext = w.ads.loadingNext
        /\ v.tc = w.tc /\ v.media = w.media /\ v.jobs = w.jobs
    <3>1. a \in {"none", "entered", "started", "completed", "dropped"}
      OBVIOUS
    <3> HIDE DEF a
    <3>2. LET x == [w EXCEPT !.ads.brk.ad = a] IN
          /\ Calm(x) /\ x.ads.brk.ad = a /\ x.ads.brk # NoState
          /\ x.ads.loadingNext = w.ads.loadingNext
          /\ x.tc = w.tc /\ x.media = w.media /\ x.jobs = w.jobs
      BY <2>1, <3>1, AdStateCalm, Zenon
    <3>3. QED
      BY <3>2
  <2>3. completeAd(w) = IF v.ads.brk.n >= v.ads.brk.total THEN completeAdBreak(v) ELSE v
    BY <1>2 DEF completeAd
  <2>4. a = "dropped" \/ (a = "completed" /\ w.ads.brk.ad = "started")
    OBVIOUS
  <2> HIDE DEF v, a
  <2>5. Calm(completeAdBreak(v)) /\ completeAdBreak(v).ads.brk = NoState
    BY <2>2, CompleteBreakCalm
  <2>6. CASE v.ads.brk.n >= v.ads.brk.total
    <3>1. completeAd(w) = completeAdBreak(v)
      BY <2>3, <2>6
    <3>2. QED
      BY <2>5, <3>1
  <2>7. CASE ~(v.ads.brk.n >= v.ads.brk.total)
    <3>1. completeAd(w) = v
      BY <2>3, <2>7
    <3>2. QED
      BY <2>2, <2>4, <3>1
  <2>8. QED
    BY <2>6, <2>7
<1>3. QED
  BY <1>1, <1>2

(* completeAd leaves what moves the break on.                                  *)
LEMMA CompleteAdSure ==
    ASSUME NEW w, Sure(w)
    PROVE  Sure(completeAd(w))
<1> DEFINE v == completeAd(w)
<1>1. /\ Calm(v)
      /\ \/ v.ads.brk = NoState
         \/ v = w
         \/ /\ v.ads.loadingNext = w.ads.loadingNext
            /\ v.tc = w.tc /\ v.media = w.media /\ v.jobs = w.jobs
            /\ \/ v.ads.brk.ad = "dropped"
               \/ v.ads.brk.ad = "completed" /\ w.ads.brk.ad = "started"
  BY CompleteAdCalm DEF Sure
<1> HIDE DEF v
<1>2. ASSUME v.ads.brk = NoState PROVE Sure(v)
  BY <1>1, <1>2 DEF Sure
<1>3. ASSUME v = w PROVE Sure(v)
  BY <1>3
<1>4. ASSUME /\ v.ads.loadingNext = w.ads.loadingNext
             /\ v.tc = w.tc /\ v.media = w.media /\ v.jobs = w.jobs
             /\ \/ v.ads.brk.ad = "dropped"
                \/ v.ads.brk.ad = "completed" /\ w.ads.brk.ad = "started"
      PROVE  Sure(v)
  <2>1. CASE v.ads.brk.ad = "dropped"
    BY <1>1, <2>1 DEF Sure, Moving
  <2>2. CASE v.ads.brk.ad = "completed" /\ w.ads.brk.ad = "started"
    <3>1. w.ads.brk # NoState
      BY <2>2 DEF NoState
    <3>2. Moving(v)
      BY <1>4, <2>2, <3>1 DEF Sure, Moving
    <3>3. QED
      BY <1>1, <3>2 DEF Sure
  <2>3. QED
    BY <1>4, <2>1, <2>2
<1>5. Sure(v)
  BY <1>1, <1>2, <1>3, <1>4
<1>6. QED
  BY <1>5 DEF v

(* failAd, and the end of an ad that is skipped.                               *)
LEMMA FailAdSure ==
    ASSUME NEW w, Sure(w)
    PROVE  Sure(failAd(w))
<1>1. Sure(completeAd(w))
  BY CompleteAdSure
<1>2. QED
  BY <1>1, NextAdOrBreakSure DEF failAd, Sure

(* setPendingBreaks, of a provider.                                            *)
LEMMA SetPendingBreaksSure ==
    ASSUME NEW w, Sure(w), w.ads.provider # NoUri, NEW bs \in SUBSET Breaks
    PROVE  Sure(setPendingBreaks(w, bs))
<1> DEFINE v == [w EXCEPT !.ads.pending = bs]
<1>1. Good(v)
  BY PendingGood DEF Sure, Calm
<1>2. /\ v.tc = w.tc /\ v.media = w.media /\ v.jobs = w.jobs
      /\ v.ads.brk = w.ads.brk /\ v.ads.provider = w.ads.provider
      /\ v.ads.loadingNext = w.ads.loadingNext
  BY DEF Sure, Calm, Good, Loose, Typed, AdControllers
<1>3. setPendingBreaks(w, bs) = nextAdOrBreak(v)
  BY DEF setPendingBreaks
<1> HIDE DEF v
<1>4. Calm(v)
  BY <1>1, <1>2 DEF Sure, Calm, InPlace, BreaksProvided, Supplied
<1>5. v.ads.brk # NoState => Moving(v)
  BY <1>2, MovingKept DEF Sure
<1>6. QED
  BY <1>3, <1>4, <1>5, NextAdOrBreakSure

(* A promise gets a callback.                                                  *)
LEMMA AppendJobKeeps ==
    ASSUME NEW w, Calm(w), NEW job \in SoundJobs
    PROVE  LET v == [w EXCEPT !.jobs = Append(@, job)] IN
           /\ Calm(v) /\ v.tc = w.tc /\ v.ads = w.ads /\ v.media = w.media
           /\ \A x : rollFor(w.jobs, x) => rollFor(v.jobs, x)
<1> DEFINE js == Append(w.jobs, job)
           v == [w EXCEPT !.jobs = js]
<1>1. w.jobs \in Seq(SoundJobs)
  BY TypedParts DEF Calm, Good, Loose
<1>2. \A x : rollFor(w.jobs, x) => rollFor(js, x)
  BY <1>1, AppendedRoll
<1>3. Good([w EXCEPT !.jobs = Append(@, job)])
  BY AppendJobGood DEF Calm
<1>4. Good(v)
  BY <1>3
<1> HIDE DEF js
<1>5. v.tc = w.tc /\ v.ads = w.ads /\ v.media = w.media /\ v.jobs = js
  BY DEF Calm, Good, Loose, Typed
<1> HIDE DEF v
<1>6. Calm(v)
  BY <1>2, <1>4, <1>5, CalmKept
<1>7. QED
  BY <1>2, <1>5, <1>6 DEF v, js

(* Another promise reaction to come keeps the world sure.                      *)
LEMMA AppendJobSure ==
    ASSUME NEW w, Sure(w), NEW job \in SoundJobs
    PROVE  Sure([w EXCEPT !.jobs = Append(@, job)])
<1> DEFINE v == [w EXCEPT !.jobs = Append(@, job)]
<1>1. /\ Calm(v) /\ v.tc = w.tc /\ v.ads = w.ads /\ v.media = w.media
      /\ \A x : rollFor(w.jobs, x) => rollFor(v.jobs, x)
  BY AppendJobKeeps DEF Sure
<1> HIDE DEF v
<1>2. v.ads.brk # NoState => Moving(v)
  BY <1>1, MovingKept DEF Sure
<1>3. Sure(v)
  BY <1>1, <1>2 DEF Sure
<1>4. QED
  BY <1>3 DEF v

(* The job whose callback runs is taken from the others.                       *)
LEMMA WithoutKeeps ==
    ASSUME Sure(World), NEW i \in DOMAIN jobs
    PROVE  LET v == Without(i) IN
           /\ Good(v) /\ v.tc = tc /\ v.ads = ads /\ v.media = media
           /\ \A x : rollFor(jobs, x) /\ (jobs[i].kind # "preroll" \/ jobs[i].track # x) =>
                  rollFor(v.jobs, x)
<1> DEFINE js == RemoveAt(jobs, i)
<1>1. Good(World) /\ jobs \in Seq(SoundJobs)
  BY TypedParts DEF Sure, Calm, Good, Loose, World
<1>2. Good(Without(i))
  BY <1>1, WithoutGood
<1>3. Without(i) = [World EXCEPT !.jobs = js]
  BY DEF Without, World
<1>4. \A x : rollFor(jobs, x) /\ (jobs[i].kind # "preroll" \/ jobs[i].track # x) => rollFor(js, x)
  BY <1>1, RemovedRoll
<1> HIDE DEF js
<1>5. /\ Without(i).tc = tc /\ Without(i).ads = ads /\ Without(i).media = media
      /\ Without(i).jobs = js
  BY <1>3 DEF World
<1>6. QED
  BY <1>2, <1>4, <1>5

(* Taking a promise reaction that is not a preroll keeps the world sure.       *)
LEMMA WithoutSure ==
    ASSUME Sure(World), NEW i \in DOMAIN jobs, jobs[i].kind # "preroll"
    PROVE  Sure(Without(i))
<1> DEFINE v == Without(i)
<1>1. /\ Good(v) /\ v.tc = tc /\ v.ads = ads /\ v.media = media
      /\ \A x : rollFor(jobs, x) => rollFor(v.jobs, x)
  BY WithoutKeeps
<1> HIDE DEF v
<1>2. Calm(v)
  BY <1>1, WorldFields, CalmKept DEF Sure
<1>3. v.ads.brk # NoState => Moving(v)
  BY <1>1, WorldFields, MovingKept DEF Sure
<1>4. QED
  BY <1>2, <1>3 DEF Sure, v

(* enterRoll between the calls.                                                *)
LEMMA EnterRollSure ==
    ASSUME NEW w, Sure(w), NEW job \in Jobs
    PROVE  Sure(enterRoll(w, job))
<1>1. CASE interrupted(w, job)
  BY <1>1 DEF enterRoll
<1>2. CASE ~interrupted(w, job)
  <2>1. job.provider \in Uris /\ w.ads.provider # NoUri
    BY <1>2 DEF interrupted, Jobs
  <2>2. open(w, job.provider, job.kind) \in SUBSET Breaks
    BY <2>1, TrackControllerAssumption DEF open, NoUri
  <2>3. QED
    BY <1>2, <2>1, <2>2, SetPendingBreaksSure DEF enterRoll
<1>3. QED
  BY <1>1, <1>2

(* What enterRoll does to the lock and to the break.                           *)
LEMMA EnterRollEffect ==
    ASSUME NEW w, Good(w), BreaksProvided(w), NEW job \in Jobs
    PROVE  LET v == enterRoll(w, job) IN
           /\ v.tc = w.tc /\ v.media = w.media /\ v.jobs = w.jobs
           /\ v.ads.provider = w.ads.provider
           /\ BreaksProvided(v)
           /\ interrupted(w, job) => v = w
           /\ ~interrupted(w, job) /\ v.ads.brk # NoState =>
                  \/ v.ads.loadingNext = "list"
                  \/ /\ v.ads.brk = w.ads.brk /\ w.ads.loadingNext # "no"
                     /\ v.ads.loadingNext = w.ads.loadingNext
           /\ v.ads.brk = NoState => w.ads.brk = NoState
<1>1. CASE interrupted(w, job)
  BY <1>1 DEF enterRoll
<1>2. CASE ~interrupted(w, job)
  <2> DEFINE bs == open(w, job.provider, job.kind)
             x == [w EXCEPT !.ads.pending = bs]
             v == enterRoll(w, job)
  <2>1. job.provider \in Uris /\ w.ads.provider # NoUri
    BY <1>2 DEF interrupted, Jobs
  <2>2. bs \in SUBSET Breaks
    BY <2>1, TrackControllerAssumption DEF open, NoUri
  <2>3. v = nextAdOrBreak(x)
    BY <1>2 DEF enterRoll, setPendingBreaks
  <2> HIDE DEF bs
  <2>4. /\ x.tc = w.tc /\ x.media = w.media /\ x.jobs = w.jobs
        /\ x.ads.brk = w.ads.brk /\ x.ads.provider = w.ads.provider
        /\ x.ads.loadingNext = w.ads.loadingNext /\ x.ads.pending = bs
        /\ Typed(x)
    BY <2>2 DEF Good, Loose, Typed, AdControllers
  <2> HIDE DEF x, v
  <2> DEFINE locked == [x EXCEPT !.ads.loadingNext = "list"]
             b == First(bs)
             begun == [x EXCEPT !.ads.pending = @ \ {b}, !.ads.brk = NewState(b),
                                !.ads.loadingNext = "list"]
  <2>5. v = IF x.ads.loadingNext # "no" \/ (x.ads.brk = NoState /\ x.ads.pending = {}) THEN x
            ELSE IF x.ads.brk = NoState THEN begun ELSE locked
    BY <2>3, <2>4 DEF nextAdOrBreak, nextBreak
  <2>6. /\ locked.tc = x.tc /\ locked.media = x.media /\ locked.jobs = x.jobs
        /\ locked.ads.brk = x.ads.brk /\ locked.ads.provider = x.ads.provider
        /\ locked.ads.loadingNext = "list"
    BY <2>4 DEF Typed, AdControllers
  <2>7. /\ begun.tc = x.tc /\ begun.media = x.media /\ begun.jobs = x.jobs
        /\ begun.ads.brk = NewState(b) /\ begun.ads.provider = x.ads.provider
        /\ begun.ads.loadingNext = "list"
    <3> HIDE DEF b
    <3>1. QED
      BY <2>4 DEF Typed, AdControllers
  <2>8. bs # {} => NewState(b) # NoState
    <3>1. bs # {} => b \in Breaks
      BY <2>2, FirstIn
    <3> HIDE DEF b
    <3>2. QED
      BY <3>1, TrackControllerAssumption DEF NewState, NoState, NoBreak
  <2> HIDE DEF locked, begun, b
  <2>9. CASE x.ads.loadingNext # "no" \/ (x.ads.brk = NoState /\ x.ads.pending = {})
    <3>1. v = x
      BY <2>5, <2>9
    <3>2. QED
      BY <1>2, <2>1, <2>4, <2>9, <3>1 DEF BreaksProvided, v
  <2>10. CASE x.ads.loadingNext = "no" /\ x.ads.brk = NoState /\ x.ads.pending # {}
    <3>1. v = begun
      BY <2>5, <2>10
    <3>2. QED
      BY <1>2, <2>1, <2>4, <2>7, <2>8, <2>10, <3>1 DEF BreaksProvided, v
  <2>11. CASE x.ads.loadingNext = "no" /\ x.ads.brk # NoState
    <3>1. v = locked
      BY <2>5, <2>11
    <3>2. QED
      BY <1>2, <2>1, <2>4, <2>6, <2>11, <3>1 DEF BreaksProvided, v
  <2>12. QED
    BY <2>9, <2>10, <2>11
<1>3. QED
  BY <1>1, <1>2

(* An ad of the break in progress becomes current and active: it moves the     *)
(* break on, as the media element has not ended.                               *)
LEMMA SetAdSure ==
    ASSUME NEW w, Sure(w), NEW ad \in Tracks \cup {NoTrack},
           w.tc.adParent = ad.parent, w.ads.brk # NoState,
           w.ads.brk.id = ad.brk, w.ads.brk.n = ad.n
    PROVE  Sure(setCurrentTrack(w, ad, FALSE))
<1> DEFINE gone == w.tc.track \notin w.media.active
           left == leave(w, ad)
           v == activate(left, ad)
<1>1. IsAd(ad) /\ ad # NoTrack /\ Good(w)
  BY TypedParts, BreakFacts DEF Sure, Calm, Good, Loose, IsAd, NoTrack, Content
<1>2. left = [w EXCEPT !.tc.track = ad, !.media.active = @ \ {w.tc.track},
                       !.media.ended = @ /\ gone]
  BY DEF leave
<1> HIDE DEF left, gone
<1>3. /\ left.tc.track = ad /\ left.tc.current = w.tc.current
      /\ left.tc.adParent = w.tc.adParent /\ left.ads = w.ads
  BY <1>1, <1>2 DEF Good, Loose, Typed, Controllers
<1>4. left.media.ended = (w.media.ended /\ gone)
  BY <1>1, <1>2 DEF Good, Loose, Typed
<1>5. ~w.media.ended => ~left.media.ended
  BY <1>4
<1>6. setCurrentTrack(w, ad, FALSE) = v
  BY <1>1, <1>3 DEF setCurrentTrack, setCurrentTrackWith, leave, left
<1>7. Good(v)
  BY <1>1, <1>6, SetAdGood
<1>8. Typed(left)
  BY <1>1, LeaveLoose DEF Good, Loose, left
<1>9. /\ v.tc = left.tc /\ v.ads = left.ads /\ v.media.active = left.media.active \cup {ad}
      /\ ~left.media.ended => ~v.media.ended
  BY <1>8, ActivateKeeps
<1> HIDE DEF v
<1>10. Calm(v)
  BY <1>1, <1>3, <1>7, <1>9 DEF Sure, Calm, InPlace, BreaksProvided
<1>11. Moving(v)
  BY <1>3, <1>5, <1>9 DEF Sure, Moving
<1>12. QED
  BY <1>6, <1>10, <1>11 DEF Sure

(* The total of a break is known.                                              *)
LEMMA TotalCalm ==
    ASSUME NEW w, Calm(w), w.ads.brk # NoState,
           NEW total \in 0..MaxAds, w.ads.brk.total \in {-1, total}
    PROVE  LET v == [w EXCEPT !.ads.brk.total = total] IN
           Calm(v) /\ v.ads.brk # NoState /\ v.ads.brk.total = total
<1> DEFINE v == [w EXCEPT !.ads.brk.total = total]
           newBrk == [w.ads.brk EXCEPT !.total = total]
<1>1. Good(v)
  BY TotalGood DEF Calm
<1>2. w.ads.brk \in BreakStates /\ w.ads \in AdControllers /\ Typed(w)
  BY TypedParts DEF Calm, Good, Loose
<1>3. newBrk.id \in Breaks /\ newBrk.total = total
  BY <1>2 DEF BreakStates
<1>4. newBrk # NoState
  BY <1>3, TrackControllerAssumption DEF NoState, NoBreak
<1>5. v.tc = w.tc /\ v.ads.brk = newBrk /\ v.ads.provider = w.ads.provider
  BY <1>2 DEF Typed, AdControllers
<1> HIDE DEF v, newBrk
<1>6. Calm(v)
  BY <1>1, <1>4, <1>5 DEF Calm, InPlace, BreaksProvided
<1>7. QED
  BY <1>3, <1>4, <1>5, <1>6 DEF v

(* The next ad of the break is entered.                                        *)
LEMMA StartAdSure ==
    ASSUME NEW w, Calm(w), w.ads.brk # NoState, w.ads.brk.n < w.ads.brk.total
    PROVE  Sure(startAd(w))
<1> DEFINE m == w.ads.brk.n + 1
           ad == [parent |-> w.tc.adParent, brk |-> w.ads.brk.id, n |-> m]
           js == IF w.tc.adParent = NoUri THEN w.jobs
                 ELSE Append(w.jobs, NewJob("options", NoUri, ad))
           v == startAd(w)
<1>1. Good(v)
  BY StartAdGood DEF Calm
<1>2. v = [w EXCEPT !.ads.brk.n = m, !.ads.brk.ad = "entered",
                    !.ads.loadingNext = "settling", !.jobs = js]
  BY DEF startAd
<1>3. w.ads.brk \in BreakStates /\ w.ads \in AdControllers /\ Typed(w)
  BY TypedParts DEF Calm, Good, Loose
<1> DEFINE newBrk == [w.ads.brk EXCEPT !.n = m, !.ad = "entered"]
           newAds == [w.ads EXCEPT !.brk = newBrk, !.loadingNext = "settling"]
<1> HIDE DEF m, js, v
<1>4. newBrk.ad = "entered"
  BY <1>3 DEF BreakStates
<1>5. newAds.brk = newBrk /\ newAds.provider = w.ads.provider
  <2> HIDE DEF newBrk
  <2>1. QED
    BY <1>3 DEF AdControllers
<1>6. newAds = [w.ads EXCEPT !.brk.n = m, !.brk.ad = "entered", !.loadingNext = "settling"]
  BY <1>3 DEF AdControllers
<1> HIDE DEF newBrk, newAds
<1>7. v.tc = w.tc /\ v.ads = newAds
  <2>1. v.tc = w.tc
    BY <1>2, <1>3 DEF Typed
  <2>2. v.ads = [w.ads EXCEPT !.brk.n = m, !.brk.ad = "entered", !.loadingNext = "settling"]
    BY <1>2, <1>3 DEF Typed
  <2>3. QED
    BY <1>6, <2>1, <2>2
<1>8. v.ads.brk.ad = "entered" /\ v.ads.brk # NoState
  BY <1>4, <1>5, <1>7 DEF NoState
<1>9. Calm(v)
  BY <1>1, <1>5, <1>7, <1>8 DEF Calm, InPlace, BreaksProvided
<1>10. Moving(v)
  BY <1>8 DEF Moving
<1>11. QED
  BY <1>9, <1>10 DEF Sure, v

(* The break has used up its playout limit.                                    *)
LEMMA LimitCalm ==
    ASSUME NEW w, Calm(w), w.ads.brk # NoState
    PROVE  LET v == [w EXCEPT !.ads.brk.n = w.ads.brk.total + 1, !.ads.brk.ad = "none"] IN
           Calm(v) /\ v.ads.loadingNext = w.ads.loadingNext
<1> DEFINE m == w.ads.brk.total + 1
           v == [w EXCEPT !.ads.brk.n = m, !.ads.brk.ad = "none"]
           newBrk == [w.ads.brk EXCEPT !.n = m, !.ad = "none"]
<1>1. Good(v)
  BY LimitGood DEF Calm
<1>2. w.ads.brk \in BreakStates /\ w.ads \in AdControllers /\ Typed(w)
  BY TypedParts DEF Calm, Good, Loose
<1> HIDE DEF m
<1>3. newBrk.id \in Breaks
  BY <1>2 DEF BreakStates
<1>4. newBrk # NoState
  BY <1>3, TrackControllerAssumption DEF NoState, NoBreak
<1>5. /\ v.tc = w.tc /\ v.ads.brk = newBrk /\ v.ads.provider = w.ads.provider
      /\ v.ads.loadingNext = w.ads.loadingNext
  BY <1>2 DEF Typed, AdControllers
<1> HIDE DEF v, newBrk
<1>6. Calm(v)
  BY <1>1, <1>4, <1>5 DEF Calm, InPlace, BreaksProvided
<1>7. QED
  BY <1>5, <1>6 DEF v, m

------------------------------------------------------------------------------
\* The stronger invariant of the specification

RestInv == Sure(World) /\ calls \in 0..MaxCalls

(* What the invariant says of the variables.                                   *)
LEMMA RestMeans ==
    /\ RestInv => RestPlaysContent
    /\ RestInv => BreakMovesOn
<1> SUFFICES ASSUME RestInv PROVE RestPlaysContent /\ BreakMovesOn
  OBVIOUS
<1> DEFINE roll == rollFor(jobs, tc.track)
<1>1. /\ Good(World) /\ tc.adParent = tc.current
      /\ IsAd(tc.track) \/ tc.track = Content(tc.current)
      /\ ads.brk = NoState => tc.track = NoTrack \/ tc.track \in media.active \/ roll
  BY WorldFields DEF RestInv, Sure, Calm, InPlace, Supplied
<1>2. roll => jobs # <<>>
  BY EmptySeq DEF rollFor
<1>3. ads.brk # NoState =>
         \/ ads.loadingNext = "list"
         \/ ads.brk.ad \in {"entered", "dropped"}
         \/ /\ ads.brk.ad \in {"started", "completed"}
            /\ ~media.ended
            /\ media.active # {} \/ roll
  BY WorldFields DEF RestInv, Sure, Moving
<1> HIDE DEF roll
<1>4. ASSUME Rest
      PROVE  /\ tc.track = Content(tc.current)
             /\ tc.current # NoUri => tc.track \in media.active
  <2>1. ads.brk = NoState /\ ~roll
    BY <1>2, <1>4 DEF Rest
  <2>2. ~IsAd(tc.track)
    BY <1>1, <2>1, WorldFields, GoodContent
  <2>3. tc.track = NoTrack => tc.current = NoUri
    BY <1>1, <2>2 DEF NoTrack, Content
  <2>4. QED
    BY <1>1, <2>1, <2>2, <2>3
<1>5. RestPlaysContent
  BY <1>4 DEF RestPlaysContent
<1>6. BreakMovesOn
  BY <1>2, <1>3 DEF BreakMovesOn
<1>7. QED
  BY <1>5, <1>6

(* The invariant of the next state, from that of the record it becomes.        *)
LEMMA BecomeSure ==
    ASSUME NEW v, Sure(v), Become(v), calls' \in 0..MaxCalls
    PROVE  RestInv'
<1>1. World' = v
  BY DEF Become, World, Sure, Calm, Good, Loose, Typed
<1>2. Sure(World')
  BY <1>1
<1>3. QED
  BY <1>2 DEF RestInv, World, Sure, Calm, InPlace, BreaksProvided, Supplied, Moving,
              rollFor, Good, Loose, Typed, IsAd

(* The stronger invariant holds before anything is loaded.                     *)
THEOREM RestInit == Init => RestInv
<1> SUFFICES ASSUME Init PROVE RestInv
  OBVIOUS
<1>1. Good(World) /\ calls \in 0..MaxCalls
  BY TrackInit DEF TrackInv
<1>2. InPlace(World) /\ Supplied(World)
  BY WorldFields DEF Init, InPlace, Supplied, NoTrack
<1>3. BreaksProvided(World) /\ World.ads.brk = NoState
  BY WorldFields DEF Init, BreaksProvided
<1>4. QED
  BY <1>1, <1>2, <1>3 DEF RestInv, Sure, Calm

(* A preroll has been decided on: it is entered, or the content is activated,  *)
(* or the content is no longer current.                                        *)
LEMMA PrerollSure ==
    ASSUME Sure(World), NEW i \in DOMAIN jobs, prerollSettles(i), calls' \in 0..MaxCalls
    PROVE  RestInv'
<1> DEFINE job == jobs[i]
           x == Without(i)
           w == enterRoll(x, job)
           v == activate(w, job.track)
<1>1. job \in SoundJobs /\ job.kind = "preroll"
  BY WithoutGood DEF prerollSettles, Settles, Sure, Calm
<1>2. job \in Jobs /\ job.track \in Tracks
  BY <1>1 DEF SoundJobs, Jobs
<1>3. /\ Good(x) /\ x.tc = tc /\ x.ads = ads /\ x.media = media
      /\ \A t : rollFor(jobs, t) /\ (job.kind # "preroll" \/ job.track # t) => rollFor(x.jobs, t)
  BY WithoutKeeps
<1>4. BreaksProvided(x)
  BY <1>3, WorldFields DEF Sure, Calm, BreaksProvided
<1>5. Become(IF rollEntered(w, job) \/ w.tc.track # job.track THEN w ELSE v)
  BY DEF prerollSettles
<1> HIDE DEF x, job
<1>6. Good(w)
  BY <1>2, <1>3, EnterRollGood
<1>7. /\ w.tc = x.tc /\ w.media = x.media /\ w.jobs = x.jobs
      /\ w.ads.provider = x.ads.provider
      /\ BreaksProvided(w)
      /\ interrupted(x, job) => w = x
      /\ ~interrupted(x, job) /\ w.ads.brk # NoState =>
             \/ w.ads.loadingNext = "list"
             \/ /\ w.ads.brk = x.ads.brk /\ x.ads.loadingNext # "no"
                /\ w.ads.loadingNext = x.ads.loadingNext
      /\ w.ads.brk = NoState => x.ads.brk = NoState
  BY <1>2, <1>3, <1>4, EnterRollEffect
<1>8. interrupted(w, job) <=> interrupted(x, job)
  BY <1>7 DEF interrupted
<1>9. InPlace(w)
  BY <1>3, <1>7, WorldFields DEF Sure, Calm, InPlace
<1>10. ads.brk # NoState =>
          \/ ads.loadingNext = "list"
          \/ ads.brk.ad \in {"entered", "dropped"}
          \/ /\ ads.loadingNext = "no"
             /\ ads.brk.ad \in {"started", "completed"}
             /\ ~media.ended
             /\ media.active # {} \/ rollFor(jobs, tc.track)
  BY WorldFields DEF Sure, Moving
<1>11. ads.brk = NoState => tc.track = NoTrack \/ tc.track \in media.active \/ rollFor(jobs, tc.track)
  BY WorldFields DEF Sure, Calm, Supplied
<1>12. Typed(w)
  BY <1>6 DEF Good, Loose
<1> HIDE DEF w, v
<1>13. ASSUME rollEntered(w, job) PROVE Sure(w)
  <2>1. ~interrupted(x, job) /\ w.ads.brk # NoState
    BY <1>8, <1>13 DEF rollEntered
  <2>2. Calm(w)
    BY <1>6, <1>7, <1>9, <2>1 DEF Calm
  <2>3. Moving(w)
    BY <1>3, <1>7, <1>10, <2>1 DEF Moving
  <2>4. QED
    BY <2>2, <2>3 DEF Sure
<1>14. ASSUME ~rollEntered(w, job), w.tc.track # job.track PROVE Sure(w)
  <2>1. rollFor(jobs, tc.track) => rollFor(w.jobs, w.tc.track)
    BY <1>3, <1>7, <1>14
  <2>2. w.ads.brk = NoState => Supplied(w)
    BY <1>3, <1>7, <1>11, <2>1 DEF Supplied
  <2>3. Calm(w)
    BY <1>6, <1>7, <1>9, <2>2 DEF Calm
  <2>4. ASSUME w.ads.brk # NoState PROVE Moving(w)
    <3>1. w = x
      BY <1>7, <1>8, <1>14, <2>4 DEF rollEntered
    <3>2. QED
      BY <1>3, <1>10, <2>1, <2>4, <3>1 DEF Moving
  <2>5. QED
    BY <2>3, <2>4 DEF Sure
<1>15. ASSUME ~rollEntered(w, job), w.tc.track = job.track PROVE Sure(v)
  <2>1. Good(v)
    BY <1>2, <1>6, <1>15, ActivateGood DEF v
  <2>2. /\ v.tc = w.tc /\ v.ads = w.ads /\ v.jobs = w.jobs
        /\ v.media.active = w.media.active \cup {job.track}
        /\ ~w.media.ended => ~v.media.ended
    BY <1>12, ActivateKeeps DEF v
  <2>3. Supplied(v)
    BY <1>15, <2>2 DEF Supplied
  <2>4. Calm(v)
    BY <1>7, <1>9, <2>1, <2>2, <2>3 DEF Calm, InPlace, BreaksProvided
  <2>5. ASSUME v.ads.brk # NoState PROVE Moving(v)
    <3>1. w = x
      BY <1>7, <1>8, <1>15, <2>2, <2>5 DEF rollEntered
    <3>2. v.media.active # {}
      BY <2>2
    <3>3. QED
      BY <1>3, <1>10, <2>2, <2>5, <3>1, <3>2 DEF Moving
  <2>6. QED
    BY <2>4, <2>5 DEF Sure
<1>16. QED
  BY <1>5, <1>13, <1>14, <1>15, BecomeSure

(* Callbacks of promises, in whatever order they settle, preserve it.          *)
THEOREM SettleSure == RestInv /\ Settle => RestInv'
<1> SUFFICES ASSUME RestInv, Settle PROVE RestInv'
  OBVIOUS
<1>0. Sure(World) /\ Calm(World) /\ Good(World) /\ calls \in 0..MaxCalls
  BY DEF RestInv, Sure, Calm
<1>1. CASE listResolves
  <2>1. calls' \in 0..MaxCalls
    BY <1>0, <1>1 DEF listResolves
  <2>2. CASE ads.brk = NoState
    <3>1. Sure(nextBreak(World))
      BY <1>0, <2>2, WorldFields, NextBreakSure
    <3>2. Become(nextBreak(World))
      BY <1>1, <2>2 DEF listResolves
    <3>3. QED
      BY <2>1, <3>1, <3>2, BecomeSure
  <2>3. CASE ads.brk # NoState
    <3>1. PICK total \in Totals :
             LET w == [World EXCEPT !.ads.brk.total = total] IN
             IF w.ads.brk.n < total THEN Become(startAd(w))
             ELSE Become(nextBreak(completeAdBreak([w EXCEPT !.ads.brk.ad = "none"])))
      BY <1>1, <2>3 DEF listResolves
    <3> DEFINE w == [World EXCEPT !.ads.brk.total = total]
               v == [w EXCEPT !.ads.brk.ad = "none"]
    <3>2. ads.brk \in BreakStates
      BY <1>0, <2>3, WorldFields, TypedParts DEF Good, Loose
    <3>3. total \in 0..MaxAds /\ ads.brk.total \in {-1, total}
      BY <2>3, <3>1, <3>2 DEF Totals, BreakStates
    <3>4. Calm(w) /\ w.ads.brk # NoState /\ w.ads.brk.total = total
      <4>1. World.ads.brk # NoState /\ World.ads.brk.total \in {-1, total}
        BY <2>3, <3>3, WorldFields
      <4>2. LET y == [World EXCEPT !.ads.brk.total = total] IN
            Calm(y) /\ y.ads.brk # NoState /\ y.ads.brk.total = total
        BY <1>0, <3>3, <4>1, TotalCalm
      <4>3. QED
        BY <4>2
    <3> HIDE DEF w
    <3>5. CASE w.ads.brk.n < total
      <4>1. Sure(startAd(w))
        BY <3>4, <3>5, StartAdSure
      <4>2. Become(startAd(w))
        BY <3>1, <3>5 DEF w
      <4>3. QED
        BY <2>1, <4>1, <4>2, BecomeSure
    <3>6. CASE ~(w.ads.brk.n < total)
      <4>1. Calm(v)
        BY <3>4, AdStateCalm
      <4>2. Become(nextBreak(completeAdBreak(v)))
        BY <3>1, <3>6 DEF w
      <4> HIDE DEF v
      <4>3. Sure(nextBreak(completeAdBreak(v)))
        BY <4>1, CompleteBreakCalm, NextBreakSure
      <4>4. QED
        BY <2>1, <4>2, <4>3, BecomeSure
    <3>7. QED
      BY <3>5, <3>6
  <2>4. QED
    BY <2>2, <2>3
<1>2. CASE listRejects
  <2>1. Sure(nextBreak(completeAdBreak(World)))
    BY <1>0, CompleteBreakCalm, NextBreakSure
  <2>2. Become(nextBreak(completeAdBreak(World))) /\ calls' \in 0..MaxCalls
    BY <1>0, <1>2 DEF listRejects
  <2>3. QED
    BY <2>1, <2>2, BecomeSure
<1>3. CASE nextAdOrBreakEnds
  <2> DEFINE v == [World EXCEPT !.ads.loadingNext = "no"]
  <2>1. Calm(v) /\ v.ads.brk = World.ads.brk
    BY <1>0, LockCalm
  <2>2. Become(v) /\ calls' = calls
    BY <1>3 DEF nextAdOrBreakEnds, Become, World
  <2> HIDE DEF v
  <2>3. ads.brk # NoState => ads.brk.ad \in {"entered", "dropped"}
    BY <1>0, <1>3, WorldFields DEF nextAdOrBreakEnds, Sure, Moving
  <2>4. v.ads.brk # NoState => Moving(v)
    BY <2>1, <2>3, WorldFields DEF Moving
  <2>5. Sure(v)
    BY <2>1, <2>4 DEF Sure
  <2>6. QED
    BY <1>0, <2>2, <2>5, BecomeSure
<1>4. ASSUME NEW i \in DOMAIN jobs, prerollSettles(i) PROVE RestInv'
  <2>1. calls' \in 0..MaxCalls
    BY <1>0, <1>4 DEF prerollSettles, Settles
  <2>2. QED
    BY <1>0, <1>4, <2>1, PrerollSure
<1>5. ASSUME NEW i \in DOMAIN jobs, postrollSettles(i) PROVE RestInv'
  <2> DEFINE job == jobs[i]
             w == enterRoll(Without(i), job)
             over == [w EXCEPT !.jobs = Append(@, NewJob("advance", NoUri, NoTrack))]
  <2>1. job \in Jobs /\ job.kind # "preroll" /\ calls' \in 0..MaxCalls
    BY <1>0, <1>5, WithoutGood DEF postrollSettles, Settles, SoundJobs
  <2>2. Sure(w)
    BY <1>0, <2>1, WithoutSure, EnterRollSure
  <2>3. NewJob("advance", NoUri, NoTrack) \in SoundJobs
    BY DEF NewJob, SoundJobs, Jobs
  <2>4. Sure(over)
    <3> HIDE DEF w
    <3>1. QED
      BY <2>2, <2>3, AppendJobSure
  <2>5. Become(IF rollEntered(w, job) \/ job.stale THEN w ELSE over)
    BY <1>5 DEF postrollSettles
  <2> HIDE DEF w, job, over
  <2>6. QED
    BY <2>1, <2>2, <2>4, <2>5, BecomeSure
<1>6. ASSUME NEW i \in DOMAIN jobs, advance(i) PROVE RestInv'
  <2>1. jobs[i].kind # "preroll" /\ calls' \in 0..MaxCalls
    BY <1>0, <1>6 DEF advance, Settles
  <2>2. Sure(Without(i))
    BY <1>0, <2>1, WithoutSure
  <2>3. Sure(next(Without(i)))
    BY <2>2, NextSure DEF Sure, Calm, Good
  <2>4. Become(IF jobs[i].stale \/ tc.queue = <<>> THEN Without(i) ELSE next(Without(i)))
    BY <1>6 DEF advance
  <2>5. QED
    BY <2>1, <2>2, <2>3, <2>4, BecomeSure
<1>7. ASSUME NEW i \in DOMAIN jobs, optionsSettle(i) PROVE RestInv'
  <2> DEFINE ad == jobs[i].track
             w == Without(i)
  <2>1. jobs[i].kind # "preroll" /\ calls' \in 0..MaxCalls
    BY <1>0, <1>7 DEF optionsSettle, Settles
  <2>2. Sure(w)
    BY <1>0, <2>1, WithoutSure
  <2>3. w.tc = tc /\ w.ads = ads /\ ad \in Tracks \cup {NoTrack}
    BY <1>0, WithoutGood DEF SoundJobs, Jobs
  <2>4. CASE optionsInterrupted(ad)
    <3>1. Become(w)
      BY <1>7, <2>4 DEF optionsSettle
    <3>2. QED
      BY <2>1, <2>2, <3>1, BecomeSure
  <2>5. CASE ~optionsInterrupted(ad)
    <3>1. Become(setCurrentTrack(w, ad, FALSE)) \/ Become(failAd(w))
      BY <1>7, <2>5 DEF optionsSettle
    <3>2. /\ tc.adParent = ad.parent /\ ads.brk # NoState
          /\ ads.brk.id = ad.brk /\ ads.brk.n = ad.n
      BY <2>5 DEF optionsInterrupted, NoState
    <3> HIDE DEF w, ad
    <3>3. Sure(setCurrentTrack(w, ad, FALSE))
      BY <2>2, <2>3, <3>2, SetAdSure
    <3>4. Sure(failAd(w))
      BY <2>2, FailAdSure
    <3>5. QED
      BY <2>1, <3>1, <3>3, <3>4, BecomeSure
  <2>6. QED
    BY <2>4, <2>5
<1>8. QED
  BY <1>1, <1>2, <1>3, <1>4, <1>5, <1>6, <1>7 DEF Settle

(* Both handlers of 'ended': the ad in progress is over, which asks for the    *)
(* list of its break once more.                                                *)
LEMMA EndedSure ==
    ASSUME Sure(World), ended, calls' \in 0..MaxCalls
    PROVE  RestInv'
<1> DEFINE w == [World EXCEPT !.media.ended = TRUE]
           job == NewJob("postroll", w.ads.provider, NoTrack)
           y == onEnded(w)
           z == completeAd(y)
<1>1. ads.loadingNext \in {"no", "list"}
  <2>1. ads.loadingNext \in {"no", "list", "settling"}
    BY WorldFields, TypedParts DEF Sure, Calm, Good, Loose, AdControllers
  <2>2. QED
    BY <2>1 DEF ended, EventLoopIdle, Idle
<1>2. Become(endAd(y))
  BY DEF ended, endedHandlers
<1>3. /\ Good(w) /\ w.tc = tc /\ w.ads = ads /\ w.jobs = jobs
      /\ w.media.active = media.active
  BY WorldFields DEF Sure, Calm, Good, Loose, Typed
<1> HIDE DEF w
<1>4. Calm(w)
  BY <1>3, WorldFields, CalmKept DEF Sure
<1>5. job \in SoundJobs
  <2>1. w.ads.provider \in Uris \cup {NoUri}
    BY <1>3, TypedParts DEF Good, Loose, AdControllers
  <2>2. QED
    BY <2>1 DEF NewJob, SoundJobs, Jobs
<1>6. y = IF CurrentIsAd(w) \/ w.tc.current = NoUri THEN w
          ELSE [w EXCEPT !.jobs = Append(@, job)]
  BY DEF onEnded
<1> HIDE DEF job
<1>7. LET v == [w EXCEPT !.jobs = Append(@, job)] IN Calm(v) /\ v.ads = w.ads
  BY <1>4, <1>5, AppendJobKeeps
<1> HIDE DEF y
<1>8. Calm(y) /\ y.ads = ads
  BY <1>3, <1>4, <1>6, <1>7
<1>9. ASSUME ~HasAd(y) PROVE Sure(endAd(y))
  <2>1. endAd(y) = y
    BY <1>9 DEF endAd
  <2>2. y.ads.brk # NoState => Moving(y)
    BY <1>8, <1>9, WorldFields DEF HasAd, Sure, Moving
  <2>3. QED
    BY <1>8, <2>1, <2>2 DEF Sure
<1>10. ASSUME HasAd(y) PROVE Sure(endAd(y))
  <2>1. endAd(y) = nextAdOrBreak(z)
    BY <1>10 DEF endAd
  <2>2. Calm(z) /\ (z.ads.brk = NoState \/ z.ads.loadingNext = y.ads.loadingNext)
    BY <1>8, CompleteAdCalm
  <2> HIDE DEF z
  <2>3. z.ads.brk # NoState /\ z.ads.loadingNext # "no" => Moving(z)
    BY <1>1, <1>8, <2>2 DEF Moving
  <2>4. QED
    BY <2>1, <2>2, <2>3, NextAdOrBreakSure
<1>11. Sure(endAd(y))
  BY <1>9, <1>10
<1>12. QED
  BY <1>2, <1>11, BecomeSure

(* Events of the media element, timers and errors preserve it.                 *)
THEOREM EventSure == RestInv /\ Event => RestInv'
<1> SUFFICES ASSUME RestInv, Event PROVE RestInv'
  OBVIOUS
<1>0. Sure(World) /\ Calm(World) /\ Good(World) /\ calls \in 0..MaxCalls
  BY DEF RestInv, Sure, Calm
<1>a. ads \in AdControllers /\ ads.loadingNext \in {"no", "list", "settling"}
  BY <1>0, WorldFields, TypedParts DEF Good, Loose, AdControllers
<1>1. CASE adsDiscovered
  <2> DEFINE v == [World EXCEPT !.ads.known = TRUE]
  <2>1. Good(v)
    BY <1>0 DEF Good, Loose, Typed, AdControllers
  <2>2. Become(v) /\ calls' = calls
    BY <1>1 DEF adsDiscovered, Become, World
  <2>3. /\ v.tc = tc /\ v.media = media /\ v.jobs = jobs /\ v.ads.brk = ads.brk
        /\ v.ads.provider = ads.provider /\ v.ads.pending = ads.pending
        /\ v.ads.loadingNext = ads.loadingNext
    BY <1>a DEF World, AdControllers
  <2> HIDE DEF v
  <2>4. Calm(v)
    BY <1>0, <2>1, <2>3, WorldFields, CalmKept
  <2>5. v.ads.brk # NoState => Moving(v)
    BY <1>0, <2>3, WorldFields, MovingKept DEF Sure
  <2>6. QED
    BY <1>0, <2>2, <2>4, <2>5, BecomeSure DEF Sure
<1>2. CASE ended
  <2>1. calls' \in 0..MaxCalls
    BY <1>0, <1>2 DEF ended
  <2>2. QED
    BY <1>0, <1>2, <2>1, EndedSure
<1>3. CASE playing
  <2> DEFINE a == IF ads.brk.ad = "entered" THEN "started" ELSE "completed"
             v == [World EXCEPT !.ads.brk.ad = a]
  <2>1. World.ads.brk # NoState
    BY <1>3, WorldFields DEF playing, NoState
  <2>2. a \in {"started", "completed"} /\ a \in {"none", "entered", "started", "completed", "dropped"}
    OBVIOUS
  <2>3. Become(v) /\ calls' = calls
    BY <1>3 DEF playing, Become, World
  <2>4. ads.loadingNext # "settling" /\ media.active # {} /\ ~media.ended
    BY <1>3 DEF playing, EventLoopIdle, Idle
  <2> HIDE DEF a
  <2>5. /\ Calm(v) /\ v.ads.brk.ad = a /\ v.ads.loadingNext = World.ads.loadingNext
        /\ v.media = World.media
    <3>1. LET x == [World EXCEPT !.ads.brk.ad = a] IN
          /\ Calm(x) /\ x.ads.brk.ad = a /\ x.ads.brk # NoState
          /\ x.ads.loadingNext = World.ads.loadingNext
          /\ x.tc = World.tc /\ x.media = World.media /\ x.jobs = World.jobs
      BY <1>0, <2>1, <2>2, AdStateCalm, Zenon
    <3>2. QED
      BY <3>1
  <2> HIDE DEF v
  <2>6. Moving(v)
    BY <1>a, <2>2, <2>4, <2>5, WorldFields DEF Moving
  <2>7. QED
    BY <1>0, <2>3, <2>5, <2>6, BecomeSure DEF Sure
<1>4. CASE timeUpdate
  <2> DEFINE midrolls == open(World, ads.provider, "midroll")
             reached(b) == {c \in midrolls : Start[c] <= Start[b]}
  <2>1. PICK b \in midrolls : Become(setPendingBreaks(World, reached(b)))
    BY <1>4 DEF timeUpdate
  <2>2. ads.provider \in Uris /\ World.ads.provider # NoUri
    BY <1>4, <1>a, WorldFields DEF timeUpdate, AdControllers
  <2>3. reached(b) \in SUBSET Breaks
    BY <2>2, TrackControllerAssumption DEF open, NoUri
  <2> HIDE DEF reached
  <2>4. Sure(setPendingBreaks(World, reached(b)))
    BY <1>0, <2>2, <2>3, SetPendingBreaksSure
  <2>5. calls' \in 0..MaxCalls
    BY <1>0, <1>4 DEF timeUpdate
  <2>6. QED
    BY <2>1, <2>4, <2>5, BecomeSure
<1>5. CASE enforcePlayoutLimits
  <2> DEFINE w == [World EXCEPT !.ads.brk.n = ads.brk.total + 1, !.ads.brk.ad = "none"]
             v == IF ads.brk.n >= ads.brk.total THEN completeAdBreak(w) ELSE w
  <2>1. World.ads.brk # NoState /\ ads.loadingNext # "settling"
    BY <1>5, WorldFields DEF enforcePlayoutLimits, NoState, EventLoopIdle, Idle
  <2>2. Calm(w) /\ w.ads.loadingNext = ads.loadingNext
    BY <1>0, <2>1, WorldFields, LimitCalm
  <2>3. Become(nextAdOrBreak(v)) /\ calls' = calls
    BY <1>5 DEF enforcePlayoutLimits
  <2> HIDE DEF w
  <2>4. Calm(completeAdBreak(w)) /\ completeAdBreak(w).ads.brk = NoState
    BY <2>2, CompleteBreakCalm
  <2>5. Calm(v) /\ (v.ads.brk = NoState \/ v.ads.loadingNext = ads.loadingNext)
    BY <2>2, <2>4
  <2> HIDE DEF v
  <2>6. v.ads.brk # NoState /\ v.ads.loadingNext # "no" => Moving(v)
    BY <1>a, <2>1, <2>5 DEF Moving
  <2>7. QED
    BY <1>0, <2>3, <2>5, <2>6, NextAdOrBreakSure, BecomeSure
<1>6. CASE loadTimeout
  <2>1. Sure(failAd(World)) /\ calls' \in 0..MaxCalls
    BY <1>0, <1>6, FailAdSure DEF loadTimeout
  <2>2. QED
    BY <1>6, <2>1, BecomeSure DEF loadTimeout
<1>7. CASE trackError
  <2>1. Sure(failAd(World))
    BY <1>0, FailAdSure
  <2>2. calls' \in 0..MaxCalls
    BY <1>0, <1>7, CallCounted DEF trackError, TrackInv
  <2>3. QED
    BY <1>7, <2>1, <2>2, BecomeSure DEF trackError
<1>8. CASE seekBack
  <2> DEFINE newAds == IF HasAd(World) THEN ads ELSE [ads EXCEPT !.spent = {}]
             v == [World EXCEPT !.ads = newAds, !.media.ended = FALSE]
  <2>1. /\ newAds \in AdControllers /\ newAds.brk = ads.brk
        /\ newAds.provider = ads.provider /\ newAds.pending = ads.pending
        /\ newAds.loadingNext = ads.loadingNext
    BY <1>a DEF AdControllers
  <2>2. Become(v)
    BY <1>8 DEF seekBack, Become, World
  <2> HIDE DEF newAds
  <2>3. Good(v)
    BY <1>0, <2>1 DEF Good, Loose, Typed, World
  <2>4. /\ v.tc = tc /\ v.ads = newAds /\ v.jobs = jobs /\ v.media.active = media.active
        /\ ~v.media.ended
    BY <1>0 DEF World, Good, Loose, Typed
  <2> HIDE DEF v
  <2>5. Calm(v)
    BY <1>0, <2>1, <2>3, <2>4, WorldFields, CalmKept
  <2>6. v.ads.brk # NoState => Moving(v)
    BY <1>0, <2>1, <2>4, WorldFields, MovingKept DEF Sure
  <2>7. calls' \in 0..MaxCalls
    BY <1>0, <1>8, CallCounted DEF seekBack, TrackInv
  <2>8. QED
    BY <2>2, <2>5, <2>6, <2>7, BecomeSure DEF Sure
<1>9. QED
  BY <1>1, <1>2, <1>3, <1>4, <1>5, <1>6, <1>7, <1>8 DEF Event

(* Calls of the application preserve it.                                       *)
THEOREM ApplicationSure == RestInv /\ Application => RestInv'
<1> SUFFICES ASSUME RestInv, Application PROVE RestInv'
  OBVIOUS
<1>0. /\ Sure(World) /\ Calm(World) /\ Good(World) /\ TrackInv
      /\ calls \in 0..MaxCalls
  BY DEF RestInv, Sure, Calm, TrackInv
<1>1. /\ Loose(World) /\ BreaksProvided(World)
      /\ World.ads.brk # NoState => Moving(World)
      /\ tc.queue \in Seq(Uris)
  BY <1>0, WorldFields, TypedParts DEF Sure, Calm, Good, Loose
<1>2. <<>> \in Seq(Uris) /\ Len(<<>>) <= MaxQueue /\ NoUri \in Uris \cup {NoUri}
  BY TrackControllerAssumption
<1>3. ASSUME NEW us \in Lists, load(us) PROVE RestInv'
  <2>1. /\ Head(us) \in Uris \cup {NoUri} /\ Tail(us) \in Seq(Uris)
        /\ Len(Tail(us)) <= MaxQueue
    BY ListFacts, HeadTailProperties, TrackControllerAssumption
  <2>2. Sure(setQueue(World, Head(us), Tail(us)))
    BY <1>1, <2>1, SetQueueSure
  <2>3. calls' \in 0..MaxCalls
    BY <1>0, <1>3, CallCounted DEF load
  <2>4. QED
    BY <1>3, <2>2, <2>3, BecomeSure DEF load
<1>4. ASSUME NEW us \in Lists, enqueue(us) PROVE RestInv'
  <2> DEFINE q == tc.queue \o us
             w == setQueueOnly(World, q)
  <2>1. q \in Seq(Uris) /\ Len(q) <= MaxQueue
    BY <1>1, <1>4, ListFacts, ConcatProperties DEF enqueue
  <2>2. Sure(w)
    BY <1>0, <2>1, QueueOnlySure
  <2>3. calls' \in 0..MaxCalls
    BY <1>0, <1>4, CallCounted DEF enqueue
  <2>4. Become(IF tc.track = NoTrack THEN next(w) ELSE w)
    BY <1>4 DEF enqueue
  <2> HIDE DEF w
  <2>5. Sure(next(w))
    BY <2>2, NextSure DEF Sure, Calm, Good
  <2>6. QED
    BY <2>2, <2>3, <2>4, <2>5, BecomeSure
<1>5. CASE nextTrack
  <2>1. Sure(next(World)) /\ calls' \in 0..MaxCalls
    BY <1>0, <1>1, <1>5, NextSure, CallCounted DEF nextTrack
  <2>2. QED
    BY <1>5, <2>1, BecomeSure DEF nextTrack
<1>6. CASE clearQueue
  <2>1. Sure(setQueueOnly(World, <<>>))
    BY <1>0, <1>2, QueueOnlySure
  <2>2. calls' \in 0..MaxCalls
    BY <1>0, <1>6, CallCounted DEF clearQueue
  <2>3. QED
    BY <1>6, <2>1, <2>2, BecomeSure DEF clearQueue
<1>7. CASE unload
  <2>1. Sure(setQueue(World, NoUri, <<>>))
    BY <1>1, <1>2, SetQueueSure
  <2>2. calls' \in 0..MaxCalls
    BY <1>0, <1>7, CallCounted DEF unload
  <2>3. QED
    BY <1>7, <2>1, <2>2, BecomeSure DEF unload
<1>8. CASE skipAd
  <2>1. Sure(nextAdOrBreak(completeAd(World)))
    BY <1>0, FailAdSure DEF failAd
  <2>2. calls' \in 0..MaxCalls
    BY <1>0, <1>8, CallCounted DEF skipAd
  <2>3. QED
    BY <1>8, <2>1, <2>2, BecomeSure DEF skipAd
<1>9. CASE skipAdBreak
  <2>1. Sure(nextAdOrBreak(completeAdBreak(World)))
    BY <1>0, CompleteBreakCalm, NextAdOrBreakSure
  <2>2. calls' \in 0..MaxCalls
    BY <1>0, <1>9, CallCounted DEF skipAdBreak
  <2>3. QED
    BY <1>9, <2>1, <2>2, BecomeSure DEF skipAdBreak
<1>10. QED
  BY <1>3, <1>4, <1>5, <1>6, <1>7, <1>8, <1>9 DEF Application

(* The current entry of the queue is always supplied and a break always moves  *)
(* on: the stronger invariant of every reachable state.                        *)
THEOREM RestInvariant == Spec => []RestInv
<1>1. RestInv /\ [Next]_vars => RestInv'
  <2> SUFFICES ASSUME RestInv, [Next]_vars PROVE RestInv'
    OBVIOUS
  <2>1. CASE Next
    BY <2>1, SettleSure, EventSure, ApplicationSure DEF Next
  <2>2. CASE UNCHANGED vars
    <3>1. Become(World) /\ calls' = calls
      BY <2>2 DEF vars, Become, World
    <3>2. QED
      BY <3>1, BecomeSure DEF RestInv
  <2>3. QED
    BY <2>1, <2>2
<1>2. QED
  BY <1>1, RestInit, PTL DEF Spec

(* When no promise is outstanding and no break is in progress, the current     *)
(* entry of the queue plays: setCurrentTrack, the handler of                   *)
(* 'adBreakCompleted' and the prerolls that settle late never leave the        *)
(* element without a track.                                                    *)
THEOREM RestPlaysContentHolds == Spec => []RestPlaysContent
BY RestInvariant, RestMeans, PTL

(* nextAdOrBreak never leaves a break that nothing moves on, whichever of its  *)
(* callers finds the lock taken.                                               *)
THEOREM BreakMovesOnHolds == Spec => []BreakMovesOn
BY RestInvariant, RestMeans, PTL

------------------------------------------------------------------------------
\* Postrolls are asked for by 'ended' alone

(* The postrolls that are outstanding.                                         *)
postrolls(js) == {i \in DOMAIN js : js[i].kind = "postroll"}

(* No call between w and v has asked for one.                                  *)
NoneAdded(v, w) == postrolls(v.jobs) \subseteq postrolls(w.jobs)

(* They are finitely many.                                                     *)
LEMMA PostrollsCounted ==
    ASSUME NEW js \in Seq(SoundJobs)
    PROVE  /\ IsFiniteSet(postrolls(js)) /\ Cardinality(postrolls(js)) \in Nat
           /\ Postrolls(js) = Cardinality(postrolls(js))
<1>1. Len(js) \in Nat /\ DOMAIN js = 1..Len(js)
  BY LenProperties
<1>2. IsFiniteSet(1..Len(js))
  BY <1>1, FS_Interval
<1>3. postrolls(js) \in SUBSET (1..Len(js))
  BY <1>1 DEF postrolls
<1>4. IsFiniteSet(postrolls(js))
  BY <1>2, <1>3, FS_Subset
<1>5. QED
  BY <1>4, FS_CardinalityType DEF Postrolls, postrolls

(* Without a new one there are no more of them.                                *)
LEMMA NoMorePostrolls ==
    ASSUME NEW js \in Seq(SoundJobs), NEW ks, postrolls(ks) \subseteq postrolls(js)
    PROVE  /\ Postrolls(ks) \in Nat /\ Postrolls(js) \in Nat
           /\ Postrolls(ks) <= Postrolls(js)
<1>1. IsFiniteSet(postrolls(ks)) /\ Cardinality(postrolls(ks)) <= Cardinality(postrolls(js))
  BY PostrollsCounted, FS_Subset
<1>2. Cardinality(postrolls(ks)) \in Nat /\ Cardinality(postrolls(js)) \in Nat
  BY <1>1, PostrollsCounted, FS_CardinalityType
<1>3. QED
  BY <1>1, <1>2 DEF Postrolls, postrolls

(* A job of another kind adds none.                                            *)
LEMMA AppendedOther ==
    ASSUME NEW js \in Seq(SoundJobs), NEW job \in SoundJobs, job.kind # "postroll"
    PROVE  postrolls(Append(js, job)) \subseteq postrolls(js)
<1> DEFINE ks == Append(js, job)
<1>1. /\ Len(js) \in Nat /\ DOMAIN js = 1..Len(js)
      /\ Len(ks) = Len(js) + 1 /\ DOMAIN ks = 1..Len(ks)
      /\ ks[Len(js) + 1] = job
      /\ \A i \in 1..Len(js) : ks[i] = js[i]
  BY AppendProperties, LenProperties
<1> HIDE DEF ks
<1>2. postrolls(ks) \subseteq postrolls(js)
  BY <1>1 DEF postrolls
<1>3. QED
  BY <1>2 DEF ks

(* A change of the queue adds none.                                            *)
LEMMA QueueChangedNone ==
    ASSUME NEW w, Typed(w)
    PROVE  NoneAdded(queueChanged(w), w)
<1>1. w.jobs \in Seq(SoundJobs) /\ DOMAIN w.jobs = 1..Len(w.jobs)
  BY TypedParts, LenProperties
<1> DEFINE js == [i \in DOMAIN w.jobs |-> [w.jobs[i] EXCEPT !.stale = TRUE]]
<1>2. queueChanged(w).jobs = js
  BY DEF queueChanged, Typed
<1>3. \A i \in DOMAIN w.jobs : w.jobs[i] \in Jobs
  BY <1>1, ElementOfSeq DEF SoundJobs
<1>4. \A i \in DOMAIN w.jobs : js[i].kind = w.jobs[i].kind
  BY <1>3 DEF Jobs
<1>5. DOMAIN js = DOMAIN w.jobs
  OBVIOUS
<1> HIDE DEF js
<1>6. postrolls(js) = postrolls(w.jobs)
  BY <1>4, <1>5 DEF postrolls
<1>7. QED
  BY <1>2, <1>6 DEF NoneAdded

(* A callback that is taken adds none.                                         *)
LEMMA RemovedPostrolls ==
    ASSUME NEW js \in Seq(SoundJobs), NEW i \in DOMAIN js
    PROVE  Postrolls(RemoveAt(js, i)) <= Postrolls(js)
<1> DEFINE ks == RemoveAt(js, i)
           f == [k \in postrolls(ks) |-> IF k < i THEN k ELSE k + 1]
<1>1. /\ DOMAIN ks = 1..(Len(js) - 1) /\ Len(js) \in Nat /\ i \in 1..Len(js)
      /\ DOMAIN js = 1..Len(js)
      /\ \A k \in 1..(Len(js) - 1) : ks[k] = IF k < i THEN js[k] ELSE js[k + 1]
  BY RemoveAtLeaves
<1>2. ks \in Seq(SoundJobs)
  BY RemoveAtType
<1> HIDE DEF ks
<1>3. \A k \in postrolls(ks) : k \in 1..(Len(js) - 1) /\ ks[k].kind = "postroll"
  BY <1>1 DEF postrolls
<1>4. ASSUME NEW k \in postrolls(ks) PROVE f[k] \in postrolls(js)
  <2>1. k \in 1..(Len(js) - 1) /\ ks[k].kind = "postroll"
    BY <1>3
  <2>2. CASE k < i
    BY <1>1, <2>1, <2>2 DEF postrolls
  <2>3. CASE ~(k < i)
    <3>1. k + 1 \in 1..Len(js) /\ js[k + 1].kind = "postroll"
      BY <1>1, <2>1, <2>3
    <3>2. QED
      BY <1>1, <2>3, <3>1 DEF postrolls
  <2>4. QED
    BY <2>2, <2>3
<1>5. f \in [postrolls(ks) -> postrolls(js)]
  BY <1>4
<1>6. ASSUME NEW a \in postrolls(ks), NEW b \in postrolls(ks), f[a] = f[b] PROVE a = b
  <2>1. a \in Int /\ b \in Int /\ i \in Int
    BY <1>1, <1>3
  <2>2. QED
    BY <1>6, <2>1
<1>12. \A a, b \in DOMAIN f : f[a] = f[b] => a = b
  BY <1>6
<1> HIDE DEF f
<1>7. f \in Injection(postrolls(ks), postrolls(js))
  BY <1>5, <1>12 DEF Injection, IsInjective
<1>8. IsFiniteSet(postrolls(js)) /\ Postrolls(js) = Cardinality(postrolls(js))
  BY PostrollsCounted
<1>9. Postrolls(ks) = Cardinality(postrolls(ks))
  BY <1>2, PostrollsCounted
<1>10. Cardinality(postrolls(ks)) <= Cardinality(postrolls(js))
  BY <1>7, <1>8, FS_Injection, Zenon
<1>11. QED
  BY <1>8, <1>9, <1>10 DEF ks

(* activate, and entering a track: a preroll at most.                          *)
LEMMA EnterNone ==
    ASSUME NEW w, Loose(w), NEW t \in Tracks \cup {NoTrack}, NEW c \in BOOLEAN
    PROVE  NoneAdded(enter(w, t, c), w)
<1>1. CASE t = NoTrack
  BY <1>1 DEF enter, NoneAdded
<1>2. CASE t # NoTrack /\ c
  <2> DEFINE job == NewJob("preroll", w.ads.provider, t)
             js == Append(w.jobs, job)
  <2>1. w.ads.provider \in Uris \cup {NoUri} /\ w.jobs \in Seq(SoundJobs)
    BY TypedParts DEF Loose, AdControllers
  <2>2. job \in SoundJobs /\ job.kind # "postroll"
    BY <1>2, <2>1 DEF NewJob, SoundJobs, Jobs
  <2>3. postrolls(js) \subseteq postrolls(w.jobs)
    <3> HIDE DEF job
    <3>1. QED
      BY <2>1, <2>2, AppendedOther
  <2>4. enter(w, t, c) = [w EXCEPT !.jobs = js]
    BY <1>2 DEF enter
  <2> HIDE DEF js
  <2>5. enter(w, t, c).jobs = js
    BY <2>4 DEF Loose, Typed
  <2>6. QED
    BY <2>3, <2>5 DEF NoneAdded
<1>3. CASE t # NoTrack /\ ~c
  <2>1. enter(w, t, c) = IF w.tc.track = t THEN activate(w, t) ELSE w
    BY <1>3 DEF enter
  <2>2. activate(w, t).jobs = w.jobs
    BY DEF activate, Loose, Typed
  <2>3. QED
    BY <2>1, <2>2 DEF NoneAdded
<1>4. QED
  BY <1>1, <1>2, <1>3

(* setCurrentTrack of content, called while no break is in progress.           *)
LEMMA SetContentAssignNone ==
    ASSUME NEW w, Typed(w), w.media.active \subseteq {w.tc.track},
           NEW u \in Uris \cup {NoUri}, NEW c \in BOOLEAN
    PROVE  NoneAdded(setCurrentTrackWith(assignProvider, w, Content(u), c), w)
<1> DEFINE t == Content(u)
           left == leaveFor(w, t)
           here == assignProvider(left, t.parent)
<1>1. t \in Tracks \cup {NoTrack} /\ ~IsAd(t) /\ t.parent = u
  BY TrackFacts DEF Content, NoTrack
<1>2. Loose(left)
  BY <1>1, LeaveLoose
<1>3. left.jobs = w.jobs
  BY DEF leaveFor, leave, Typed
<1>4. setCurrentTrackWith(assignProvider, w, t, c) = enter(here, t, c)
  BY <1>1 DEF setCurrentTrackWith, enter, leave, leaveFor
<1> HIDE DEF left
<1>5. Loose(here)
  BY <1>1, <1>2, AssignProviderLoose
<1>6. here.jobs = w.jobs
  BY <1>2, <1>3 DEF assignProvider, Loose, Typed
<1> HIDE DEF here
<1>7. NoneAdded(enter(here, t, c), here)
  BY <1>1, <1>5, EnterNone
<1>8. QED
  BY <1>4, <1>6, <1>7 DEF NoneAdded

(* setQueue until it sets the current track.                                   *)
LEMMA RequeueNone ==
    ASSUME NEW w, Loose(w), NEW u \in Uris \cup {NoUri},
           NEW q \in Seq(Uris), Len(q) <= MaxQueue
    PROVE  NoneAdded(requeue(w, u, q), w) /\ NoneAdded(setQueueOnly(w, q), w)
<1> DEFINE js == queueChanged(w).jobs
<1>1. js \in Seq(SoundJobs) /\ queueChanged(w) = [w EXCEPT !.jobs = js]
  BY QueueChangedTyped DEF Loose
<1>2. NoneAdded(queueChanged(w), w)
  BY QueueChangedNone DEF Loose
<1>3. requeue(w, u, q).jobs = js /\ setQueueOnly(w, q).jobs = js
  <2>1. /\ requeue(w, u, q) = [w EXCEPT !.jobs = js, !.tc.current = u, !.tc.queue = q]
        /\ setQueueOnly(w, q) = [w EXCEPT !.jobs = js, !.tc.queue = q]
    BY <1>1 DEF requeue, setQueueOnly, Loose, Typed
  <2> HIDE DEF js
  <2>2. QED
    BY <2>1 DEF Loose, Typed
<1>4. QED
  BY <1>2, <1>3 DEF NoneAdded

(* next() within the handler of 'adBreakCompleted'.                            *)
LEMMA NextAssignNone ==
    ASSUME NEW w, Loose(w)
    PROVE  NoneAdded(nextWith(assignProvider, w), w)
<1>1. w.tc.queue \in Seq(Uris) /\ Len(w.tc.queue) <= MaxQueue /\ Len(w.tc.queue) \in Nat
  BY TypedParts, LenProperties DEF Loose, Typed
<1>2. ASSUME NEW u \in Uris \cup {NoUri}, NEW q \in Seq(Uris), Len(q) <= MaxQueue
      PROVE  NoneAdded(setQueueWith(assignProvider, w, u, q), w)
  <2> DEFINE r == requeue(w, u, q)
             v == setCurrentTrackWith(assignProvider, r, Content(u), TRUE)
  <2>1. Loose(r) /\ NoneAdded(r, w)
    BY <1>2, RequeueTyped, RequeueNone
  <2>2. setQueueWith(assignProvider, w, u, q) = v
    BY DEF setQueueWith, requeue
  <2> HIDE DEF r
  <2>3. NoneAdded(v, r)
    BY <2>1, SetContentAssignNone DEF Loose
  <2> HIDE DEF v
  <2>4. QED
    BY <2>1, <2>2, <2>3 DEF NoneAdded
<1>3. CASE w.tc.queue = <<>>
  <2>1. nextWith(assignProvider, w) = setQueueWith(assignProvider, w, NoUri, <<>>)
    BY <1>3 DEF nextWith
  <2>2. QED
    BY <1>1, <1>2, <1>3, <2>1
<1>4. CASE w.tc.queue # <<>>
  <2>1. nextWith(assignProvider, w) =
            setQueueWith(assignProvider, w, Head(w.tc.queue), Tail(w.tc.queue))
    BY <1>4 DEF nextWith
  <2>2. /\ Head(w.tc.queue) \in Uris /\ Tail(w.tc.queue) \in Seq(Uris)
        /\ Len(Tail(w.tc.queue)) <= MaxQueue
    BY <1>1, <1>4, HeadTailProperties, TrackControllerAssumption
  <2>3. QED
    BY <1>2, <2>1, <2>2
<1>5. QED
  BY <1>3, <1>4

(* The end of a break.                                                         *)
LEMMA CompleteBreakNone ==
    ASSUME NEW w, Loose(w)
    PROVE  NoneAdded(completeAdBreak(w), w)
<1> DEFINE b == w.ads.brk.id
           done == IF Placement[b] = "midroll" THEN w.ads.done ELSE w.ads.done \cup {b}
           spent == IF Placement[b] = "midroll" THEN w.ads.spent \cup {b} ELSE w.ads.spent
           cleared == [w EXCEPT !.ads.brk = NoState, !.ads.done = done, !.ads.spent = spent]
<1>1. CASE b = NoBreak
  BY <1>1 DEF completeAdBreak, NoneAdded
<1>2. CASE b # NoBreak
  <2>1. w.ads.brk \in BreakStates \cup {NoState} /\ w.ads \in AdControllers
    BY TypedParts DEF Loose
  <2>2. b \in Breaks
    BY <1>2, <2>1 DEF BreakStates, NoState
  <2>3. done \in SUBSET Breaks /\ spent \in SUBSET Breaks
    BY <2>1, <2>2 DEF AdControllers
  <2>4. completeAdBreak(w) = onAdBreakCompleted(cleared, b)
    BY <1>2 DEF completeAdBreak
  <2>5. Loose(cleared) /\ cleared.jobs = w.jobs
    <3> HIDE DEF done, spent
    <3>1. NoState \in BreakStates \cup {NoState} /\ NoState.n <= NoState.total + 1
      BY DEF NoState
    <3> DEFINE newAds == [w.ads EXCEPT !.brk = NoState, !.done = done, !.spent = spent]
    <3>2. newAds \in AdControllers /\ newAds.brk = NoState
      BY <2>3, <3>1, <2>1 DEF AdControllers
    <3>3. cleared = [w EXCEPT !.ads = newAds]
      BY DEF Loose, Typed
    <3> HIDE DEF newAds, cleared
    <3>4. QED
      BY <3>1, <3>2, <3>3 DEF Loose, Typed
  <2> HIDE DEF cleared, b
  <2> DEFINE back == Content(cleared.tc.adParent)
             resumed == setCurrentTrackWith(assignProvider, cleared, back, FALSE)
             advanced == nextWith(assignProvider, cleared)
  <2>6. cleared.tc.adParent \in Uris \cup {NoUri}
    BY <2>5, TypedParts DEF Loose
  <2>7. NoneAdded(resumed, cleared)
    BY <2>5, <2>6, SetContentAssignNone DEF Loose
  <2>8. NoneAdded(advanced, cleared)
    BY <2>5, NextAssignNone
  <2>9. onAdBreakCompleted(cleared, b) \in {cleared, resumed, advanced}
    BY DEF onAdBreakCompleted
  <2> HIDE DEF resumed, advanced
  <2>10. QED
    BY <2>4, <2>5, <2>7, <2>8, <2>9 DEF NoneAdded
<1>3. QED
  BY <1>1, <1>2

(* setAdsProvider, called for a content track.                                 *)
LEMMA SetAdsProviderNone ==
    ASSUME NEW w, Loose(w), ~IsAd(w.tc.track), NEW u \in Uris \cup {NoUri}
    PROVE  NoneAdded(setAdsProvider(w, u), w)
<1> DEFINE cleared == [w EXCEPT !.ads.pending = {}]
           v == completeAdBreak(cleared)
           moved == [v EXCEPT !.ads.provider = u, !.ads.known = FALSE,
                              !.ads.done = {}, !.ads.spent = {}]
<1>1. Loose(cleared) /\ cleared.tc.track = w.tc.track /\ cleared.jobs = w.jobs
  BY DEF Loose, Typed, AdControllers
<1>2. Loose(v) /\ NoneAdded(v, w)
  <2> HIDE DEF cleared
  <2>1. QED
    BY <1>1, CompleteAdBreakGood, CompleteBreakNone DEF NoneAdded
<1>3. moved.jobs = v.jobs
  <2> HIDE DEF v
  <2>1. QED
    BY <1>2 DEF Loose, Typed
<1>4. setAdsProvider(w, u) = IF w.ads.provider = u THEN w ELSE moved
  BY DEF setAdsProvider
<1> HIDE DEF moved, v
<1>5. QED
  BY <1>2, <1>3, <1>4 DEF NoneAdded

(* setCurrentTrack of content.                                                 *)
LEMMA SetContentNone ==
    ASSUME NEW w, Typed(w), w.media.active \subseteq {w.tc.track},
           NEW u \in Uris \cup {NoUri}, NEW c \in BOOLEAN
    PROVE  NoneAdded(setCurrentTrack(w, Content(u), c), w)
<1> DEFINE t == Content(u)
           left == leaveFor(w, t)
           here == setAdsProvider(left, t.parent)
<1>1. t \in Tracks \cup {NoTrack} /\ ~IsAd(t) /\ t.parent = u
  BY TrackFacts DEF Content, NoTrack
<1>2. Loose(left) /\ left.tc.track = t
  BY <1>1, LeaveLoose
<1>3. left.jobs = w.jobs
  BY DEF leaveFor, leave, Typed
<1>4. setCurrentTrack(w, t, c) = enter(here, t, c)
  BY <1>1 DEF setCurrentTrack, setCurrentTrackWith, enter, leave, leaveFor
<1> HIDE DEF left
<1>5. Loose(here) /\ NoneAdded(here, left)
  BY <1>1, <1>2, SetAdsProviderGood, SetAdsProviderNone
<1> HIDE DEF here
<1>6. NoneAdded(enter(here, t, c), here)
  BY <1>1, <1>5, EnterNone
<1>7. QED
  BY <1>3, <1>4, <1>5, <1>6 DEF NoneAdded

(* setQueue with another current entry.                                        *)
LEMMA SetQueueNone ==
    ASSUME NEW w, Loose(w), NEW u \in Uris \cup {NoUri},
           NEW q \in Seq(Uris), Len(q) <= MaxQueue
    PROVE  NoneAdded(setQueue(w, u, q), w)
<1> DEFINE r == requeue(w, u, q)
<1>1. Loose(r) /\ NoneAdded(r, w)
  BY RequeueTyped, RequeueNone
<1>2. setQueue(w, u, q) = setCurrentTrack(r, Content(u), TRUE)
  BY DEF setQueue, setQueueWith, setCurrentTrack, requeue
<1> HIDE DEF r
<1>3. NoneAdded(setCurrentTrack(r, Content(u), TRUE), r)
  BY <1>1, SetContentNone DEF Loose
<1>4. QED
  BY <1>1, <1>2, <1>3 DEF NoneAdded

(* next() of the application or after the end of a track.                      *)
LEMMA NextNone ==
    ASSUME NEW w, Loose(w)
    PROVE  NoneAdded(next(w), w)
<1>1. w.tc.queue \in Seq(Uris) /\ Len(w.tc.queue) <= MaxQueue /\ Len(w.tc.queue) \in Nat
  BY TypedParts, LenProperties DEF Loose, Typed
<1>2. CASE w.tc.queue = <<>>
  <2>1. next(w) = setQueue(w, NoUri, <<>>)
    BY <1>2 DEF next, nextWith, setQueue
  <2>2. <<>> \in Seq(Uris) /\ Len(<<>>) <= MaxQueue
    BY <1>1, <1>2
  <2>3. QED
    BY <2>1, <2>2, SetQueueNone
<1>3. CASE w.tc.queue # <<>>
  <2>1. next(w) = setQueue(w, Head(w.tc.queue), Tail(w.tc.queue))
    BY <1>3 DEF next, nextWith, setQueue
  <2>2. /\ Head(w.tc.queue) \in Uris /\ Tail(w.tc.queue) \in Seq(Uris)
        /\ Len(Tail(w.tc.queue)) <= MaxQueue
    BY <1>1, <1>3, HeadTailProperties, TrackControllerAssumption
  <2>3. QED
    BY <2>1, <2>2, SetQueueNone
<1>4. QED
  BY <1>2, <1>3

(* Taking the next break asks for its list.                                    *)
LEMMA NextBreakNone ==
    ASSUME NEW w, Typed(w)
    PROVE  nextBreak(w).jobs = w.jobs /\ nextAdOrBreak(w).jobs = w.jobs
<1>1. nextBreak(w).jobs = w.jobs
  <2>1. CASE w.ads.pending = {}
    BY <2>1 DEF nextBreak, Typed
  <2>2. CASE w.ads.pending # {}
    <3> DEFINE b == First(w.ads.pending)
               new == NewState(b)
    <3>1. nextBreak(w) = [w EXCEPT !.ads.pending = @ \ {b}, !.ads.brk = new,
                                   !.ads.loadingNext = "list"]
      BY <2>2 DEF nextBreak
    <3> HIDE DEF b, new
    <3>2. QED
      BY <3>1 DEF Typed
  <2>3. QED
    BY <2>1, <2>2
<1>2. [w EXCEPT !.ads.loadingNext = "list"].jobs = w.jobs
  BY DEF Typed
<1>3. QED
  BY <1>1, <1>2 DEF nextAdOrBreak

(* Breaks become pending.                                                      *)
LEMMA SetPendingBreaksNone ==
    ASSUME NEW w, Good(w), NEW bs \in SUBSET Breaks
    PROVE  setPendingBreaks(w, bs).jobs = w.jobs
<1> DEFINE v == [w EXCEPT !.ads.pending = bs]
<1>1. Good(v) /\ v.jobs = w.jobs
  BY PendingGood DEF Good, Loose, Typed
<1> HIDE DEF v
<1>2. nextAdOrBreak(v).jobs = v.jobs
  BY <1>1, NextBreakNone DEF Good, Loose
<1>3. QED
  BY <1>1, <1>2 DEF setPendingBreaks, v

(* The end of an ad.                                                           *)
LEMMA CompleteAdNone ==
    ASSUME NEW w, Good(w)
    PROVE  NoneAdded(completeAd(w), w)
<1>1. CASE w.ads.brk.ad \notin {"entered", "started"}
  BY <1>1 DEF completeAd, NoneAdded
<1>2. CASE w.ads.brk.ad \in {"entered", "started"}
  <2> DEFINE a == IF w.ads.brk.ad = "started" THEN "completed" ELSE "dropped"
             v == [w EXCEPT !.ads.brk.ad = a]
  <2>1. w.ads.brk # NoState
    BY <1>2 DEF NoState
  <2>2. Good(v)
    BY <2>1, AdStateGood
  <2>6. v.jobs = w.jobs
    <3> HIDE DEF a
    <3>1. QED
      BY DEF Good, Loose, Typed
  <2>3. completeAd(w) = IF v.ads.brk.n >= v.ads.brk.total THEN completeAdBreak(v) ELSE v
    BY <1>2 DEF completeAd
  <2> HIDE DEF v
  <2>4. NoneAdded(completeAdBreak(v), v)
    BY <2>2, CompleteBreakNone DEF Good
  <2>5. QED
    BY <2>2, <2>3, <2>4, <2>6 DEF NoneAdded
<1>3. QED
  BY <1>1, <1>2

(* What follows the end of an ad or of a break.                                *)
LEMMA WentOnNone ==
    ASSUME NEW w, NEW v, Good(v), NoneAdded(v, w)
    PROVE  NoneAdded(nextBreak(v), w) /\ NoneAdded(nextAdOrBreak(v), w)
BY NextBreakNone DEF Good, Loose, NoneAdded

(* failAd, and the ad controller's handler of 'ended'.                         *)
LEMMA FailAdNone ==
    ASSUME NEW w, Good(w)
    PROVE  NoneAdded(failAd(w), w) /\ NoneAdded(endAd(w), w)
<1>1. NoneAdded(nextAdOrBreak(completeAd(w)), w)
  BY CompleteAdGood, CompleteAdNone, WentOnNone
<1>2. QED
  BY <1>1 DEF failAd, endAd, NoneAdded

(* The load options of an ad are asked for, not a postroll.                    *)
LEMMA StartAdNone ==
    ASSUME NEW w, Good(w), w.ads.brk # NoState, w.ads.brk.n < w.ads.brk.total
    PROVE  NoneAdded(startAd(w), w)
<1> DEFINE m == w.ads.brk.n + 1
           ad == [parent |-> w.tc.adParent, brk |-> w.ads.brk.id, n |-> m]
           job == NewJob("options", NoUri, ad)
           js == IF w.tc.adParent = NoUri THEN w.jobs ELSE Append(w.jobs, job)
<1>1. /\ w.ads.brk \in BreakStates /\ w.jobs \in Seq(SoundJobs)
      /\ w.tc.adParent \in Uris \cup {NoUri}
  BY TypedParts DEF Good, Loose
<1>2. m \in 1..MaxAds /\ w.ads.brk.id \in Breaks
  <2>1. w.ads.brk.n \in Nat /\ w.ads.brk.total \in 0..MaxAds \cup {-1} /\ w.ads.brk.id \in Breaks
    BY <1>1, TrackControllerAssumption DEF BreakStates
  <2>2. QED
    BY <2>1, TrackControllerAssumption
<1>3. postrolls(js) \subseteq postrolls(w.jobs)
  <2>1. CASE w.tc.adParent = NoUri
    BY <2>1
  <2>2. CASE w.tc.adParent # NoUri
    <3> HIDE DEF m
    <3>1. ad \in Tracks
      BY <1>1, <1>2, <2>2 DEF Tracks
    <3>2. job \in SoundJobs /\ job.kind # "postroll"
      BY <3>1 DEF NewJob, SoundJobs, Jobs
    <3> HIDE DEF job
    <3>3. QED
      BY <1>1, <2>2, <3>2, AppendedOther
  <2>3. QED
    BY <2>1, <2>2
<1>4. startAd(w) = [w EXCEPT !.ads.brk.n = m, !.ads.brk.ad = "entered",
                             !.ads.loadingNext = "settling", !.jobs = js]
  BY DEF startAd
<1> HIDE DEF m, js
<1>5. startAd(w).jobs = js
  BY <1>4 DEF Good, Loose, Typed
<1>6. QED
  BY <1>3, <1>5 DEF NoneAdded

(* An enterRoll call settles.                                                  *)
LEMMA EnterRollNone ==
    ASSUME NEW w, Good(w), NEW job \in Jobs
    PROVE  enterRoll(w, job).jobs = w.jobs
<1>1. CASE interrupted(w, job)
  BY <1>1 DEF enterRoll
<1>2. CASE ~interrupted(w, job)
  <2>1. job.provider \in Uris
    BY <1>2 DEF interrupted, Jobs
  <2>2. open(w, job.provider, job.kind) \in SUBSET Breaks
    BY <2>1, TrackControllerAssumption DEF open, NoUri
  <2>3. QED
    BY <1>2, <2>2, SetPendingBreaksNone DEF enterRoll
<1>3. QED
  BY <1>1, <1>2

(* An ad becomes current.                                                      *)
LEMMA SetAdNone ==
    ASSUME NEW w, Good(w), NEW ad \in Tracks \cup {NoTrack},
           w.tc.adParent = ad.parent, w.ads.brk # NoState,
           w.ads.brk.id = ad.brk, w.ads.brk.n = ad.n
    PROVE  NoneAdded(setCurrentTrack(w, ad, FALSE), w)
<1> DEFINE left == leave(w, ad)
<1>1. IsAd(ad)
  BY TypedParts, BreakFacts DEF Good, Loose, IsAd
<1>2. Loose(left)
  BY <1>1, LeaveLoose DEF Good, Loose
<1>3. left.jobs = w.jobs
  BY DEF leave, Good, Loose, Typed
<1>4. setCurrentTrack(w, ad, FALSE) = enter(left, ad, FALSE)
  BY <1>1 DEF setCurrentTrack, setCurrentTrackWith, enter, leave
<1> HIDE DEF left
<1>5. NoneAdded(enter(left, ad, FALSE), left)
  BY <1>2, EnterNone
<1>6. QED
  BY <1>3, <1>4, <1>5 DEF NoneAdded

(* The job whose callback runs is gone.                                        *)
LEMMA WithoutPostrolls ==
    ASSUME Good(World), NEW i \in DOMAIN jobs
    PROVE  Postrolls(Without(i).jobs) <= Postrolls(jobs)
<1>1. jobs \in Seq(SoundJobs)
  BY TypedParts DEF Good, Loose, World
<1>2. Without(i).jobs = RemoveAt(jobs, i)
  BY DEF Without, World
<1>3. QED
  BY <1>1, <1>2, RemovedPostrolls

(* The state a step without a new postroll becomes.                            *)
LEMMA BecomeNone ==
    ASSUME NEW w, NEW v, w.jobs \in Seq(SoundJobs), Postrolls(w.jobs) <= Postrolls(jobs),
           jobs \in Seq(SoundJobs), NoneAdded(v, w), Become(v)
    PROVE  ~(Postrolls(jobs') > Postrolls(jobs))
<1>1. Postrolls(v.jobs) \in Nat /\ Postrolls(w.jobs) \in Nat
      /\ Postrolls(v.jobs) <= Postrolls(w.jobs)
  BY NoMorePostrolls DEF NoneAdded
<1>2. Postrolls(jobs) \in Nat
  BY NoMorePostrolls
<1>3. ~(Postrolls(v.jobs) > Postrolls(jobs))
  BY <1>1, <1>2
<1>4. QED
  BY <1>3 DEF Become

(* The same, from the state itself.                                            *)
LEMMA StepNone ==
    ASSUME TrackInv, NEW v, NoneAdded(v, World), Become(v)
    PROVE  ~(Postrolls(jobs') > Postrolls(jobs))
<1>1. jobs \in Seq(SoundJobs) /\ World.jobs = jobs
  BY WorldFields, TypedParts DEF TrackInv, Good, Loose
<1>2. Postrolls(jobs) \in Nat
  BY <1>1, NoMorePostrolls
<1>3. QED
  BY <1>1, <1>2, BecomeNone

(* The same, from the state in which a callback runs.                          *)
LEMMA CallbackNone ==
    ASSUME TrackInv, NEW i \in DOMAIN jobs, NEW v, NoneAdded(v, Without(i)), Become(v)
    PROVE  ~(Postrolls(jobs') > Postrolls(jobs))
<1>1. jobs \in Seq(SoundJobs)
  BY WorldFields, TypedParts DEF TrackInv, Good, Loose
<1>2. Good(Without(i)) /\ Postrolls(Without(i).jobs) <= Postrolls(jobs)
  BY WithoutGood, WithoutPostrolls DEF TrackInv
<1>3. Without(i).jobs \in Seq(SoundJobs)
  BY <1>2, TypedParts DEF Good, Loose
<1>4. QED
  BY <1>1, <1>2, <1>3, BecomeNone

(* Callbacks of promises.                                                      *)
LEMMA SettleNone ==
    ASSUME TrackInv, Settle
    PROVE  ~(Postrolls(jobs') > Postrolls(jobs))
<1> DEFINE NoMore == ~(Postrolls(jobs') > Postrolls(jobs))
<1>0. Good(World) /\ Loose(World) /\ Typed(World)
  BY DEF TrackInv, Good, Loose
<1>1. ASSUME listResolves PROVE NoMore
  <2>2. CASE ads.brk = NoState
    <3>1. NoneAdded(nextBreak(World), World)
      BY <1>0, NextBreakNone DEF NoneAdded
    <3>2. Become(nextBreak(World))
      BY <1>1, <2>2 DEF listResolves
    <3>3. QED
      BY <3>1, <3>2, StepNone
  <2>3. CASE ads.brk # NoState
    <3>1. PICK total \in Totals :
             LET w == [World EXCEPT !.ads.brk.total = total] IN
             IF w.ads.brk.n < total THEN Become(startAd(w))
             ELSE Become(nextBreak(completeAdBreak([w EXCEPT !.ads.brk.ad = "none"])))
      BY <1>1, <2>3 DEF listResolves
    <3> DEFINE w == [World EXCEPT !.ads.brk.total = total]
               v == [w EXCEPT !.ads.brk.ad = "none"]
    <3>2. ads \in AdControllers /\ ads.brk \in BreakStates
      BY <1>0, <2>3, WorldFields, TypedParts
    <3>3. total \in 0..MaxAds /\ ads.brk.total \in {-1, total}
      BY <2>3, <3>1, <3>2 DEF Totals, BreakStates
    <3>4. Good(w)
      BY <1>0, <2>3, <3>3, WorldFields, TotalGood
    <3>9. w.jobs = World.jobs
      BY <1>0 DEF Typed
    <3>5. w.ads.brk.total = total /\ w.ads.brk # NoState
      <4>1. w.ads.brk = [ads.brk EXCEPT !.total = total]
        BY <3>2 DEF World, AdControllers
      <4>2. w.ads.brk.total = total /\ w.ads.brk.id \in Breaks
        BY <3>2, <4>1 DEF BreakStates
      <4>3. QED
        BY <4>2, TrackControllerAssumption DEF NoState, NoBreak
    <3> HIDE DEF w
    <3>6. CASE w.ads.brk.n < total
      <4>1. NoneAdded(startAd(w), w)
        BY <3>4, <3>5, <3>6, StartAdNone
      <4>2. Become(startAd(w))
        BY <3>1, <3>6 DEF w
      <4>3. QED
        BY <3>9, <4>1, <4>2, StepNone DEF NoneAdded
    <3>7. CASE ~(w.ads.brk.n < total)
      <4>1. Good(v)
        BY <3>4, <3>5, AdStateGood
      <4>2. v.jobs = w.jobs
        BY <3>4 DEF Good, Loose, Typed
      <4>3. Become(nextBreak(completeAdBreak(v)))
        BY <3>1, <3>7 DEF w
      <4> HIDE DEF v
      <4>4. NoneAdded(nextBreak(completeAdBreak(v)), v)
        BY <4>1, CompleteBreakGood, CompleteBreakNone, WentOnNone DEF Good
      <4>5. QED
        BY <3>9, <4>2, <4>3, <4>4, StepNone DEF NoneAdded
    <3>8. QED
      BY <3>6, <3>7
  <2>4. QED
    BY <2>2, <2>3
<1>2. ASSUME listRejects PROVE NoMore
  <2>1. NoneAdded(nextBreak(completeAdBreak(World)), World)
    BY <1>0, CompleteBreakGood, CompleteBreakNone, WentOnNone
  <2>2. QED
    BY <1>2, <2>1, StepNone DEF listRejects
<1>3. ASSUME nextAdOrBreakEnds PROVE NoMore
  <2>1. Become([World EXCEPT !.ads = ads'])
    BY <1>3 DEF nextAdOrBreakEnds, Become, World
  <2>2. NoneAdded([World EXCEPT !.ads = ads'], World)
    BY DEF World, NoneAdded
  <2>3. QED
    BY <2>1, <2>2, StepNone
<1>4. ASSUME NEW i \in DOMAIN jobs, prerollSettles(i) PROVE NoMore
  <2> DEFINE job == jobs[i]
             w == enterRoll(Without(i), job)
  <2>1. job \in Jobs /\ Good(Without(i))
    BY <1>0, WithoutGood DEF SoundJobs
  <2>2. Good(w) /\ w.jobs = Without(i).jobs
    BY <2>1, EnterRollGood, EnterRollNone
  <2>3. Become(w) \/ Become(activate(w, job.track))
    BY <1>4 DEF prerollSettles
  <2> HIDE DEF w, job
  <2>4. activate(w, job.track).jobs = w.jobs
    BY <2>2 DEF activate, Good, Loose, Typed
  <2>5. QED
    BY <2>2, <2>3, <2>4, CallbackNone DEF NoneAdded
<1>5. ASSUME NEW i \in DOMAIN jobs, postrollSettles(i) PROVE NoMore
  <2> DEFINE job == jobs[i]
             w == enterRoll(Without(i), job)
             later == NewJob("advance", NoUri, NoTrack)
             over == [w EXCEPT !.jobs = Append(@, later)]
  <2>1. job \in Jobs /\ Good(Without(i))
    BY <1>0, WithoutGood DEF SoundJobs
  <2>2. Good(w) /\ w.jobs = Without(i).jobs
    BY <2>1, EnterRollGood, EnterRollNone
  <2>3. Become(w) \/ Become(over)
    BY <1>5 DEF postrollSettles
  <2>4. later \in SoundJobs /\ later.kind # "postroll"
    BY DEF NewJob, SoundJobs, Jobs
  <2> HIDE DEF w, job, later
  <2>5. w.jobs \in Seq(SoundJobs) /\ over.jobs = Append(w.jobs, later)
    BY <2>2, TypedParts DEF Good, Loose, Typed
  <2>6. NoneAdded(over, Without(i))
    BY <2>2, <2>4, <2>5, AppendedOther DEF NoneAdded
  <2> HIDE DEF over
  <2>7. QED
    BY <2>2, <2>3, <2>6, CallbackNone DEF NoneAdded
<1>6. ASSUME NEW i \in DOMAIN jobs, advance(i) PROVE NoMore
  <2>1. Loose(Without(i))
    BY <1>0, WithoutGood DEF Good
  <2>2. NoneAdded(next(Without(i)), Without(i)) /\ NoneAdded(Without(i), Without(i))
    BY <2>1, NextNone DEF NoneAdded
  <2>3. Become(Without(i)) \/ Become(next(Without(i)))
    BY <1>6 DEF advance
  <2>4. QED
    BY <2>2, <2>3, CallbackNone
<1>7. ASSUME NEW i \in DOMAIN jobs, optionsSettle(i) PROVE NoMore
  <2> DEFINE ad == jobs[i].track
             w == Without(i)
  <2>1. Good(w) /\ w.tc = tc /\ w.ads = ads /\ ad \in Tracks \cup {NoTrack}
    BY <1>0, WithoutGood DEF SoundJobs, Jobs
  <2>2. NoneAdded(w, w)
    BY DEF NoneAdded
  <2>3. CASE optionsInterrupted(ad)
    BY <1>7, <2>2, <2>3, CallbackNone DEF optionsSettle
  <2>4. CASE ~optionsInterrupted(ad)
    <3>1. Become(setCurrentTrack(w, ad, FALSE)) \/ Become(failAd(w))
      BY <1>7, <2>4 DEF optionsSettle
    <3>2. /\ tc.adParent = ad.parent /\ ads.brk # NoState
          /\ ads.brk.id = ad.brk /\ ads.brk.n = ad.n
      BY <2>4 DEF optionsInterrupted, NoState
    <3> HIDE DEF w, ad
    <3>3. NoneAdded(setCurrentTrack(w, ad, FALSE), w) /\ NoneAdded(failAd(w), w)
      BY <2>1, <3>2, SetAdNone, FailAdNone
    <3>4. QED
      BY <3>1, <3>3, CallbackNone DEF w
  <2>5. QED
    BY <2>3, <2>4
<1>8. QED
  BY <1>1, <1>2, <1>3, <1>4, <1>5, <1>6, <1>7 DEF Settle

(* Events but 'ended'.                                                         *)
LEMMA EventNone ==
    ASSUME TrackInv, Event, ~ended
    PROVE  ~(Postrolls(jobs') > Postrolls(jobs))
<1> DEFINE NoMore == ~(Postrolls(jobs') > Postrolls(jobs))
<1>0. Good(World) /\ Loose(World) /\ Typed(World)
  BY DEF TrackInv, Good, Loose
<1>1. ASSUME jobs' = jobs PROVE NoMore
  <2>1. jobs \in Seq(SoundJobs)
    BY <1>0, WorldFields, TypedParts
  <2>2. Postrolls(jobs) \in Nat
    BY <2>1, NoMorePostrolls
  <2>3. Postrolls(jobs') = Postrolls(jobs)
    BY <1>1
  <2>4. QED
    BY <2>2, <2>3
<1>2. ASSUME adsDiscovered \/ playing \/ seekBack PROVE NoMore
  BY <1>1, <1>2 DEF adsDiscovered, playing, seekBack
<1>3. ASSUME timeUpdate PROVE NoMore
  <2> DEFINE midrolls == open(World, ads.provider, "midroll")
             reached(b) == {c \in midrolls : Start[c] <= Start[b]}
  <2>1. PICK b \in midrolls : Become(setPendingBreaks(World, reached(b)))
    BY <1>3 DEF timeUpdate
  <2>2. ads.provider \in Uris
    BY <1>0, <1>3, WorldFields, TypedParts DEF timeUpdate, AdControllers
  <2>3. reached(b) \in SUBSET Breaks
    BY <2>2, TrackControllerAssumption DEF open, NoUri
  <2> HIDE DEF reached
  <2>4. NoneAdded(setPendingBreaks(World, reached(b)), World)
    BY <1>0, <2>3, SetPendingBreaksNone DEF NoneAdded
  <2>5. QED
    BY <2>1, <2>4, StepNone
<1>4. ASSUME enforcePlayoutLimits PROVE NoMore
  <2> DEFINE w == [World EXCEPT !.ads.brk.n = ads.brk.total + 1, !.ads.brk.ad = "none"]
             v == IF ads.brk.n >= ads.brk.total THEN completeAdBreak(w) ELSE w
  <2>1. ads.brk # NoState
    BY <1>4 DEF enforcePlayoutLimits, NoState
  <2>2. Good(w)
    BY <1>0, <2>1, WorldFields, LimitGood
  <2>3. w.jobs = World.jobs
    BY <1>0 DEF Typed
  <2>4. Become(nextAdOrBreak(v))
    BY <1>4 DEF enforcePlayoutLimits
  <2> HIDE DEF w
  <2>5. Good(v) /\ NoneAdded(v, w)
    BY <2>2, CompleteBreakGood, CompleteBreakNone DEF Good, NoneAdded
  <2> HIDE DEF v
  <2>6. NoneAdded(nextAdOrBreak(v), World)
    BY <2>3, <2>5, WentOnNone DEF NoneAdded
  <2>7. QED
    BY <2>4, <2>6, StepNone
<1>5. ASSUME loadTimeout \/ trackError PROVE NoMore
  <2>1. NoneAdded(failAd(World), World)
    BY <1>0, FailAdNone
  <2>2. QED
    BY <1>5, <2>1, StepNone DEF loadTimeout, trackError
<1>6. QED
  BY <1>2, <1>3, <1>4, <1>5 DEF Event

(* Calls of the application.                                                   *)
LEMMA ApplicationNone ==
    ASSUME TrackInv, Application
    PROVE  ~(Postrolls(jobs') > Postrolls(jobs))
<1> DEFINE NoMore == ~(Postrolls(jobs') > Postrolls(jobs))
<1>1. Good(World) /\ Loose(World) /\ Typed(World) /\ tc.queue \in Seq(Uris)
  BY WorldFields, TypedParts DEF TrackInv, Good, Loose
<1>2. <<>> \in Seq(Uris) /\ Len(<<>>) <= MaxQueue /\ NoUri \in Uris \cup {NoUri}
  BY TrackControllerAssumption
<1>3. ASSUME NEW us \in Lists, load(us) PROVE NoMore
  <2>1. /\ Head(us) \in Uris \cup {NoUri} /\ Tail(us) \in Seq(Uris)
        /\ Len(Tail(us)) <= MaxQueue
    BY ListFacts, HeadTailProperties, TrackControllerAssumption
  <2>2. NoneAdded(setQueue(World, Head(us), Tail(us)), World)
    BY <1>1, <2>1, SetQueueNone
  <2>3. QED
    BY <1>3, <2>2, StepNone DEF load
<1>4. ASSUME NEW us \in Lists, enqueue(us) PROVE NoMore
  <2> DEFINE q == tc.queue \o us
             w == setQueueOnly(World, q)
  <2>1. q \in Seq(Uris) /\ Len(q) <= MaxQueue
    BY <1>1, <1>4, ListFacts, ConcatProperties DEF enqueue
  <2>2. Loose(w) /\ NoneAdded(w, World)
    BY <1>1, <2>1, QueueOnlyTyped, RequeueNone
  <2>3. Become(next(w)) \/ Become(w)
    BY <1>4 DEF enqueue
  <2> HIDE DEF w
  <2>4. NoneAdded(next(w), World)
    BY <2>2, NextNone DEF NoneAdded
  <2>5. QED
    BY <2>2, <2>3, <2>4, StepNone
<1>5. ASSUME nextTrack PROVE NoMore
  BY <1>1, <1>5, NextNone, StepNone DEF nextTrack
<1>6. ASSUME clearQueue PROVE NoMore
  BY <1>1, <1>2, <1>6, RequeueNone, StepNone DEF clearQueue
<1>7. ASSUME unload PROVE NoMore
  BY <1>1, <1>2, <1>7, SetQueueNone, StepNone DEF unload
<1>8. ASSUME skipAd PROVE NoMore
  <2>1. NoneAdded(nextAdOrBreak(completeAd(World)), World)
    BY <1>1, CompleteAdGood, CompleteAdNone, WentOnNone
  <2>2. QED
    BY <1>8, <2>1, StepNone DEF skipAd
<1>9. ASSUME skipAdBreak PROVE NoMore
  <2>1. NoneAdded(nextAdOrBreak(completeAdBreak(World)), World)
    BY <1>1, CompleteBreakGood, CompleteBreakNone, WentOnNone
  <2>2. QED
    BY <1>9, <2>1, StepNone DEF skipAdBreak
<1>10. QED
  BY <1>3, <1>4, <1>5, <1>6, <1>7, <1>8, <1>9 DEF Application

(* 'ended' asks for a postroll at the end of the content only: the track       *)
(* controller hears it while the ad, whose end it may be, is still current.    *)
LEMMA EndedContent ==
    ASSUME RestInv, ended, Postrolls(jobs') > Postrolls(jobs)
    PROVE  tc.track = Content(tc.current) /\ tc.track \in media.active
<1> DEFINE w == [World EXCEPT !.media.ended = TRUE]
<1>1. Good(World) /\ InPlace(World) /\ TrackInv
  BY DEF RestInv, Sure, Calm, TrackInv
<1>2. Good(w) /\ w.tc = tc /\ w.jobs = World.jobs
  BY <1>1 DEF Good, Loose, Typed, World
<1>3. Become(endAd(onEnded(w)))
  BY DEF ended, endedHandlers
<1> HIDE DEF w
<1>4. ASSUME onEnded(w) = w PROVE FALSE
  <2>1. NoneAdded(endAd(w), World)
    BY <1>2, FailAdNone DEF NoneAdded
  <2>2. QED
    BY <1>1, <1>3, <1>4, <2>1, StepNone
<1>5. ~CurrentIsAd(w)
  BY <1>4 DEF onEnded
<1>6. tc.track = Content(tc.current)
  BY <1>1, <1>2, <1>5, WorldFields DEF CurrentIsAd, InPlace
<1>7. media.active # {} /\ media.active \subseteq {tc.track}
  BY <1>1, WorldFields DEF ended, Good, Loose
<1>8. QED
  BY <1>6, <1>7

(* Postrolls are entered when the content has played to its end, never at the  *)
(* end of an ad: of all handlers and callbacks only that of 'ended' enters     *)
(* them, before the ad controller has handed the element back.                 *)
THEOREM PostrollAfterContentHolds == Spec => PostrollAfterContent
<1>1. RestInv /\ [Next]_vars =>
          [Postrolls(jobs') > Postrolls(jobs) =>
               tc.track = Content(tc.current) /\ tc.track \in media.active]_vars
  <2> SUFFICES ASSUME RestInv, Next, Postrolls(jobs') > Postrolls(jobs)
               PROVE  tc.track = Content(tc.current) /\ tc.track \in media.active
    OBVIOUS
  <2>1. TrackInv
    BY DEF RestInv, Sure, Calm, TrackInv
  <2>2. ended
    BY <2>1, SettleNone, EventNone, ApplicationNone DEF Next
  <2>3. QED
    BY <2>2, EndedContent
<1>2. QED
  BY <1>1, RestInvariant, PTL DEF Spec, PostrollAfterContent

=============================================================================
