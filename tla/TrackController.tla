---------------------------- MODULE TrackController ----------------------------
(* TrackControllerImpl (vinyl/src/track) composed with the interstitial breaks *)
(* of AdControllerImpl (vinyl/src/ad): the play queue, which track is current  *)
(* and active, and the ad breaks that take over from the content.              *)
(*                                                                             *)
(* The two objects call each other synchronously: setCurrentTrack calls        *)
(* setAdsProvider, which completes the break in progress, whose event runs     *)
(* setCurrentTrack or next() again before the first call has finished.  Every  *)
(* operator below maps the state before a call to the state after it, and the  *)
(* actions are the calls and promise callbacks the event loop runs.            *)
(*                                                                             *)
(* A queue entry is its uri, and each load(), enqueue() or next() brings an    *)
(* object of its own.  The cache keeps the tracks of all uris: two tracks with *)
(* one uri are one object.                                                     *)
EXTENDS Integers, Sequences, FiniteSets, SequencesExt

CONSTANTS
    Uris,       \* content
    Breaks,     \* interstitial breaks
    AdBreaks,   \* uri -> its breaks
    Start,      \* break -> its place in the list of its content's breaks
    Placement,  \* break -> "preroll", "midroll" or "postroll"
    NoAds,      \* content whose ads cannot be discovered: getAds rejects
    MaxAds,     \* bound on the ads of a break
    MaxQueue,   \* bound on the length of the queue
    MaxCalls    \* bound on the calls of the application, errors and seeks

ASSUME TrackControllerAssumption ==
    /\ "none" \notin Uris \cup Breaks
    /\ AdBreaks \in [Uris -> SUBSET Breaks]
    /\ Start \in [Breaks -> Nat]
    /\ Placement \in [Breaks -> {"preroll", "midroll", "postroll"}]
    /\ NoAds \subseteq Uris
    /\ MaxAds \in Nat /\ MaxQueue \in Nat \ {0} /\ MaxCalls \in Nat

VARIABLES
    tc,     \* the track controller: see Controllers
    ads,    \* the ad controller: see AdControllers
    jobs,   \* promises whose callback has yet to run, oldest first: see Jobs
    media,  \* the tracks that are active, and whether the media has ended
    calls   \* history: calls, errors and seeks

vars == <<tc, ads, jobs, media, calls>>

--------------------------------------------------------------------------------
\* State

NoUri == "none"

NoBreak == "none"

(* A content track has no break; ad n of a break is a track of its own, pegged *)
(* to its parent.                                                              *)
Content(u) == [parent |-> u, brk |-> NoBreak, n |-> 0]

NoTrack == Content(NoUri)

Tracks ==
    [parent : Uris, brk : {NoBreak}, n : {0}]
        \cup [parent : Uris, brk : Breaks, n : 1..MaxAds]

Controllers ==
    [current : Uris \cup {NoUri}, queue : Seq(Uris),
     track : Tracks \cup {NoTrack}, adParent : Uris \cup {NoUri}]

(* AdBreakState: n, its ad in progress counted from 1; total, the length of its *)
(* list once resolved; ad, whether that ad has yet to start, plays, was        *)
(* completed, or was completed before it started ("dropped").                  *)
BreakStates ==
    [id : Breaks, n : 0..(MaxAds + 1), total : 0..MaxAds \cup {-1},
     ad : {"none", "entered", "started", "completed", "dropped"}]

NoState == [id |-> NoBreak, n |-> 0, total |-> -1, ad |-> "none"]

NewState(b) == [NoState EXCEPT !.id = b]

(* pending: pendingAdBreaks, always a part of the list of breaks in its order.  *)
(* done: completeAdBreakIds; spent: spentBreakIds.  loadingNext is "list" while *)
(* nextAd awaits its list, "settling" until the promises that end the call     *)
(* have run, and then "no".                                                    *)
AdControllers ==
    [provider : Uris \cup {NoUri}, known : BOOLEAN, pending : SUBSET Breaks,
     brk : BreakStates \cup {NoState}, done : SUBSET Breaks, spent : SUBSET Breaks,
     loadingNext : {"no", "list", "settling"}]

(* "preroll", "postroll": an enterRoll call; "advance": the microtask after    *)
(* trackEnded; "options": adTrackLoadOptionsProvider for a track.  stale: the  *)
(* queue changed since.                                                        *)
Jobs ==
    [kind : {"preroll", "postroll", "advance", "options"},
     provider : Uris \cup {NoUri}, track : Tracks \cup {NoTrack}, stale : BOOLEAN]

TypeOK ==
    /\ tc \in Controllers
    /\ Len(tc.queue) <= MaxQueue
    /\ ads \in AdControllers
    /\ jobs \in Seq(Jobs)
    /\ media \in [active : SUBSET Tracks, ended : BOOLEAN]
    /\ calls \in 0..MaxCalls

Init ==
    /\ tc = [current |-> NoUri, queue |-> <<>>, track |-> NoTrack, adParent |-> NoUri]
    /\ ads = [provider |-> NoUri, known |-> FALSE, pending |-> {}, brk |-> NoState,
              done |-> {}, spent |-> {}, loadingNext |-> "no"]
    /\ jobs = <<>>
    /\ media = [active |-> {}, ended |-> FALSE]
    /\ calls = 0

World == [tc |-> tc, ads |-> ads, jobs |-> jobs, media |-> media]

Become(w) ==
    /\ tc' = w.tc
    /\ ads' = w.ads
    /\ jobs' = w.jobs
    /\ media' = w.media

--------------------------------------------------------------------------------
\* The ad controller

IsAd(t) == t.brk # NoBreak

CurrentIsAd(w) == w.tc.track # Content(w.tc.adParent)

HasAd(w) == w.ads.brk.ad # "none"

isBreakSuppressed(w, b) == b \in w.ads.done \cup w.ads.spent

(* The breaks of a placement that may still play.                              *)
open(w, u, placement) ==
    IF u = NoUri THEN {}
    ELSE {b \in AdBreaks[u] : Placement[b] = placement /\ ~isBreakSuppressed(w, b)}

First(bs) == CHOOSE b \in bs : \A c \in bs : Start[b] <= Start[c]

(* nextBreak: takes the next pending break and asks for its list; without one  *)
(* the call is over.                                                           *)
nextBreak(w) ==
    IF w.ads.pending = {}
    THEN [w EXCEPT !.ads.loadingNext = "settling"]
    ELSE LET b == First(w.ads.pending) IN
         [w EXCEPT !.ads.pending = @ \ {b},
                   !.ads.brk = NewState(b),
                   !.ads.loadingNext = "list"]

nextAdOrBreak(w) ==
    IF \/ w.ads.loadingNext # "no"
       \/ w.ads.brk = NoState /\ w.ads.pending = {}
    THEN w
    ELSE IF w.ads.brk = NoState THEN nextBreak(w)
    ELSE [w EXCEPT !.ads.loadingNext = "list"]

setPendingBreaks(w, bs) == nextAdOrBreak([w EXCEPT !.ads.pending = bs])

(* setAdsProvider once no break is in progress.                                *)
assignProvider(w, u) ==
    IF w.ads.provider = u THEN w
    ELSE [w EXCEPT !.ads.pending = {}, !.ads.provider = u, !.ads.known = FALSE,
                   !.ads.done = {}, !.ads.spent = {}]

--------------------------------------------------------------------------------
\* The track controller

NewJob(kind, u, t) == [kind |-> kind, provider |-> u, track |-> t, stale |-> FALSE]

activate(w, t) ==
    [w EXCEPT !.media.ended = IF t \in w.media.active THEN @ ELSE FALSE,
              !.media.active = @ \cup {t}]

(* setCurrentTrack, given the setAdsProvider it calls.  enterPreroll asks the  *)
(* provider the controller has when the nested calls are over.                 *)
setCurrentTrackWith(SetProvider(_, _), w, t, checkPreroll) ==
    LET previous == w.tc.track
        left == [w EXCEPT !.tc.track = t,
                          !.media.active = @ \ {previous},
                          !.media.ended = @ /\ previous \notin w.media.active]
        here == IF IsAd(t) THEN left
                ELSE SetProvider([left EXCEPT !.tc.adParent = t.parent], t.parent)
    IN CASE t = NoTrack -> here
         [] t # NoTrack /\ checkPreroll ->
                [here EXCEPT !.jobs = Append(@, NewJob("preroll", here.ads.provider, t))]
         [] OTHER -> IF here.tc.track = t THEN activate(here, t) ELSE here

queueChanged(w) ==
    [w EXCEPT !.jobs = [i \in DOMAIN @ |-> [@[i] EXCEPT !.stale = TRUE]]]

(* setQueue with another current entry.                                        *)
setQueueWith(SetProvider(_, _), w, u, q) ==
    setCurrentTrackWith(SetProvider,
        [queueChanged(w) EXCEPT !.tc.current = u, !.tc.queue = q],
        Content(u), TRUE)

(* setQueue with the entry that is current.                                    *)
setQueueOnly(w, q) == [queueChanged(w) EXCEPT !.tc.queue = q]

nextWith(SetProvider(_, _), w) ==
    IF w.tc.queue = <<>> THEN setQueueWith(SetProvider, w, NoUri, <<>>)
    ELSE setQueueWith(SetProvider, w, Head(w.tc.queue), Tail(w.tc.queue))

(* Mutant: the content is not restored after the last postroll.                *)
MutPostrollParks(w, b) ==
    LET noAdBegan == Content(w.tc.adParent) \in w.media.active
    IN CASE w.tc.adParent = NoUri \/ (Placement[b] # "postroll" /\ noAdBegan) -> w
         [] w.tc.adParent # NoUri /\ Placement[b] = "postroll" ->
                IF w.tc.queue # <<>> THEN nextWith(assignProvider, w) ELSE w
         [] OTHER -> setCurrentTrackWith(assignProvider, w, Content(w.tc.adParent), FALSE)

(* The 'adBreakCompleted' handler.  No break is in progress while it runs.     *)
onAdBreakCompleted(w, b) ==
    LET noAdBegan == Content(w.tc.adParent) \in w.media.active
        resumeContent(v) ==
            setCurrentTrackWith(assignProvider, v, Content(v.tc.adParent), FALSE)
    IN CASE w.tc.adParent = NoUri -> w
         [] w.tc.adParent # NoUri /\ Placement[b] = "postroll" ->
                IF w.tc.queue # <<>> THEN nextWith(assignProvider, w)
                ELSE IF noAdBegan THEN w ELSE resumeContent(w)
         [] OTHER -> IF noAdBegan THEN w ELSE resumeContent(w)

--------------------------------------------------------------------------------
\* Completing ads and breaks

completeAdBreak(w) ==
    LET b == w.ads.brk.id IN
    IF b = NoBreak THEN w
    ELSE onAdBreakCompleted(
             [w EXCEPT !.ads.brk = NoState,
                       !.ads.done = IF Placement[b] = "midroll" THEN @ ELSE @ \cup {b},
                       !.ads.spent = IF Placement[b] = "midroll" THEN @ \cup {b} ELSE @],
             b)

completeAd(w) ==
    IF w.ads.brk.ad \notin {"entered", "started"} THEN w
    ELSE LET v == [w EXCEPT !.ads.brk.ad = IF @ = "started" THEN "completed" ELSE "dropped"]
         IN IF v.ads.brk.n >= v.ads.brk.total THEN completeAdBreak(v) ELSE v

failAd(w) == nextAdOrBreak(completeAd(w))

setAdsProvider(w, u) ==
    IF w.ads.provider = u THEN w
    ELSE LET v == completeAdBreak([w EXCEPT !.ads.pending = {}])
         IN [v EXCEPT !.ads.provider = u, !.ads.known = FALSE,
                      !.ads.done = {}, !.ads.spent = {}]

setCurrentTrack(w, t, checkPreroll) ==
    setCurrentTrackWith(setAdsProvider, w, t, checkPreroll)

setQueue(w, u, q) == setQueueWith(setAdsProvider, w, u, q)

next(w) == nextWith(setAdsProvider, w)

--------------------------------------------------------------------------------
\* Calls of the application

(* Promises settle in microtasks: media events, timers and calls find the      *)
(* callbacks that end nextAdOrBreak done, and media events also those that     *)
(* follow 'ended'.  A call may come from a handler of 'ended' or 'trackEnded'. *)
Idle == ads.loadingNext # "settling"

EventLoopIdle ==
    Idle /\ \A i \in DOMAIN jobs : jobs[i].kind \notin {"postroll", "advance"}

Call ==
    /\ Idle
    /\ calls < MaxCalls
    /\ calls' = calls + 1

Lists == UNION {[1..n -> Uris] : n \in 1..MaxQueue}

load(us) ==
    /\ Call
    /\ Become(setQueue(World, Head(us), Tail(us)))

enqueue(us) ==
    /\ Call
    /\ Len(tc.queue \o us) <= MaxQueue
    /\ LET w == setQueueOnly(World, tc.queue \o us)
       IN Become(IF tc.track = NoTrack THEN next(w) ELSE w)

nextTrack == Call /\ Become(next(World))

clearQueue == Call /\ Become(setQueueOnly(World, <<>>))

unload == Call /\ Become(setQueue(World, NoUri, <<>>))

skipAd == Call /\ Become(nextAdOrBreak(completeAd(World)))

skipAdBreak ==
    /\ Call
    /\ ads.brk # NoState
    /\ Become(nextAdOrBreak(completeAdBreak(World)))

--------------------------------------------------------------------------------
\* Promise callbacks

(* The list of a break resolves to its ads, once.                              *)
Totals == IF ads.brk.total = -1 THEN 0..MaxAds ELSE {ads.brk.total}

startAd(w) ==
    LET ad == [parent |-> w.tc.adParent, brk |-> w.ads.brk.id, n |-> w.ads.brk.n + 1]
    IN [w EXCEPT !.ads.brk.n = @ + 1, !.ads.brk.ad = "entered",
                 !.ads.loadingNext = "settling",
                 !.jobs = IF w.tc.adParent = NoUri THEN @
                          ELSE Append(@, NewJob("options", NoUri, ad))]

(* The list of the break, or of one completed meanwhile, resolves.             *)
listResolves ==
    /\ ads.loadingNext = "list"
    /\ IF ads.brk = NoState THEN Become(nextBreak(World))
       ELSE \E total \in Totals :
                LET w == [World EXCEPT !.ads.brk.total = total] IN
                IF w.ads.brk.n < total THEN Become(startAd(w))
                ELSE Become(nextBreak(completeAdBreak([w EXCEPT !.ads.brk.ad = "none"])))
    /\ UNCHANGED calls

(* Mutant: the break of a list that cannot be resolved is not completed.       *)
MutRejectedStays ==
    /\ ads.loadingNext = "list"
    /\ ads.brk.total = -1
    /\ Become(nextBreak(World))
    /\ UNCHANGED calls

listRejects ==
    /\ ads.loadingNext = "list"
    /\ ads.brk.total = -1
    /\ Become(nextBreak(completeAdBreak(World)))
    /\ UNCHANGED calls

(* The callbacks that end nextAdOrBreak have run.                              *)
nextAdOrBreakEnds ==
    /\ ads.loadingNext = "settling"
    /\ ads' = [ads EXCEPT !.loadingNext = "no"]
    /\ UNCHANGED <<tc, jobs, media, calls>>

(* getAds of the provider of an enterRoll call settles.                        *)
interrupted(w, job) == job.provider \in {NoUri} \cup NoAds \/ job.provider # w.ads.provider

enterRoll(w, job) ==
    IF interrupted(w, job) THEN w
    ELSE setPendingBreaks(w, open(w, job.provider, job.kind))

rollEntered(w, job) == ~interrupted(w, job) /\ w.ads.brk # NoState

Settles(kind, i) ==
    /\ i \in DOMAIN jobs
    /\ jobs[i].kind = kind
    /\ UNCHANGED calls

Without(i) == [World EXCEPT !.jobs = RemoveAt(@, i)]

(* Mutant: the content is activated although another track became current.     *)
MutActivatesStale(i) ==
    /\ Settles("preroll", i)
    /\ LET w == enterRoll(Without(i), jobs[i]) IN
       Become(IF rollEntered(w, jobs[i]) THEN w ELSE activate(w, jobs[i].track))

prerollSettles(i) ==
    /\ Settles("preroll", i)
    /\ LET w == enterRoll(Without(i), jobs[i]) IN
       Become(IF rollEntered(w, jobs[i]) \/ w.tc.track # jobs[i].track THEN w
              ELSE activate(w, jobs[i].track))

postrollSettles(i) ==
    /\ Settles("postroll", i)
    /\ LET w == enterRoll(Without(i), jobs[i]) IN
       Become(IF rollEntered(w, jobs[i]) \/ jobs[i].stale THEN w
              ELSE [w EXCEPT !.jobs = Append(@, NewJob("advance", NoUri, NoTrack))])

advance(i) ==
    /\ Settles("advance", i)
    /\ Become(IF jobs[i].stale \/ tc.queue = <<>> THEN Without(i) ELSE next(Without(i)))

(* Mutant: only the content is compared, not the ad.                           *)
MutSameContent(ad) == tc.adParent # ad.parent

optionsInterrupted(ad) ==
    \/ tc.adParent # ad.parent
    \/ ads.brk.ad = "none"
    \/ <<ads.brk.id, ads.brk.n>> # <<ad.brk, ad.n>>

optionsSettle(i) ==
    /\ Settles("options", i)
    /\ LET ad == jobs[i].track IN
       IF optionsInterrupted(ad) THEN Become(Without(i))
       ELSE \/ Become(setCurrentTrack(Without(i), ad, FALSE))
            \/ Become(failAd(Without(i)))

(* refreshAds of the current provider.                                         *)
adsDiscovered ==
    /\ ads.provider \notin {NoUri} \cup NoAds
    /\ ~ads.known
    /\ ads' = [ads EXCEPT !.known = TRUE]
    /\ UNCHANGED <<tc, jobs, media, calls>>

--------------------------------------------------------------------------------
\* Events of the media element and timers

onEnded(w) ==
    IF CurrentIsAd(w) \/ w.tc.current = NoUri THEN w
    ELSE [w EXCEPT !.jobs = Append(@, NewJob("postroll", w.ads.provider, NoTrack))]

endAd(w) == IF HasAd(w) THEN nextAdOrBreak(completeAd(w)) ELSE w

(* Mutant: the ad controller hears 'ended' first.                              *)
MutEndsAdFirst(w) == onEnded(endAd(w))

(* The track controller subscribes to 'ended' before it first uses the ad      *)
(* controller, and hears it first.                                             *)
endedHandlers(w) == endAd(onEnded(w))

ended ==
    /\ EventLoopIdle
    /\ media.active # {}
    /\ ~media.ended
    /\ Become(endedHandlers([World EXCEPT !.media.ended = TRUE]))
    /\ UNCHANGED calls

(* The media element plays, be it the ad or still the content.                 *)
playing ==
    /\ EventLoopIdle
    /\ media.active # {} /\ ~media.ended
    /\ ads.brk.ad \in {"entered", "dropped"}
    /\ ads' = [ads EXCEPT !.brk.ad = IF @ = "entered" THEN "started" ELSE "completed"]
    /\ UNCHANGED <<tc, jobs, media, calls>>

(* The playhead of the content has crossed the start of some midrolls.         *)
timeUpdate ==
    /\ EventLoopIdle
    /\ media.active # {} /\ ~media.ended
    /\ ads.brk = NoState /\ ads.pending = {}
    /\ ads.provider # NoUri /\ ads.known
    /\ LET midrolls == open(World, ads.provider, "midroll") IN
       \E b \in midrolls :
           Become(setPendingBreaks(World, {c \in midrolls : Start[c] <= Start[b]}))
    /\ UNCHANGED calls

(* The break has used up its playout limit.                                    *)
enforcePlayoutLimits ==
    /\ EventLoopIdle
    /\ ads.brk.ad = "started"
    /\ LET w == [World EXCEPT !.ads.brk.n = ads.brk.total + 1, !.ads.brk.ad = "none"]
       IN Become(nextAdOrBreak(
              IF ads.brk.n >= ads.brk.total THEN completeAdBreak(w) ELSE w))
    /\ UNCHANGED calls

(* adLoadTimeout of an ad that has not started, completed or not.              *)
loadTimeout ==
    /\ EventLoopIdle
    /\ ads.brk.ad \in {"entered", "dropped"}
    /\ Become(failAd(World))
    /\ UNCHANGED calls

(* The current track errs.                                                     *)
trackError ==
    /\ Call
    /\ tc.track # NoTrack
    /\ Become(failAd(World))

(* A seek back before the midrolls.                                            *)
seekBack ==
    /\ Call /\ EventLoopIdle
    /\ media.active # {}
    /\ ads' = IF HasAd(World) THEN ads ELSE [ads EXCEPT !.spent = {}]
    /\ media' = [media EXCEPT !.ended = FALSE]
    /\ UNCHANGED <<tc, jobs>>

--------------------------------------------------------------------------------

Settle ==
    \/ listResolves
    \/ listRejects
    \/ nextAdOrBreakEnds
    \/ \E i \in DOMAIN jobs :
        prerollSettles(i) \/ postrollSettles(i) \/ advance(i) \/ optionsSettle(i)

Event ==
    \/ adsDiscovered
    \/ ended
    \/ playing
    \/ timeUpdate
    \/ enforcePlayoutLimits
    \/ loadTimeout
    \/ trackError
    \/ seekBack

Application ==
    \/ \E us \in Lists : load(us) \/ enqueue(us)
    \/ nextTrack
    \/ clearQueue
    \/ unload
    \/ skipAd
    \/ skipAdBreak

Next == Settle \/ Event \/ Application

Spec == Init /\ [][Next]_vars

--------------------------------------------------------------------------------
\* Properties

(* The media element plays one track: only the current track is ever active.   *)
OneActive == media.active \subseteq {tc.track}

(* An ad track is current only while the break it belongs to is in progress    *)
(* and was entered from the content it is pegged to, so that the end of the    *)
(* break always finds the way back.                                            *)
AdHasBreak ==
    IsAd(tc.track) =>
        /\ ads.brk.id = tc.track.brk
        /\ tc.track.n <= ads.brk.n
        /\ tc.adParent = tc.track.parent

Postrolls(js) == Cardinality({i \in DOMAIN js : js[i].kind = "postroll"})

(* Postrolls are entered when the content has played to its end, never at the  *)
(* end of an ad whose break has just handed the element back to the content.   *)
PostrollAfterContent ==
    [][Postrolls(jobs') > Postrolls(jobs) =>
           tc.track = Content(tc.current) /\ tc.track \in media.active]_vars

Rest == jobs = <<>> /\ ads.brk = NoState /\ ads.loadingNext = "no"

(* When no promise is outstanding and no break is in progress, the current     *)
(* entry of the queue is what plays: whatever sequence of ads, skips, failures *)
(* and queue changes led there, none left the element without a track.         *)
RestPlaysContent ==
    Rest => /\ tc.track = Content(tc.current)
            /\ tc.current # NoUri => tc.track \in media.active

(* A break in progress always has something that moves it on: its list is      *)
(* being resolved, its ad has a load timeout to run into, a track is about to  *)
(* be activated, or one plays and will end.                                    *)
BreakMovesOn ==
    ads.brk # NoState /\ ads.loadingNext = "no" =>
        \/ ads.brk.ad \in {"entered", "dropped"}
        \/ ads.brk.ad # "none" /\ (jobs # <<>> \/ (media.active # {} /\ ~media.ended))
=============================================================================
