------------------------------ MODULE TrackCache ------------------------------
(* The cache of tracks: vinyl-util's LruCache on its LinkedList, and the calls *)
(* of vinyl/src/track/TrackController.ts that use it.  A track is created when *)
(* its uri is first asked for and disposed when it is evicted or the cache is  *)
(* cleared; its ad tracks live and die with it.  What plays, what is the       *)
(* parent of an ad and what awaits the options of an ad are references to such *)
(* objects, which eviction may dispose under them.                             *)
(*                                                                             *)
(* A call of the application runs to its end, one cache operation after the    *)
(* other: the operations it has left are its agenda.  A track is its uri, with *)
(* a flag where a reference may outlive it.                                    *)
EXTENDS Naturals, Sequences, FiniteSets, SequencesExt

CONSTANTS
    Uris,       \* content
    Options,    \* the values of [preloadCapacity, trackPrefetchCount] configured
    MaxQueue,   \* bound on the queue and on the tracks of one preload
    MaxLoading  \* bound on the ad options awaited at one time

ASSUME TrackCacheAssumption ==
    /\ {"none", "gone"} \cap Uris = {}
    /\ IsFiniteSet(Uris)
    /\ Options \subseteq [preloadCapacity : Nat, trackPrefetchCount : Nat]
    /\ MaxQueue \in Nat \ {0} /\ MaxLoading \in Nat

VARIABLES
    list,       \* LinkedList: head, tail and the nodes
    cached,     \* the keys of the map of nodes
    capacity,   \* _capacity of the cache
    options, auto,      \* _options, _autoPreloadCapacity
    current, queue,     \* _current, _queue
    playing,    \* _currentTrack
    adParent,
    adTracks,   \* the parents with an entry in adTracksByParent
    loadingAds, \* parents of preloadAd calls that await their options, or Gone
    agenda,     \* what is left of the call in progress
    asked       \* history: what the last call preloaded

trackCacheVars ==
    <<list, cached, capacity, options, auto, current, queue, playing, adParent, adTracks,
      loadingAds, agenda, asked>>

cacheVars == <<list, cached, capacity>>

queueVars == <<options, auto, current, queue, asked>>

trackVars == <<playing, adParent, adTracks, loadingAds>>

--------------------------------------------------------------------------------
\* LinkedList

None == "none"

Gone == "gone"     \* a track that was disposed

Nodes == [previous : Uris \cup {None}, next : Uris \cup {None}, removed : BOOLEAN]

NoNode == [previous |-> None, next |-> None, removed |-> TRUE]

EmptyList == [head |-> None, tail |-> None, node |-> [u \in Uris |-> NoNode]]

setNext(node, u, v) == IF u = None THEN node ELSE [node EXCEPT ![u].next = v]

setPrevious(node, u, v) == IF u = None THEN node ELSE [node EXCEPT ![u].previous = v]

(* Mutant: the neighbour after a removed node still points back at it.         *)
MutKeepsPrevious(l, u) ==
    LET n == l.node[u] IN
    IF n.removed THEN l
    ELSE [head |-> IF l.head = u THEN n.next ELSE l.head,
          tail |-> IF l.tail = u THEN n.previous ELSE l.tail,
          node |-> [setNext(l.node, n.previous, n.next) EXCEPT ![u].removed = TRUE]]

remove(l, u) ==
    LET n == l.node[u]
        linked == setPrevious(setNext(l.node, n.previous, n.next), n.next, n.previous)
    IN  IF n.removed THEN l
        ELSE [head |-> IF l.head = u THEN n.next ELSE l.head,
              tail |-> IF l.tail = u THEN n.previous ELSE l.tail,
              node |-> [linked EXCEPT ![u].removed = TRUE]]

pushNode(l, u) ==
    LET r == remove(l, u)
        n == [previous |-> r.tail, next |-> None, removed |-> FALSE]
    IN  IF l.tail = u THEN l
        ELSE [head |-> IF r.head = None THEN u ELSE r.head,
              tail |-> u,
              node |-> setNext([r.node EXCEPT ![u] = n], r.tail, u)]

(* A node is created unremoved, and removed by pushNode before it is linked.   *)
push(l, u) ==
    pushNode([l EXCEPT !.node[u] = [previous |-> l.tail, next |-> None, removed |-> FALSE]], u)

(* The entries met from one end, following one pointer of the nodes: too many  *)
(* of them when the pointers form a cycle.                                     *)
Walk(first, follow) ==
    LET steps == 1..(Cardinality(Uris) + 1)
        at[n \in steps] ==
            IF n = 1 THEN first ELSE IF at[n - 1] = None THEN None ELSE follow[at[n - 1]]
    IN  [n \in 1..Cardinality({m \in steps : at[m] # None}) |-> at[n]]

FromHead(l) == Walk(l.head, [u \in Uris |-> l.node[u].next])

FromTail(l) == Walk(l.tail, [u \in Uris |-> l.node[u].previous])

--------------------------------------------------------------------------------
\* Tracks

Refs == [uri : Uris, ad : BOOLEAN, disposed : BOOLEAN]

NoTrack == [uri |-> None, ad |-> FALSE, disposed |-> FALSE]

ContentTrack(u) == IF u = None THEN NoTrack ELSE [uri |-> u, ad |-> FALSE, disposed |-> FALSE]

(* A reference to a track, or to an ad track of it, after it was disposed.     *)
disposedRef(ref, gone) == [ref EXCEPT !.disposed = @ \/ ref.uri \in gone]

(* begun: the parents of preloadAd calls the same step has begun.  A call whose *)
(* parent was disposed is not told from another.                               *)
disposeTracks(gone, begun) ==
    /\ playing' = disposedRef(playing, gone)
    /\ adParent' = disposedRef(adParent, gone)
    /\ adTracks' = adTracks \ gone
    /\ loadingAds' = {IF p \in gone THEN Gone ELSE p : p \in loadingAds \cup begun}

window(c, q, count) ==
    (IF c = None THEN <<>> ELSE <<c>>) \o SubSeq(q, 1, IF Len(q) < count THEN Len(q) ELSE count)

getPrefetched == window(current, queue, options.trackPrefetchCount)

preloadCapacity == IF auto > options.preloadCapacity THEN auto ELSE options.preloadCapacity

onEvicting(u) == u \notin Range(getPrefetched)

--------------------------------------------------------------------------------

Do(op, u) == [op |-> op, uri |-> u]

Agendas ==
    [op : {"get", "preload"}, uri : Uris]
        \cup [op : {"set", "capacity", "shrink", "idle", "unload"}, uri : {None}]

Preloads(us) == [i \in DOMAIN us |-> Do("preload", us[i])]

TrackCacheTypeOK ==
    /\ list \in [head : Uris \cup {None}, tail : Uris \cup {None}, node : [Uris -> Nodes]]
    /\ cached \subseteq Uris /\ capacity \in Nat /\ options \in Options /\ auto \in Nat
    /\ current \in Uris \cup {None} /\ queue \in Seq(Uris) /\ Len(queue) <= MaxQueue
    /\ {playing, adParent} \subseteq Refs \cup {NoTrack}
    /\ adTracks \subseteq Uris /\ loadingAds \subseteq Uris \cup {Gone}
    /\ agenda \in Seq(Agendas)
    /\ asked \subseteq Uris

TrackCacheInit ==
    /\ list = EmptyList /\ cached = {}
    /\ options \in Options /\ auto = 0
    /\ capacity = options.preloadCapacity + options.trackPrefetchCount + 1
    /\ current = None /\ queue = <<>>
    /\ playing = NoTrack /\ adParent = NoTrack
    /\ adTracks = {} /\ loadingAds = {}
    /\ agenda = <<>> /\ asked = {}

--------------------------------------------------------------------------------
\* The operations of a call in progress

mayAwait(parent) == Cardinality(loadingAds \cup {parent}) <= MaxLoading

Doing(op) == agenda # <<>> /\ Head(agenda).op = op

Then(first) == agenda' = first \o Tail(agenda)

(* evictLeastRecentlyUsed and onEvict, on a list.  When onEvicting refuses     *)
(* every entry it throws, and the call can never end.                          *)
evictLeastRecentlyUsed(l, keys, begun) ==
    LET entries == FromHead(l)
        allowed == {i \in DOMAIN entries : onEvicting(entries[i])}
    IN  \E i \in allowed :
            LET u == entries[i] IN
            /\ \A j \in allowed : i <= j
            /\ list' = [remove(l, u) EXCEPT !.node[u] = NoNode]
            /\ cached' = keys \ {u}
            /\ disposeTracks({u}, begun)

(* An entry that is found becomes the last used; an added one may evict one    *)
(* other.                                                                      *)
getOrCreateTrack(u, begun) ==
    LET keys == cached \cup {u} IN
    IF u \in cached \/ Cardinality(keys) <= capacity
    THEN /\ list' = IF u \in cached THEN pushNode(list, u) ELSE push(list, u)
         /\ cached' = keys
         /\ disposeTracks({}, begun)
    ELSE evictLeastRecentlyUsed(push(list, u), keys, begun)

GetOrCreate ==
    /\ Doing("get")
    /\ getOrCreateTrack(Head(agenda).uri, {})
    /\ Then(<<>>)
    /\ UNCHANGED <<capacity, queueVars>>

(* One turn of _preload: a track, and its prerolls if it has any.              *)
PreloadTrack ==
    /\ Doing("preload")
    /\ LET u == Head(agenda).uri IN
        \E begun \in {{}, {u}} :
            /\ begun = {} \/ mayAwait(u)
            /\ getOrCreateTrack(u, begun)
    /\ Then(<<>>)
    /\ UNCHANGED <<capacity, queueVars>>

checkCacheCapacity ==
    /\ Doing("capacity")
    /\ capacity' = preloadCapacity + options.trackPrefetchCount + 1
    /\ Then(IF capacity' = capacity THEN <<>> ELSE <<Do("shrink", None)>>)
    /\ UNCHANGED <<list, cached, queueVars, trackVars>>

Shrink ==
    /\ Doing("shrink")
    /\ IF Cardinality(cached) > capacity
       THEN evictLeastRecentlyUsed(list, cached, {}) /\ UNCHANGED agenda
       ELSE Then(<<>>) /\ UNCHANGED <<list, cached, trackVars>>
    /\ UNCHANGED <<capacity, queueVars>>

(* setCurrentTrack with the content that is current, or with none.             *)
SetCurrentTrack ==
    /\ Doing("set")
    /\ playing' = ContentTrack(current) /\ adParent' = playing'
    /\ Then(<<>>)
    /\ UNCHANGED <<cacheVars, queueVars, adTracks, loadingAds>>

(* fresh: the incoming entry is another object than _current.                  *)
setQueue(c, q, fresh) ==
    LET w == window(c, q, options.trackPrefetchCount)
        get == IF c = None THEN <<>> ELSE <<Do("get", c)>>
    IN  /\ current' = c /\ queue' = q
        /\ asked' = Range(w)
        /\ agenda' = (IF fresh THEN Append(get, Do("set", None)) ELSE <<>>) \o Preloads(w)
                        \o (IF agenda = <<>> THEN <<>> ELSE Tail(agenda))

loadList(us) == 
    IF us = <<>> THEN setQueue(None, <<>>, TRUE) ELSE setQueue(Head(us), Tail(us), TRUE)

(* The end of enqueue: next() when nothing is current.                         *)
NextIfIdle ==
    /\ Doing("idle")
    /\ IF playing = NoTrack /\ queue # <<>>
       THEN loadList(queue)
       ELSE Then(<<>>) /\ UNCHANGED <<current, queue, asked>>
    /\ UNCHANGED <<cacheVars, options, auto, trackVars>>

(* The end of clearTrackCache.                                                 *)
Unload ==
    /\ Doing("unload")
    /\ setQueue(None, <<>>, current # None)
    /\ UNCHANGED <<cacheVars, options, auto, trackVars>>

--------------------------------------------------------------------------------
\* Calls

Rest == agenda = <<>>

Lists(n) == UNION {[1..k -> Uris] : k \in 1..n}

Load ==
    /\ Rest
    /\ \E us \in Lists(MaxQueue) \cup {<<>>} : loadList(us)
    /\ UNCHANGED <<cacheVars, options, auto, trackVars>>

NextTrack ==
    /\ Rest
    /\ loadList(queue)
    /\ UNCHANGED <<cacheVars, options, auto, trackVars>>

Enqueue ==
    /\ Rest /\ Len(queue) < MaxQueue
    /\ \E u \in Uris :
        LET q == Append(queue, u)
            w == window(current, q, options.trackPrefetchCount)
        IN  /\ queue' = q
            /\ asked' = Range(w)
            /\ agenda' = Append(Preloads(w), Do("idle", None))
    /\ UNCHANGED <<cacheVars, options, auto, current, trackVars>>

ClearQueue ==
    /\ Rest
    /\ setQueue(current, <<>>, FALSE)
    /\ UNCHANGED <<cacheVars, options, auto, trackVars>>

(* The capacity grows with the longest list preloaded beyond the window.       *)
Preload ==
    /\ Rest
    /\ \E us \in Lists(MaxQueue) :
        LET required == Cardinality({i \in DOMAIN us : onEvicting(us[i])})
            grows == auto < required
        IN  /\ auto' = IF grows THEN required ELSE auto
            /\ agenda' = (IF grows THEN <<Do("capacity", None)>> ELSE <<>>) \o Preloads(us)
            /\ asked' = Range(us)
    /\ UNCHANGED <<cacheVars, options, current, queue, trackVars>>

Configure ==
    /\ Rest
    /\ options' \in Options
    /\ agenda' = <<Do("capacity", None)>>
    /\ asked' = {}
    /\ UNCHANGED <<cacheVars, auto, current, queue, trackVars>>

ClearTrackCache ==
    /\ Rest
    /\ disposeTracks(cached, {})
    /\ list' = EmptyList /\ cached' = {}
    /\ auto' = 0
    /\ agenda' = <<Do("capacity", None), Do("unload", None)>>
    /\ asked' = {}
    /\ UNCHANGED <<capacity, options, current, queue>>

GetCachedTrack(u) ==
    /\ Rest /\ u \in cached
    /\ list' = pushNode(list, u)
    /\ UNCHANGED <<cached, capacity, queueVars, trackVars, agenda>>

--------------------------------------------------------------------------------
\* Ads

(* adEntered, and its options arrived.                                         *)
EnterAd ==
    /\ Rest /\ adParent # NoTrack
    /\ playing' = [ContentTrack(adParent.uri) EXCEPT !.ad = TRUE]
    /\ adTracks' = adTracks \cup {adParent.uri}
    /\ UNCHANGED <<cacheVars, queueVars, adParent, loadingAds, agenda>>

(* adBreakCompleted: the content resumes.                                      *)
LeaveAd ==
    /\ Rest /\ playing.ad
    /\ playing' = adParent
    /\ UNCHANGED <<cacheVars, queueVars, adParent, adTracks, loadingAds, agenda>>

(* adPreload: a break of the content is near.                                  *)
PreloadBreakAds ==
    /\ Rest /\ adParent # NoTrack
    /\ LET parent == IF adParent.disposed THEN Gone ELSE adParent.uri IN
        mayAwait(parent) /\ loadingAds' = loadingAds \cup {parent}
    /\ UNCHANGED <<cacheVars, queueVars, playing, adParent, adTracks, agenda>>

(* Mutant: an ad is kept for a parent that was disposed while its options were *)
(* awaited.                                                                    *)
MutIgnoresDisposal(parent) ==
    /\ Rest
    /\ loadingAds' = loadingAds \ {parent}
    /\ \E u \in IF parent = Gone THEN Uris ELSE {parent} : adTracks' = adTracks \cup {u}
    /\ UNCHANGED <<cacheVars, queueVars, playing, adParent, agenda>>

(* The rest of preloadAd, when the options of the ad have resolved.            *)
PreloadAd(parent) ==
    /\ Rest
    /\ loadingAds' = loadingAds \ {parent}
    /\ adTracks' = IF parent = Gone THEN adTracks ELSE adTracks \cup {parent}
    /\ UNCHANGED <<cacheVars, queueVars, playing, adParent, agenda>>

TrackCacheNext ==
    \/ GetOrCreate \/ PreloadTrack \/ checkCacheCapacity \/ Shrink
    \/ SetCurrentTrack \/ NextIfIdle \/ Unload
    \/ Load \/ NextTrack \/ Enqueue \/ ClearQueue
    \/ Preload \/ Configure \/ ClearTrackCache
    \/ \E u \in Uris : GetCachedTrack(u)
    \/ EnterAd \/ LeaveAd \/ PreloadBreakAds
    \/ \E parent \in loadingAds : PreloadAd(parent)

TrackCacheSpec == TrackCacheInit /\ [][TrackCacheNext]_trackCacheVars

--------------------------------------------------------------------------------
\* Properties

(* The pointers of the list, followed from either end, meet the keys of the    *)
(* map, each once: remove and pushNode are correct on every shape of list.     *)
ListIsMap ==
    /\ Len(FromHead(list)) = Cardinality(cached) /\ Range(FromHead(list)) = cached
    /\ FromTail(list) = Reverse(FromHead(list))

(* No ad track outlives its content, whenever the options of an ad arrive.     *)
AdTracksPegged == adTracks \subseteq cached

(* Between calls: what plays and the parent of its ads are tracks of the       *)
(* current entry that were not disposed, whatever was evicted for the entry's  *)
(* sake, and the current entry is cached.                                      *)
CurrentSurvives ==
    Rest =>
        /\ adParent = ContentTrack(current)
        /\ playing.uri = current /\ ~playing.disposed
        /\ {current} \subseteq cached \cup {None}

(* Between calls: the cache is within its capacity, and the capacity is what   *)
(* lets every track of the last preload stay with the prefetch window.         *)
PreloadedSurvive ==
    Rest => Cardinality(cached) <= capacity /\ asked \subseteq cached

(* The cache of tracks is sound: the four above, and the types.                *)
TracksSound == TrackCacheTypeOK /\ ListIsMap /\ AdTracksPegged /\ CurrentSurvives /\ PreloadedSurvive

Lru == INSTANCE LruOrder WITH
    Keys <- Uris, order <- FromHead(list), protected <- Range(getPrefetched)

(* The linked list and the map implement an order of last use, from which only *)
(* the longest unused entry outside the prefetch window is evicted, and only   *)
(* above the capacity.                                                         *)
ImplementsLru == Lru!Spec
=============================================================================
