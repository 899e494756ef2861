--------------------------- MODULE MediaSourceProofs ---------------------------
(* Proofs about MediaSource, for any content types, timelines, source buffers, *)
(* calls and faults.                                                           *)
EXTENDS MediaSource, TLAPS, FiniteSetTheorems, WellFoundedInduction

------------------------------------------------------------------------------
\* The inductive invariant, of a world w where n is the current timeline, r the
\* last one whose promise has resolved and f the number of faults so far

Holds(s) == s.phase \in {"idle", "busy"}

MediaSources == [state : {"closed", "open", "ended"}, opening : BOOLEAN, opened : BOOLEAN,
                 attached : SUBSET Buffers, busy : SUBSET Buffers, inited : SUBSET Buffers,
                 duration : {0} \cup {DurationOf[i] : i \in Timelines}]

Controllers == [active : BOOLEAN, typed : BOOLEAN, durationSet : BOOLEAN,
                buffers : SUBSET Buffers]

Refreshes == [phase : {"none", "timeline", "idle", "failed"}, wait : SUBSET Buffers]

Tracks(n) == [active : BOOLEAN, types : SUBSET Types, applied : 0..n]

Fields == {"track", "msc", "refresh", "ms", "stream", "orphans"}

(* No continuation that is left behind has been woken.                         *)
Typed(w, n) ==
    /\ DOMAIN w = Fields
    /\ w.track \in Tracks(n) /\ w.msc \in Controllers /\ w.refresh \in Refreshes
    /\ w.ms \in MediaSources /\ w.stream \in [Types -> Streams]
    /\ w.orphans \subseteq [buf : Buffers, phase : {"rejected"}]

(* Every tracked buffer has one owner: a stream or a rejected continuation.    *)
Owned(w) ==
    /\ \A t \in Types : w.stream[t].buf = 0 <=> w.stream[t].phase \in {"none", "empty"}
    /\ \A t, u \in Types : t # u /\ w.stream[t].buf = w.stream[u].buf => w.stream[t].buf = 0
    /\ \A o \in w.orphans : \A t \in Types : w.stream[t].buf # o.buf
    /\ \A b \in Buffers : b \in w.msc.buffers <=>
            \/ \E o \in w.orphans : b = o.buf
            \/ \E t \in Types : b = w.stream[t].buf

(* What the browser has is tracked, and what it works on a stream waits for.   *)
Placed(w) ==
    /\ w.ms.attached \subseteq w.msc.buffers
    /\ \A b \in w.ms.busy : \E t \in Types : w.stream[t].phase = "busy" /\ w.stream[t].buf = b
    /\ \A t \in Types : w.stream[t].phase = "busy" => w.stream[t].buf \in w.ms.busy
    /\ w.ms.busy \subseteq w.ms.attached
    /\ w.ms.inited \subseteq w.ms.attached
    /\ \A b \in w.ms.inited : \E t \in Types : Holds(w.stream[t]) /\ w.stream[t].buf = b
    /\ w.ms.state = "closed" => w.ms.attached = {}
    /\ w.refresh.wait \subseteq w.ms.busy
    /\ w.refresh.phase # "idle" => w.refresh.wait = {}

(* The streams and the media source controller are active with the track.      *)
Running(w) ==
    /\ w.msc.active <=> w.track.active
    /\ ~w.track.active =>
          /\ \A t \in Types : w.stream[t].phase = "none"
          /\ w.ms.state = "closed" /\ ~w.ms.opening
          /\ w.refresh = noRefresh
          /\ ~w.msc.durationSet
    /\ w.track.active =>
          /\ \A t \in Types : w.stream[t].phase # "none" <=> t \in w.track.types
          /\ w.ms.state = "closed" => w.ms.opening
    /\ \A t \in Types : w.stream[t].phase = "none" => ~w.stream[t].fed

(* The content types are those of the last timeline that reached the track;    *)
(* the media source controller knows them only of the current one.             *)
Timed(w, n, r) ==
    /\ w.track.applied <= r
    /\ w.track.types = IF w.track.applied = 0 THEN {} ELSE TypesOf[w.track.applied]
    /\ w.track.active /\ w.msc.typed => w.track.applied = n
    /\ w.refresh.phase = "idle" => w.track.applied = n

(* Once the duration is about to be set no continuation is left behind.        *)
Quiet(w) ==
    /\ w.refresh.phase = "idle" \/ w.msc.durationSet => w.orphans = {}
    /\ w.msc.durationSet <=> w.ms.duration # 0

(* readyToAppend, and what waits for it.                                       *)
Ready(w, n) ==
    /\ w.msc.durationSet
    /\ w.msc.typed
    /\ Cardinality(TypesOf[n]) = Cardinality(w.msc.buffers)

Woken(w, n) == \A t \in Types : w.stream[t].phase = "woken" => Ready(w, n)

Waiters(w, n) == Ready(w, n) => \A t \in Types : w.stream[t].phase # "waiting"

(* A stream has begun once its buffer was initialized: then no other awaits a  *)
(* first buffer.                                                               *)
Begun(w) ==
    \A t \in Types : Holds(w.stream[t]) /\ w.stream[t].buf \in w.ms.attached =>
        /\ w.msc.durationSet
        /\ \A u \in w.track.types :
              w.stream[u].phase \notin {"empty", "waiting"} \/ w.stream[u].old

Current(w, n) ==
    w.msc.active /\ w.ms.state = "open" /\ ~w.ms.opened /\ w.refresh.phase = "none"
    => w.ms.duration = DurationOf[n]

(* The duration is set before a stream appends, while no fault clears it.      *)
Blameless(w, f) ==
    /\ f = 0 => /\ \A t \in Types : Holds(w.stream[t]) \/ w.stream[t].fed => w.msc.durationSet
                /\ w.ms.state = "ended" => w.msc.durationSet
    /\ w.refresh.phase = "failed" => w.msc.durationSet

(* All but Waiters, which checkReady establishes.                              *)
Unchecked(w, n, r, f) ==
    /\ Typed(w, n) /\ Owned(w) /\ Placed(w) /\ Running(w) /\ Timed(w, n, r)
    /\ Quiet(w) /\ Woken(w, n) /\ Begun(w) /\ Current(w, n) /\ Blameless(w, f)

Sound(w, n, r, f) == Unchecked(w, n, r, f) /\ Waiters(w, n)

EnvInv ==
    /\ changeType \in BOOLEAN
    /\ timeline \in Timelines /\ resolved \in 0..timeline
    /\ calls \in 0..MaxCalls /\ faults \in 0..MaxFaults

Inductive == EnvInv /\ Sound(World, timeline, resolved, faults)

------------------------------------------------------------------------------
\* Constants and records

(* Media timelines are numbered, each with content types and a duration.       *)
LEMMA TimelinesAreNumbers ==
    /\ Timelines = 1..Len(TypesOf)
    /\ Len(TypesOf) \in Nat \ {0}
    /\ \A i \in Timelines : TypesOf[i] \in SUBSET Types /\ DurationOf[i] \in Nat \ {0}
BY MediaSourceAssumption DEF Timelines

(* readyToAppend (MediaSourceController.ts) in terms of Ready.                 *)
LEMMA ReadyIs ==
    ASSUME NEW w
    PROVE  readyToAppend(w) <=> Ready(w, timeline)
BY DEF readyToAppend, Ready

(* A step that leads to the world w leads to a sound state if w is sound.      *)
LEMMA SoundBecomes ==
    ASSUME NEW w, Becomes(w), Sound(w, timeline', resolved', faults'), EnvInv'
    PROVE  Inductive'
<1> DEFINE v == World'
<1>1. /\ v.track = w.track /\ v.msc = w.msc /\ v.refresh = w.refresh
      /\ v.ms = w.ms /\ v.stream = w.stream /\ v.orphans = w.orphans
  BY DEF Becomes, World
<1> HIDE DEF v
<1>2. Typed(w, timeline') => Typed(v, timeline')
  <2>1. DOMAIN v = Fields
    BY DEF v, World, Fields
  <2> QED BY <1>1, <2>1 DEF Typed
<1>3. Owned(w) <=> Owned(v)
  BY <1>1 DEF Owned
<1>4. Placed(w) <=> Placed(v)
  BY <1>1 DEF Placed
<1>5. Running(w) <=> Running(v)
  BY <1>1 DEF Running
<1>6. Timed(w, timeline', resolved') <=> Timed(v, timeline', resolved')
  BY <1>1 DEF Timed
<1>7. Quiet(w) <=> Quiet(v)
  BY <1>1 DEF Quiet
<1>8. Ready(w, timeline') <=> Ready(v, timeline')
  BY <1>1 DEF Ready
<1>9. Woken(w, timeline') <=> Woken(v, timeline')
  BY <1>1, <1>8 DEF Woken
<1>10. Waiters(w, timeline') <=> Waiters(v, timeline')
  BY <1>1, <1>8 DEF Waiters
<1>11. Begun(w) <=> Begun(v)
  BY <1>1 DEF Begun
<1>12. Current(w, timeline') <=> Current(v, timeline')
  BY <1>1 DEF Current
<1>13. Blameless(w, faults') <=> Blameless(v, faults')
  BY <1>1 DEF Blameless
<1>14. Sound(v, timeline', resolved', faults')
  BY <1>2, <1>3, <1>4, <1>5, <1>6, <1>7, <1>9, <1>10, <1>11, <1>12, <1>13
     DEF Sound, Unchecked
<1> QED BY <1>14 DEF Inductive, v

(* The count that readyToAppend compares: the media source is ready once every *)
(* stream of the track has a source buffer.                                    *)
LEMMA ReadyMeans ==
    ASSUME NEW w, NEW n \in Timelines, NEW r,
           Typed(w, n), Owned(w), Running(w), Timed(w, n, r), Quiet(w)
    PROVE  Ready(w, n) <=> /\ w.msc.durationSet /\ w.msc.typed
                           /\ \A t \in w.track.types : w.stream[t].buf # 0
<1> SUFFICES ASSUME w.msc.durationSet, w.msc.typed
    PROVE  Cardinality(TypesOf[n]) = Cardinality(w.msc.buffers)
              <=> \A t \in w.track.types : w.stream[t].buf # 0
  BY DEF Ready
<1> DEFINE types == w.track.types
           S == {t \in types : w.stream[t].buf # 0}
           g == [t \in S |-> w.stream[t].buf]
<1>1. types \subseteq Types /\ w.track.active \in BOOLEAN /\ w.track.applied \in 0..n
  BY DEF Typed, Tracks
<1>2. w.stream \in [Types -> Streams] /\ w.msc.buffers \subseteq Buffers
  BY DEF Typed, Controllers
<1>3. w.track.active
  BY <1>1 DEF Running
<1>4. types = TypesOf[n]
  BY <1>1, <1>3, TimelinesAreNumbers DEF Timed
<1>5. w.orphans = {}
  BY DEF Quiet
<1>6. \A t \in Types : w.stream[t].buf # 0 => t \in types
  BY <1>3 DEF Owned, Running
<1>7. \A t \in Types : w.stream[t].buf \in Buffers \cup {0}
  BY <1>2 DEF Streams
<1>8. IsFiniteSet(types) /\ IsFiniteSet(S)
  BY <1>1, FS_Subset, MediaSourceAssumption
<1>9. g \in Bijection(S, w.msc.buffers)
  <2>1. g \in [S -> w.msc.buffers]
    <3>1. \A t \in S : g[t] \in w.msc.buffers
      BY <1>1, <1>7 DEF Owned
    <3> QED BY <3>1
  <2>2. \A a, b \in DOMAIN g : g[a] = g[b] => a = b
    BY <1>1 DEF Owned
  <2>3. \A b \in w.msc.buffers : \E t \in S : g[t] = b
    <3> TAKE b \in w.msc.buffers
    <3>1. b \in Buffers /\ b # 0
      BY <1>2, MediaSourceAssumption
    <3>2. PICK t \in Types : b = w.stream[t].buf
      BY <3>1, <1>5 DEF Owned
    <3> QED BY <3>1, <3>2, <1>6
  <2> HIDE DEF g
  <2> QED BY <2>1, <2>2, <2>3 DEF Bijection, Injection, Surjection, IsInjective
<1>10. Cardinality(w.msc.buffers) = Cardinality(S)
  BY <1>8, <1>9, FS_Bijection DEF ExistsBijection
<1>11. S \in SUBSET types
  OBVIOUS
<1>12. Cardinality(types) = Cardinality(S) => types = S
  BY <1>8, <1>11, FS_Subset
<1>13. (\A t \in types : w.stream[t].buf # 0) <=> S = types
  OBVIOUS
<1> HIDE DEF S, types
<1>14. Cardinality(types) = Cardinality(S) <=> S = types
  BY <1>12
<1> QED BY <1>4, <1>10, <1>13, <1>14 DEF types

(* What only changes the flags of streams keeps the world sound.               *)
LEMMA FlagsSound ==
    ASSUME NEW w, NEW n \in Timelines, NEW r, NEW f, Sound(w, n, r, f),
           NEW v, DOMAIN v = Fields, v.track = w.track, v.msc = w.msc,
           v.refresh = w.refresh, v.ms = w.ms, v.orphans = w.orphans,
           v.stream \in [Types -> Streams],
           \A t \in Types : /\ v.stream[t].phase = w.stream[t].phase
                            /\ v.stream[t].buf = w.stream[t].buf
                            /\ v.stream[t].old = w.stream[t].old
                            /\ v.stream[t].fed => w.stream[t].fed
    PROVE  Sound(v, n, r, f)
<1> USE DEF Sound, Unchecked
<1>1. Typed(v, n)
  BY DEF Typed
<1>2. Owned(v)
  BY DEF Owned
<1>3. Placed(v)
  <2>1. \A t \in Types : Holds(v.stream[t]) <=> Holds(w.stream[t])
    BY DEF Holds
  <2> QED BY <2>1 DEF Placed
<1>4. Running(v)
  BY DEF Running
<1>5. Timed(v, n, r)
  BY DEF Timed
<1>6. Quiet(v)
  BY DEF Quiet
<1>7. Ready(v, n) <=> Ready(w, n)
  BY DEF Ready
<1>8. Woken(v, n) /\ Waiters(v, n)
  BY <1>7 DEF Woken, Waiters
<1>9. Begun(v)
  <2>1. v.track.types \subseteq Types
    BY <1>1 DEF Typed, Tracks
  <2> QED BY <2>1 DEF Begun, Holds
<1>10. Current(v, n)
  BY DEF Current
<1>11. Blameless(v, f)
  BY DEF Blameless, Holds
<1> QED BY <1>1, <1>2, <1>3, <1>4, <1>5, <1>6, <1>8, <1>9, <1>10, <1>11

(* checkReady (MediaSourceController.ts) leaves no stream waiting.             *)
LEMMA CheckReadySound ==
    ASSUME NEW w, timeline \in Timelines, NEW r, NEW f, Unchecked(w, timeline, r, f)
    PROVE  LET v == checkReady(w) IN
           /\ Sound(v, timeline, r, f)
           /\ v.track = w.track /\ v.msc = w.msc /\ v.refresh = w.refresh
           /\ v.ms = w.ms /\ v.orphans = w.orphans
           /\ \A t \in Types :
                 /\ v.stream[t].phase = IF w.stream[t].phase = "waiting" /\ Ready(w, timeline)
                                        THEN "woken" ELSE w.stream[t].phase
                 /\ v.stream[t].buf = w.stream[t].buf
                 /\ v.stream[t].old = w.stream[t].old
                 /\ v.stream[t].fed = w.stream[t].fed
<1> DEFINE v == checkReady(w)
           n == timeline
<1>1. DOMAIN w = Fields /\ w.stream \in [Types -> Streams]
  BY DEF Unchecked, Typed
<1>2. /\ v.track = w.track /\ v.msc = w.msc /\ v.refresh = w.refresh
      /\ v.ms = w.ms /\ v.orphans = w.orphans /\ DOMAIN v = Fields
  BY <1>1 DEF checkReady, Fields
<1>3. v.stream \in [Types -> Streams] /\
      \A t \in Types :
            /\ v.stream[t].phase = IF w.stream[t].phase = "waiting" /\ Ready(w, timeline)
                                   THEN "woken" ELSE w.stream[t].phase
            /\ v.stream[t].buf = w.stream[t].buf
            /\ v.stream[t].old = w.stream[t].old
            /\ v.stream[t].fed = w.stream[t].fed
  <2>1. CASE ~Ready(w, timeline)
    <3>1. v = w
      BY <2>1, ReadyIs DEF checkReady
    <3> QED BY <3>1, <2>1, <1>1
  <2>2. CASE Ready(w, timeline)
    <3>1. v.stream = [t \in Types |->
             IF w.stream[t].phase = "waiting" THEN [w.stream[t] EXCEPT !.phase = "woken"]
             ELSE w.stream[t]]
      BY <2>2, <1>1, ReadyIs DEF checkReady, Fields
    <3>2. \A t \in Types : [w.stream[t] EXCEPT !.phase = "woken"] \in Streams
      BY <1>1 DEF Streams, Phases
    <3> HIDE DEF v
    <3>3. v.stream \in [Types -> Streams]
      BY <3>1, <3>2, <1>1
    <3> QED BY <3>1, <3>3, <2>2, <1>1 DEF Streams
  <2> QED BY <2>1, <2>2
<1> HIDE DEF v
<1>4. Sound(v, n, r, f)
  <2>1. Typed(v, n)
    BY <1>2, <1>3 DEF Unchecked, Typed
  <2>2. Owned(v)
    BY <1>2, <1>3 DEF Unchecked, Owned
  <2>3. Placed(v)
    <3>1. \A t \in Types : Holds(v.stream[t]) <=> Holds(w.stream[t])
      BY <1>3 DEF Holds
    <3>2. \A t \in Types : v.stream[t].phase = "busy" <=> w.stream[t].phase = "busy"
      BY <1>3
    <3> QED BY <1>2, <1>3, <3>1, <3>2 DEF Unchecked, Placed
  <2>4. Running(v)
    <3>1. \A t \in Types : v.stream[t].phase = "none" <=> w.stream[t].phase = "none"
      BY <1>3
    <3> QED BY <1>2, <1>3, <3>1 DEF Unchecked, Running
  <2>5. Timed(v, n, r) /\ Quiet(v)
    BY <1>2 DEF Unchecked, Timed, Quiet
  <2>6. Ready(v, n) <=> Ready(w, n)
    BY <1>2 DEF Ready
  <2>7. Woken(v, n) /\ Waiters(v, n)
    BY <1>3, <2>6 DEF Unchecked, Woken, Waiters
  <2>8. Begun(v)
    <3>1. v.track.types \subseteq Types
      BY <2>1 DEF Typed, Tracks
    <3>2. \A t \in Types : Holds(v.stream[t]) <=> Holds(w.stream[t])
      BY <1>3 DEF Holds
    <3> QED BY <1>2, <1>3, <3>1, <3>2 DEF Unchecked, Begun
  <2>9. Current(v, n)
    BY <1>2 DEF Unchecked, Current
  <2>10. Blameless(v, f)
    BY <1>2, <1>3 DEF Unchecked, Blameless, Holds
  <2> QED BY <2>1, <2>2, <2>3, <2>4, <2>5, <2>7, <2>8, <2>9, <2>10 DEF Sound, Unchecked
<1> QED BY <1>2, <1>3, <1>4 DEF v

------------------------------------------------------------------------------
\* What a stream does with its source buffer

(* An append or a removal: the stream holds the buffer, or readyToAppend came. *)
LEMMA BusySound ==
    ASSUME NEW w, NEW n \in Timelines, NEW r, NEW f, Sound(w, n, r, f),
           NEW t \in Types, w.stream[t].phase \in {"idle", "woken"},
           w.stream[t].buf \in w.ms.attached,
           NEW v, DOMAIN v = Fields, v.track = w.track, v.msc = w.msc,
           v.refresh = w.refresh, v.orphans = w.orphans,
           v.ms = updating(w.ms, w.stream[t].buf),
           v.stream \in [Types -> Streams],
           v.stream[t].phase = "busy", v.stream[t].buf = w.stream[t].buf,
           v.stream[t].fed = w.stream[t].fed,
           \A u \in Types : u # t => v.stream[u] = w.stream[u]
    PROVE  Sound(v, n, r, f)
<1> DEFINE b == w.stream[t].buf
<1>1. /\ w.ms \in MediaSources /\ w.track.types \subseteq Types
      /\ b \in Buffers /\ w.ms.state # "closed"
  BY DEF Sound, Unchecked, Typed, Tracks, MediaSources, Placed
<1>2. /\ v.ms \in MediaSources
      /\ v.ms.state # "closed"
      /\ v.ms.state = "ended" => w.ms.state = "ended"
      /\ v.ms.state = "open" /\ ~v.ms.opened => w.ms.state = "open" /\ ~w.ms.opened
      /\ v.ms.attached = w.ms.attached /\ v.ms.inited = w.ms.inited
      /\ v.ms.duration = w.ms.duration /\ v.ms.opening = w.ms.opening
      /\ v.ms.busy = w.ms.busy \cup {b}
  <2> DEFINE m == reopened(w.ms)
  <2>1. /\ m \in MediaSources
        /\ m.state # "closed" /\ m.state # "ended"
        /\ m.state = "open" /\ ~m.opened => w.ms.state = "open" /\ ~w.ms.opened
        /\ m.attached = w.ms.attached /\ m.inited = w.ms.inited /\ m.busy = w.ms.busy
        /\ m.duration = w.ms.duration /\ m.opening = w.ms.opening
    <3>1. CASE w.ms.state = "ended"
      <4>1. m = [w.ms EXCEPT !.state = "open", !.opened = TRUE]
        BY <3>1 DEF reopened
      <4> HIDE DEF m
      <4> QED BY <1>1, <4>1 DEF MediaSources
    <3>2. CASE w.ms.state # "ended"
      BY <1>1, <3>2 DEF MediaSources, reopened
    <3> QED BY <3>1, <3>2
  <2>2. v.ms = [m EXCEPT !.busy = @ \cup {b}]
    BY DEF updating
  <2> HIDE DEF m
  <2> QED BY <1>1, <2>1, <2>2 DEF MediaSources
<1>3. /\ w.msc.durationSet
      /\ \A u \in w.track.types :
            w.stream[u].phase \notin {"empty", "waiting"} \/ w.stream[u].old
  <2>1. CASE w.stream[t].phase = "idle"
    BY <2>1 DEF Sound, Unchecked, Begun, Holds
  <2>2. CASE w.stream[t].phase = "woken"
    <3>1. Ready(w, n)
      BY <2>2 DEF Sound, Unchecked, Woken
    <3>2. w.msc.durationSet /\ \A u \in w.track.types : w.stream[u].buf # 0
      BY <3>1, ReadyMeans DEF Sound, Unchecked
    <3>3. \A u \in w.track.types : w.stream[u].phase \notin {"empty", "waiting"}
      BY <1>1, <3>1, <3>2 DEF Sound, Unchecked, Waiters, Owned
    <3> QED BY <3>2, <3>3
  <2> QED BY <2>1, <2>2
<1>4. Typed(v, n)
  BY <1>2 DEF Sound, Unchecked, Typed
<1>5. \A u \in Types : /\ v.stream[u].buf = w.stream[u].buf
                       /\ v.stream[u].fed = w.stream[u].fed
                       /\ v.stream[u].phase = "none" <=> w.stream[u].phase = "none"
                       /\ v.stream[u].phase = "empty" <=> w.stream[u].phase = "empty"
                       /\ v.stream[u].phase = "busy" <=> w.stream[u].phase = "busy" \/ u = t
                       /\ v.stream[u].phase = "woken" => w.stream[u].phase = "woken"
                       /\ v.stream[u].phase = "waiting" => w.stream[u].phase = "waiting"
                       /\ Holds(v.stream[u]) <=> Holds(w.stream[u]) \/ u = t
  BY DEF Holds
<1>6. Owned(v)
  BY <1>5 DEF Sound, Unchecked, Owned
<1>7. Placed(v)
  <2> USE <1>1, <1>2, <1>5
  <2>1. /\ \A c \in v.ms.busy : \E u \in Types : v.stream[u].phase = "busy" /\ v.stream[u].buf = c
        /\ \A u \in Types : v.stream[u].phase = "busy" => v.stream[u].buf \in v.ms.busy
    BY SMTT(30) DEF Sound, Unchecked, Placed
  <2>2. v.ms.busy \subseteq v.ms.attached
    BY DEF Sound, Unchecked, Placed
  <2>3. \A c \in v.ms.inited : \E u \in Types : Holds(v.stream[u]) /\ v.stream[u].buf = c
    BY SMTT(30) DEF Sound, Unchecked, Placed
  <2> QED BY <2>1, <2>2, <2>3 DEF Sound, Unchecked, Placed
<1>8. Running(v)
  <2>1. w.track.active
    BY DEF Sound, Unchecked, Running
  <2> QED BY <1>2, <1>5, <2>1 DEF Sound, Unchecked, Running
<1>9. Timed(v, n, r) /\ Quiet(v)
  BY <1>2 DEF Sound, Unchecked, Timed, Quiet
<1>10. Ready(v, n) <=> Ready(w, n)
  BY DEF Ready
<1>11. Woken(v, n) /\ Waiters(v, n)
  BY <1>5, <1>10 DEF Sound, Unchecked, Woken, Waiters
<1>12. Begun(v)
  <2>1. \A u \in v.track.types : v.stream[u].phase \notin {"empty", "waiting"} \/ v.stream[u].old
    BY <1>1, <1>3
  <2> QED BY <2>1, <1>3 DEF Begun
<1>13. Current(v, n)
  BY <1>2 DEF Sound, Unchecked, Current
<1>14. Blameless(v, f)
  BY <1>2, <1>3 DEF Sound, Unchecked, Blameless
<1> QED BY <1>4, <1>6, <1>7, <1>8, <1>9, <1>11, <1>12, <1>13, <1>14 DEF Sound, Unchecked

(* appendInit (SourceBufferController.ts) of a stream that may append.         *)
LEMMA AppendsInitSound ==
    ASSUME NEW w, NEW n \in Timelines, NEW r, NEW f, Sound(w, n, r, f),
           NEW t \in Types, w.stream[t].phase \in {"idle", "woken"}
    PROVE  Sound(appendsInit(w, t), n, r, f)
<1> DEFINE s == w.stream[t]
           v == appendsInit(w, t)
<1>1. DOMAIN w = Fields /\ w.stream \in [Types -> Streams] /\ s \in Streams
  BY DEF Sound, Unchecked, Typed
<1>2. CASE s.buf \in w.ms.attached
  <2> DEFINE x == [s EXCEPT !.phase = "busy", !.op = "init", !.old = FALSE]
  <2>1. x \in Streams /\ x.phase = "busy" /\ x.buf = s.buf /\ x.fed = s.fed
    BY <1>1 DEF Streams, Phases
  <2>2. /\ DOMAIN v = Fields /\ v.track = w.track /\ v.msc = w.msc
        /\ v.refresh = w.refresh /\ v.orphans = w.orphans
        /\ v.ms = updating(w.ms, s.buf)
        /\ v.stream = [w.stream EXCEPT ![t] = x]
    BY <1>1, <1>2 DEF appendsInit, Fields
  <2> HIDE DEF v, x
  <2>3. /\ v.stream \in [Types -> Streams] /\ v.stream[t] = x
        /\ \A u \in Types : u # t => v.stream[u] = w.stream[u]
    BY <1>1, <2>1, <2>2
  <2>4. Sound(v, n, r, f)
    BY <1>2, <2>1, <2>2, <2>3, BusySound
  <2> QED BY <2>4 DEF v
<1>3. CASE s.buf \notin w.ms.attached
  <2> DEFINE x == [s EXCEPT !.phase = "idle", !.old = FALSE, !.error = TRUE]
  <2>1. x \in Streams /\ x.phase = "idle" /\ x.buf = s.buf /\ x.fed = s.fed
    BY <1>1 DEF Streams, Phases
  <2>2. /\ DOMAIN v = Fields /\ v.track = w.track /\ v.msc = w.msc
        /\ v.refresh = w.refresh /\ v.orphans = w.orphans /\ v.ms = w.ms
        /\ v.stream = [w.stream EXCEPT ![t] = x]
    BY <1>1, <1>3 DEF appendsInit, Fields
  <2> HIDE DEF v, x
  <2>3. /\ v.stream \in [Types -> Streams] /\ v.stream[t] = x
        /\ \A u \in Types : u # t => v.stream[u] = w.stream[u]
    BY <1>1, <2>1, <2>2
  <2>4. \A u \in Types : /\ v.stream[u].buf = w.stream[u].buf
                         /\ v.stream[u].fed = w.stream[u].fed
                         /\ v.stream[u].phase = "none" <=> w.stream[u].phase = "none"
                         /\ v.stream[u].phase = "empty" <=> w.stream[u].phase = "empty"
                         /\ v.stream[u].phase = "busy" <=> w.stream[u].phase = "busy"
                         /\ v.stream[u].phase = "woken" => w.stream[u].phase = "woken"
                         /\ v.stream[u].phase = "waiting" => w.stream[u].phase = "waiting"
                         /\ Holds(v.stream[u]) <=> Holds(w.stream[u]) \/ u = t
    BY <2>1, <2>3 DEF Holds
  <2>5. Typed(v, n)
    BY <2>2, <2>3 DEF Sound, Unchecked, Typed
  <2>6. Owned(v)
    BY <2>2, <2>4 DEF Sound, Unchecked, Owned
  <2>7. Placed(v)
    BY <2>2, <2>4 DEF Sound, Unchecked, Placed
  <2>8. Running(v)
    <3>1. w.track.active
      BY DEF Sound, Unchecked, Running
    <3> QED BY <2>2, <2>4, <3>1 DEF Sound, Unchecked, Running
  <2>9. Timed(v, n, r) /\ Quiet(v)
    BY <2>2 DEF Sound, Unchecked, Timed, Quiet
  <2>10. Ready(v, n) <=> Ready(w, n)
    BY <2>2 DEF Ready
  <2>11. Woken(v, n) /\ Waiters(v, n)
    BY <2>4, <2>10 DEF Sound, Unchecked, Woken, Waiters
  <2>12. Begun(v)
    <3>1. v.track.types \subseteq Types
      BY <2>5 DEF Typed, Tracks
    <3>2. \A u \in v.track.types :
             w.stream[u].phase \notin {"empty", "waiting"} \/ w.stream[u].old
             => v.stream[u].phase \notin {"empty", "waiting"} \/ v.stream[u].old
      BY <2>1, <2>3, <3>1
    <3>3. \A u \in Types : Holds(v.stream[u]) /\ v.stream[u].buf \in v.ms.attached
             => Holds(w.stream[u]) /\ w.stream[u].buf \in w.ms.attached
      BY <1>3, <2>1, <2>2, <2>3, <2>4
    <3> QED BY <2>2, <3>1, <3>2, <3>3 DEF Sound, Unchecked, Begun
  <2>13. Current(v, n)
    BY <2>2 DEF Sound, Unchecked, Current
  <2>14. Blameless(v, f)
    <3>1. w.stream[t].phase = "woken" => w.msc.durationSet
      BY DEF Sound, Unchecked, Woken, Ready
    <3>2. f = 0 => w.msc.durationSet
      BY <3>1 DEF Sound, Unchecked, Blameless, Holds
    <3> QED BY <2>2, <3>2 DEF Sound, Unchecked, Blameless
  <2>15. Sound(v, n, r, f)
    BY <2>5, <2>6, <2>7, <2>8, <2>9, <2>11, <2>12, <2>13, <2>14 DEF Sound, Unchecked
  <2> QED BY <2>15 DEF v
<1> QED BY <1>2, <1>3

(* dispose() of a source buffer reference (MediaSourceController.ts) whose     *)
(* buffer no refresh waits for.                                                *)
LEMMA DisposeRefMeans ==
    ASSUME NEW w, NEW n, Typed(w, n), NEW b, b \notin w.refresh.wait,
           w.ms.state = "closed" => w.ms.attached = {} /\ w.ms.busy = {} /\ w.ms.inited = {}
    PROVE  LET v == disposeRef(w, {b}) IN
           /\ DOMAIN v = Fields /\ v.track = w.track /\ v.stream = w.stream
           /\ v.orphans = w.orphans /\ v.refresh = w.refresh
           /\ v.msc \in Controllers /\ v.msc.buffers = w.msc.buffers \ {b}
           /\ v.msc.active = w.msc.active /\ v.msc.typed = w.msc.typed
           /\ v.msc.durationSet = w.msc.durationSet
           /\ v.ms \in MediaSources /\ v.ms.attached = w.ms.attached \ {b}
           /\ v.ms.busy = w.ms.busy \ {b} /\ v.ms.inited = w.ms.inited \ {b}
           /\ v.ms.state = w.ms.state /\ v.ms.opening = w.ms.opening
           /\ v.ms.opened = w.ms.opened /\ v.ms.duration = w.ms.duration
<1> DEFINE v == disposeRef(w, {b})
           m == IF w.ms.state = "closed" THEN w.ms ELSE detach(w.ms, {b})
           c == [w.msc EXCEPT !.buffers = @ \ {b}]
<1>1. DOMAIN w = Fields /\ w.msc \in Controllers /\ w.ms \in MediaSources
  BY DEF Typed
<1>2. aborted(w.refresh, {b}) = w.refresh
  BY DEF aborted
<1>3. /\ DOMAIN v = Fields /\ v.track = w.track /\ v.stream = w.stream
      /\ v.orphans = w.orphans /\ v.refresh = aborted(w.refresh, {b})
      /\ v.msc = c
  BY <1>1 DEF disposeRef, Fields
<1>4. v.ms = m
  BY <1>1 DEF disposeRef, Fields
<1>5. /\ c \in Controllers /\ c.buffers = w.msc.buffers \ {b}
      /\ c.active = w.msc.active /\ c.typed = w.msc.typed /\ c.durationSet = w.msc.durationSet
  BY <1>1 DEF Controllers
<1>6. /\ m \in MediaSources /\ m.attached = w.ms.attached \ {b}
      /\ m.busy = w.ms.busy \ {b} /\ m.inited = w.ms.inited \ {b}
      /\ m.state = w.ms.state /\ m.opening = w.ms.opening
      /\ m.opened = w.ms.opened /\ m.duration = w.ms.duration
  <2>1. CASE w.ms.state = "closed"
    BY <1>1, <2>1
  <2>2. CASE w.ms.state # "closed"
    <3>1. m = [w.ms EXCEPT !.attached = @ \ {b}, !.busy = @ \ {b}, !.inited = @ \ {b}]
      BY <2>2 DEF detach
    <3> HIDE DEF m
    <3> QED BY <1>1, <3>1 DEF MediaSources
  <2> QED BY <2>1, <2>2
<1> HIDE DEF v, m, c
<1>7. v.msc \in Controllers /\ v.ms \in MediaSources
  BY <1>3, <1>4, <1>5, <1>6
<1> QED BY <1>2, <1>3, <1>4, <1>5, <1>6, <1>7 DEF v

(* A stream that is idle or waits gives its buffer up, to be replaced or       *)
(* because readyToAppend did not come in time.                                 *)
LEMMA LeavesSound ==
    ASSUME NEW w, NEW n \in Timelines, NEW r, NEW f, Sound(w, n, r, f),
           \A u \in Types : w.stream[u].phase # "woken",
           NEW t \in Types, w.stream[t].phase \in {"idle", "waiting"},
           NEW b, b = w.stream[t].buf,
           NEW v, DOMAIN v = Fields, v.track = w.track, v.refresh = w.refresh,
           v.orphans = w.orphans,
           v.msc \in Controllers, v.msc.buffers = w.msc.buffers \ {b},
           v.msc.active = w.msc.active, v.msc.typed = w.msc.typed,
           v.msc.durationSet = w.msc.durationSet,
           v.ms \in MediaSources, v.ms.attached = w.ms.attached \ {b},
           v.ms.busy = w.ms.busy \ {b}, v.ms.inited = w.ms.inited \ {b},
           v.ms.state = w.ms.state, v.ms.opening = w.ms.opening,
           v.ms.opened = w.ms.opened, v.ms.duration = w.ms.duration,
           v.stream \in [Types -> Streams],
           v.stream[t].phase = "empty", v.stream[t].buf = 0,
           v.stream[t].fed = w.stream[t].fed,
           w.stream[t].phase = "idle" \/ w.stream[t].old => v.stream[t].old,
           \A u \in Types : u # t => v.stream[u] = w.stream[u]
    PROVE  Sound(v, n, r, f)
<1>1. /\ w.stream \in [Types -> Streams] /\ w.track.types \subseteq Types
      /\ b \in Buffers /\ b # 0 /\ t \in w.track.types
      /\ w.orphans \subseteq [buf : Buffers, phase : {"rejected"}]
      /\ w.msc.buffers \subseteq Buffers
  BY MediaSourceAssumption
     DEF Sound, Unchecked, Typed, Tracks, Controllers, Streams, Owned, Running
<1>2. /\ b \notin w.ms.busy /\ b \notin w.refresh.wait
      /\ w.ms.state = "closed" => w.ms.attached = {} /\ w.ms.busy = {} /\ w.ms.inited = {}
  BY <1>1 DEF Sound, Unchecked, Placed, Owned
<1>5. Typed(v, n)
  BY <1>1 DEF Sound, Unchecked, Typed
<1>6. Owned(v)
  <2>1. \A u \in Types : v.stream[u].buf = 0 <=> v.stream[u].phase \in {"none", "empty"}
    BY DEF Sound, Unchecked, Owned
  <2>2. \A u, z \in Types : u # z /\ v.stream[u].buf = v.stream[z].buf => v.stream[u].buf = 0
    BY DEF Sound, Unchecked, Owned
  <2>3. \A o \in v.orphans : \A u \in Types : v.stream[u].buf # o.buf
    <3>1. \A o \in w.orphans : o.buf # 0
      BY <1>1, MediaSourceAssumption
    <3> QED BY <3>1 DEF Sound, Unchecked, Owned
  <2>4. ASSUME NEW c \in Buffers
        PROVE  c \in v.msc.buffers <=> \/ \E o \in v.orphans : c = o.buf
                                       \/ \E u \in Types : c = v.stream[u].buf
    <3>1. c # 0
      BY MediaSourceAssumption
    <3>2. c \in w.msc.buffers <=> \/ \E o \in w.orphans : c = o.buf
                                  \/ \E u \in Types : c = w.stream[u].buf
      BY DEF Sound, Unchecked, Owned
    <3>3. CASE c = b
      <4>1. \A o \in w.orphans : c # o.buf
        BY <3>3 DEF Sound, Unchecked, Owned
      <4>2. \A u \in Types : u # t => c # w.stream[u].buf
        BY <3>1, <3>3 DEF Sound, Unchecked, Owned
      <4> QED BY <3>1, <3>3, <4>1, <4>2
    <3>4. CASE c # b
      BY <3>1, <3>2, <3>4
    <3> QED BY <3>3, <3>4
  <2> QED BY <2>1, <2>2, <2>3, <2>4 DEF Owned
<1>7. Placed(v)
  <2>1. v.ms.attached \subseteq v.msc.buffers
    BY DEF Sound, Unchecked, Placed
  <2>2. \A c \in v.ms.busy : \E u \in Types : v.stream[u].phase = "busy" /\ v.stream[u].buf = c
    BY DEF Sound, Unchecked, Placed
  <2>3. \A u \in Types : v.stream[u].phase = "busy" => v.stream[u].buf \in v.ms.busy
    BY <1>2 DEF Sound, Unchecked, Placed
  <2>4. \A c \in v.ms.inited : \E u \in Types : Holds(v.stream[u]) /\ v.stream[u].buf = c
    BY DEF Sound, Unchecked, Placed
  <2> QED BY <1>2, <2>1, <2>2, <2>3, <2>4 DEF Sound, Unchecked, Placed
<1>8. Running(v)
  <2>1. w.track.active
    BY DEF Sound, Unchecked, Running
  <2> QED BY <1>1, <2>1 DEF Sound, Unchecked, Running
<1>9. Timed(v, n, r) /\ Quiet(v)
  BY DEF Sound, Unchecked, Timed, Quiet
<1>10. ~Ready(v, n)
  BY <1>1, <1>5, <1>6, <1>8, <1>9, ReadyMeans
<1>11. Woken(v, n) /\ Waiters(v, n)
  BY <1>10 DEF Woken, Waiters
<1>12. Begun(v)
  <2> SUFFICES ASSUME NEW u \in Types, Holds(v.stream[u]), v.stream[u].buf \in v.ms.attached
      PROVE  /\ v.msc.durationSet
             /\ \A z \in v.track.types :
                   v.stream[z].phase \notin {"empty", "waiting"} \/ v.stream[z].old
    BY DEF Begun
  <2>1. u # t
    BY DEF Holds
  <2>2. Holds(w.stream[u]) /\ w.stream[u].buf \in w.ms.attached
    BY <2>1
  <2>3. /\ w.msc.durationSet
        /\ \A z \in w.track.types :
              w.stream[z].phase \notin {"empty", "waiting"} \/ w.stream[z].old
    BY <2>2 DEF Sound, Unchecked, Begun
  <2>4. v.stream[t].old
    BY <1>1, <2>3
  <2> QED BY <1>1, <2>3, <2>4
<1>13. Current(v, n)
  BY DEF Sound, Unchecked, Current
<1>14. Blameless(v, f)
  <2>1. \A u \in Types : Holds(v.stream[u]) \/ v.stream[u].fed
                           => Holds(w.stream[u]) \/ w.stream[u].fed
    BY DEF Holds
  <2> QED BY <2>1 DEF Sound, Unchecked, Blameless
<1> QED BY <1>5, <1>6, <1>7, <1>8, <1>9, <1>11, <1>12, <1>13, <1>14 DEF Sound, Unchecked

(* A rejected continuation disposes its buffer.                                *)
LEMMA OrphanSound ==
    ASSUME NEW w, NEW n \in Timelines, NEW r, NEW f, Sound(w, n, r, f), NEW o \in w.orphans
    PROVE  o.phase = "rejected"
           /\ Sound(disposeRef([w EXCEPT !.orphans = @ \ {o}], {o.buf}), n, r, f)
<1> DEFINE y == [w EXCEPT !.orphans = @ \ {o}]
           v == disposeRef(y, {o.buf})
           b == o.buf
<1>1. /\ DOMAIN w = Fields /\ w.track.types \subseteq Types
      /\ w.stream \in [Types -> Streams]
      /\ w.orphans \subseteq [buf : Buffers, phase : {"rejected"}]
      /\ b \in Buffers /\ b # 0 /\ o.phase = "rejected"
  BY MediaSourceAssumption DEF Sound, Unchecked, Typed, Tracks
<1>2. \A t \in Types : w.stream[t].buf # b
  BY DEF Sound, Unchecked, Owned
<1>3. /\ b \notin w.ms.busy /\ b \notin w.refresh.wait /\ b \notin w.ms.inited
      /\ w.ms.state = "closed" => w.ms.attached = {} /\ w.ms.busy = {} /\ w.ms.inited = {}
  BY <1>2 DEF Sound, Unchecked, Placed
<1>4. /\ DOMAIN y = Fields /\ y.track = w.track /\ y.msc = w.msc /\ y.refresh = w.refresh
      /\ y.ms = w.ms /\ y.stream = w.stream /\ y.orphans = w.orphans \ {o}
  BY <1>1 DEF Fields
<1> HIDE DEF y
<1>5. Typed(y, n)
  BY <1>1, <1>4 DEF Sound, Unchecked, Typed
<1>6. /\ DOMAIN v = Fields /\ v.track = w.track /\ v.stream = w.stream
      /\ v.orphans = w.orphans \ {o} /\ v.refresh = w.refresh
      /\ v.msc \in Controllers /\ v.msc.buffers = w.msc.buffers \ {b}
      /\ v.msc.active = w.msc.active /\ v.msc.typed = w.msc.typed
      /\ v.msc.durationSet = w.msc.durationSet
      /\ v.ms \in MediaSources /\ v.ms.attached = w.ms.attached \ {b}
      /\ v.ms.busy = w.ms.busy \ {b} /\ v.ms.inited = w.ms.inited \ {b}
      /\ v.ms.state = w.ms.state /\ v.ms.opening = w.ms.opening
      /\ v.ms.opened = w.ms.opened /\ v.ms.duration = w.ms.duration
  <2>1. /\ DOMAIN v = Fields /\ v.track = y.track /\ v.stream = y.stream
        /\ v.orphans = y.orphans /\ v.refresh = y.refresh
        /\ v.msc \in Controllers /\ v.msc.buffers = y.msc.buffers \ {b}
        /\ v.msc.active = y.msc.active /\ v.msc.typed = y.msc.typed
        /\ v.msc.durationSet = y.msc.durationSet
        /\ v.ms \in MediaSources /\ v.ms.attached = y.ms.attached \ {b}
        /\ v.ms.busy = y.ms.busy \ {b} /\ v.ms.inited = y.ms.inited \ {b}
        /\ v.ms.state = y.ms.state /\ v.ms.opening = y.ms.opening
        /\ v.ms.opened = y.ms.opened /\ v.ms.duration = y.ms.duration
    <3>1. b \notin y.refresh.wait
      BY <1>3, <1>4
    <3>2. y.ms.state = "closed" => y.ms.attached = {} /\ y.ms.busy = {} /\ y.ms.inited = {}
      BY <1>3, <1>4
    <3> QED BY <1>5, <3>1, <3>2, DisposeRefMeans, Zenon
  <2> HIDE DEF v
  <2> QED BY <1>4, <2>1
<1> HIDE DEF v
<1>7. Typed(v, n)
  BY <1>1, <1>6 DEF Sound, Unchecked, Typed
<1>8. \A p \in w.orphans : p.buf = b => p = o
  BY <1>1
<1>9. Owned(v)
  <2>1. ASSUME NEW c \in Buffers
        PROVE  c \in v.msc.buffers <=> \/ \E p \in v.orphans : c = p.buf
                                       \/ \E u \in Types : c = v.stream[u].buf
    <3>1. c \in w.msc.buffers <=> \/ \E p \in w.orphans : c = p.buf
                                  \/ \E u \in Types : c = w.stream[u].buf
      BY DEF Sound, Unchecked, Owned
    <3> QED BY <1>2, <1>6, <1>8, <3>1
  <2>2. \A p \in v.orphans : p \in w.orphans
    BY <1>6
  <2>3. \A p \in v.orphans : \A t \in Types : v.stream[t].buf # p.buf
    BY <1>6, <2>2 DEF Sound, Unchecked, Owned
  <2> QED BY <1>6, <2>1, <2>3 DEF Sound, Unchecked, Owned
<1>10. Placed(v)
  <2>1. v.ms.busy = w.ms.busy /\ v.ms.inited = w.ms.inited
    BY <1>3, <1>6
  <2>2. v.ms.attached \subseteq v.msc.buffers
    BY <1>6 DEF Sound, Unchecked, Placed
  <2>3. b \notin v.ms.busy /\ b \notin v.ms.inited
    BY <1>3, <2>1
  <2> QED BY <1>6, <2>1, <2>2, <2>3 DEF Sound, Unchecked, Placed
<1>11. Running(v)
  BY <1>6 DEF Sound, Unchecked, Running
<1>12. Timed(v, n, r)
  BY <1>6 DEF Sound, Unchecked, Timed
<1>13. Quiet(v) /\ ~v.msc.durationSet
  BY <1>6 DEF Sound, Unchecked, Quiet
<1>14. ~Ready(v, n) /\ ~Ready(w, n)
  BY <1>6, <1>13 DEF Ready
<1>15. Woken(v, n) /\ Waiters(v, n)
  BY <1>6, <1>14 DEF Sound, Unchecked, Woken, Waiters
<1>16. Begun(v)
  BY <1>6 DEF Sound, Unchecked, Begun
<1>17. Current(v, n) /\ Blameless(v, f)
  BY <1>6 DEF Sound, Unchecked, Current, Blameless
<1>18. Sound(v, n, r, f)
  BY <1>7, <1>9, <1>10, <1>11, <1>12, <1>13, <1>15, <1>16, <1>17 DEF Sound, Unchecked
<1> QED BY <1>1, <1>18 DEF v, y

(* A new source buffer (SourceBufferController.ts): the task waits, or goes on *)
(* at once if it was the last one.                                             *)
LEMMA CreatesBufferSound ==
    ASSUME timeline \in Timelines,
           NEW w, NEW r, NEW f, Sound(w, timeline, r, f),
           \A u \in Types : w.stream[u].phase # "woken",
           NEW t \in Types, w.stream[t].phase = "empty",
           w.ms.state = "open", w.ms.inited = {},
           NEW b \in Buffers, b \notin w.msc.buffers
    PROVE  Sound(createsBuffer(w, t, b), timeline, r, f)
<1> DEFINE n == timeline
           s == [w.stream[t] EXCEPT !.phase = "waiting", !.buf = b]
           x == [w EXCEPT !.stream[t] = [@ EXCEPT !.phase = "waiting", !.buf = b]]
           y == [x EXCEPT !.ms.attached = @ \cup {b}, !.msc.buffers = @ \cup {b}]
           v == checkReady(y)
<1>1. /\ DOMAIN w = Fields /\ w.stream \in [Types -> Streams]
      /\ w.track.types \subseteq Types /\ t \in w.track.types /\ w.track.active
      /\ w.orphans \subseteq [buf : Buffers, phase : {"rejected"}]
      /\ w.ms \in MediaSources /\ w.msc \in Controllers /\ b # 0
  BY MediaSourceAssumption DEF Sound, Unchecked, Typed, Tracks, Running
<1>2. /\ s \in Streams /\ s.phase = "waiting" /\ s.buf = b
      /\ s.fed = w.stream[t].fed /\ s.old = w.stream[t].old
  BY <1>1, ZenonT(60) DEF Streams, Phases
<1>3. /\ DOMAIN x = Fields /\ x.track = w.track /\ x.msc = w.msc /\ x.refresh = w.refresh
      /\ x.ms = w.ms /\ x.orphans = w.orphans /\ x.stream = [w.stream EXCEPT ![t] = s]
  BY <1>1 DEF Fields
<1>4. createsBuffer(w, t, b) = IF readyToAppend(v) THEN appendsInit(v, t) ELSE v
  BY DEF createsBuffer, createSourceBuffer
<1> HIDE DEF s, x
<1>5. /\ DOMAIN y = Fields /\ y.track = w.track /\ y.refresh = w.refresh
      /\ y.orphans = w.orphans /\ y.stream = [w.stream EXCEPT ![t] = s]
      /\ y.ms = [w.ms EXCEPT !.attached = @ \cup {b}]
      /\ y.msc = [w.msc EXCEPT !.buffers = @ \cup {b}]
  BY <1>3 DEF Fields
<1> HIDE DEF y
<1>6. /\ y.ms \in MediaSources /\ y.ms.attached = w.ms.attached \cup {b}
      /\ y.ms.busy = w.ms.busy /\ y.ms.inited = {} /\ y.ms.state = "open"
      /\ y.ms.opening = w.ms.opening /\ y.ms.opened = w.ms.opened
      /\ y.ms.duration = w.ms.duration
  BY <1>1, <1>5 DEF MediaSources
<1>7. /\ y.msc \in Controllers /\ y.msc.buffers = w.msc.buffers \cup {b}
      /\ y.msc.active = w.msc.active /\ y.msc.typed = w.msc.typed
      /\ y.msc.durationSet = w.msc.durationSet
  BY <1>1, <1>5 DEF Controllers
<1>8. /\ y.stream \in [Types -> Streams]
      /\ y.stream[t].phase = "waiting" /\ y.stream[t].buf = b
      /\ y.stream[t].fed = w.stream[t].fed /\ y.stream[t].old = w.stream[t].old
      /\ \A u \in Types : u # t => y.stream[u] = w.stream[u]
  BY <1>1, <1>2, <1>5
<1>9. /\ \A o \in w.orphans : o.buf # b
      /\ \A u \in Types : w.stream[u].buf # b
      /\ w.stream[t].buf = 0 /\ b \notin w.ms.busy
  BY DEF Sound, Unchecked, Owned, Placed
<1>10. Typed(y, n)
  BY <1>5, <1>6, <1>7, <1>8 DEF Sound, Unchecked, Typed
<1>11. Owned(y)
  <2>1. \A u \in Types : y.stream[u].buf = 0 <=> y.stream[u].phase \in {"none", "empty"}
    BY <1>1, <1>8 DEF Sound, Unchecked, Owned
  <2>2. \A u, z \in Types : u # z /\ y.stream[u].buf = y.stream[z].buf => y.stream[u].buf = 0
    BY <1>8, <1>9 DEF Sound, Unchecked, Owned
  <2>3. \A o \in y.orphans : \A u \in Types : y.stream[u].buf # o.buf
    BY <1>5, <1>8, <1>9 DEF Sound, Unchecked, Owned
  <2>4. ASSUME NEW c \in Buffers
        PROVE  c \in y.msc.buffers <=> \/ \E o \in y.orphans : c = o.buf
                                       \/ \E u \in Types : c = y.stream[u].buf
    <3>1. c # 0
      BY MediaSourceAssumption
    <3>2. c \in w.msc.buffers <=> \/ \E o \in w.orphans : c = o.buf
                                  \/ \E u \in Types : c = w.stream[u].buf
      BY DEF Sound, Unchecked, Owned
    <3> QED BY <1>5, <1>7, <1>8, <1>9, <3>1, <3>2
  <2> QED BY <2>1, <2>2, <2>3, <2>4 DEF Owned
<1>12. Placed(y)
  <2>1. y.ms.attached \subseteq y.msc.buffers
    BY <1>6, <1>7 DEF Sound, Unchecked, Placed
  <2>2. \A c \in y.ms.busy : \E u \in Types : y.stream[u].phase = "busy" /\ y.stream[u].buf = c
    BY <1>6, <1>8 DEF Sound, Unchecked, Placed
  <2>3. \A u \in Types : y.stream[u].phase = "busy" => y.stream[u].buf \in y.ms.busy
    BY <1>6, <1>8 DEF Sound, Unchecked, Placed
  <2> QED BY <1>5, <1>6, <2>1, <2>2, <2>3 DEF Sound, Unchecked, Placed
<1>13. Running(y)
  BY <1>1, <1>5, <1>6, <1>7, <1>8 DEF Sound, Unchecked, Running
<1>14. Timed(y, n, r) /\ Quiet(y)
  BY <1>5, <1>6, <1>7 DEF Sound, Unchecked, Timed, Quiet
<1>15. Woken(y, n)
  BY <1>8 DEF Woken
<1>16. Begun(y)
  <2> SUFFICES ASSUME NEW u \in Types, Holds(y.stream[u]), y.stream[u].buf \in y.ms.attached
      PROVE  /\ y.msc.durationSet
             /\ \A z \in y.track.types :
                   y.stream[z].phase \notin {"empty", "waiting"} \/ y.stream[z].old
    BY DEF Begun
  <2>1. u # t
    BY <1>8 DEF Holds
  <2>2. Holds(w.stream[u]) /\ w.stream[u].buf \in w.ms.attached
    BY <2>1, <1>6, <1>8, <1>9
  <2>3. /\ w.msc.durationSet
        /\ \A z \in w.track.types :
              w.stream[z].phase \notin {"empty", "waiting"} \/ w.stream[z].old
    BY <2>2 DEF Sound, Unchecked, Begun
  <2>4. w.stream[t].old
    BY <1>1, <2>3
  <2> QED BY <1>1, <1>5, <1>7, <1>8, <2>3, <2>4
<1>17. Current(y, n)
  BY <1>5, <1>6, <1>7 DEF Sound, Unchecked, Current
<1>18. Blameless(y, f)
  <2>1. \A u \in Types : Holds(y.stream[u]) \/ y.stream[u].fed
                           => Holds(w.stream[u]) \/ w.stream[u].fed
    BY <1>8 DEF Holds
  <2> QED BY <1>5, <1>6, <1>7, <2>1 DEF Sound, Unchecked, Blameless
<1>19. Unchecked(y, n, r, f)
  BY <1>10, <1>11, <1>12, <1>13, <1>14, <1>15, <1>16, <1>17, <1>18 DEF Unchecked
<1>20. /\ Sound(v, n, r, f) /\ v.msc = y.msc
       /\ v.stream[t].phase = IF y.stream[t].phase = "waiting" /\ Ready(y, timeline)
                              THEN "woken" ELSE y.stream[t].phase
  BY <1>19, CheckReadySound
<1> HIDE DEF v
<1>21. readyToAppend(v) => v.stream[t].phase = "woken"
  BY <1>8, <1>20, ReadyIs DEF Ready
<1>22. readyToAppend(v) => Sound(appendsInit(v, t), n, r, f)
  BY <1>20, <1>21, AppendsInitSound
<1> QED BY <1>4, <1>20, <1>22

(* There is always a source buffer the browser has not handed out: there are   *)
(* more of them than streams.                                                  *)
LEMMA FreeBuffer ==
    ASSUME stream \in [Types -> Streams], orphans = {}, ms.attached \subseteq msc.buffers,
           \A b \in Buffers : b \in msc.buffers => \E t \in Types : b = stream[t].buf,
           msc.buffers \subseteq Buffers
    PROVE  Min(freeBuffer) \in Buffers \ msc.buffers
<1> DEFINE used == {stream[t].buf : t \in Types}
           g == [t \in Types |-> stream[t].buf]
<1>1. IsFiniteSet(used) /\ Cardinality(used) <= Cardinality(Types)
  <2>1. g \in Surjection(Types, used)
    BY DEF Surjection
  <2> HIDE DEF g, used
  <2> QED BY <2>1, FS_Surjection, MediaSourceAssumption
<1>2. freeBuffer = Buffers \ used
  BY DEF freeBuffer
<1>3. freeBuffer # {}
  <2> SUFFICES ASSUME Buffers \subseteq used PROVE FALSE
    BY <1>2
  <2>1. Cardinality(Buffers) <= Cardinality(used)
    BY <1>1, FS_Subset
  <2>2. /\ Cardinality(Buffers) \in Nat /\ Cardinality(used) \in Nat
        /\ Cardinality(Types) \in Nat
    BY <1>1, FS_CardinalityType, MediaSourceAssumption
  <2> HIDE DEF used
  <2> QED BY <1>1, <2>1, <2>2, MediaSourceAssumption
<1>4. freeBuffer \subseteq Nat
  BY <1>2, MediaSourceAssumption
<1>5. \E x \in freeBuffer : \A y \in freeBuffer : x <= y
  <2>1. PICK x \in freeBuffer : \A y \in freeBuffer : ~(<<y, x>> \in OpToRel(<, Nat))
    BY <1>3, <1>4, WFMin, NatLessThanWellFounded
  <2>2. \A y \in freeBuffer : ~(y < x)
    BY <1>4, <2>1 DEF OpToRel
  <2>3. ASSUME NEW y \in freeBuffer PROVE x <= y
    <3>1. x \in Nat /\ y \in Nat
      BY <1>4
    <3>2. ~(y < x)
      BY <2>2
    <3> QED BY <3>1, <3>2
  <2> QED BY <2>3
<1>6. Min(freeBuffer) \in freeBuffer
  BY <1>5 DEF Min
<1> QED BY <1>2, <1>6

------------------------------------------------------------------------------
\* Activation, deactivation and resets

(* The media source controller and the streams are off; the track may be going *)
(* either way.                                                                 *)
Off(w, n, r) ==
    /\ Typed(w, n) /\ Owned(w)
    /\ \A t \in Types : w.stream[t].phase = "none" /\ ~w.stream[t].fed
    /\ ~w.msc.active /\ ~w.msc.durationSet
    /\ w.refresh = noRefresh
    /\ w.ms.state = "closed" /\ ~w.ms.opening /\ w.ms.duration = 0
    /\ w.ms.attached = {} /\ w.ms.busy = {} /\ w.ms.inited = {}
    /\ w.track.applied <= r
    /\ w.track.types = IF w.track.applied = 0 THEN {} ELSE TypesOf[w.track.applied]

(* A track that is not active has nothing that is on.                          *)
LEMMA InactiveOff ==
    ASSUME NEW w, NEW n, NEW r, NEW f, Sound(w, n, r, f), ~w.track.active
    PROVE  Off(w, n, r)
<1>1. \A t \in Types : w.stream[t].phase = "none" /\ ~w.stream[t].fed
  BY DEF Sound, Unchecked, Running
<1>2. /\ ~w.msc.active /\ ~w.msc.durationSet /\ w.refresh = noRefresh
      /\ w.ms.state = "closed" /\ ~w.ms.opening
  BY DEF Sound, Unchecked, Running
<1>3. w.ms.attached = {} /\ w.ms.busy = {} /\ w.ms.inited = {}
  BY <1>2 DEF Sound, Unchecked, Placed
<1>4. w.ms.duration = 0
  BY <1>2 DEF Sound, Unchecked, Quiet
<1> QED BY <1>1, <1>2, <1>3, <1>4 DEF Sound, Unchecked, Timed, Off

(* A world that is off, with a track that is not active, is sound.             *)
LEMMA OffSound ==
    ASSUME NEW w, NEW n, NEW r, NEW f, Off(w, n, r), ~w.track.active
    PROVE  Sound(w, n, r, f)
<1> USE DEF Off
<1>1. w.refresh.phase = "none" /\ w.refresh.wait = {}
  BY DEF noRefresh
<1>2. Placed(w)
  BY <1>1 DEF Placed
<1>3. Running(w)
  <2>1. w.track.active \in BOOLEAN /\ w.msc.active \in BOOLEAN
    BY DEF Typed, Tracks, Controllers
  <2> QED BY <2>1 DEF Running
<1>4. Timed(w, n, r) /\ Quiet(w)
  BY <1>1 DEF Timed, Quiet
<1>5. Woken(w, n) /\ Waiters(w, n)
  BY DEF Woken, Waiters
<1>6. Begun(w)
  BY DEF Begun
<1>7. Current(w, n) /\ Blameless(w, f)
  BY <1>1 DEF Current, Blameless, Holds
<1> QED BY <1>2, <1>3, <1>4, <1>5, <1>6, <1>7 DEF Sound, Unchecked

(* onActivated (MseTrack.ts): a new media source and empty streams.            *)
LEMMA OnSound ==
    ASSUME NEW w, NEW n \in Timelines, NEW r, NEW f, Off(w, n, r), w.track.active
    PROVE  LET v == onActivated(w) IN
           /\ Sound(v, n, r, f) /\ v.track = w.track
           /\ ~v.msc.typed /\ v.refresh.phase = "timeline"
           /\ \A t \in Types : v.stream[t].phase \in {"none", "empty"}
<1> DEFINE v == onActivated(w)
           a == activateMediaSource(w)
<1>1. /\ DOMAIN w = Fields /\ w.stream \in [Types -> Streams] /\ w.msc \in Controllers
      /\ w.track.types \subseteq Types
  BY DEF Off, Typed, Tracks
<1>2. /\ DOMAIN a = Fields /\ a.track = w.track /\ a.orphans = w.orphans
      /\ a.ms = newMediaSource /\ a.refresh = newRefresh /\ a.stream = w.stream
      /\ a.msc = [w.msc EXCEPT !.active = TRUE, !.typed = FALSE]
  BY <1>1 DEF activateMediaSource, Fields
<1>3. v = activateStreams(a, w.track.types)
  BY DEF onActivated
<1> HIDE DEF a
<1>4. /\ DOMAIN v = Fields /\ v.track = w.track /\ v.orphans = w.orphans
      /\ v.ms = newMediaSource /\ v.refresh = newRefresh
      /\ v.msc = [w.msc EXCEPT !.active = TRUE, !.typed = FALSE]
      /\ v.stream = [t \in Types |-> IF t \in w.track.types
                                     THEN [w.stream[t] EXCEPT !.phase = "empty"]
                                     ELSE w.stream[t]]
  BY <1>2, <1>3 DEF activateStreams, Fields
<1> HIDE DEF v
<1>5. /\ v.ms \in MediaSources /\ v.ms.state = "closed" /\ v.ms.opening /\ v.ms.duration = 0
      /\ v.ms.attached = {} /\ v.ms.busy = {} /\ v.ms.inited = {}
  BY <1>4 DEF newMediaSource, MediaSources
<1>6. v.refresh \in Refreshes /\ v.refresh.phase = "timeline" /\ v.refresh.wait = {}
  BY <1>4 DEF newRefresh, Refreshes
<1>7. /\ v.msc \in Controllers /\ v.msc.active /\ ~v.msc.typed /\ ~v.msc.durationSet
      /\ v.msc.buffers = w.msc.buffers
  BY <1>1, <1>4 DEF Controllers, Off
<1>8. \A t \in Types : [w.stream[t] EXCEPT !.phase = "empty"] \in Streams
  BY <1>1 DEF Streams, Phases
<1>9. v.stream \in [Types -> Streams]
  BY <1>1, <1>4, <1>8
<1>10. \A t \in Types :
          /\ v.stream[t].phase = IF t \in w.track.types THEN "empty" ELSE "none"
          /\ v.stream[t].buf = 0 /\ ~v.stream[t].fed
  <2>1. \A t \in Types : w.stream[t].buf = 0 /\ w.stream[t].phase = "none" /\ ~w.stream[t].fed
    BY DEF Off, Owned
  <2> QED BY <1>1, <1>4, <2>1 DEF Streams
<1>11. Typed(v, n)
  BY <1>4, <1>5, <1>6, <1>7, <1>9 DEF Off, Typed
<1>12. Owned(v)
  BY <1>4, <1>7, <1>10 DEF Off, Owned
<1>13. Placed(v)
  BY <1>5, <1>6, <1>10 DEF Placed
<1>14. Running(v)
  <2>1. v.track.active = TRUE /\ v.msc.active = TRUE
    BY <1>4, <1>7, <1>11 DEF Typed, Tracks, Controllers
  <2> QED BY <1>4, <1>5, <1>10, <2>1 DEF Running
<1>15. Timed(v, n, r) /\ Quiet(v)
  BY <1>4, <1>5, <1>6, <1>7 DEF Off, Timed, Quiet
<1>16. Woken(v, n) /\ Waiters(v, n)
  BY <1>10 DEF Woken, Waiters
<1>17. Begun(v)
  BY <1>5 DEF Begun
<1>18. Current(v, n) /\ Blameless(v, f)
  BY <1>5, <1>6, <1>10 DEF Current, Blameless, Holds
<1>19. Sound(v, n, r, f)
  BY <1>11, <1>12, <1>13, <1>14, <1>15, <1>16, <1>17, <1>18 DEF Sound, Unchecked
<1> QED BY <1>4, <1>6, <1>7, <1>10, <1>19 DEF v

(* deactivate() of the streams (ContentStream.ts): their buffers are disposed, *)
(* or left to a continuation that will be rejected.                            *)
LEMMA DeactivateStreamsMeans ==
    ASSUME NEW w, NEW n, Typed(w, n), Owned(w), Running(w), w.track.active,
           \A t \in Types : w.stream[t].phase # "woken"
    PROVE  LET v == deactivateStreams(w) IN
           /\ Typed(v, n) /\ Owned(v)
           /\ v.track = w.track
           /\ v.msc.active = w.msc.active /\ v.msc.typed = w.msc.typed
           /\ v.msc.durationSet = w.msc.durationSet
           /\ \A t \in Types : v.stream[t].phase = "none" /\ ~v.stream[t].fed
<1> DEFINE leaving == {t \in w.track.types : w.stream[t].phase # "none"}
           gone(s) == [disposeController(s) EXCEPT !.fed = FALSE, !.ended = FALSE]
           new == {orphan(w.stream[t]) : t \in {u \in leaving : pending(w.stream[u]) # {}}}
           left == [w EXCEPT
               !.stream = [t \in Types |-> IF t \in leaving THEN gone(w.stream[t])
                                           ELSE w.stream[t]],
               !.orphans = @ \cup new]
           B == UNION {held(w.stream[t]) : t \in leaving}
           v == deactivateStreams(w)
<1>1. /\ DOMAIN w = Fields /\ w.stream \in [Types -> Streams] /\ w.msc \in Controllers
      /\ w.ms \in MediaSources /\ w.refresh \in Refreshes
      /\ w.track.types \subseteq Types
      /\ w.orphans \subseteq [buf : Buffers, phase : {"rejected"}]
  BY DEF Typed, Tracks
<1>2. v = disposeRef(left, B)
  BY DEF deactivateStreams
<1>3. \A t \in Types : t \in leaving <=> w.stream[t].phase # "none"
  BY <1>1 DEF Running
<1>4. \A t \in Types : /\ gone(w.stream[t]) \in Streams
                       /\ gone(w.stream[t]).phase = "none" /\ gone(w.stream[t]).buf = 0
                       /\ gone(w.stream[t]).fed = FALSE
  <2> SUFFICES ASSUME NEW s \in Streams
      PROVE  /\ gone(s) \in Streams
             /\ gone(s).phase = "none" /\ gone(s).buf = 0 /\ gone(s).fed = FALSE
    BY <1>1
  <2> DEFINE d == disposeController(s)
             g == [d EXCEPT !.fed = FALSE, !.ended = FALSE]
  <2>1. d \in Streams /\ d.phase = "none" /\ d.buf = 0
    BY DEF disposeController, Streams, Phases
  <2>2. gone(s) = g
    OBVIOUS
  <2> HIDE DEF d, gone
  <2>3. g \in Streams /\ g.phase = "none" /\ g.buf = 0 /\ g.fed = FALSE
    BY <2>1 DEF Streams
  <2> HIDE DEF g
  <2> QED BY <2>2, <2>3
<1>5. \A t \in Types : t \notin leaving => w.stream[t].buf = 0 /\ ~w.stream[t].fed
  BY <1>3 DEF Owned, Running
<1>6. \A t \in Types : w.stream[t].phase \in Phases /\ w.stream[t].buf \in Buffers \cup {0}
  BY <1>1 DEF Streams
<1>7. \A o \in new : \E t \in Types : /\ w.stream[t].phase = "waiting"
                                      /\ o = [buf |-> w.stream[t].buf, phase |-> "rejected"]
  BY <1>1, <1>6 DEF orphan, pending
<1>8. \A t \in Types : w.stream[t].phase = "waiting" =>
         [buf |-> w.stream[t].buf, phase |-> "rejected"] \in new
  <2> SUFFICES ASSUME NEW t \in Types, w.stream[t].phase = "waiting"
      PROVE  [buf |-> w.stream[t].buf, phase |-> "rejected"] \in new
    OBVIOUS
  <2>1. orphan(w.stream[t]) = [buf |-> w.stream[t].buf, phase |-> "rejected"]
    BY DEF orphan
  <2>2. t \in leaving /\ pending(w.stream[t]) # {}
    BY <1>3 DEF pending
  <2> QED BY <2>1, <2>2
<1>9. \A b : b \in B <=> \E t \in Types : Holds(w.stream[t]) /\ b = w.stream[t].buf
  BY <1>1, <1>3 DEF held, Holds
<1>10. /\ DOMAIN left = Fields /\ left.track = w.track /\ left.msc = w.msc
       /\ left.refresh = w.refresh /\ left.ms = w.ms
       /\ left.orphans = w.orphans \cup new
       /\ left.stream = [t \in Types |-> IF t \in leaving THEN gone(w.stream[t])
                                         ELSE w.stream[t]]
  BY <1>1 DEF Fields
<1> HIDE DEF left, B, new, gone, leaving, v
<1>11. \A t \in Types : left.stream[t].phase = "none" /\ left.stream[t].buf = 0
                        /\ ~left.stream[t].fed
  BY <1>3, <1>4, <1>5, <1>10
<1>12. left.stream \in [Types -> Streams]
  BY <1>1, <1>4, <1>10
<1>13. /\ DOMAIN v = Fields /\ v.track = w.track /\ v.orphans = w.orphans \cup new
       /\ v.stream = left.stream
       /\ v.msc = [w.msc EXCEPT !.buffers = @ \ B]
       /\ v.refresh = aborted(w.refresh, B)
  BY <1>2, <1>10 DEF disposeRef, Fields
<1>14. v.ms = IF w.ms.state = "closed" THEN w.ms ELSE detach(w.ms, B)
  BY <1>2, <1>10 DEF disposeRef, Fields
<1>15. v.ms \in MediaSources
  <2>1. detach(w.ms, B) \in MediaSources
    BY <1>1 DEF detach, MediaSources
  <2> QED BY <1>1, <1>14, <2>1
<1>16. v.refresh \in Refreshes
  BY <1>1, <1>13 DEF aborted, noRefresh, Refreshes
<1>17. /\ v.msc \in Controllers /\ v.msc.buffers = w.msc.buffers \ B
       /\ v.msc.active = w.msc.active /\ v.msc.typed = w.msc.typed
       /\ v.msc.durationSet = w.msc.durationSet
  BY <1>1, <1>13 DEF Controllers
<1>18. \A t \in Types : w.stream[t].phase = "waiting" => w.stream[t].buf \in Buffers
  BY <1>6 DEF Owned
<1>19. new \subseteq [buf : Buffers, phase : {"rejected"}]
  BY <1>7, <1>18
<1>20. Typed(v, n)
  BY <1>1, <1>12, <1>13, <1>15, <1>16, <1>17, <1>19 DEF Typed
<1>21. Owned(v)
  <2>1. ASSUME NEW b \in Buffers
        PROVE  b \in v.msc.buffers <=> \E o \in v.orphans : b = o.buf
    <3>1. b # 0
      BY MediaSourceAssumption
    <3>2. b \in w.msc.buffers <=> \/ \E o \in w.orphans : b = o.buf
                                  \/ \E t \in Types : b = w.stream[t].buf
      BY DEF Owned
    <3>3. ASSUME b \in v.msc.buffers PROVE \E o \in v.orphans : b = o.buf
      <4>1. b \in w.msc.buffers /\ b \notin B
        BY <1>17, <3>3
      <4>2. CASE \E o \in w.orphans : b = o.buf
        BY <1>13, <4>2
      <4>3. CASE \E t \in Types : b = w.stream[t].buf
        <5>1. PICK t \in Types : b = w.stream[t].buf
          BY <4>3
        <5>2. ~Holds(w.stream[t])
          BY <1>9, <4>1, <5>1
        <5>3. w.stream[t].phase = "waiting"
          BY <1>6, <3>1, <5>1, <5>2 DEF Owned, Holds, Phases
        <5>4. [buf |-> w.stream[t].buf, phase |-> "rejected"] \in v.orphans
          BY <1>8, <1>13, <5>3
        <5> QED BY <5>1, <5>4
      <4> QED BY <3>2, <4>1, <4>2, <4>3
    <3>4. ASSUME NEW o \in v.orphans, b = o.buf PROVE b \in v.msc.buffers
      <4>1. CASE o \in w.orphans
        <5>1. b \in w.msc.buffers
          BY <3>2, <3>4, <4>1
        <5>2. b \notin B
          BY <1>9, <3>4, <4>1 DEF Owned
        <5> QED BY <1>17, <5>1, <5>2
      <4>2. CASE o \in new
        <5>1. PICK t \in Types : w.stream[t].phase = "waiting" /\ b = w.stream[t].buf
          BY <1>7, <3>4, <4>2
        <5>2. b \in w.msc.buffers
          BY <3>2, <5>1
        <5>3. \A u \in Types : Holds(w.stream[u]) => w.stream[u].buf # b
          BY <3>1, <5>1 DEF Owned, Holds
        <5> QED BY <1>9, <1>17, <5>2, <5>3
      <4> QED BY <1>13, <4>1, <4>2
    <3> QED BY <3>3, <3>4
  <2>2. \A o \in v.orphans : o.buf # 0
    BY <1>20, MediaSourceAssumption DEF Typed
  <2>3. \A t \in Types : v.stream[t].buf = 0 /\ v.stream[t].phase = "none"
    BY <1>11, <1>13
  <2>4. \A b \in Buffers : b # 0
    BY MediaSourceAssumption
  <2> QED BY <2>1, <2>2, <2>3, <2>4 DEF Owned
<1>22. \A t \in Types : v.stream[t].phase = "none" /\ ~v.stream[t].fed
  BY <1>11, <1>13
<1> QED BY <1>13, <1>17, <1>20, <1>21, <1>22 DEF v

(* onDeactivated (MseTrack.ts) switches everything off.                        *)
LEMMA DeactivatedOff ==
    ASSUME NEW w, NEW n, NEW r, NEW f, Sound(w, n, r, f), w.track.active,
           \A t \in Types : w.stream[t].phase # "woken"
    PROVE  LET v == onDeactivated(w) IN Off(v, n, r) /\ v.track = w.track
<1> DEFINE d == deactivateStreams(w)
           x == [d EXCEPT !.ms = closed(@)]
           v == onDeactivated(w)
<1>1. /\ Typed(d, n) /\ Owned(d) /\ d.track = w.track
      /\ d.msc.active = w.msc.active
      /\ \A t \in Types : d.stream[t].phase = "none" /\ ~d.stream[t].fed
  <2>1. Typed(w, n) /\ Owned(w) /\ Running(w)
    BY DEF Sound, Unchecked
  <2> QED BY <2>1, DeactivateStreamsMeans
<1> HIDE DEF d
<1>2. w.msc.active
  BY DEF Sound, Unchecked, Running
<1>3. DOMAIN d = Fields /\ d.ms \in MediaSources /\ d.msc \in Controllers
  BY <1>1 DEF Typed
<1>4. /\ DOMAIN x = Fields /\ x.track = d.track /\ x.msc = d.msc /\ x.refresh = d.refresh
      /\ x.stream = d.stream /\ x.orphans = d.orphans /\ x.ms = closed(d.ms)
  BY <1>3 DEF Fields
<1>5. v = deactivateMediaSource(x)
  BY DEF onDeactivated, d
<1> HIDE DEF x, v
<1>6. /\ DOMAIN v = Fields /\ v.track = d.track /\ v.stream = d.stream
      /\ v.orphans = d.orphans /\ v.ms = closed(d.ms) /\ v.refresh = noRefresh
      /\ v.msc = [d.msc EXCEPT !.active = FALSE, !.durationSet = FALSE]
  BY <1>1, <1>2, <1>4, <1>5 DEF deactivateMediaSource, Fields
<1>7. /\ v.ms \in MediaSources
      /\ v.ms.state = "closed" /\ ~v.ms.opening /\ v.ms.duration = 0
      /\ v.ms.attached = {} /\ v.ms.busy = {} /\ v.ms.inited = {}
  BY <1>3, <1>6 DEF closed, MediaSources
<1>8. /\ v.msc \in Controllers /\ ~v.msc.active /\ ~v.msc.durationSet
      /\ v.msc.buffers = d.msc.buffers
  BY <1>3, <1>6 DEF Controllers
<1>9. v.refresh \in Refreshes
  BY <1>6 DEF noRefresh, Refreshes
<1>10. Typed(v, n)
  BY <1>1, <1>6, <1>7, <1>8, <1>9 DEF Typed
<1>11. Owned(v)
  BY <1>1, <1>6, <1>8 DEF Owned
<1>12. Off(v, n, r)
  BY <1>1, <1>6, <1>7, <1>8, <1>10, <1>11 DEF Sound, Unchecked, Timed, Off
<1> QED BY <1>1, <1>6, <1>12 DEF v

(* clearErrors (TrackBase.ts) only touches flags.                              *)
LEMMA ClearErrorsSound ==
    ASSUME NEW w, NEW n \in Timelines, NEW r, NEW f, Sound(w, n, r, f)
    PROVE  LET v == clearErrors(w) IN
           /\ Sound(v, n, r, f) /\ v.track = w.track /\ v.msc = w.msc
           /\ v.refresh = w.refresh
           /\ \A t \in Types : v.stream[t].phase = w.stream[t].phase
<1> DEFINE v == clearErrors(w)
<1>1. DOMAIN w = Fields /\ w.stream \in [Types -> Streams]
  BY DEF Sound, Unchecked, Typed
<1>2. /\ DOMAIN v = Fields /\ v.track = w.track /\ v.msc = w.msc
      /\ v.refresh = w.refresh /\ v.ms = w.ms /\ v.orphans = w.orphans
      /\ v.stream = [t \in Types |-> [w.stream[t] EXCEPT !.error = FALSE]]
  BY <1>1 DEF clearErrors, Fields
<1> HIDE DEF v
<1>3. \A t \in Types : LET s == [w.stream[t] EXCEPT !.error = FALSE] IN
         /\ s \in Streams /\ s.phase = w.stream[t].phase /\ s.buf = w.stream[t].buf
         /\ s.old = w.stream[t].old /\ s.fed = w.stream[t].fed
  BY <1>1 DEF Streams
<1>4. /\ v.stream \in [Types -> Streams]
      /\ \A t \in Types : /\ v.stream[t].phase = w.stream[t].phase
                          /\ v.stream[t].buf = w.stream[t].buf
                          /\ v.stream[t].old = w.stream[t].old
                          /\ v.stream[t].fed = w.stream[t].fed
  BY <1>2, <1>3, ZenonT(60)
<1>5. Sound(v, n, r, f)
  BY <1>2, <1>4, FlagsSound
<1> QED BY <1>2, <1>4, <1>5 DEF v

(* A hard reset (TrackBase.ts) leaves a new media source and empty streams.    *)
LEMMA HardResetSound ==
    ASSUME NEW w, NEW n \in Timelines, NEW r, NEW f, Sound(w, n, r, f),
           \A t \in Types : w.stream[t].phase # "woken"
    PROVE  LET v == hardReset(w) IN
           /\ Sound(v, n, r, f) /\ v.track = w.track
           /\ v.track.active => ~v.msc.typed
           /\ v.refresh.phase # "idle"
           /\ \A t \in Types : v.stream[t].phase \in {"none", "empty"}
<1> DEFINE a == IF w.track.active THEN onActivated(onDeactivated(w)) ELSE w
           v == hardReset(w)
<1>1. /\ Sound(a, n, r, f) /\ a.track = w.track
      /\ a.track.active => ~a.msc.typed
      /\ a.refresh.phase # "idle"
      /\ \A t \in Types : a.stream[t].phase \in {"none", "empty"}
  <2>1. CASE w.track.active
    <3> DEFINE d == onDeactivated(w)
               o == onActivated(d)
    <3>1. Off(d, n, r) /\ d.track = w.track
      BY <2>1, DeactivatedOff
    <3>2. d.track.active
      BY <2>1, <3>1
    <3> HIDE DEF d
    <3>3. /\ Sound(o, n, r, f) /\ o.track = d.track
          /\ ~o.msc.typed /\ o.refresh.phase = "timeline"
          /\ \A t \in Types : o.stream[t].phase \in {"none", "empty"}
      BY <3>1, <3>2, OnSound
    <3>4. a = o
      BY <2>1 DEF d
    <3> HIDE DEF a, o
    <3> QED BY <3>1, <3>3, <3>4
  <2>2. CASE ~w.track.active
    <3>1. a = w
      BY <2>2
    <3>2. w.refresh = noRefresh /\ \A t \in Types : w.stream[t].phase = "none"
      BY <2>2 DEF Sound, Unchecked, Running
    <3> HIDE DEF a
    <3> QED BY <2>2, <3>1, <3>2 DEF noRefresh
  <2> QED BY <2>1, <2>2
<1>2. v = clearErrors(a)
  BY DEF hardReset
<1> HIDE DEF a, v
<1>3. /\ Sound(v, n, r, f) /\ v.track = a.track /\ v.msc = a.msc /\ v.refresh = a.refresh
      /\ \A t \in Types : v.stream[t].phase = a.stream[t].phase
  BY <1>1, <1>2, ClearErrorsSound
<1> QED BY <1>1, <1>3 DEF v

(* Streams without a buffer are deleted without a trace.                       *)
LEMMA ClearStreamsMeans ==
    ASSUME NEW w, NEW n, Typed(w, n),
           \A t \in Types : w.stream[t].phase \in {"none", "empty"}
    PROVE  LET v == clearStreams(w) IN
           /\ DOMAIN v = Fields /\ v.track = w.track /\ v.orphans = w.orphans
           /\ v.refresh = w.refresh
           /\ v.stream = [t \in Types |-> noStream]
           /\ v.msc \in Controllers /\ v.msc.buffers = w.msc.buffers
           /\ v.msc.active = w.msc.active /\ v.msc.typed = w.msc.typed
           /\ v.msc.durationSet = w.msc.durationSet
           /\ v.ms \in MediaSources /\ v.ms.attached = w.ms.attached
           /\ v.ms.busy = w.ms.busy /\ v.ms.inited = w.ms.inited
           /\ v.ms.state = w.ms.state /\ v.ms.opening = w.ms.opening
           /\ v.ms.opened = w.ms.opened /\ v.ms.duration = w.ms.duration
<1> DEFINE leaving == {t \in w.track.types : w.stream[t].phase # "none"}
           gone(s) == [disposeController(s) EXCEPT !.fed = FALSE, !.ended = FALSE]
           new == {orphan(w.stream[t]) : t \in {u \in leaving : pending(w.stream[u]) # {}}}
           left == [w EXCEPT
               !.stream = [t \in Types |-> IF t \in leaving THEN gone(w.stream[t])
                                           ELSE w.stream[t]],
               !.orphans = @ \cup new]
           B == UNION {held(w.stream[t]) : t \in leaving}
           d == deactivateStreams(w)
           v == clearStreams(w)
<1>1. /\ DOMAIN w = Fields /\ w.msc \in Controllers
      /\ w.ms \in MediaSources /\ w.track.types \subseteq Types
  BY DEF Typed, Tracks
<1>2. d = disposeRef(left, B)
  BY DEF deactivateStreams
<1>3. new = {}
  BY <1>1 DEF pending
<1>4. B = {}
  BY <1>1 DEF held
<1>5. /\ DOMAIN left = Fields /\ left.track = w.track /\ left.msc = w.msc
      /\ left.refresh = w.refresh /\ left.ms = w.ms /\ left.orphans = w.orphans \cup new
  BY <1>1 DEF Fields
<1>6. v = [d EXCEPT !.stream = [t \in Types |-> noStream]]
  BY DEF clearStreams
<1> HIDE DEF left, B, new, d, v
<1>7. /\ DOMAIN d = Fields /\ d.track = w.track /\ d.orphans = w.orphans
      /\ d.msc = [w.msc EXCEPT !.buffers = @ \ {}]
      /\ d.refresh = aborted(w.refresh, {})
  BY <1>2, <1>3, <1>4, <1>5 DEF disposeRef, Fields
<1>8. d.ms = IF w.ms.state = "closed" THEN w.ms ELSE detach(w.ms, {})
  BY <1>2, <1>4, <1>5 DEF disposeRef, Fields
<1>9. /\ DOMAIN v = Fields /\ v.track = d.track /\ v.orphans = d.orphans
      /\ v.refresh = d.refresh /\ v.msc = d.msc /\ v.ms = d.ms
      /\ v.stream = [t \in Types |-> noStream]
  BY <1>6, <1>7 DEF Fields
<1>10. d.refresh = w.refresh
  BY <1>7 DEF aborted
<1>11. /\ d.msc \in Controllers /\ d.msc.buffers = w.msc.buffers
       /\ d.msc.active = w.msc.active /\ d.msc.typed = w.msc.typed
       /\ d.msc.durationSet = w.msc.durationSet
  BY <1>1, <1>7 DEF Controllers
<1>12. /\ d.ms \in MediaSources /\ d.ms.attached = w.ms.attached
       /\ d.ms.busy = w.ms.busy /\ d.ms.inited = w.ms.inited
       /\ d.ms.state = w.ms.state /\ d.ms.opening = w.ms.opening
       /\ d.ms.opened = w.ms.opened /\ d.ms.duration = w.ms.duration
  <2> DEFINE m == detach(w.ms, {})
  <2>1. /\ m \in MediaSources /\ m.attached = w.ms.attached
        /\ m.busy = w.ms.busy /\ m.inited = w.ms.inited
        /\ m.state = w.ms.state /\ m.opening = w.ms.opening
        /\ m.opened = w.ms.opened /\ m.duration = w.ms.duration
    BY <1>1 DEF detach, MediaSources
  <2> HIDE DEF m
  <2>2. d.ms = w.ms \/ d.ms = m
    BY <1>8 DEF m
  <2> QED BY <1>1, <2>1, <2>2
<1> QED BY <1>7, <1>9, <1>10, <1>11, <1>12 DEF v

(* The streams of the next content types take the place of empty ones.         *)
LEMMA NewTypesMeans ==
    ASSUME NEW w, NEW n \in Timelines, Typed(w, n),
           \A t \in Types : w.stream[t].phase \in {"none", "empty"},
           NEW types \in SUBSET Types, w.track.applied + 1 \in 0..n
    PROVE  LET v == [createStreams([clearStreams(w) EXCEPT !.track.types = types], types)
                     EXCEPT !.track.applied = @ + 1] IN
           /\ DOMAIN v = Fields /\ v.orphans = w.orphans /\ v.refresh = w.refresh
           /\ v.track \in Tracks(n) /\ v.track.active = w.track.active
           /\ v.track.types = types /\ v.track.applied = w.track.applied + 1
           /\ v.msc \in Controllers /\ v.msc.buffers = w.msc.buffers
           /\ v.msc.active = w.msc.active /\ v.msc.typed = w.msc.typed
           /\ v.msc.durationSet = w.msc.durationSet
           /\ v.ms \in MediaSources /\ v.ms.attached = w.ms.attached
           /\ v.ms.busy = w.ms.busy /\ v.ms.inited = w.ms.inited
           /\ v.ms.state = w.ms.state /\ v.ms.opening = w.ms.opening
           /\ v.ms.opened = w.ms.opened /\ v.ms.duration = w.ms.duration
           /\ v.stream \in [Types -> Streams]
           /\ \A t \in Types :
                 /\ v.stream[t].phase = IF w.track.active /\ t \in types THEN "empty" ELSE "none"
                 /\ v.stream[t].buf = 0 /\ ~v.stream[t].fed
<1> DEFINE c == clearStreams(w)
           x == [c EXCEPT !.track.types = types]
           y == createStreams(x, types)
           v == [y EXCEPT !.track.applied = @ + 1]
<1>1. w.track \in Tracks(n)
  BY DEF Typed
<1>2. /\ DOMAIN c = Fields /\ c.track = w.track /\ c.orphans = w.orphans
      /\ c.refresh = w.refresh
      /\ c.stream = [t \in Types |-> noStream]
      /\ c.msc \in Controllers /\ c.msc.buffers = w.msc.buffers
      /\ c.msc.active = w.msc.active /\ c.msc.typed = w.msc.typed
      /\ c.msc.durationSet = w.msc.durationSet
      /\ c.ms \in MediaSources /\ c.ms.attached = w.ms.attached
      /\ c.ms.busy = w.ms.busy /\ c.ms.inited = w.ms.inited
      /\ c.ms.state = w.ms.state /\ c.ms.opening = w.ms.opening
      /\ c.ms.opened = w.ms.opened /\ c.ms.duration = w.ms.duration
  BY ClearStreamsMeans
<1> HIDE DEF c
<1>4. /\ DOMAIN x = Fields /\ x.track = [w.track EXCEPT !.types = types]
      /\ x.orphans = c.orphans /\ x.refresh = c.refresh /\ x.msc = c.msc /\ x.ms = c.ms
      /\ x.stream = c.stream
  BY <1>2 DEF Fields
<1> HIDE DEF x
<1>5. x.track \in Tracks(n) /\ x.track.active = w.track.active /\ x.track.types = types
      /\ x.track.applied = w.track.applied
  BY <1>1, <1>4 DEF Tracks
<1>6. /\ DOMAIN y = Fields /\ y.track = x.track /\ y.orphans = x.orphans
      /\ y.refresh = x.refresh /\ y.msc = x.msc /\ y.ms = x.ms
      /\ y.stream = IF x.track.active
                    THEN [t \in Types |-> IF t \in types
                                          THEN [x.stream[t] EXCEPT !.phase = "empty"]
                                          ELSE x.stream[t]]
                    ELSE x.stream
  <2>1. CASE x.track.active
    <3>1. y = activateStreams(x, types)
      BY <2>1 DEF createStreams
    <3> HIDE DEF y
    <3> QED BY <1>4, <2>1, <3>1 DEF activateStreams, Fields
  <2>2. CASE ~x.track.active
    BY <1>4, <2>2 DEF createStreams
  <2> QED BY <2>1, <2>2
<1> HIDE DEF y
<1>7. /\ DOMAIN v = Fields /\ v.track = [y.track EXCEPT !.applied = @ + 1]
      /\ v.orphans = w.orphans /\ v.refresh = w.refresh /\ v.msc = c.msc /\ v.ms = c.ms
      /\ v.stream = y.stream
  BY <1>2, <1>4, <1>6 DEF Fields
<1> HIDE DEF v
<1>8. /\ v.track \in Tracks(n) /\ v.track.active = w.track.active /\ v.track.types = types
      /\ v.track.applied = w.track.applied + 1
  BY <1>5, <1>6, <1>7 DEF Tracks
<1>9. \A t \in Types : /\ noStream \in Streams /\ noStream.phase = "none"
                       /\ noStream.buf = 0 /\ ~noStream.fed
  BY DEF noStream, Streams, Phases
<1>10. LET s == [noStream EXCEPT !.phase = "empty"] IN
       Types # {} => s \in Streams /\ s.phase = "empty" /\ s.buf = 0 /\ ~s.fed
  BY DEF noStream, Streams, Phases
<1>11. /\ v.stream \in [Types -> Streams]
       /\ \A t \in Types :
             /\ v.stream[t].phase = IF w.track.active /\ t \in types THEN "empty" ELSE "none"
             /\ v.stream[t].buf = 0 /\ ~v.stream[t].fed
  BY <1>2, <1>4, <1>5, <1>6, <1>7, <1>9, <1>10
<1> QED BY <1>2, <1>4, <1>6, <1>7, <1>8, <1>11 DEF v, y, x, c

(* ... and the track is as sound as before.                                    *)
LEMMA NewTypesSound ==
    ASSUME NEW w, NEW n \in Timelines, NEW r \in 0..n, NEW f, Sound(w, n, r, f),
           \A t \in Types : w.stream[t].phase \in {"none", "empty"},
           w.track.active => ~w.msc.typed, w.refresh.phase # "idle",
           w.track.applied < r,
           NEW types, types = TypesOf[w.track.applied + 1],
           NEW v,
           /\ DOMAIN v = Fields /\ v.orphans = w.orphans /\ v.refresh = w.refresh
           /\ v.track \in Tracks(n) /\ v.track.active = w.track.active
           /\ v.track.types = types /\ v.track.applied = w.track.applied + 1
           /\ v.msc \in Controllers /\ v.msc.buffers = w.msc.buffers
           /\ v.msc.active = w.msc.active /\ v.msc.typed = w.msc.typed
           /\ v.msc.durationSet = w.msc.durationSet
           /\ v.ms \in MediaSources /\ v.ms.attached = w.ms.attached
           /\ v.ms.busy = w.ms.busy /\ v.ms.inited = w.ms.inited
           /\ v.ms.state = w.ms.state /\ v.ms.opening = w.ms.opening
           /\ v.ms.opened = w.ms.opened /\ v.ms.duration = w.ms.duration
           /\ v.stream \in [Types -> Streams]
           /\ \A t \in Types :
                 /\ v.stream[t].phase = IF w.track.active /\ t \in types THEN "empty" ELSE "none"
                 /\ v.stream[t].buf = 0 /\ ~v.stream[t].fed
    PROVE  Sound(v, n, r, f)
<1>1. /\ n \in Nat /\ w.track.applied \in Nat
      /\ w.orphans \subseteq [buf : Buffers, phase : {"rejected"}]
  BY TimelinesAreNumbers DEF Sound, Unchecked, Typed, Tracks
<1>12. Typed(v, n)
  BY DEF Sound, Unchecked, Typed
<1>13. Owned(v)
  <2>1. \A t \in Types : w.stream[t].buf = 0
    BY DEF Sound, Unchecked, Owned
  <2>2. \A o \in w.orphans : o.buf # 0
    BY <1>1, MediaSourceAssumption
  <2> QED BY <2>1, <2>2 DEF Sound, Unchecked, Owned
<1>14. Placed(v)
  <2>1. w.ms.busy = {} /\ w.ms.inited = {}
    BY DEF Sound, Unchecked, Placed, Holds
  <2> QED BY <2>1 DEF Sound, Unchecked, Placed
<1>15. Running(v)
  <2>1. w.track.active \in BOOLEAN
    BY <1>1 DEF Tracks
  <2> QED BY <2>1 DEF Sound, Unchecked, Running
<1>16. Timed(v, n, r)
  <2>1. w.track.applied + 1 <= r
    BY <1>1
  <2>2. w.track.applied + 1 # 0
    BY <1>1
  <2> QED BY <2>1, <2>2 DEF Timed
<1>17. Quiet(v)
  BY DEF Sound, Unchecked, Quiet
<1>18. Woken(v, n) /\ Waiters(v, n)
  BY DEF Woken, Waiters
<1>19. Begun(v)
  BY DEF Begun, Holds
<1>20. Current(v, n)
  BY DEF Sound, Unchecked, Current
<1>21. Blameless(v, f)
  BY DEF Sound, Unchecked, Blameless, Holds
<1> QED BY <1>12, <1>13, <1>14, <1>15, <1>16, <1>17, <1>18, <1>19, <1>20, <1>21
        DEF Sound, Unchecked

------------------------------------------------------------------------------
\* Every step preserves the inductive invariant

(* The fields of the world are the variables.                                  *)
LEMMA WorldIs ==
    /\ World.track = track /\ World.msc = msc /\ World.refresh = refresh
    /\ World.ms = ms /\ World.stream = stream /\ World.orphans = orphans
    /\ DOMAIN World = Fields
BY DEF World, Fields

(* The invariant that holds initially.                                         *)
LEMMA InitInductive == Init => Inductive
<1> SUFFICES ASSUME Init PROVE Inductive
  OBVIOUS
<1>1. /\ track = [active |-> FALSE, types |-> {}, applied |-> 0]
      /\ msc = [active |-> FALSE, typed |-> FALSE, durationSet |-> FALSE, buffers |-> {}]
      /\ refresh = noRefresh /\ orphans = {}
      /\ ms = [newMediaSource EXCEPT !.opening = FALSE]
      /\ stream = [t \in Types |-> noStream]
  BY DEF Init
<1>2. timeline \in Timelines /\ timeline = 1 /\ resolved = 0 /\ EnvInv
  BY TimelinesAreNumbers, MediaSourceAssumption DEF Init, EnvInv
<1>3. noStream \in Streams /\ noStream.phase = "none" /\ noStream.buf = 0 /\ ~noStream.fed
  BY DEF noStream, Streams, Phases
<1>4. /\ ms \in MediaSources /\ ms.state = "closed" /\ ~ms.opening /\ ms.duration = 0
      /\ ms.attached = {} /\ ms.busy = {} /\ ms.inited = {}
  BY <1>1 DEF newMediaSource, MediaSources
<1>5. refresh \in Refreshes
  BY <1>1 DEF noRefresh, Refreshes
<1>6. /\ msc \in Controllers /\ ~msc.active /\ ~msc.durationSet /\ msc.buffers = {}
  BY <1>1 DEF Controllers
<1>7. /\ track \in Tracks(timeline) /\ ~track.active /\ track.types = {} /\ track.applied = 0
  BY <1>1, <1>2 DEF Tracks
<1>8. stream \in [Types -> Streams]
  BY <1>1, <1>3
<1>9. \A t \in Types : stream[t].phase = "none" /\ stream[t].buf = 0 /\ ~stream[t].fed
  BY <1>1, <1>3
<1>10. Typed(World, timeline)
  BY <1>1, <1>4, <1>5, <1>6, <1>7, <1>8, WorldIs DEF Typed
<1>11. Owned(World)
  BY <1>1, <1>6, <1>9, WorldIs, MediaSourceAssumption DEF Owned
<1>12. Off(World, timeline, resolved)
  BY <1>1, <1>2, <1>4, <1>6, <1>7, <1>9, <1>10, <1>11, WorldIs DEF Off
<1>13. Sound(World, timeline, resolved, faults)
  BY <1>7, <1>12, OffSound, WorldIs
<1> QED BY <1>2, <1>13 DEF Inductive

(* Before a macrotask every microtask has run.                                 *)
LEMMA MicrotasksHaveRun ==
    ASSUME Inductive, ~MicrotaskPending
    PROVE  /\ orphans = {}
           /\ \A t \in Types : stream[t].phase # "woken"
           /\ track.applied = resolved
           /\ refresh.phase = "idle" => refresh.wait # {}
<1>1. track.applied <= resolved /\ track.applied \in Nat /\ resolved \in Nat
  <2>1. track \in Tracks(timeline) /\ timeline \in Nat /\ resolved \in Nat
    BY WorldIs, TimelinesAreNumbers DEF Inductive, EnvInv, Sound, Unchecked, Typed
  <2>2. track.applied <= resolved
    BY WorldIs DEF Inductive, Sound, Unchecked, Timed
  <2> QED BY <2>1, <2>2 DEF Tracks
<1> QED BY <1>1 DEF MicrotaskPending, woken

(* The content types of a timeline that has resolved reach the track.          *)
LEMMA TypesReachTrackStep ==
    ASSUME Inductive, TypesReachTrack PROVE Inductive'
<1> DEFINE w == World
           n == timeline
           types == TypesOf[track.applied + 1]
           u == IF w.track.types = {} THEN w ELSE hardReset(w)
           c == createStreams([clearStreams(u) EXCEPT !.track.types = types], types)
           v == [setContentTypes(w, types) EXCEPT !.track.applied = @ + 1]
<1>1. EnvInv' /\ Becomes(v) /\ timeline' = timeline /\ resolved' = resolved /\ faults' = faults
  BY WorldIs DEF TypesReachTrack, Inductive, EnvInv, env
<1>2. /\ n \in Timelines /\ resolved \in 0..n /\ n \in Nat
      /\ Sound(w, n, resolved, faults)
      /\ DOMAIN w = Fields /\ w.track \in Tracks(n) /\ w.track.applied \in Nat
      /\ w.track.applied = track.applied
      /\ w.track.applied < resolved /\ w.track.applied + 1 \in 0..n
      /\ types \in SUBSET Types
  <2>1. /\ n \in Timelines /\ resolved \in 0..n /\ n \in Nat
        /\ Sound(w, n, resolved, faults) /\ DOMAIN w = Fields /\ w.track = track
        /\ track.applied < resolved
    BY WorldIs, TimelinesAreNumbers DEF Inductive, EnvInv, TypesReachTrack
  <2>2. w.track \in Tracks(n)
    BY <2>1 DEF Sound, Unchecked, Typed
  <2> HIDE DEF w
  <2>3. w.track.applied \in Nat /\ w.track.applied + 1 \in 0..n
    BY <2>1, <2>2 DEF Tracks
  <2>4. track.applied + 1 \in Timelines
    BY <2>1, <2>3, TimelinesAreNumbers
  <2> QED BY <2>1, <2>2, <2>3, <2>4, TimelinesAreNumbers
<1> HIDE DEF w, types, v
<1>3. /\ w.track.active => ~w.msc.typed
      /\ w.refresh.phase # "idle"
      /\ \A t \in Types : w.stream[t].phase # "woken"
  <2>1. w.track.applied # n
    BY <1>2
  <2>2. (w.track.active => ~w.msc.typed) /\ w.refresh.phase # "idle"
    BY <1>2, <2>1 DEF Sound, Unchecked, Timed
  <2>3. w.msc.durationSet => w.track.active
    BY <1>2 DEF Sound, Unchecked, Running
  <2>4. ~Ready(w, n)
    BY <2>2, <2>3 DEF Ready
  <2> QED BY <1>2, <2>2, <2>4 DEF Sound, Unchecked, Woken
<1>4. CASE types = w.track.types
  <2>1. v = [w EXCEPT !.track.applied = @ + 1]
    BY <1>4 DEF v, setContentTypes
  <2>2. /\ DOMAIN v = Fields /\ v.msc = w.msc /\ v.refresh = w.refresh /\ v.ms = w.ms
        /\ v.stream = w.stream /\ v.orphans = w.orphans
        /\ v.track = [w.track EXCEPT !.applied = @ + 1]
    BY <1>2, <2>1 DEF Fields
  <2>3. /\ v.track \in Tracks(n) /\ v.track.active = w.track.active
        /\ v.track.types = w.track.types /\ v.track.applied = w.track.applied + 1
    BY <1>2, <2>2 DEF Tracks
  <2>4. Typed(v, n)
    BY <1>2, <2>2, <2>3 DEF Sound, Unchecked, Typed
  <2>5. Owned(v) /\ Placed(v) /\ Quiet(v)
    BY <1>2, <2>2 DEF Sound, Unchecked, Owned, Placed, Quiet
  <2>6. Running(v)
    BY <1>2, <2>2, <2>3 DEF Sound, Unchecked, Running
  <2>7. Timed(v, n, resolved)
    <3>1. w.track.applied + 1 <= resolved /\ w.track.applied + 1 # 0
      BY <1>2
    <3>2. v.track.types = TypesOf[v.track.applied]
      BY <1>2, <1>4, <2>3 DEF types
    <3> QED BY <1>3, <2>2, <2>3, <3>1, <3>2 DEF Timed
  <2>8. Woken(v, n) /\ Waiters(v, n)
    BY <1>2, <2>2 DEF Sound, Unchecked, Woken, Waiters, Ready
  <2>9. Begun(v)
    BY <1>2, <2>2, <2>3 DEF Sound, Unchecked, Begun
  <2>10. Current(v, n) /\ Blameless(v, faults)
    BY <1>2, <2>2 DEF Sound, Unchecked, Current, Blameless
  <2>11. Sound(v, n, resolved, faults)
    BY <2>4, <2>5, <2>6, <2>7, <2>8, <2>9, <2>10 DEF Sound, Unchecked
  <2> QED BY <1>1, <2>11, SoundBecomes
<1>5. CASE types # w.track.types
  <2>1. v = [c EXCEPT !.track.applied = @ + 1]
    BY <1>5 DEF v, setContentTypes
  <2>2. /\ Sound(u, n, resolved, faults) /\ u.track = w.track
        /\ u.track.active => ~u.msc.typed
        /\ u.refresh.phase # "idle"
        /\ \A t \in Types : u.stream[t].phase \in {"none", "empty"}
    <3>1. CASE w.track.types = {}
      <4>1. u = w
        BY <3>1
      <4>2. \A t \in Types : w.stream[t].phase = "none"
        BY <1>2, <3>1 DEF Sound, Unchecked, Running
      <4> HIDE DEF u
      <4> QED BY <1>2, <1>3, <4>1, <4>2
    <3>2. CASE w.track.types # {}
      <4>1. u = hardReset(w)
        BY <3>2
      <4> HIDE DEF u
      <4> QED BY <1>2, <1>3, <4>1, HardResetSound
    <3> QED BY <3>1, <3>2
  <2> HIDE DEF u
  <2>3. Typed(u, n)
    BY <2>2 DEF Sound, Unchecked
  <2>4. u.track.applied + 1 \in 0..n /\ u.track.applied < resolved
        /\ types = TypesOf[u.track.applied + 1]
    BY <1>2, <2>2 DEF types
  <2> DEFINE z == [c EXCEPT !.track.applied = @ + 1]
  <2>5. /\ DOMAIN z = Fields /\ z.orphans = u.orphans /\ z.refresh = u.refresh
        /\ z.track \in Tracks(n) /\ z.track.active = u.track.active
        /\ z.track.types = types /\ z.track.applied = u.track.applied + 1
        /\ z.msc \in Controllers /\ z.msc.buffers = u.msc.buffers
        /\ z.msc.active = u.msc.active /\ z.msc.typed = u.msc.typed
        /\ z.msc.durationSet = u.msc.durationSet
        /\ z.ms \in MediaSources /\ z.ms.attached = u.ms.attached
        /\ z.ms.busy = u.ms.busy /\ z.ms.inited = u.ms.inited
        /\ z.ms.state = u.ms.state /\ z.ms.opening = u.ms.opening
        /\ z.ms.opened = u.ms.opened /\ z.ms.duration = u.ms.duration
        /\ z.stream \in [Types -> Streams]
        /\ \A t \in Types :
              /\ z.stream[t].phase = IF u.track.active /\ t \in types THEN "empty" ELSE "none"
              /\ z.stream[t].buf = 0 /\ ~z.stream[t].fed
    <3>1. /\ n \in Timelines /\ types \in SUBSET Types /\ u.track.applied + 1 \in 0..n
          /\ \A t \in Types : u.stream[t].phase \in {"none", "empty"}
      BY <1>2, <2>2, <2>4
    <3> HIDE DEF u, types
    <3> QED BY <2>3, <3>1, NewTypesMeans
  <2> HIDE DEF c
  <2>6. v = z
    BY <2>1
  <2> HIDE DEF z
  <2> HIDE DEF types
  <2>7. Sound(z, n, resolved, faults)
    <3>1. /\ n \in Timelines /\ resolved \in 0..n /\ Sound(u, n, resolved, faults)
          /\ \A t \in Types : u.stream[t].phase \in {"none", "empty"}
          /\ u.track.active => ~u.msc.typed
          /\ u.refresh.phase # "idle" /\ u.track.applied < resolved
          /\ types = TypesOf[u.track.applied + 1]
      BY <1>2, <2>2, <2>4
    <3> HIDE DEF n
    <3> QED BY <2>5, <3>1, NewTypesSound, ZenonT(60)
  <2> QED BY <1>1, <2>6, <2>7, SoundBecomes
<1> QED BY <1>4, <1>5

(* ... and then the media source controller.                                   *)
LEMMA TypesReachMediaSourceStep ==
    ASSUME Inductive, TypesReachMediaSource PROVE Inductive'
<1> DEFINE w == World
           n == timeline
           x == [w EXCEPT !.msc.typed = TRUE]
           v == checkReady(x)
<1>1. EnvInv' /\ Becomes(v) /\ timeline' = timeline /\ resolved' = resolved /\ faults' = faults
  BY DEF TypesReachMediaSource, Inductive, EnvInv, env
<1>2. /\ n \in Timelines /\ Sound(w, n, resolved, faults)
      /\ ~w.msc.typed /\ w.track.applied = n /\ DOMAIN w = Fields /\ w.msc \in Controllers
  BY WorldIs DEF TypesReachMediaSource, Inductive, EnvInv, Sound, Unchecked, Typed
<1> HIDE DEF w
<1>3. /\ DOMAIN x = Fields /\ x.track = w.track /\ x.refresh = w.refresh /\ x.ms = w.ms
      /\ x.stream = w.stream /\ x.orphans = w.orphans
      /\ x.msc = [w.msc EXCEPT !.typed = TRUE]
  BY <1>2 DEF Fields
<1> HIDE DEF x
<1>4. /\ x.msc \in Controllers /\ x.msc.active = w.msc.active
      /\ x.msc.buffers = w.msc.buffers /\ x.msc.durationSet = w.msc.durationSet
  BY <1>2, <1>3 DEF Controllers
<1>5. Typed(x, n) /\ Owned(x)
  BY <1>2, <1>3, <1>4 DEF Sound, Unchecked, Typed, Owned
<1>6. Placed(x) /\ Quiet(x)
  BY <1>2, <1>3, <1>4 DEF Sound, Unchecked, Placed, Quiet
<1>7. Running(x)
  BY <1>2, <1>3, <1>4 DEF Sound, Unchecked, Running
<1>8. Timed(x, n, resolved)
  BY <1>2, <1>3 DEF Sound, Unchecked, Timed
<1>9. Woken(x, n)
  BY <1>2, <1>3 DEF Sound, Unchecked, Woken, Ready
<1>10. Begun(x)
  BY <1>2, <1>3, <1>4 DEF Sound, Unchecked, Begun
<1>11. Current(x, n) /\ Blameless(x, faults)
  BY <1>2, <1>3, <1>4 DEF Sound, Unchecked, Current, Blameless
<1>12. Unchecked(x, n, resolved, faults)
  BY <1>5, <1>6, <1>7, <1>8, <1>9, <1>10, <1>11 DEF Unchecked
<1>13. Sound(v, n, resolved, faults)
  BY <1>2, <1>12, CheckReadySound
<1> HIDE DEF v
<1> QED BY <1>1, <1>13, SoundBecomes

(* A refresh that is over leaves the world as it was, for Current.             *)
LEMMA RefreshOver ==
    ASSUME NEW w, NEW n \in Timelines, NEW r, NEW f, Sound(w, n, r, f),
           NEW p \in {"none", "failed"}, p = "failed" => w.msc.durationSet,
           p = "none" /\ w.msc.active /\ w.ms.state = "open" /\ ~w.ms.opened
               => w.ms.duration = DurationOf[n],
           w.track.active,
           NEW v, DOMAIN v = Fields, v.track = w.track, v.msc = w.msc, v.ms = w.ms,
           v.stream = w.stream, v.orphans = w.orphans,
           v.refresh = [phase |-> p, wait |-> {}]
    PROVE  Sound(v, n, r, f)
<1>1. v.refresh \in Refreshes /\ v.refresh.phase = p /\ v.refresh.wait = {}
  BY DEF Refreshes
<1>2. Typed(v, n) /\ Owned(v)
  BY <1>1 DEF Sound, Unchecked, Typed, Owned
<1>3. Placed(v)
  BY <1>1 DEF Sound, Unchecked, Placed
<1>4. Running(v)
  BY DEF Sound, Unchecked, Running
<1>5. Timed(v, n, r) /\ Quiet(v)
  BY <1>1 DEF Sound, Unchecked, Timed, Quiet
<1>6. Woken(v, n) /\ Waiters(v, n)
  BY DEF Sound, Unchecked, Woken, Waiters, Ready
<1>7. Begun(v)
  BY DEF Sound, Unchecked, Begun
<1>8. Current(v, n) /\ Blameless(v, f)
  BY <1>1 DEF Sound, Unchecked, Current, Blameless
<1> QED BY <1>2, <1>3, <1>4, <1>5, <1>6, <1>7, <1>8 DEF Sound, Unchecked

(* refreshDuration (MediaSourceController.ts) sets the duration.               *)
LEMMA RefreshSetsStep ==
    ASSUME Inductive, RefreshSets PROVE Inductive'
<1> DEFINE n == timeline
           w == [World EXCEPT !.refresh = noRefresh]
           d == [w EXCEPT !.ms.duration = DurationOf[timeline], !.msc.durationSet = TRUE]
           e == [w EXCEPT !.refresh.phase = "failed"]
           v == CASE ~setsDuration(w) -> w
                  [] setsDuration(w) /\ ms.busy = {} -> checkReady(d)
                  [] OTHER -> e
<1>1. EnvInv' /\ Becomes(v) /\ timeline' = timeline /\ resolved' = resolved /\ faults' = faults
  BY DEF RefreshSets, Inductive, EnvInv, env
<1>2. /\ n \in Timelines /\ Sound(World, n, resolved, faults)
      /\ refresh.phase = "idle" /\ refresh.wait = {}
      /\ DurationOf[n] \in Nat \ {0}
  BY TimelinesAreNumbers DEF RefreshSets, Inductive, EnvInv
<1>3. track.active /\ orphans = {} /\ msc.active
  <2>1. refresh # noRefresh
    BY <1>2 DEF noRefresh
  <2>2. track.active
    BY <1>2, <2>1, WorldIs DEF Sound, Unchecked, Running
  <2> QED BY <1>2, <2>2, WorldIs DEF Sound, Unchecked, Quiet, Running
<1>4. /\ DOMAIN w = Fields /\ w.track = track /\ w.msc = msc /\ w.ms = ms
      /\ w.stream = stream /\ w.orphans = orphans /\ w.refresh = [phase |-> "none", wait |-> {}]
  BY WorldIs DEF Fields, noRefresh
<1> HIDE DEF w
<1>5. CASE ~setsDuration(w)
  <2>1. v = w
    BY <1>5
  <2>2. ms.state = "open" => ms.duration = DurationOf[n]
    BY <1>4, <1>5 DEF setsDuration
  <2>3. Sound(w, n, resolved, faults)
    <3> DEFINE p == "none"
    <3>1. p \in {"none", "failed"} /\ p = "none" /\ w.refresh = [phase |-> p, wait |-> {}]
      BY <1>4
    <3> HIDE DEF p
    <3> QED BY <3>1, <1>2, <1>3, <1>4, <2>2, RefreshOver, WorldIs
  <2> HIDE DEF v
  <2> QED BY <1>1, <2>1, <2>3, SoundBecomes
<1>6. CASE setsDuration(w) /\ ms.busy # {}
  <2>1. v = e
    BY <1>6
  <2>2. PICK b \in ms.busy : TRUE
    BY <1>6
  <2>3. msc.durationSet
    <3>1. PICK t \in Types : stream[t].phase = "busy" /\ stream[t].buf = b
      BY <1>2, <2>2, WorldIs DEF Sound, Unchecked, Placed
    <3>2. b \in ms.attached
      BY <1>2, <2>2, WorldIs DEF Sound, Unchecked, Placed
    <3> QED BY <1>2, <3>1, <3>2, WorldIs DEF Sound, Unchecked, Begun, Holds
  <2>4. /\ DOMAIN e = Fields /\ e.track = track /\ e.msc = msc /\ e.ms = ms
        /\ e.stream = stream /\ e.orphans = orphans
        /\ e.refresh = [phase |-> "failed", wait |-> {}]
    BY <1>4 DEF Fields
  <2> HIDE DEF e
  <2>5. Sound(e, n, resolved, faults)
    <3> DEFINE p == "failed"
    <3>1. p \in {"none", "failed"} /\ p # "none" /\ e.refresh = [phase |-> p, wait |-> {}]
      BY <2>4
    <3> HIDE DEF p
    <3> QED BY <3>1, <1>2, <1>3, <2>3, <2>4, RefreshOver, WorldIs
  <2> HIDE DEF v
  <2> QED BY <1>1, <2>1, <2>5, SoundBecomes
<1>7. CASE setsDuration(w) /\ ms.busy = {}
  <2>1. v = checkReady(d)
    BY <1>7
  <2>2. /\ DOMAIN d = Fields /\ d.track = track /\ d.refresh = [phase |-> "none", wait |-> {}]
        /\ d.stream = stream /\ d.orphans = orphans
        /\ d.ms = [ms EXCEPT !.duration = DurationOf[n]]
        /\ d.msc = [msc EXCEPT !.durationSet = TRUE]
    BY <1>4 DEF Fields
  <2> HIDE DEF d
  <2>3. ms \in MediaSources /\ msc \in Controllers
    BY <1>2, WorldIs DEF Sound, Unchecked, Typed
  <2>4. /\ d.ms \in MediaSources /\ d.ms.duration = DurationOf[n]
        /\ d.ms.attached = ms.attached /\ d.ms.busy = ms.busy /\ d.ms.inited = ms.inited
        /\ d.ms.state = ms.state /\ d.ms.opening = ms.opening /\ d.ms.opened = ms.opened
    BY <1>2, <2>2, <2>3 DEF MediaSources
  <2>5. /\ d.msc \in Controllers /\ d.msc.durationSet
        /\ d.msc.active = msc.active /\ d.msc.typed = msc.typed /\ d.msc.buffers = msc.buffers
    BY <2>2, <2>3 DEF Controllers
  <2>6. d.refresh \in Refreshes /\ d.refresh.phase = "none" /\ d.refresh.wait = {}
    BY <2>2 DEF Refreshes
  <2>7. Typed(d, n) /\ Owned(d)
    BY <1>2, <2>2, <2>4, <2>5, <2>6, WorldIs DEF Sound, Unchecked, Typed, Owned
  <2>8. Placed(d)
    BY <1>2, <1>7, <2>2, <2>4, <2>5, <2>6, WorldIs DEF Sound, Unchecked, Placed
  <2>9. Running(d)
    BY <1>2, <1>3, <2>2, <2>4, <2>5, WorldIs DEF Sound, Unchecked, Running
  <2>10. Timed(d, n, resolved)
    BY <1>2, <2>2, <2>5, <2>6, WorldIs DEF Sound, Unchecked, Timed
  <2>11. Quiet(d)
    BY <1>2, <1>3, <2>2, <2>4, <2>5 DEF Quiet
  <2>12. Woken(d, n)
    BY <1>2, <2>2, <2>5, WorldIs DEF Sound, Unchecked, Woken, Ready
  <2>13. Begun(d)
    BY <1>2, <2>2, <2>4, <2>5, WorldIs DEF Sound, Unchecked, Begun
  <2>14. Current(d, n) /\ Blameless(d, faults)
    BY <2>4, <2>5, <2>6 DEF Current, Blameless
  <2>15. Unchecked(d, n, resolved, faults)
    BY <2>7, <2>8, <2>9, <2>10, <2>11, <2>12, <2>13, <2>14 DEF Unchecked
  <2>16. Sound(checkReady(d), n, resolved, faults)
    BY <1>2, <2>15, CheckReadySound
  <2> HIDE DEF v
  <2> QED BY <1>1, <2>1, <2>16, SoundBecomes
<1> QED BY <1>5, <1>6, <1>7

(* A woken stream appends its initialization segment.                          *)
LEMMA ContinueStep ==
    ASSUME Inductive, NEW t \in Types, Continue(t) PROVE Inductive'
<1>1. /\ EnvInv' /\ Becomes(appendsInit(World, t))
      /\ timeline' = timeline /\ resolved' = resolved /\ faults' = faults
  BY DEF Continue, Inductive, EnvInv, env
<1>2. World.stream[t].phase = "woken"
  BY WorldIs DEF Continue
<1>3. Sound(appendsInit(World, t), timeline, resolved, faults)
  BY <1>2, AppendsInitSound DEF Inductive, EnvInv
<1> QED BY <1>1, <1>3, SoundBecomes

(* A rejected continuation disposes its buffer.                                *)
LEMMA OrphanStep ==
    ASSUME Inductive, OrphanContinues PROVE Inductive'
<1>1. PICK o \in orphans :
         /\ Becomes(LET w == [World EXCEPT !.orphans = @ \ {o}]
                    IN IF o.phase = "rejected" THEN disposeRef(w, {o.buf}) ELSE w)
         /\ UNCHANGED env
  BY DEF OrphanContinues
<1> DEFINE v == disposeRef([World EXCEPT !.orphans = @ \ {o}], {o.buf})
<1>2. o.phase = "rejected" /\ Sound(v, timeline, resolved, faults)
  <2>1. o \in World.orphans
    BY WorldIs
  <2>2. timeline \in Timelines /\ Sound(World, timeline, resolved, faults)
    BY DEF Inductive, EnvInv
  <2> QED BY <2>1, <2>2, OrphanSound
<1>3. Becomes(v)
  BY <1>1, <1>2
<1>4. EnvInv' /\ timeline' = timeline /\ resolved' = resolved /\ faults' = faults
  BY <1>1 DEF Inductive, EnvInv, env
<1> HIDE DEF v
<1> QED BY <1>2, <1>3, <1>4, SoundBecomes

(* The media timeline changes: readyToAppend is off until its types are known. *)
LEMMA TimelineChangesStep ==
    ASSUME Inductive, TimelineChanges PROVE Inductive'
<1> DEFINE n == timeline
           m == timeline + 1
           v == [World EXCEPT
                   !.refresh = IF msc.active THEN newRefresh ELSE noRefresh,
                   !.msc.typed = IF msc.active THEN FALSE ELSE @,
                   !.stream = [t \in Types |->
                                 [stream[t] EXCEPT !.reopen = stream[t].phase # "none"]]]
<1>1. /\ Becomes(v) /\ timeline' = m /\ resolved' = resolved /\ faults' = faults
      /\ changeType' = changeType /\ calls' = calls
  BY DEF TimelineChanges
<1>2. /\ n \in Timelines /\ m \in Timelines /\ n \in Nat /\ resolved \in 0..n
      /\ Sound(World, n, resolved, faults)
  BY TimelinesAreNumbers DEF TimelineChanges, Inductive, EnvInv
<1>3. EnvInv'
  BY <1>1, <1>2 DEF Inductive, EnvInv
<1>4. /\ orphans = {} /\ \A t \in Types : stream[t].phase # "woken"
  BY MicrotasksHaveRun DEF TimelineChanges
<1>5. /\ msc \in Controllers /\ stream \in [Types -> Streams] /\ track \in Tracks(n)
  BY <1>2, WorldIs DEF Sound, Unchecked, Typed
<1>6. /\ DOMAIN v = Fields /\ v.track = track /\ v.ms = ms /\ v.orphans = orphans
  BY WorldIs DEF Fields
<1>6a. /\ v.refresh = IF msc.active THEN newRefresh ELSE noRefresh
      /\ v.msc = [msc EXCEPT !.typed = IF msc.active THEN FALSE ELSE @]
      /\ v.stream = [t \in Types |-> [stream[t] EXCEPT !.reopen = stream[t].phase # "none"]]
  BY WorldIs DEF Fields
<1> HIDE DEF v
<1>7. /\ v.msc \in Controllers /\ v.msc.active = msc.active
      /\ v.msc.active => ~v.msc.typed
      /\ v.msc.buffers = msc.buffers /\ v.msc.durationSet = msc.durationSet
  BY <1>5, <1>6a DEF Controllers
<1>8. /\ v.refresh \in Refreshes /\ v.refresh.wait = {}
      /\ v.refresh.phase = IF msc.active THEN "timeline" ELSE "none"
      /\ ~msc.active => v.refresh = noRefresh
  BY <1>6a DEF newRefresh, noRefresh, Refreshes
<1>9. /\ v.stream \in [Types -> Streams]
      /\ \A t \in Types : /\ v.stream[t].phase = stream[t].phase
                          /\ v.stream[t].buf = stream[t].buf
                          /\ v.stream[t].old = stream[t].old
                          /\ v.stream[t].fed = stream[t].fed
  <2>1. \A t \in Types : [stream[t] EXCEPT !.reopen = stream[t].phase # "none"] \in Streams
    BY <1>5 DEF Streams
  <2> QED BY <1>5, <1>6a, <2>1 DEF Streams
<1>10. track \in Tracks(m) /\ track.applied # m
  BY <1>2, <1>5 DEF Tracks
<1>11. Typed(v, m)
  BY <1>2, <1>6, <1>7, <1>8, <1>9, <1>10, WorldIs DEF Sound, Unchecked, Typed
<1>12. Owned(v)
  BY <1>2, <1>6, <1>7, <1>9, WorldIs DEF Sound, Unchecked, Owned
<1>13. Placed(v)
  <2>1. \A t \in Types : Holds(v.stream[t]) <=> Holds(stream[t])
    BY <1>9 DEF Holds
  <2> QED BY <1>2, <1>6, <1>7, <1>8, <1>9, <2>1, WorldIs DEF Sound, Unchecked, Placed
<1>14. Running(v)
  BY <1>2, <1>6, <1>7, <1>8, <1>9, WorldIs DEF Sound, Unchecked, Running
<1>15. Timed(v, m, resolved)
  BY <1>2, <1>6, <1>7, <1>8, WorldIs DEF Sound, Unchecked, Timed, Running
<1>16. Quiet(v)
  BY <1>2, <1>6, <1>7, <1>8, WorldIs DEF Sound, Unchecked, Quiet
<1>17. ~Ready(v, m)
  <2>1. msc.durationSet => msc.active
    BY <1>2, WorldIs DEF Sound, Unchecked, Running
  <2> QED BY <1>7, <2>1 DEF Ready
<1>18. Woken(v, m) /\ Waiters(v, m)
  BY <1>4, <1>9, <1>17 DEF Woken, Waiters
<1>19. Begun(v)
  <2>1. track.types \subseteq Types
    BY <1>5 DEF Tracks
  <2> QED BY <1>2, <1>6, <1>7, <1>9, <2>1, WorldIs DEF Sound, Unchecked, Begun, Holds
<1>20. Current(v, m)
  BY <1>7, <1>8 DEF Current
<1>21. Blameless(v, faults)
  BY <1>2, <1>6, <1>7, <1>8, <1>9, WorldIs DEF Sound, Unchecked, Blameless, Holds
<1>22. Sound(v, m, resolved, faults)
  BY <1>11, <1>12, <1>13, <1>14, <1>15, <1>16, <1>18, <1>19, <1>20, <1>21
     DEF Sound, Unchecked
<1> QED BY <1>1, <1>3, <1>22, SoundBecomes

(* A promise of the timeline resolves.                                         *)
LEMMA TimelineResolvesStep ==
    ASSUME Inductive, TimelineResolves PROVE Inductive'
<1> DEFINE v == World
           n == timeline
           r == resolved + 1
<1>1. /\ Becomes(v) /\ timeline' = n /\ resolved' = r /\ faults' = faults
      /\ changeType' = changeType /\ calls' = calls
  BY WorldIs DEF TimelineResolves, Becomes
<1>2. /\ n \in Timelines /\ n \in Nat /\ resolved \in 0..n /\ r \in 0..n
      /\ Sound(v, n, resolved, faults)
  BY TimelinesAreNumbers DEF TimelineResolves, Inductive, EnvInv
<1>3. EnvInv'
  BY <1>1, <1>2 DEF Inductive, EnvInv
<1> HIDE DEF v
<1>4. Timed(v, n, r)
  <2>1. v.track.applied \in Nat
    BY <1>2 DEF Sound, Unchecked, Typed, Tracks
  <2>2. Timed(v, n, resolved)
    BY <1>2 DEF Sound, Unchecked
  <2>3. v.track.applied <= r
    BY <1>2, <2>1, <2>2 DEF Timed
  <2> QED BY <2>2, <2>3 DEF Timed
<1>5. Sound(v, n, r, faults)
  BY <1>2, <1>4 DEF Sound, Unchecked
<1> QED BY <1>1, <1>3, <1>5, SoundBecomes

(* refreshDuration looks which buffers are updating.                           *)
LEMMA RefreshWaitsStep ==
    ASSUME Inductive, RefreshWaits PROVE Inductive'
<1> DEFINE n == timeline
           i == [phase |-> "idle", wait |-> ms.busy \cap msc.buffers]
           v == [World EXCEPT !.refresh = i]
<1>1. /\ n \in Timelines /\ Sound(World, n, resolved, faults)
      /\ refresh.phase = "timeline" /\ resolved = n /\ refresh' = i
  BY DEF RefreshWaits, Inductive, EnvInv
<1>2. orphans = {} /\ track.applied = n
  BY <1>1, MicrotasksHaveRun DEF RefreshWaits
<1>3. /\ DOMAIN v = Fields /\ v.track = track /\ v.msc = msc /\ v.ms = ms
      /\ v.stream = stream /\ v.orphans = orphans /\ v.refresh = i
  BY WorldIs DEF Fields
<1> HIDE DEF v
<1>4. /\ EnvInv' /\ Becomes(v)
      /\ timeline' = timeline /\ resolved' = resolved /\ faults' = faults
  <2>1. UNCHANGED <<env, track, msc, ms, stream, orphans>>
    BY DEF RefreshWaits
  <2>2. Becomes(v)
    BY <1>1, <1>3, <2>1 DEF Becomes
  <2> QED BY <2>1, <2>2 DEF Inductive, EnvInv, env
<1>5. msc \in Controllers /\ ms \in MediaSources
  BY <1>1, WorldIs DEF Sound, Unchecked, Typed
<1>6. i \in Refreshes /\ i.phase = "idle" /\ i.wait \subseteq ms.busy
  BY <1>5 DEF Refreshes, Controllers
<1> HIDE DEF i
<1>7. track.active
  <2>1. refresh # noRefresh
    BY <1>1 DEF noRefresh
  <2> QED BY <1>1, <2>1, WorldIs DEF Sound, Unchecked, Running
<1>8. Typed(v, n) /\ Owned(v)
  BY <1>1, <1>3, <1>6, WorldIs DEF Sound, Unchecked, Typed, Owned
<1>9. Placed(v)
  BY <1>1, <1>3, <1>6, WorldIs DEF Sound, Unchecked, Placed
<1>10. Running(v)
  BY <1>1, <1>3, <1>7, WorldIs DEF Sound, Unchecked, Running
<1>11. Timed(v, n, resolved) /\ Quiet(v)
  BY <1>1, <1>2, <1>3, WorldIs DEF Sound, Unchecked, Timed, Quiet
<1>12. Woken(v, n) /\ Waiters(v, n) /\ Begun(v)
  BY <1>1, <1>3, WorldIs DEF Sound, Unchecked, Woken, Waiters, Ready, Begun
<1>13. Current(v, n) /\ Blameless(v, faults)
  BY <1>1, <1>3, <1>6, WorldIs DEF Sound, Unchecked, Current, Blameless
<1>14. Sound(v, n, resolved, faults)
  BY <1>8, <1>9, <1>10, <1>11, <1>12, <1>13 DEF Sound, Unchecked
<1> QED BY <1>4, <1>14, SoundBecomes

(* The browser opens the media source.                                         *)
LEMMA SourceOpensStep ==
    ASSUME Inductive, SourceOpens PROVE Inductive'
<1> DEFINE n == timeline
           m == [ms EXCEPT !.state = "open", !.opening = FALSE, !.opened = TRUE]
           v == [World EXCEPT !.ms = m]
<1>1. n \in Timelines /\ Sound(World, n, resolved, faults) /\ ms.opening /\ ms' = m
  BY DEF SourceOpens, Inductive, EnvInv
<1>2. /\ DOMAIN v = Fields /\ v.track = track /\ v.msc = msc /\ v.refresh = refresh
      /\ v.stream = stream /\ v.orphans = orphans /\ v.ms = m
  BY WorldIs DEF Fields
<1> HIDE DEF v
<1>3. /\ EnvInv' /\ Becomes(v)
      /\ timeline' = timeline /\ resolved' = resolved /\ faults' = faults
  <2>1. UNCHANGED <<env, track, msc, refresh, stream, orphans>>
    BY DEF SourceOpens
  <2>2. Becomes(v)
    BY <1>1, <1>2, <2>1 DEF Becomes
  <2> QED BY <2>1, <2>2 DEF Inductive, EnvInv, env
<1>4. ms \in MediaSources
  BY <1>1, WorldIs DEF Sound, Unchecked, Typed
<1>5. /\ m \in MediaSources /\ m.state = "open" /\ m.opened
      /\ m.attached = ms.attached /\ m.busy = ms.busy /\ m.inited = ms.inited
      /\ m.duration = ms.duration
  BY <1>4 DEF MediaSources
<1> HIDE DEF m
<1>6. track.active
  BY <1>1, WorldIs DEF Sound, Unchecked, Running
<1>7. Typed(v, n) /\ Owned(v)
  BY <1>1, <1>2, <1>5, WorldIs DEF Sound, Unchecked, Typed, Owned
<1>8. Placed(v)
  BY <1>1, <1>2, <1>5, WorldIs DEF Sound, Unchecked, Placed
<1>9. Running(v)
  BY <1>1, <1>2, <1>5, <1>6, WorldIs DEF Sound, Unchecked, Running
<1>10. Timed(v, n, resolved) /\ Quiet(v)
  BY <1>1, <1>2, <1>5, WorldIs DEF Sound, Unchecked, Timed, Quiet
<1>11. Woken(v, n) /\ Waiters(v, n)
  BY <1>1, <1>2, WorldIs DEF Sound, Unchecked, Woken, Waiters, Ready
<1>12. Begun(v)
  BY <1>1, <1>2, <1>5, WorldIs DEF Sound, Unchecked, Begun
<1>13. Current(v, n) /\ Blameless(v, faults)
  BY <1>1, <1>2, <1>5, WorldIs DEF Sound, Unchecked, Current, Blameless
<1>14. Sound(v, n, resolved, faults)
  BY <1>7, <1>8, <1>9, <1>10, <1>11, <1>12, <1>13 DEF Sound, Unchecked
<1> QED BY <1>3, <1>14, SoundBecomes

(* The 'sourceopen' event begins a refresh of the duration.                    *)
LEMMA SourceOpenEventStep ==
    ASSUME Inductive, SourceOpenEvent PROVE Inductive'
<1> DEFINE n == timeline
           m == [ms EXCEPT !.opened = FALSE]
           f == IF msc.active THEN newRefresh ELSE refresh
           v == [World EXCEPT !.ms = m, !.refresh = f]
<1>1. n \in Timelines /\ Sound(World, n, resolved, faults) /\ ms' = m /\ refresh' = f
  BY DEF SourceOpenEvent, Inductive, EnvInv
<1>2. /\ DOMAIN v = Fields /\ v.track = track /\ v.msc = msc /\ v.refresh = f
      /\ v.stream = stream /\ v.orphans = orphans /\ v.ms = m
  BY WorldIs DEF Fields
<1> HIDE DEF v
<1>3. /\ EnvInv' /\ Becomes(v)
      /\ timeline' = timeline /\ resolved' = resolved /\ faults' = faults
  <2>1. UNCHANGED <<env, track, msc, stream, orphans>>
    BY DEF SourceOpenEvent
  <2>2. Becomes(v)
    BY <1>1, <1>2, <2>1 DEF Becomes
  <2> QED BY <2>1, <2>2 DEF Inductive, EnvInv, env
<1>4. ms \in MediaSources /\ refresh \in Refreshes
  BY <1>1, WorldIs DEF Sound, Unchecked, Typed
<1>5. /\ m \in MediaSources /\ m.state = ms.state /\ m.opening = ms.opening
      /\ m.attached = ms.attached /\ m.busy = ms.busy /\ m.inited = ms.inited
      /\ m.duration = ms.duration
  BY <1>4 DEF MediaSources
<1>6. /\ f \in Refreshes
      /\ msc.active => f.phase = "timeline" /\ f.wait = {}
      /\ ~msc.active => f = refresh
  BY <1>4 DEF newRefresh, Refreshes
<1> HIDE DEF m, f
<1>7. Typed(v, n) /\ Owned(v)
  BY <1>1, <1>2, <1>5, <1>6, WorldIs DEF Sound, Unchecked, Typed, Owned
<1>8. Placed(v)
  BY <1>1, <1>2, <1>5, <1>6, WorldIs DEF Sound, Unchecked, Placed
<1>9. Running(v)
  BY <1>1, <1>2, <1>5, <1>6, WorldIs DEF Sound, Unchecked, Running
<1>10. Timed(v, n, resolved) /\ Quiet(v)
  BY <1>1, <1>2, <1>5, <1>6, WorldIs DEF Sound, Unchecked, Timed, Quiet
<1>11. Woken(v, n) /\ Waiters(v, n)
  BY <1>1, <1>2, WorldIs DEF Sound, Unchecked, Woken, Waiters, Ready
<1>12. Begun(v)
  BY <1>1, <1>2, <1>5, WorldIs DEF Sound, Unchecked, Begun
<1>13. Current(v, n) /\ Blameless(v, faults)
  BY <1>1, <1>2, <1>5, <1>6, WorldIs DEF Sound, Unchecked, Current, Blameless
<1>14. Sound(v, n, resolved, faults)
  BY <1>7, <1>8, <1>9, <1>10, <1>11, <1>12, <1>13 DEF Sound, Unchecked
<1> QED BY <1>3, <1>14, SoundBecomes

(* The browser closes the media source, to open it again.                      *)
LEMMA SourceClosesStep ==
    ASSUME Inductive, SourceCloses PROVE Inductive'
<1> DEFINE n == timeline
           c == closed(ms)
           m == [c EXCEPT !.opening = TRUE]
           v == [World EXCEPT
                   !.ms = [closed(@) EXCEPT !.opening = TRUE],
                   !.msc.durationSet = FALSE,
                   !.refresh = noRefresh,
                   !.stream = [t \in Types |->
                       IF stream[t].phase = "busy"
                       THEN [stream[t] EXCEPT !.phase = "idle", !.op = "none"] ELSE stream[t]]]
<1>1. /\ Becomes(v) /\ timeline' = n /\ resolved' = resolved /\ faults' = faults + 1
      /\ changeType' = changeType /\ calls' = calls /\ faults < MaxFaults /\ msc.active
  BY DEF SourceCloses
<1>2. n \in Timelines /\ Sound(World, n, resolved, faults) /\ faults \in Nat
  BY DEF Inductive, EnvInv
<1>3. EnvInv' /\ faults' # 0
  BY <1>1, MediaSourceAssumption DEF Inductive, EnvInv
<1>4. /\ \A t \in Types : stream[t].phase # "woken"
  BY MicrotasksHaveRun DEF SourceCloses
<1>5. msc \in Controllers /\ ms \in MediaSources /\ stream \in [Types -> Streams]
  BY <1>2, WorldIs DEF Sound, Unchecked, Typed
<1>6. /\ DOMAIN v = Fields /\ v.track = track /\ v.orphans = orphans
  BY WorldIs DEF Fields
<1>6a. v.refresh = noRefresh
  BY WorldIs DEF Fields
<1>6b. v.msc = [msc EXCEPT !.durationSet = FALSE]
  BY WorldIs DEF Fields
<1>6c. v.stream = [t \in Types |->
                       IF stream[t].phase = "busy"
                       THEN [stream[t] EXCEPT !.phase = "idle", !.op = "none"] ELSE stream[t]]
  BY WorldIs DEF Fields
<1>7. v.ms = m
  BY WorldIs DEF Fields
<1> HIDE DEF v
<1>8. /\ v.msc \in Controllers /\ v.msc.active = msc.active /\ v.msc.typed = msc.typed
      /\ v.msc.buffers = msc.buffers /\ ~v.msc.durationSet
  BY <1>5, <1>6b DEF Controllers
<1>9. /\ v.ms \in MediaSources /\ v.ms.state = "closed" /\ v.ms.opening /\ v.ms.duration = 0
      /\ v.ms.attached = {} /\ v.ms.busy = {} /\ v.ms.inited = {}
  <2>1. /\ c \in MediaSources /\ c.state = "closed" /\ c.duration = 0
        /\ c.attached = {} /\ c.busy = {} /\ c.inited = {}
    BY <1>5 DEF closed, MediaSources
  <2> HIDE DEF c
  <2> QED BY <1>7, <2>1 DEF MediaSources
<1>10. v.refresh \in Refreshes /\ v.refresh.phase = "none" /\ v.refresh.wait = {}
  BY <1>6a DEF noRefresh, Refreshes
<1>11. /\ v.stream \in [Types -> Streams]
       /\ \A t \in Types :
             /\ v.stream[t].phase = IF stream[t].phase = "busy" THEN "idle" ELSE stream[t].phase
             /\ v.stream[t].buf = stream[t].buf /\ v.stream[t].fed = stream[t].fed
  <2> DEFINE next(t) == IF stream[t].phase = "busy"
                        THEN [stream[t] EXCEPT !.phase = "idle", !.op = "none"] ELSE stream[t]
  <2>2. \A t \in Types :
           /\ next(t) \in Streams
           /\ next(t).phase = IF stream[t].phase = "busy" THEN "idle" ELSE stream[t].phase
           /\ next(t).buf = stream[t].buf /\ next(t).fed = stream[t].fed
    <3> TAKE t \in Types
    <3>1. stream[t] \in Streams
      BY <1>5
    <3>2. CASE stream[t].phase = "busy"
      <4>1. next(t) = [stream[t] EXCEPT !.phase = "idle", !.op = "none"]
        BY <3>2
      <4> HIDE DEF next
      <4> QED BY <3>1, <3>2, <4>1 DEF Streams, Phases
    <3>3. CASE stream[t].phase # "busy"
      BY <3>1, <3>3
    <3> QED BY <3>2, <3>3
  <2>3. v.stream = [t \in Types |-> next(t)]
    BY <1>6c
  <2> HIDE DEF next
  <2> QED BY <2>2, <2>3
<1>12. Typed(v, n)
  BY <1>2, <1>6, <1>8, <1>9, <1>10, <1>11, WorldIs DEF Sound, Unchecked, Typed
<1>13. Owned(v)
  <2>1. \A t \in Types : v.stream[t].phase \in {"none", "empty"} <=>
                         stream[t].phase \in {"none", "empty"}
    BY <1>11
  <2> QED BY <1>2, <1>6, <1>8, <1>11, <2>1, WorldIs DEF Sound, Unchecked, Owned
<1>14. Placed(v)
  BY <1>9, <1>10, <1>11 DEF Placed
<1>15. Running(v)
  <2>1. track.active
    BY <1>1, <1>2, WorldIs DEF Sound, Unchecked, Running
  <2> QED BY <1>2, <1>6, <1>8, <1>9, <1>11, <2>1, WorldIs DEF Sound, Unchecked, Running
<1>16. Timed(v, n, resolved)
  BY <1>2, <1>6, <1>8, <1>10, WorldIs DEF Sound, Unchecked, Timed
<1>17. Quiet(v)
  BY <1>8, <1>9, <1>10 DEF Quiet
<1>18. Woken(v, n) /\ Waiters(v, n)
  BY <1>4, <1>8, <1>11 DEF Woken, Waiters, Ready
<1>19. Begun(v)
  BY <1>9 DEF Begun
<1>20. Current(v, n) /\ Blameless(v, faults')
  BY <1>3, <1>9, <1>10 DEF Current, Blameless
<1>21. Sound(v, n, resolved, faults')
  BY <1>12, <1>13, <1>14, <1>15, <1>16, <1>17, <1>18, <1>19, <1>20 DEF Sound, Unchecked
<1> QED BY <1>1, <1>3, <1>21, SoundBecomes

(* A stream of which only flags change.                                        *)
LEMMA StreamFlagsSound ==
    ASSUME NEW w, NEW n \in Timelines, NEW r, NEW f, Sound(w, n, r, f), NEW t \in Types,
           NEW s \in Streams, s.phase = w.stream[t].phase, s.buf = w.stream[t].buf,
           s.old = w.stream[t].old, s.fed => w.stream[t].fed
    PROVE  LET v == [w EXCEPT !.stream[t] = s] IN
           /\ Sound(v, n, r, f)
           /\ DOMAIN v = Fields /\ v.track = w.track /\ v.msc = w.msc
           /\ v.refresh = w.refresh /\ v.ms = w.ms /\ v.orphans = w.orphans
           /\ v.stream = [w.stream EXCEPT ![t] = s]
<1> DEFINE v == [w EXCEPT !.stream[t] = s]
<1>1. DOMAIN w = Fields /\ w.stream \in [Types -> Streams]
  BY DEF Sound, Unchecked, Typed
<1>2. /\ DOMAIN v = Fields /\ v.track = w.track /\ v.msc = w.msc
      /\ v.refresh = w.refresh /\ v.ms = w.ms /\ v.orphans = w.orphans
      /\ v.stream = [w.stream EXCEPT ![t] = s]
  BY <1>1 DEF Fields
<1> HIDE DEF v
<1>3. /\ v.stream \in [Types -> Streams]
      /\ \A u \in Types : v.stream[u] = IF u = t THEN s ELSE w.stream[u]
  BY <1>1, <1>2
<1>4. \A u \in Types : /\ v.stream[u].phase = w.stream[u].phase
                       /\ v.stream[u].buf = w.stream[u].buf
                       /\ v.stream[u].old = w.stream[u].old
                       /\ v.stream[u].fed => w.stream[u].fed
  BY <1>3
<1>5. Sound(v, n, r, f)
  <2>1. /\ DOMAIN v = Fields /\ v.track = w.track /\ v.msc = w.msc
        /\ v.refresh = w.refresh /\ v.ms = w.ms /\ v.orphans = w.orphans
        /\ v.stream \in [Types -> Streams]
    BY <1>2, <1>3
  <2> QED BY <1>4, <2>1, FlagsSound
<1> QED BY <1>2, <1>5 DEF v

(* An error only stops the stream.                                             *)
LEMMA FailsSound ==
    ASSUME NEW w, NEW n \in Timelines, NEW r, NEW f, Sound(w, n, r, f), NEW t \in Types
    PROVE  Sound(fails(w, t), n, r, f)
<1> DEFINE s == [w.stream[t] EXCEPT !.error = TRUE]
           v == [w EXCEPT !.stream[t] = s]
<1>1. DOMAIN w = Fields /\ w.stream \in [Types -> Streams]
  BY DEF Sound, Unchecked, Typed
<1>2. fails(w, t) = v
  BY <1>1 DEF fails
<1>3. /\ s \in Streams /\ s.phase = w.stream[t].phase /\ s.buf = w.stream[t].buf
      /\ s.old = w.stream[t].old /\ s.fed = w.stream[t].fed
  BY <1>1 DEF Streams
<1> HIDE DEF s
<1>4. Sound(v, n, r, f)
  BY <1>3, StreamFlagsSound
<1> QED BY <1>2, <1>4

(* appendInit (SourceBufferController.ts).                                     *)
LEMMA AppendInitStep ==
    ASSUME Inductive, NEW t \in Types, NEW newType \in BOOLEAN, AppendInit(t, newType)
    PROVE  Inductive'
<1> DEFINE n == timeline
           s == [World.stream[t] EXCEPT !.reopen = FALSE]
           w == [World EXCEPT !.stream[t].reopen = FALSE]
           gone == held(stream[t])
           d == disposeRef(w, gone)
           x == [d.stream[t] EXCEPT !.phase = "empty", !.buf = 0, !.old = TRUE]
           left == IF gone = {} THEN w
                   ELSE [disposeRef(w, gone) EXCEPT
                            !.stream[t] = [@ EXCEPT !.phase = "empty", !.buf = 0, !.old = TRUE]]
           v == IF stream[t].phase = "idle" /\ (~newType \/ changeType) THEN appendsInit(w, t)
                ELSE IF newType /\ canAddBuffer(left.ms)
                THEN createsBuffer(left, t, Min(freeBuffer))
                ELSE fails(left, t)
<1>1. Becomes(v) /\ UNCHANGED env
  BY DEF AppendInit
<1>2. EnvInv' /\ timeline' = timeline /\ resolved' = resolved /\ faults' = faults
  BY <1>1 DEF Inductive, EnvInv, env
<1>3. /\ n \in Timelines /\ Sound(World, n, resolved, faults)
      /\ orphans = {} /\ \A u \in Types : stream[u].phase # "woken"
      /\ stream[t].phase \in {"empty", "idle"}
  BY MicrotasksHaveRun DEF AppendInit, Inductive, EnvInv, ready
<1>4. /\ stream \in [Types -> Streams] /\ stream[t] \in Streams
      /\ DOMAIN World = Fields /\ msc \in Controllers
  BY <1>3, WorldIs DEF Sound, Unchecked, Typed
<1>5. /\ s \in Streams /\ s.phase = stream[t].phase /\ s.buf = stream[t].buf
      /\ s.old = stream[t].old /\ s.fed = stream[t].fed
  BY <1>4, WorldIs DEF Streams
<1>6. w = [World EXCEPT !.stream[t] = s]
  BY <1>4, WorldIs
<1> HIDE DEF s, w
<1>7. /\ Sound(w, n, resolved, faults)
      /\ DOMAIN w = Fields /\ w.track = track /\ w.msc = msc
      /\ w.refresh = refresh /\ w.ms = ms /\ w.orphans = orphans
      /\ w.stream = [stream EXCEPT ![t] = s]
  <2> DEFINE z == [World EXCEPT !.stream[t] = s]
  <2>1. /\ Sound(z, n, resolved, faults)
        /\ DOMAIN z = Fields /\ z.track = World.track /\ z.msc = World.msc
        /\ z.refresh = World.refresh /\ z.ms = World.ms /\ z.orphans = World.orphans
        /\ z.stream = [World.stream EXCEPT ![t] = s]
    BY <1>3, <1>5, StreamFlagsSound, WorldIs
  <2> HIDE DEF z
  <2>2. w = z
    BY <1>6 DEF z
  <2> QED BY <2>1, <2>2, WorldIs
<1>8. w.stream[t] = s /\ \A u \in Types : u # t => w.stream[u] = stream[u]
  BY <1>4, <1>7
<1>9. \A u \in Types : w.stream[u].phase # "woken"
  BY <1>3, <1>5, <1>8
<1>10. /\ Sound(left, n, resolved, faults)
       /\ left.stream[t].phase = "empty"
       /\ left.msc.buffers \subseteq msc.buffers
       /\ \A u \in Types : left.stream[u].phase # "woken"
  <2>1. CASE stream[t].phase = "empty"
    <3>1. left = w
      BY <2>1 DEF held
    <3> HIDE DEF left
    <3> QED BY <1>5, <1>7, <1>8, <1>9, <2>1, <3>1
  <2>2. CASE stream[t].phase = "idle"
    <3> DEFINE b == w.stream[t].buf
    <3>1. gone = {b} /\ b # 0 /\ w.stream[t].phase = "idle" /\ w.stream[t].fed = s.fed
      BY <1>3, <1>5, <1>8, <2>2, WorldIs DEF held, Sound, Unchecked, Owned
    <3>2. b \notin w.ms.busy /\ b \notin w.refresh.wait
      BY <1>7, <3>1 DEF Sound, Unchecked, Placed, Owned
    <3>3. w.ms.state = "closed" => w.ms.attached = {} /\ w.ms.busy = {} /\ w.ms.inited = {}
      BY <1>7 DEF Sound, Unchecked, Placed
    <3> HIDE DEF gone
    <3>4. /\ DOMAIN d = Fields /\ d.track = w.track /\ d.stream = w.stream
          /\ d.orphans = w.orphans /\ d.refresh = w.refresh
          /\ d.msc \in Controllers /\ d.msc.buffers = w.msc.buffers \ {b}
          /\ d.msc.active = w.msc.active /\ d.msc.typed = w.msc.typed
          /\ d.msc.durationSet = w.msc.durationSet
          /\ d.ms \in MediaSources /\ d.ms.attached = w.ms.attached \ {b}
          /\ d.ms.busy = w.ms.busy \ {b} /\ d.ms.inited = w.ms.inited \ {b}
          /\ d.ms.state = w.ms.state /\ d.ms.opening = w.ms.opening
          /\ d.ms.opened = w.ms.opened /\ d.ms.duration = w.ms.duration
      <4> DEFINE e == disposeRef(w, {b})
      <4>1. Typed(w, n)
        BY <1>7 DEF Sound, Unchecked
      <4>2. /\ DOMAIN e = Fields /\ e.track = w.track /\ e.stream = w.stream
            /\ e.orphans = w.orphans /\ e.refresh = w.refresh
            /\ e.msc \in Controllers /\ e.msc.buffers = w.msc.buffers \ {b}
            /\ e.msc.active = w.msc.active /\ e.msc.typed = w.msc.typed
            /\ e.msc.durationSet = w.msc.durationSet
            /\ e.ms \in MediaSources /\ e.ms.attached = w.ms.attached \ {b}
            /\ e.ms.busy = w.ms.busy \ {b} /\ e.ms.inited = w.ms.inited \ {b}
            /\ e.ms.state = w.ms.state /\ e.ms.opening = w.ms.opening
            /\ e.ms.opened = w.ms.opened /\ e.ms.duration = w.ms.duration
        BY <3>2, <3>3, <4>1, DisposeRefMeans
      <4>3. d = e
        BY <3>1
      <4> HIDE DEF d, e
      <4> QED BY <4>2, <4>3
    <3>5. left = [d EXCEPT !.stream[t] = [@ EXCEPT !.phase = "empty", !.buf = 0, !.old = TRUE]]
      BY <3>1
    <3> HIDE DEF left, d
    <3>6. d.stream[t] \in Streams
      BY <1>5, <1>8, <3>4
    <3>7. /\ x \in Streams /\ x.phase = "empty" /\ x.buf = 0 /\ x.old
          /\ x.fed = w.stream[t].fed
      BY <3>4, <3>6 DEF Streams, Phases
    <3>8. left = [d EXCEPT !.stream[t] = x]
      BY <3>5
    <3> HIDE DEF x
    <3>9. /\ DOMAIN left = Fields /\ left.track = d.track /\ left.msc = d.msc
          /\ left.refresh = d.refresh /\ left.ms = d.ms /\ left.orphans = d.orphans
          /\ left.stream = [d.stream EXCEPT ![t] = x]
      BY <3>4, <3>8 DEF Fields
    <3>10. w.stream \in [Types -> Streams]
      BY <1>7 DEF Sound, Unchecked, Typed
    <3>11. /\ left.stream \in [Types -> Streams] /\ left.stream[t] = x
           /\ \A u \in Types : u # t => left.stream[u] = w.stream[u]
      BY <3>4, <3>7, <3>9, <3>10
    <3>12. /\ DOMAIN left = Fields /\ left.track = w.track /\ left.refresh = w.refresh
           /\ left.orphans = w.orphans
           /\ left.msc \in Controllers /\ left.msc.buffers = w.msc.buffers \ {b}
           /\ left.msc.active = w.msc.active /\ left.msc.typed = w.msc.typed
           /\ left.msc.durationSet = w.msc.durationSet
           /\ left.ms \in MediaSources /\ left.ms.attached = w.ms.attached \ {b}
           /\ left.ms.busy = w.ms.busy \ {b} /\ left.ms.inited = w.ms.inited \ {b}
           /\ left.ms.state = w.ms.state /\ left.ms.opening = w.ms.opening
           /\ left.ms.opened = w.ms.opened /\ left.ms.duration = w.ms.duration
      BY <3>4, <3>9
    <3>13. /\ left.stream \in [Types -> Streams]
           /\ left.stream[t].phase = "empty" /\ left.stream[t].buf = 0
           /\ left.stream[t].fed = w.stream[t].fed /\ left.stream[t].old
           /\ \A u \in Types : u # t => left.stream[u] = w.stream[u]
      BY <3>7, <3>11
    <3>14. Sound(left, n, resolved, faults)
      <4>1. /\ b = w.stream[t].buf /\ w.stream[t].phase \in {"idle", "waiting"}
            /\ w.stream[t].phase = "idle" \/ w.stream[t].old => left.stream[t].old
        BY <3>1, <3>13
      <4>2. n \in Timelines /\ Sound(w, n, resolved, faults)
        BY <1>3, <1>7
      <4> HIDE DEF b
      <4> QED BY <1>9, <3>12, <3>13, <4>1, <4>2, LeavesSound
    <3> QED BY <1>7, <1>9, <3>12, <3>13, <3>14
  <2> QED BY <1>3, <2>1, <2>2
<1> HIDE DEF left
<1>11. CASE stream[t].phase = "idle" /\ (~newType \/ changeType)
  <2>1. v = appendsInit(w, t)
    BY <1>11
  <2>2. Sound(appendsInit(w, t), n, resolved, faults)
    <3>1. w.stream[t].phase \in {"idle", "woken"}
      BY <1>5, <1>8, <1>11
    <3> QED BY <1>3, <1>7, <3>1, AppendsInitSound
  <2> HIDE DEF v
  <2> QED BY <1>1, <1>2, <2>1, <2>2, SoundBecomes
<1>12. CASE /\ ~(stream[t].phase = "idle" /\ (~newType \/ changeType))
            /\ newType /\ canAddBuffer(left.ms)
  <2> DEFINE b == Min(freeBuffer)
  <2>1. v = createsBuffer(left, t, b)
    BY <1>12
  <2>2. b \in Buffers \ msc.buffers
    <3>1. ms.attached \subseteq msc.buffers
      BY <1>3, WorldIs DEF Sound, Unchecked, Placed
    <3>2. \A c \in Buffers : c \in msc.buffers => \E u \in Types : c = stream[u].buf
      BY <1>3, WorldIs DEF Sound, Unchecked, Owned
    <3>3. msc.buffers \subseteq Buffers
      BY <1>4 DEF Controllers
    <3> QED BY <1>3, <1>4, <3>1, <3>2, <3>3, FreeBuffer
  <2> HIDE DEF b
  <2>3. left.ms.state = "open" /\ left.ms.inited = {}
    BY <1>12 DEF canAddBuffer
  <2>4. b \in Buffers /\ b \notin left.msc.buffers
    BY <1>10, <2>2
  <2>5. Sound(createsBuffer(left, t, b), n, resolved, faults)
    BY <1>3, <1>10, <2>3, <2>4, CreatesBufferSound
  <2> HIDE DEF v
  <2> QED BY <1>1, <1>2, <2>1, <2>5, SoundBecomes
<1>13. CASE /\ ~(stream[t].phase = "idle" /\ (~newType \/ changeType))
            /\ ~(newType /\ canAddBuffer(left.ms))
  <2>1. v = fails(left, t)
    BY <1>13
  <2>2. Sound(fails(left, t), n, resolved, faults)
    BY <1>3, <1>10, FailsSound
  <2> HIDE DEF v
  <2> QED BY <1>1, <1>2, <2>1, <2>2, SoundBecomes
<1> QED BY <1>11, <1>12, <1>13

(* An append or a removal begins in a stream that holds its buffer.            *)
LEMMA BeginsSound ==
    ASSUME NEW w, NEW n \in Timelines, NEW r, NEW f, Sound(w, n, r, f),
           NEW t \in Types, w.stream[t].phase = "idle", w.stream[t].buf \in w.ms.attached,
           NEW op \in {"media", "clear"}
    PROVE  Sound([w EXCEPT !.ms = updating(@, w.stream[t].buf),
                           !.stream[t] = [@ EXCEPT !.phase = "busy", !.op = op]], n, r, f)
<1> DEFINE b == w.stream[t].buf
           m == updating(w.ms, b)
           s == [w.stream[t] EXCEPT !.phase = "busy", !.op = op]
           v == [w EXCEPT !.ms = updating(@, b),
                          !.stream[t] = [@ EXCEPT !.phase = "busy", !.op = op]]
<1>1. DOMAIN w = Fields /\ w.stream \in [Types -> Streams] /\ w.stream[t] \in Streams
  BY DEF Sound, Unchecked, Typed
<1>2. /\ s \in Streams /\ s.phase = "busy" /\ s.buf = b /\ s.fed = w.stream[t].fed
  BY <1>1 DEF Streams, Phases
<1>3. v = [w EXCEPT !.ms = m, !.stream[t] = s]
  BY <1>1 DEF Fields
<1> HIDE DEF v, s, m
<1>4. /\ DOMAIN v = Fields /\ v.track = w.track /\ v.msc = w.msc
      /\ v.refresh = w.refresh /\ v.orphans = w.orphans /\ v.ms = m
      /\ v.stream = [w.stream EXCEPT ![t] = s]
  BY <1>1, <1>3 DEF Fields
<1>5. /\ v.stream \in [Types -> Streams] /\ v.stream[t] = s
      /\ \A u \in Types : u # t => v.stream[u] = w.stream[u]
  BY <1>1, <1>2, <1>4
<1>6. v.ms = updating(w.ms, w.stream[t].buf)
  BY <1>4 DEF m
<1>7. Sound(v, n, r, f)
  BY <1>2, <1>4, <1>5, <1>6, BusySound
<1> QED BY <1>7 DEF v

(* append of media (SourceBufferController.ts).                                *)
LEMMA AppendMediaStep ==
    ASSUME Inductive, NEW t \in Types, AppendMedia(t) PROVE Inductive'
<1> DEFINE n == timeline
           s == [World.stream[t] EXCEPT !.reopen = FALSE]
           w == [World EXCEPT !.stream[t].reopen = FALSE]
           v == IF stream[t].buf \in ms.attached
                THEN [w EXCEPT !.ms = updating(@, stream[t].buf),
                               !.stream[t] = [@ EXCEPT !.phase = "busy", !.op = "media"]]
                ELSE fails(w, t)
<1>1. Becomes(v) /\ UNCHANGED env
  BY DEF AppendMedia
<1>2. EnvInv' /\ timeline' = timeline /\ resolved' = resolved /\ faults' = faults
  BY <1>1 DEF Inductive, EnvInv, env
<1>3. /\ n \in Timelines /\ Sound(World, n, resolved, faults)
      /\ stream[t].phase \in {"empty", "idle"}
  BY DEF AppendMedia, Inductive, EnvInv, ready
<1>4. /\ stream \in [Types -> Streams] /\ stream[t] \in Streams /\ DOMAIN World = Fields
      /\ ms.attached \subseteq Buffers
  BY <1>3, WorldIs DEF Sound, Unchecked, Typed, MediaSources
<1>5. /\ s \in Streams /\ s.phase = stream[t].phase /\ s.buf = stream[t].buf
      /\ s.old = stream[t].old /\ s.fed = stream[t].fed
  BY <1>4, WorldIs DEF Streams
<1>6. w = [World EXCEPT !.stream[t] = s]
  BY <1>4, WorldIs
<1> HIDE DEF s, w
<1>7. Sound(w, n, resolved, faults) /\ w.stream[t] = s /\ w.ms = ms
  <2> DEFINE z == [World EXCEPT !.stream[t] = s]
  <2>1. Sound(z, n, resolved, faults) /\ z.stream = [World.stream EXCEPT ![t] = s]
        /\ z.ms = World.ms
    BY <1>3, <1>5, StreamFlagsSound, WorldIs
  <2> HIDE DEF z
  <2>2. w = z
    BY <1>6 DEF z
  <2> QED BY <1>4, <2>1, <2>2, WorldIs
<1>8. CASE stream[t].buf \in ms.attached
  <2> DEFINE z == [w EXCEPT !.ms = updating(@, w.stream[t].buf),
                            !.stream[t] = [@ EXCEPT !.phase = "busy", !.op = "media"]]
  <2>1. stream[t].phase = "idle"
    <3>1. stream[t].buf # 0
      BY <1>4, <1>8, MediaSourceAssumption
    <3> QED BY <1>3, <3>1, WorldIs DEF Sound, Unchecked, Owned
  <2>2. w.stream[t].phase = "idle" /\ w.stream[t].buf \in w.ms.attached
    BY <1>5, <1>7, <1>8, <2>1
  <2>3. Sound(z, n, resolved, faults)
    BY <1>3, <1>7, <2>2, BeginsSound
  <2>4. v = z
    BY <1>5, <1>7, <1>8
  <2> HIDE DEF v, z
  <2> QED BY <1>1, <1>2, <2>3, <2>4, SoundBecomes
<1>9. CASE stream[t].buf \notin ms.attached
  <2>1. v = fails(w, t)
    BY <1>9
  <2>2. Sound(fails(w, t), n, resolved, faults)
    BY <1>3, <1>7, FailsSound
  <2> HIDE DEF v
  <2> QED BY <1>1, <1>2, <2>1, <2>2, SoundBecomes
<1> QED BY <1>8, <1>9

(* A seek clears the buffer (SourceBufferController.ts).                       *)
LEMMA ClearStep ==
    ASSUME Inductive, NEW t \in Types, Clear(t) PROVE Inductive'
<1> DEFINE n == timeline
           v1 == [World EXCEPT !.stream[t] = [@ EXCEPT !.ended = FALSE, !.fed = FALSE]]
           v2 == [World EXCEPT !.ms = updating(@, stream[t].buf),
                               !.stream[t] = [@ EXCEPT !.phase = "busy", !.op = "clear"]]
           v3 == [World EXCEPT !.stream[t] =
                    [@ EXCEPT !.error = TRUE, !.ended = FALSE, !.fed = FALSE]]
           v == IF stream[t].phase = "empty" THEN v1
                ELSE IF stream[t].buf \in ms.attached THEN v2 ELSE v3
<1>1. /\ Becomes(v) /\ timeline' = timeline /\ resolved' = resolved /\ faults' = faults
      /\ changeType' = changeType /\ calls' = calls + 1 /\ calls < MaxCalls
      /\ stream[t].phase \in {"idle", "empty"}
  BY DEF Clear
<1>2. EnvInv'
  BY <1>1, MediaSourceAssumption DEF Inductive, EnvInv
<1>3. n \in Timelines /\ Sound(World, n, resolved, faults)
  BY DEF Inductive, EnvInv
<1>4. stream \in [Types -> Streams] /\ stream[t] \in Streams /\ DOMAIN World = Fields
  BY <1>3, WorldIs DEF Sound, Unchecked, Typed
<1>5. Sound(v1, n, resolved, faults)
  <2> DEFINE s == [World.stream[t] EXCEPT !.ended = FALSE, !.fed = FALSE]
             z == [World EXCEPT !.stream[t] = s]
  <2>1. /\ s \in Streams /\ s.phase = World.stream[t].phase /\ s.buf = World.stream[t].buf
        /\ s.old = World.stream[t].old /\ (s.fed => World.stream[t].fed)
    BY <1>4, WorldIs DEF Streams
  <2>2. v1 = z
    OBVIOUS
  <2> HIDE DEF s
  <2>3. Sound(z, n, resolved, faults)
    BY <1>3, <2>1, StreamFlagsSound
  <2> HIDE DEF z, v1
  <2> QED BY <2>2, <2>3
<1>6. Sound(v3, n, resolved, faults)
  <2> DEFINE s == [World.stream[t] EXCEPT !.error = TRUE, !.ended = FALSE, !.fed = FALSE]
             z == [World EXCEPT !.stream[t] = s]
  <2>1. /\ s \in Streams /\ s.phase = World.stream[t].phase /\ s.buf = World.stream[t].buf
        /\ s.old = World.stream[t].old /\ (s.fed => World.stream[t].fed)
    BY <1>4, WorldIs DEF Streams
  <2>2. v3 = z
    OBVIOUS
  <2> HIDE DEF s
  <2>3. Sound(z, n, resolved, faults)
    BY <1>3, <2>1, StreamFlagsSound
  <2> HIDE DEF z, v3
  <2> QED BY <2>2, <2>3
<1>7. ASSUME stream[t].phase # "empty", stream[t].buf \in ms.attached
      PROVE  Sound(v2, n, resolved, faults)
  <2> DEFINE z == [World EXCEPT !.ms = updating(@, World.stream[t].buf),
                                !.stream[t] = [@ EXCEPT !.phase = "busy", !.op = "clear"]]
  <2>1. World.stream[t].phase = "idle" /\ World.stream[t].buf \in World.ms.attached
    BY <1>1, <1>7, WorldIs
  <2>2. Sound(z, n, resolved, faults)
    BY <1>3, <2>1, BeginsSound
  <2>3. v2 = z
    BY WorldIs
  <2> HIDE DEF z, v2
  <2> QED BY <2>2, <2>3
<1> HIDE DEF v1, v2, v3
<1>8. Sound(v, n, resolved, faults)
  BY <1>5, <1>6, <1>7
<1> HIDE DEF v
<1> QED BY <1>1, <1>2, <1>8, SoundBecomes

(* An update is over, well or not; g is the number of faults after it.         *)
LEMMA IdleSound ==
    ASSUME NEW w, NEW n \in Timelines, NEW r, NEW f, NEW g, Sound(w, n, r, f),
           g = f \/ g # 0,
           NEW t \in Types, w.stream[t].phase = "busy",
           NEW b, b = w.stream[t].buf,
           NEW v, DOMAIN v = Fields, v.track = w.track, v.msc = w.msc,
           v.orphans = w.orphans,
           v.refresh \in Refreshes, v.refresh.wait \subseteq w.refresh.wait \ {b},
           \/ v.refresh.phase = w.refresh.phase
           \/ (v.refresh.phase = "none" /\ v.refresh.wait = {} /\ v.ms.state = "ended"),
           v.ms \in MediaSources, v.ms.attached = w.ms.attached,
           v.ms.busy = w.ms.busy \ {b}, v.ms.inited \subseteq w.ms.inited \cup {b},
           v.ms.opening = w.ms.opening, v.ms.opened = w.ms.opened,
           v.ms.duration = w.ms.duration,
           v.ms.state = w.ms.state \/ (v.ms.state = "ended" /\ g # 0),
           v.stream \in [Types -> Streams],
           v.stream[t].phase = "idle", v.stream[t].buf = b,
           \A u \in Types : u # t => v.stream[u] = w.stream[u]
    PROVE  Sound(v, n, r, g)
<1>1. /\ w.stream \in [Types -> Streams] /\ w.track.types \subseteq Types
      /\ b \in w.ms.attached /\ b # 0 /\ w.ms.state # "closed" /\ w.msc.durationSet
      /\ w.track.active
  <2>1. b \in w.ms.attached /\ w.ms.state # "closed"
    BY DEF Sound, Unchecked, Placed
  <2> QED BY <2>1 DEF Sound, Unchecked, Typed, Tracks, Owned, Begun, Holds, Running
<1>2. \A u \in Types : /\ v.stream[u].buf = w.stream[u].buf
                       /\ v.stream[u].phase = "none" <=> w.stream[u].phase = "none"
                       /\ v.stream[u].phase = "empty" <=> w.stream[u].phase = "empty"
                       /\ v.stream[u].phase = "busy" <=> w.stream[u].phase = "busy" /\ u # t
                       /\ v.stream[u].phase = "woken" <=> w.stream[u].phase = "woken"
                       /\ v.stream[u].phase = "waiting" <=> w.stream[u].phase = "waiting"
                       /\ Holds(v.stream[u]) <=> Holds(w.stream[u])
                       /\ v.stream[u].phase = "none" => v.stream[u] = w.stream[u]
  BY DEF Holds
<1>3. Typed(v, n)
  BY DEF Sound, Unchecked, Typed
<1>4. Owned(v)
  BY <1>2 DEF Sound, Unchecked, Owned
<1>5. Placed(v)
  <2>1. \A c \in v.ms.busy : \E u \in Types : v.stream[u].phase = "busy" /\ v.stream[u].buf = c
    BY <1>2 DEF Sound, Unchecked, Placed
  <2>2. \A u \in Types : v.stream[u].phase = "busy" => v.stream[u].buf \in v.ms.busy
    <3> SUFFICES ASSUME NEW u \in Types, v.stream[u].phase = "busy"
        PROVE  v.stream[u].buf \in v.ms.busy
      OBVIOUS
    <3>1. u # t /\ w.stream[u].phase = "busy" /\ w.stream[u].buf \in w.ms.busy
      BY <1>2 DEF Sound, Unchecked, Placed
    <3>2. w.stream[u].buf # b
      BY <1>1, <3>1 DEF Sound, Unchecked, Owned
    <3> QED BY <1>2, <3>1, <3>2
  <2>3. v.ms.busy \subseteq v.ms.attached /\ v.ms.inited \subseteq v.ms.attached
    BY <1>1 DEF Sound, Unchecked, Placed
  <2>4. \A c \in v.ms.inited : \E u \in Types : Holds(v.stream[u]) /\ v.stream[u].buf = c
    <3>1. Holds(v.stream[t])
      BY DEF Holds
    <3> QED BY <1>2, <3>1 DEF Sound, Unchecked, Placed
  <2>5. v.refresh.wait \subseteq v.ms.busy
    BY DEF Sound, Unchecked, Placed
  <2>6. v.refresh.phase # "idle" => v.refresh.wait = {}
    BY DEF Sound, Unchecked, Placed
  <2>7. v.ms.attached \subseteq v.msc.buffers /\ v.ms.state # "closed"
    BY <1>1 DEF Sound, Unchecked, Placed
  <2> QED BY <2>1, <2>2, <2>3, <2>4, <2>5, <2>6, <2>7 DEF Placed
<1>6. Running(v)
  BY <1>1, <1>2 DEF Sound, Unchecked, Running
<1>7. Timed(v, n, r) /\ Quiet(v)
  BY DEF Sound, Unchecked, Timed, Quiet
<1>8. Woken(v, n) /\ Waiters(v, n)
  BY <1>2 DEF Sound, Unchecked, Woken, Waiters, Ready
<1>9. Begun(v)
  <2>1. \A u \in w.track.types :
           w.stream[u].phase \notin {"empty", "waiting"} \/ w.stream[u].old
    BY <1>1 DEF Sound, Unchecked, Begun, Holds
  <2>2. \A u \in v.track.types :
           v.stream[u].phase \notin {"empty", "waiting"} \/ v.stream[u].old
    BY <1>1, <2>1
  <2> QED BY <1>1, <2>2 DEF Begun
<1>10. Current(v, n)
  BY DEF Sound, Unchecked, Current
<1>11. Blameless(v, g)
  BY <1>1 DEF Sound, Unchecked, Blameless
<1> QED BY <1>3, <1>4, <1>5, <1>6, <1>7, <1>8, <1>9, <1>10, <1>11 DEF Sound, Unchecked

(* The browser has finished.                                                   *)
LEMMA UpdateEndsStep ==
    ASSUME Inductive, NEW t \in Types, UpdateEnds(t) PROVE Inductive'
<1> DEFINE n == timeline
           b == stream[t].buf
           s == finished(World.stream[t])
           m == updated(ms, stream[t])
           e == [refresh EXCEPT !.wait = @ \ {stream[t].buf}]
           v == [World EXCEPT
                   !.stream[t] = finished(@),
                   !.ms = updated(@, stream[t]),
                   !.refresh.wait = @ \ {stream[t].buf}]
<1>1. Becomes(v) /\ UNCHANGED env /\ stream[t].phase = "busy"
  BY DEF UpdateEnds
<1>2. EnvInv' /\ timeline' = timeline /\ resolved' = resolved /\ faults' = faults
  BY <1>1 DEF Inductive, EnvInv, env
<1>3. n \in Timelines /\ Sound(World, n, resolved, faults)
  BY DEF Inductive, EnvInv
<1>4. /\ stream \in [Types -> Streams] /\ stream[t] \in Streams /\ ms \in MediaSources
      /\ refresh \in Refreshes /\ b \in Buffers
  <2>1. /\ stream \in [Types -> Streams] /\ stream[t] \in Streams /\ ms \in MediaSources
        /\ refresh \in Refreshes
    BY <1>3, WorldIs DEF Sound, Unchecked, Typed
  <2>2. b # 0
    BY <1>1, <1>3, WorldIs DEF Sound, Unchecked, Owned
  <2> QED BY <2>1, <2>2 DEF Streams
<1>5. s \in Streams /\ s.phase = "idle" /\ s.buf = b
  BY <1>4, WorldIs, ZenonT(60) DEF finished, Streams, Phases
<1>6. /\ DOMAIN v = Fields /\ v.track = track /\ v.msc = msc /\ v.orphans = orphans
  BY WorldIs DEF Fields
<1>7. v.refresh = e
  BY WorldIs DEF Fields
<1>8. v.ms = m
  BY WorldIs DEF Fields
<1>9. v.stream = [stream EXCEPT ![t] = s]
  BY WorldIs DEF Fields
<1> HIDE DEF v, s
<1>10. /\ m \in MediaSources /\ m.attached = ms.attached /\ m.busy = ms.busy \ {b}
       /\ m.inited \subseteq ms.inited \cup {b} /\ m.opening = ms.opening
       /\ m.opened = ms.opened /\ m.duration = ms.duration /\ m.state = ms.state
  <2> DEFINE i == IF stream[t].op = "init" THEN ms.inited \cup {b} ELSE ms.inited
  <2>1. i \subseteq Buffers /\ i \subseteq ms.inited \cup {b}
    BY <1>4 DEF MediaSources
  <2>2. m = [ms EXCEPT !.busy = @ \ {b}, !.inited = i]
    BY DEF updated
  <2> HIDE DEF i, m, b
  <2> QED BY <1>4, <2>1, <2>2 DEF MediaSources
<1>11. e \in Refreshes /\ e.phase = refresh.phase /\ e.wait = refresh.wait \ {b}
  BY <1>4 DEF Refreshes
<1> HIDE DEF m, e
<1>12. /\ v.stream \in [Types -> Streams] /\ v.stream[t].phase = "idle" /\ v.stream[t].buf = b
       /\ \A u \in Types : u # t => v.stream[u] = stream[u]
  BY <1>4, <1>5, <1>9
<1> HIDE DEF b
<1>13. Sound(v, n, resolved, faults)
  <2>1. b = World.stream[t].buf /\ World.stream[t].phase = "busy"
    BY <1>1, WorldIs DEF b
  <2>2. /\ v.refresh \in Refreshes /\ v.refresh.wait \subseteq World.refresh.wait \ {b}
        /\ v.refresh.phase = World.refresh.phase
    BY <1>7, <1>11, WorldIs
  <2>3. /\ v.ms \in MediaSources /\ v.ms.attached = World.ms.attached
        /\ v.ms.busy = World.ms.busy \ {b} /\ v.ms.inited \subseteq World.ms.inited \cup {b}
        /\ v.ms.opening = World.ms.opening /\ v.ms.opened = World.ms.opened
        /\ v.ms.duration = World.ms.duration /\ v.ms.state = World.ms.state
    BY <1>8, <1>10, WorldIs
  <2>4. /\ v.track = World.track /\ v.msc = World.msc /\ v.orphans = World.orphans
        /\ \A u \in Types : u # t => v.stream[u] = World.stream[u]
    BY <1>6, <1>12, WorldIs
  <2> QED BY <1>3, <1>6, <1>12, <2>1, <2>2, <2>3, <2>4, IdleSound, SMTT(90)
<1> QED BY <1>1, <1>2, <1>13, SoundBecomes

(* The browser has failed, and ended the media source.                         *)
LEMMA UpdateErrsStep ==
    ASSUME Inductive, NEW t \in Types, UpdateErrs(t) PROVE Inductive'
<1> DEFINE n == timeline
           b == stream[t].buf
           s == [stream[t] EXCEPT !.phase = "idle", !.op = "none", !.error = TRUE]
           m == erred(ms, stream[t].buf)
           e == aborted(refresh, {b})
           v == [World EXCEPT
                   !.stream[t] = [@ EXCEPT !.phase = "idle", !.op = "none", !.error = TRUE],
                   !.ms = erred(@, stream[t].buf),
                   !.refresh = aborted(@, {stream[t].buf})]
<1>1. /\ Becomes(v) /\ timeline' = n /\ resolved' = resolved /\ faults' = faults + 1
      /\ changeType' = changeType /\ calls' = calls /\ faults < MaxFaults
      /\ stream[t].phase = "busy"
  BY DEF UpdateErrs
<1>2. n \in Timelines /\ Sound(World, n, resolved, faults) /\ faults \in Nat
  BY DEF Inductive, EnvInv
<1>3. EnvInv' /\ faults' # 0
  BY <1>1, MediaSourceAssumption DEF Inductive, EnvInv
<1>4. /\ stream \in [Types -> Streams] /\ stream[t] \in Streams /\ ms \in MediaSources
      /\ refresh \in Refreshes
  BY <1>2, WorldIs DEF Sound, Unchecked, Typed
<1>5. s \in Streams /\ s.phase = "idle" /\ s.buf = b
  BY <1>4 DEF Streams, Phases
<1>6. /\ DOMAIN v = Fields /\ v.track = track /\ v.msc = msc /\ v.orphans = orphans
  BY WorldIs DEF Fields
<1>7. v.refresh = e
  BY WorldIs DEF Fields
<1>8. v.ms = m
  BY WorldIs DEF Fields
<1>9. v.stream = [stream EXCEPT ![t] = s]
  BY WorldIs DEF Fields
<1> HIDE DEF v, s
<1>10. /\ m \in MediaSources /\ m.attached = ms.attached /\ m.busy = ms.busy \ {b}
       /\ m.inited = ms.inited /\ m.opening = ms.opening
       /\ m.opened = ms.opened /\ m.duration = ms.duration /\ m.state = "ended"
  BY <1>4 DEF MediaSources, erred
<1>11. /\ e \in Refreshes
       /\ e.wait \subseteq refresh.wait \ {b}
       /\ e.phase = refresh.phase \/ (e.phase = "none" /\ e.wait = {})
  <2>1. noRefresh \in Refreshes /\ noRefresh.phase = "none" /\ noRefresh.wait = {}
    BY DEF noRefresh, Refreshes
  <2> QED BY <1>4, <2>1 DEF aborted
<1> HIDE DEF m, e
<1>12. /\ v.stream \in [Types -> Streams] /\ v.stream[t].phase = "idle" /\ v.stream[t].buf = b
       /\ \A u \in Types : u # t => v.stream[u] = stream[u]
  BY <1>4, <1>5, <1>9
<1> HIDE DEF b
<1>13. Sound(v, n, resolved, faults')
  <2>1. b = World.stream[t].buf /\ World.stream[t].phase = "busy"
    BY <1>1, WorldIs DEF b
  <2>2. /\ v.refresh \in Refreshes /\ v.refresh.wait \subseteq World.refresh.wait \ {b}
        /\ \/ v.refresh.phase = World.refresh.phase
           \/ (v.refresh.phase = "none" /\ v.refresh.wait = {} /\ v.ms.state = "ended")
    BY <1>7, <1>8, <1>10, <1>11, WorldIs
  <2>3. /\ v.ms \in MediaSources /\ v.ms.attached = World.ms.attached
        /\ v.ms.busy = World.ms.busy \ {b} /\ v.ms.inited \subseteq World.ms.inited \cup {b}
        /\ v.ms.opening = World.ms.opening /\ v.ms.opened = World.ms.opened
        /\ v.ms.duration = World.ms.duration /\ v.ms.state = "ended"
    BY <1>8, <1>10, WorldIs
  <2>4. /\ v.track = World.track /\ v.msc = World.msc /\ v.orphans = World.orphans
        /\ \A u \in Types : u # t => v.stream[u] = World.stream[u]
    BY <1>6, <1>12, WorldIs
  <2>5. /\ n \in Timelines /\ Sound(World, n, resolved, faults)
        /\ faults' = faults \/ faults' # 0
        /\ DOMAIN v = Fields /\ v.stream \in [Types -> Streams]
        /\ v.stream[t].phase = "idle" /\ v.stream[t].buf = b
    BY <1>2, <1>3, <1>6, <1>12
  <2>6. v.ms.state = World.ms.state \/ (v.ms.state = "ended" /\ faults' # 0)
    BY <1>3, <2>3
  <2> QED BY <2>1, <2>2, <2>3, <2>4, <2>5, <2>6, IdleSound, SMTT(120)
<1> QED BY <1>1, <1>3, <1>13, SoundBecomes

(* readyToAppend did not come in time.                                         *)
LEMMA ReadyTimeoutStep ==
    ASSUME Inductive, NEW t \in Types, ReadyTimeout(t) PROVE Inductive'
<1> DEFINE n == timeline
           b == stream[t].buf
           s == [stream[t] EXCEPT !.phase = "empty", !.buf = 0, !.error = TRUE]
           x == [World EXCEPT
                   !.stream[t] = [@ EXCEPT !.phase = "empty", !.buf = 0, !.error = TRUE]]
           v == disposeRef(x, {b})
           d == disposeRef(World, {b})
<1>1. /\ Becomes(v) /\ timeline' = n /\ resolved' = resolved /\ faults' = faults + 1
      /\ changeType' = changeType /\ calls' = calls /\ faults < MaxFaults
      /\ stream[t].phase = "waiting"
  BY DEF ReadyTimeout
<1>2. n \in Timelines /\ Sound(World, n, resolved, faults) /\ faults \in Nat
  BY DEF Inductive, EnvInv
<1>3. EnvInv' /\ faults' # 0
  BY <1>1, MediaSourceAssumption DEF Inductive, EnvInv
<1>4. \A u \in Types : stream[u].phase # "woken"
  BY MicrotasksHaveRun DEF ReadyTimeout
<1>5. /\ stream \in [Types -> Streams] /\ stream[t] \in Streams /\ Typed(World, n)
  BY <1>2, WorldIs DEF Sound, Unchecked, Typed
<1>6. /\ s \in Streams /\ s.phase = "empty" /\ s.buf = 0 /\ s.fed = stream[t].fed
      /\ s.old = stream[t].old
  BY <1>5 DEF Streams, Phases
<1>7. /\ DOMAIN x = Fields /\ x.track = track /\ x.msc = msc /\ x.refresh = refresh
      /\ x.ms = ms /\ x.orphans = orphans /\ x.stream = [stream EXCEPT ![t] = s]
  BY WorldIs DEF Fields
<1> HIDE DEF v, s, x
<1>8. /\ x.stream \in [Types -> Streams] /\ x.stream[t] = s
      /\ \A u \in Types : u # t => x.stream[u] = stream[u]
  BY <1>5, <1>6, <1>7
<1>9. Typed(x, n)
  BY <1>5, <1>7, <1>8, WorldIs DEF Typed
<1>10. /\ b \notin x.refresh.wait
       /\ x.ms.state = "closed" => x.ms.attached = {} /\ x.ms.busy = {} /\ x.ms.inited = {}
  <2>1. b \notin ms.busy
    BY <1>1, <1>2, WorldIs DEF Sound, Unchecked, Placed, Owned
  <2> QED BY <1>2, <1>7, <2>1, WorldIs DEF Sound, Unchecked, Placed
<1> HIDE DEF b
<1>11. /\ DOMAIN v = Fields /\ v.track = x.track /\ v.stream = x.stream
       /\ v.orphans = x.orphans /\ v.refresh = x.refresh
       /\ v.msc \in Controllers /\ v.msc.buffers = x.msc.buffers \ {b}
       /\ v.msc.active = x.msc.active /\ v.msc.typed = x.msc.typed
       /\ v.msc.durationSet = x.msc.durationSet
       /\ v.ms \in MediaSources /\ v.ms.attached = x.ms.attached \ {b}
       /\ v.ms.busy = x.ms.busy \ {b} /\ v.ms.inited = x.ms.inited \ {b}
       /\ v.ms.state = x.ms.state /\ v.ms.opening = x.ms.opening
       /\ v.ms.opened = x.ms.opened /\ v.ms.duration = x.ms.duration
  <2> DEFINE y == disposeRef(x, {b})
  <2>1. /\ DOMAIN y = Fields /\ y.track = x.track /\ y.stream = x.stream
        /\ y.orphans = x.orphans /\ y.refresh = x.refresh
        /\ y.msc \in Controllers /\ y.msc.buffers = x.msc.buffers \ {b}
        /\ y.msc.active = x.msc.active /\ y.msc.typed = x.msc.typed
        /\ y.msc.durationSet = x.msc.durationSet
        /\ y.ms \in MediaSources /\ y.ms.attached = x.ms.attached \ {b}
        /\ y.ms.busy = x.ms.busy \ {b} /\ y.ms.inited = x.ms.inited \ {b}
        /\ y.ms.state = x.ms.state /\ y.ms.opening = x.ms.opening
        /\ y.ms.opened = x.ms.opened /\ y.ms.duration = x.ms.duration
    BY <1>9, <1>10, DisposeRefMeans
  <2> HIDE DEF y
  <2>2. v = y
    BY DEF v, y
  <2> QED BY <2>1, <2>2
<1>12. Sound(v, n, resolved, faults)
  <2>1. /\ b = World.stream[t].buf /\ World.stream[t].phase \in {"idle", "waiting"}
        /\ World.stream[t].phase # "idle"
        /\ \A u \in Types : World.stream[u].phase # "woken"
    BY <1>1, <1>4, WorldIs DEF b
  <2>2. /\ v.track = World.track /\ v.refresh = World.refresh /\ v.orphans = World.orphans
        /\ v.msc \in Controllers /\ v.msc.buffers = World.msc.buffers \ {b}
        /\ v.msc.active = World.msc.active /\ v.msc.typed = World.msc.typed
        /\ v.msc.durationSet = World.msc.durationSet
        /\ v.ms \in MediaSources /\ v.ms.attached = World.ms.attached \ {b}
        /\ v.ms.busy = World.ms.busy \ {b} /\ v.ms.inited = World.ms.inited \ {b}
        /\ v.ms.state = World.ms.state /\ v.ms.opening = World.ms.opening
        /\ v.ms.opened = World.ms.opened /\ v.ms.duration = World.ms.duration
    BY <1>7, <1>11, WorldIs
  <2>3. /\ v.stream \in [Types -> Streams]
        /\ v.stream[t].phase = "empty" /\ v.stream[t].buf = 0
        /\ v.stream[t].fed = World.stream[t].fed
        /\ World.stream[t].old => v.stream[t].old
        /\ \A u \in Types : u # t => v.stream[u] = World.stream[u]
    BY <1>6, <1>8, <1>11, WorldIs
  <2>4. World.stream[t].phase = "idle" \/ World.stream[t].old => v.stream[t].old
    BY <2>1, <2>3
  <2> QED BY <1>2, <1>11, <2>1, <2>2, <2>3, <2>4, LeavesSound, SMTT(30)
<1>13. Sound(v, n, resolved, faults')
  BY <1>3, <1>12 DEF Sound, Unchecked, Blameless
<1> QED BY <1>1, <1>3, <1>13, SoundBecomes

(* endBuffering (BufferingController.ts): the last stream to end ends it all.  *)
LEMMA EndBufferingStep ==
    ASSUME Inductive, NEW t \in Types, EndBuffering(t) PROVE Inductive'
<1> DEFINE n == timeline
           s == [World.stream[t] EXCEPT !.ended = TRUE, !.reopen = FALSE]
           w == [World EXCEPT !.stream[t] = [@ EXCEPT !.ended = TRUE, !.reopen = FALSE]]
           e == [w EXCEPT !.ms.state = "ended"]
           v == IF ~endsAll(t) THEN w
                ELSE IF ms.busy = {} THEN [w EXCEPT !.ms.state = "ended"]
                ELSE fails(w, t)
<1>1. Becomes(v) /\ UNCHANGED env /\ stream[t].fed
  BY DEF EndBuffering
<1>2. EnvInv' /\ timeline' = timeline /\ resolved' = resolved /\ faults' = faults
  BY <1>1 DEF Inductive, EnvInv, env
<1>3. /\ n \in Timelines /\ Sound(World, n, resolved, faults)
  BY DEF Inductive, EnvInv
<1>4. stream \in [Types -> Streams] /\ stream[t] \in Streams /\ ms \in MediaSources
  BY <1>3, WorldIs DEF Sound, Unchecked, Typed
<1>5. /\ s \in Streams /\ s.phase = stream[t].phase /\ s.buf = stream[t].buf
      /\ s.old = stream[t].old /\ s.fed = stream[t].fed
  BY <1>4, WorldIs DEF Streams
<1> HIDE DEF s
<1>6. /\ Sound(w, n, resolved, faults)
      /\ DOMAIN w = Fields /\ w.ms = ms /\ w.stream[t] = s
  <2> DEFINE z == [World EXCEPT !.stream[t] = s]
  <2>1. /\ Sound(z, n, resolved, faults)
        /\ DOMAIN z = Fields /\ z.ms = World.ms
        /\ z.stream = [World.stream EXCEPT ![t] = s]
    BY <1>3, <1>5, StreamFlagsSound, WorldIs
  <2>2. w = z
    BY DEF s
  <2> HIDE DEF z, w
  <2> QED BY <1>4, <2>1, <2>2, WorldIs
<1> HIDE DEF w
<1>7. Sound(e, n, resolved, faults)
  <2>1. /\ DOMAIN e = Fields /\ e.track = w.track /\ e.msc = w.msc /\ e.refresh = w.refresh
        /\ e.stream = w.stream /\ e.orphans = w.orphans
        /\ e.ms = [w.ms EXCEPT !.state = "ended"]
    BY <1>6 DEF Fields
  <2> HIDE DEF e
  <2>2. /\ e.ms \in MediaSources /\ e.ms.state = "ended"
        /\ e.ms.attached = w.ms.attached /\ e.ms.busy = w.ms.busy
        /\ e.ms.inited = w.ms.inited /\ e.ms.opening = w.ms.opening
        /\ e.ms.opened = w.ms.opened /\ e.ms.duration = w.ms.duration
    BY <1>4, <1>6, <2>1 DEF MediaSources
  <2>3. w.track.active /\ (faults = 0 => w.msc.durationSet)
    <3>1. w.stream[t].fed
      BY <1>1, <1>5, <1>6
    <3>2. w.stream[t].phase # "none"
      BY <1>6, <3>1 DEF Sound, Unchecked, Running
    <3> QED BY <1>6, <3>1, <3>2 DEF Sound, Unchecked, Running, Blameless
  <2>4. Typed(e, n) /\ Owned(e)
    BY <1>6, <2>1, <2>2 DEF Sound, Unchecked, Typed, Owned
  <2>5. Placed(e)
    BY <1>6, <2>1, <2>2 DEF Sound, Unchecked, Placed
  <2>6. Running(e)
    BY <1>6, <2>1, <2>2, <2>3 DEF Sound, Unchecked, Running
  <2>7. Timed(e, n, resolved) /\ Quiet(e)
    BY <1>6, <2>1, <2>2 DEF Sound, Unchecked, Timed, Quiet
  <2>8. Woken(e, n) /\ Waiters(e, n)
    BY <1>6, <2>1 DEF Sound, Unchecked, Woken, Waiters, Ready
  <2>9. Begun(e)
    BY <1>6, <2>1, <2>2 DEF Sound, Unchecked, Begun
  <2>10. Current(e, n) /\ Blameless(e, faults)
    BY <1>6, <2>1, <2>2, <2>3 DEF Sound, Unchecked, Current, Blameless
  <2> QED BY <2>4, <2>5, <2>6, <2>7, <2>8, <2>9, <2>10 DEF Sound, Unchecked
<1>8. Sound(fails(w, t), n, resolved, faults)
  BY <1>3, <1>6, FailsSound
<1>9. v = w \/ v = e \/ v = fails(w, t)
  OBVIOUS
<1> HIDE DEF v, e
<1>10. Sound(v, n, resolved, faults)
  BY <1>6, <1>7, <1>8, <1>9
<1> QED BY <1>1, <1>2, <1>10, SoundBecomes

(* An inactive track may be marked active or not: nothing else depends on it.  *)
LEMMA OffTrack ==
    ASSUME NEW w, NEW n, NEW r, Off(w, n, r), NEW a \in BOOLEAN
    PROVE  LET v == [w EXCEPT !.track.active = a] IN Off(v, n, r) /\ v.track.active = a
<1> DEFINE v == [w EXCEPT !.track.active = a]
<1>1. DOMAIN w = Fields /\ w.track \in Tracks(n)
  BY DEF Off, Typed
<1>2. /\ DOMAIN v = Fields /\ v.msc = w.msc /\ v.refresh = w.refresh /\ v.ms = w.ms
      /\ v.stream = w.stream /\ v.orphans = w.orphans
      /\ v.track = [w.track EXCEPT !.active = a]
  BY <1>1 DEF Fields
<1> HIDE DEF v
<1>3. /\ v.track \in Tracks(n) /\ v.track.active = a /\ v.track.types = w.track.types
      /\ v.track.applied = w.track.applied
  BY <1>1, <1>2 DEF Tracks
<1>4. Typed(v, n) /\ Owned(v)
  BY <1>2, <1>3 DEF Off, Typed, Owned
<1>5. Off(v, n, r)
  BY <1>2, <1>3, <1>4 DEF Off
<1> QED BY <1>3, <1>5 DEF v

(* The calls of the track controller.                                          *)
LEMMA CallStep ==
    ASSUME Inductive, activate \/ deactivate \/ \E hard \in BOOLEAN : reset(hard)
    PROVE  Inductive'
<1> DEFINE n == timeline
<1>1. Call /\ UNCHANGED <<changeType, timeline, resolved, faults>>
  BY DEF activate, deactivate, reset
<1>2. EnvInv' /\ timeline' = timeline /\ resolved' = resolved /\ faults' = faults
  BY <1>1, MediaSourceAssumption DEF Call, Inductive, EnvInv
<1>3. n \in Timelines /\ Sound(World, n, resolved, faults)
  BY DEF Inductive, EnvInv
<1>4. \A t \in Types : World.stream[t].phase # "woken"
  BY <1>1, MicrotasksHaveRun, WorldIs DEF Call
<1>5. CASE activate
  <2> DEFINE c == clearErrors(World)
             a == [c EXCEPT !.track.active = TRUE]
             v == onActivated(a)
  <2>1. Becomes(v) /\ ~World.track.active
    BY <1>5, WorldIs DEF activate
  <2>2. Sound(c, n, resolved, faults) /\ c.track = World.track
    BY <1>3, ClearErrorsSound
  <2> HIDE DEF c
  <2>3. Off(c, n, resolved)
    BY <2>1, <2>2, InactiveOff
  <2>4. Off(a, n, resolved) /\ a.track.active
    BY <2>3, OffTrack
  <2> HIDE DEF a
  <2>5. Sound(v, n, resolved, faults)
    BY <1>3, <2>4, OnSound
  <2> HIDE DEF v
  <2> QED BY <1>2, <2>1, <2>5, SoundBecomes
<1>6. CASE deactivate
  <2> DEFINE d == onDeactivated(World)
             v == [d EXCEPT !.track.active = FALSE]
  <2>1. Becomes(v) /\ World.track.active
    BY <1>6, WorldIs DEF deactivate
  <2>2. Off(d, n, resolved)
    BY <1>3, <1>4, <2>1, DeactivatedOff
  <2> HIDE DEF d
  <2>3. Off(v, n, resolved) /\ v.track.active = FALSE
    BY <2>2, OffTrack
  <2> HIDE DEF v
  <2>4. Sound(v, n, resolved, faults)
    BY <2>3, OffSound
  <2> QED BY <1>2, <2>1, <2>4, SoundBecomes
<1>7. CASE \E hard \in BOOLEAN : reset(hard)
  <2>1. PICK hard \in BOOLEAN :
           Becomes(IF hard THEN hardReset(World) ELSE clearErrors(World))
    BY <1>7 DEF reset
  <2>2. Sound(hardReset(World), n, resolved, faults)
    BY <1>3, <1>4, HardResetSound
  <2>3. Sound(clearErrors(World), n, resolved, faults)
    BY <1>3, ClearErrorsSound
  <2>4. CASE hard
    <3>1. Becomes(hardReset(World))
      BY <2>1, <2>4
    <3> QED BY <1>2, <2>2, <3>1, SoundBecomes
  <2>5. CASE ~hard
    <3>1. Becomes(clearErrors(World))
      BY <2>1, <2>5
    <3> QED BY <1>2, <2>3, <3>1, SoundBecomes
  <2> QED BY <2>4, <2>5
<1> QED BY <1>5, <1>6, <1>7

------------------------------------------------------------------------------
\* The invariant holds, and what it means

(* Whatever happens next, the invariant is kept.                               *)
LEMMA NextInductive == Inductive /\ [Next]_vars => Inductive'
<1> SUFFICES ASSUME Inductive, [Next]_vars PROVE Inductive'
  OBVIOUS
<1>1. CASE Microtask
  BY <1>1, TypesReachTrackStep, TypesReachMediaSourceStep, RefreshSetsStep, OrphanStep,
     ContinueStep DEF Microtask
<1>2. CASE TimelineChanges
  BY <1>2, TimelineChangesStep
<1>3. CASE TimelineResolves
  BY <1>3, TimelineResolvesStep
<1>4. CASE RefreshWaits
  BY <1>4, RefreshWaitsStep
<1>5. CASE SourceOpens
  BY <1>5, SourceOpensStep
<1>6. CASE SourceOpenEvent
  BY <1>6, SourceOpenEventStep
<1>7. CASE SourceCloses
  BY <1>7, SourceClosesStep
<1>8. ASSUME NEW t \in Types, Appends(t) \/ Clear(t) \/ Browser(t) \/ EndBuffering(t)
      PROVE  Inductive'
  <2>1. CASE Appends(t)
    BY <2>1, AppendInitStep, AppendMediaStep DEF Appends
  <2>2. CASE Clear(t)
    BY <2>2, ClearStep
  <2>3. CASE Browser(t)
    BY <2>3, UpdateEndsStep, UpdateErrsStep, ReadyTimeoutStep DEF Browser
  <2>4. CASE EndBuffering(t)
    BY <2>4, EndBufferingStep
  <2> QED BY <1>8, <2>1, <2>2, <2>3, <2>4
<1>9. CASE activate \/ deactivate \/ \E hard \in BOOLEAN : reset(hard)
  BY <1>9, CallStep
<1>10. CASE UNCHANGED vars
  <2>1. /\ Becomes(World) /\ timeline' = timeline /\ resolved' = resolved /\ faults' = faults
        /\ changeType' = changeType /\ calls' = calls
    BY <1>10, WorldIs DEF vars, Becomes
  <2>2. EnvInv' /\ Sound(World, timeline', resolved', faults')
    BY <2>1 DEF Inductive, EnvInv
  <2> QED BY <2>1, <2>2, SoundBecomes
<1> QED BY <1>1, <1>2, <1>3, <1>4, <1>5, <1>6, <1>7, <1>8, <1>9, <1>10 DEF Next

(* In every reachable state of a track and its media source (MseTrack.ts,      *)
(* MediaSourceController.ts, SourceBufferController.ts) the inductive          *)
(* invariant holds.                                                            *)
THEOREM InductiveHolds == Spec => []Inductive
BY InitInductive, NextInductive, PTL DEF Spec

(* A buffer is held or awaited by a stream that is neither gone nor empty.     *)
LEMMA StreamBuffers ==
    ASSUME Inductive, NEW t \in Types
    PROVE  /\ held(stream[t]) \cup pending(stream[t])
                 = IF stream[t].buf = 0 THEN {} ELSE {stream[t].buf}
           /\ stream[t].buf \in Buffers \cup {0}
<1>1. stream[t] \in Streams
  BY WorldIs DEF Inductive, Sound, Unchecked, Typed
<1>2. stream[t].buf = 0 <=> stream[t].phase \in {"none", "empty"}
  BY WorldIs DEF Inductive, Sound, Unchecked, Owned
<1> QED BY <1>1, <1>2 DEF Streams, Phases, held, pending

(* The invariant implies that the buffers are accounted for.                   *)
LEMMA AccountedFor == ASSUME Inductive PROVE BuffersAccounted
<1>1. Typed(World, timeline) /\ Owned(World) /\ Timed(World, timeline, resolved) /\ EnvInv
  BY DEF Inductive, Sound, Unchecked
<1>2. TypeOK
  <2>1. orphans \subseteq [buf : Buffers, phase : {"rejected", "woken"}]
    <3>1. [buf : Buffers, phase : {"rejected"}] \subseteq [buf : Buffers, phase : {"rejected", "woken"}]
      OBVIOUS
    <3> QED BY <1>1, <3>1, WorldIs DEF Typed
  <2> QED BY <1>1, <2>1, WorldIs
          DEF Typed, EnvInv, TypeOK, Tracks, Controllers, Refreshes, MediaSources
<1>3. TrackedAreOwned
  <2> DEFINE owned == UNION {held(stream[t]) \cup pending(stream[t]) : t \in Types}
             left == {o.buf : o \in orphans}
  <2>1. left \subseteq Buffers
    BY <1>1, WorldIs DEF Typed
  <2>2. ASSUME NEW b
        PROVE  b \in owned <=> b \in Buffers /\ \E t \in Types : b = stream[t].buf
    <3>1. b \in owned <=> \E t \in Types : b \in held(stream[t]) \cup pending(stream[t])
      OBVIOUS
    <3>2. ASSUME NEW t \in Types
          PROVE  b \in held(stream[t]) \cup pending(stream[t])
                    <=> b \in Buffers /\ b = stream[t].buf
      <4>1. 0 \notin Buffers
        BY MediaSourceAssumption
      <4> QED BY <4>1, StreamBuffers
    <3> HIDE DEF owned
    <3> QED BY <3>1, <3>2
  <2>3. msc.buffers \subseteq Buffers
    BY <1>1, WorldIs DEF Typed, Controllers
  <2>4. \A b \in Buffers : b \in msc.buffers <=>
             \/ \E o \in orphans : b = o.buf
             \/ \E t \in Types : b = stream[t].buf
    BY <1>1, WorldIs DEF Owned
  <2>5. \A b : b \in left <=> \E o \in orphans : b = o.buf
    OBVIOUS
  <2> HIDE DEF owned, left
  <2>6. msc.buffers = owned \cup left
    BY <2>1, <2>2, <2>3, <2>4, <2>5
  <2> QED BY <2>6 DEF owned, left, TrackedAreOwned
<1> QED BY <1>2, <1>3 DEF BuffersAccounted

(* Every source buffer that is tracked (_buffers of MediaSourceController.ts)  *)
(* belongs to a source buffer controller that holds it or awaits it, or to one *)
(* whose rejection is about to dispose it, through resets, timeouts, changes   *)
(* of content types and closed media sources: readyToAppend counts exactly.    *)
THEOREM BuffersAreAccounted == Spec => []BuffersAccounted
BY InductiveHolds, AccountedFor, PTL

(* Nothing is appended before the duration is set and each stream of the track *)
(* has created its buffer, which a browser would refuse afterwards:            *)
(* appendInit() of SourceBufferController.ts awaits readyToAppend.             *)
THEOREM AppendsAreReady == Spec => []AppendsWhenReady
<1>1. ASSUME Inductive PROVE AppendsWhenReady
  <2>1. SUFFICES ASSUME ms.busy \cup ms.inited # {}
        PROVE  /\ ms.duration # 0
               /\ \A t \in track.types : stream[t].phase # "empty" \/ stream[t].old
    BY DEF AppendsWhenReady
  <2>2. PICK b : b \in ms.busy \cup ms.inited
    BY <2>1
  <2>3. /\ Placed(World) /\ Begun(World) /\ Quiet(World)
    BY <1>1 DEF Inductive, Sound, Unchecked
  <2>4. \E u \in Types : Holds(stream[u]) /\ stream[u].buf \in ms.attached
    BY <2>2, <2>3, WorldIs DEF Placed, Holds
  <2> QED BY <2>3, <2>4, WorldIs DEF Begun, Quiet
<1> QED BY <1>1, InductiveHolds, PTL

(* At rest an open media source has the duration of the current timeline:      *)
(* refreshDuration() of MediaSourceController.ts is never left behind by a     *)
(* timeline that changes while it waits, unless setting the duration threw.    *)
THEOREM DurationIsCurrent == Spec => []DurationCurrent
<1>1. ASSUME Inductive PROVE DurationCurrent
  BY <1>1, WorldIs DEF Inductive, Sound, Unchecked, Current, DurationCurrent
<1> QED BY <1>1, InductiveHolds, PTL

(* The invariant implies that a stream that waits has something to wait for.   *)
LEMMA SomethingIsAwaited == ASSUME Inductive PROVE WaitsForSomething
<1> SUFFICES ASSUME NEW t \in Types, stream[t].phase = "waiting",
                    \A u \in track.types : stream[u].phase # "empty",
                    ~MicrotaskPending, ~(resolved < timeline),
                    ~ms.opening, ~ms.opened, ~(ms.state = "ended" /\ faults > 0),
                    refresh.phase \notin {"timeline", "idle"}
             PROVE  FALSE
  BY DEF WaitsForSomething
<1>1. /\ timeline \in Timelines /\ timeline \in Nat /\ resolved \in 0..timeline /\ faults \in Nat
      /\ Sound(World, timeline, resolved, faults)
  BY TimelinesAreNumbers, MediaSourceAssumption DEF Inductive, EnvInv
<1>2. resolved = timeline
  BY <1>1
<1>3. /\ track \in Tracks(timeline) /\ refresh \in Refreshes /\ ms \in MediaSources
  BY <1>1, WorldIs DEF Sound, Unchecked, Typed
<1>4. track.active /\ msc.active
  BY <1>1, WorldIs DEF Sound, Unchecked, Running
<1>5. \A u \in track.types : stream[u].buf # 0
  <2>1. track.types \subseteq Types
    BY <1>3 DEF Tracks
  <2> QED BY <1>1, <1>4, <2>1, WorldIs DEF Sound, Unchecked, Running, Owned
<1>6. msc.typed
  BY <1>2, <1>4 DEF MicrotaskPending
<1>7. msc.durationSet
  <2>1. CASE refresh.phase = "failed"
    BY <1>1, <2>1, WorldIs DEF Sound, Unchecked, Blameless
  <2>2. CASE ms.state = "ended"
    BY <1>1, <2>2, WorldIs DEF Sound, Unchecked, Blameless
  <2>3. CASE refresh.phase = "none" /\ ms.state = "open"
    <3>1. ms.duration = DurationOf[timeline]
      BY <1>1, <1>4, <2>3, WorldIs DEF Sound, Unchecked, Current
    <3>2. ms.duration # 0
      BY <1>1, <3>1, TimelinesAreNumbers
    <3> QED BY <1>1, <3>2, WorldIs DEF Sound, Unchecked, Quiet
  <2>4. ms.state # "closed"
    BY <1>1, <1>4, WorldIs DEF Sound, Unchecked, Running
  <2> QED BY <1>3, <2>1, <2>2, <2>3, <2>4 DEF Refreshes, MediaSources
<1>8. Ready(World, timeline)
  <2>1. /\ Typed(World, timeline) /\ Owned(World) /\ Running(World)
        /\ Timed(World, timeline, resolved) /\ Quiet(World)
    BY <1>1 DEF Sound, Unchecked
  <2> QED BY <1>1, <1>5, <1>6, <1>7, <2>1, WorldIs, ReadyMeans
<1> QED BY <1>1, <1>8, WorldIs DEF Sound, Waiters

(* No stream waits in vain: whatever makes the media source ready calls        *)
(* checkReady() (MediaSourceController.ts), and a stream that waits waits for  *)
(* another to create its buffer, or for the duration or the content types, and *)
(* not only for the timeout of appendInit().                                   *)
THEOREM WaitsEndInTime == Spec => []WaitsEnd
<1>1. ASSUME Inductive PROVE WaitersAreWoken
  BY <1>1, ReadyIs, WorldIs DEF Inductive, Sound, Waiters, WaitersAreWoken
<1>2. ASSUME Inductive PROVE WaitsEnd
  BY <1>1, <1>2, SomethingIsAwaited DEF WaitsEnd
<1> QED BY <1>2, InductiveHolds, PTL

==============================================================================
