# Verification of the Vinyl media player

TLA+ models of the control logic of Vinyl, the TLC configurations that check them on small
instances, and TLAPS proofs of the results that hold for every instance. Paths are relative to
`src/packages/`; line numbers are those of the commit in `src/`.

- [The system](#the-system): components, state, interactions, hard behaviours
- [Modules](#modules): what is modelled and how it corresponds to the code
- [Runs](#runs), [Bounds](#bounds), [Fairness](#fairness)
- [Proofs](#proofs)
- [Findings and observations](#findings-and-observations)
- [Not modelled](#not-modelled), [Plan](#plan)

## The system

Vinyl plays DASH and HLS streams in a browser through Media Source Extensions. It is single
threaded: every synchronous stretch runs to completion, and concurrency comes from promises, timers,
browser events and re-entrant callbacks. Almost every hazard has one of three shapes: state read
before an `await` and used after it, a promise that settles after what it was for was superseded, and
a callback that re-enters the object that called it.

The player (`VinylPlayer`) owns a `TrackController` with the play queue and the `AdController`, a
`PlaybackController` over the media element and a `DrmController`. The current track is a `Track` (for
streams an `MseTrack`), which loads its manifest through a `ManifestController` and owns a
`MediaSourceController` and, for each content type, a `ContentStream`: a `SegmentController` that
selects, fetches and caches segments and a `BufferingController` that appends them to a
`SourceBufferController`. Errors travel up from the streams to the player, which hands them to the
`AutoResetController`; its resets travel down again.

```
application --> VinylPlayer --> TrackController <==> AdController --> breaks, ads (network)
                |  ^   |  |      | LruCache of tracks
    AutoReset <-+  |   |  |      | activate / deactivate / reset
    Controller ----+   |  |      v
                       |  |   MseTrack -- ManifestController -- Requester -- network
        Playback <-----+  |      |------- MediaSourceController -- MediaSource
        Controller        |      |  per content type
          |  stalls       |   ContentStream
        media element     |      |- SegmentController -- SegmentDataSlot -- Requester
          |  encrypted    |      |     |  QualitySelector, timeline (DASH or HLS)
          '-----> DrmController  |     ^ getSegment
                     |           '- BufferingController -- SourceBufferController -- SourceBuffer
                    EME               '- TaskQueue            '- TaskQueue
```

| Component | State | Operations | Interacts with | What makes it hard | What makes it correct |
|---|---|---|---|---|---|
| `TaskQueue` (vinyl-util) | pending list, running count, capacity, abort slot | enqueue, abort, capacity setter, checkQueue loop | every pipeline below | a body runs inside the loop and re-enters the queue; hung work; synchronous throws | slots never leak, no lost wakeup, order, abort |
| `SegmentController`, `SegmentDataSlot` | cached slots, fetched ranges, prefetch flags, cached period | getSegment, prefetch, prefetchImmediate, sweep, clear, reset, configure, activate, deactivate, dispose | media timeline, quality selector, network, playback time | three kinds of lookup interleave at four awaits; late settlements of aborted requests | one sound slot per segment, one request per slot, prefetch never forgotten |
| Timelines, quality selection | none (pure), the last selection | segments of a representation, lookup, selectQuality | the segment controller walks along them | five forms of manifest, unaligned qualities, periods cut out of the middle of their media | every time is served by the segment the manifest puts there; no alternation of qualities |
| `BufferingController`, `SourceBufferController` | buffered list, tail, appendOffset, decoder, timestamp offset, ended, error; the source buffer | poll, append, clear, reset, activate, deactivate, end of stream, quota, codec fallback | SegmentController, TaskQueue, MediaSource, playhead | copies of browser state across awaits; partial appends; clears in the middle | buffer, list and timeline agree; buffering goes on |
| `MediaSourceController`, `MseTrack` | media source, source buffers, content types, duration, readiness | activate, create and remove buffers, refresh duration, end of stream | BufferingController of every stream | several buffers update at once; opening may time out or be undone | no append before all are ready, no wait in vain, no buffer leaks |
| `MseTrack`, `TrackBase` | streams, error, active | activate, deactivate, reset, preload | the above, DRM, manifest | errors of several streams | errors forwarded once, resets complete |
| `TrackController` | queue, current entry, current track, ad parent, cache | load, enqueue, next, clearQueue, unload, handlers of ended and of ad events | AdController, tracks, playback | both objects call each other synchronously; stale promises; eviction in the middle of a call | one active track, the current entry plays, nothing in use is evicted |
| `AdController` | provider, pending breaks, break and ad in progress, suppressed breaks | enter rolls, midroll ingress, skip, fail, complete, load timeout | TrackController, ad lists, media events | one lock over lists that resolve late | a break always moves on |
| `AutoResetController`, `VinylPlayer.reset` | watched error, retry timer, retry count, error of the player | setError, clear, reset, timer, online | player, controllers, track, streams | copies of one error in five places | no silent failure, bounded retries |
| `ManifestController` | manifest promise, error, load span | refresh, reset, dispose | requester | superseded requests settle late | the last request decides |
| `RequesterImpl`, `NetworkMetricsController` | attempts, timer, abort; failures and retry-after of a service | request with retries | network | abort, timeout, backoff and retry-after overlap | one outcome in time, silent only when aborted |
| `PlaybackController`, stall detector and monitor | pending play, seek in progress, playing, waiting, seeking | play, pause, seekTo, events of the element | media element | superseded seeks, events that browsers leave out | seeks settle, the state is the element's |
| `DrmController` | media keys, sessions, license exchanges | init data, encrypted events, messages, reset, dispose | EME, network, track aborts | three awaits before a session is known; sessions of a replaced track | one open session per data, failures remembered |
| `StitchedAdTracker`, `SegmentPrefetch`, `CacheManager`, text tracks, timing helpers, observables, ranges, parsers | | | | see [Not modelled](#not-modelled) | |

`PROJECT.json` lists every component, also those that are not modelled, and the hazards of the code
at their lines.

## Modules

| Module | Models | Extended by |
|---|---|---|
| `TaskQueue` | `vinyl-util/src/util/async/TaskQueue.ts`, `abortUtils.ts` | `MCTaskQueue`, `UtilProofs` |
| `Scheduler` | what a task queue promises (abstract) | instantiated by `TaskQueue` |
| `SegmentController` | `SegmentControllerImpl.ts`, `SegmentDataSlot.ts` | `MCSegmentController`, `SegmentControllerProofs` |
| `MediaTimelines` | periods, the segments of a DASH representation or an HLS playlist, lookup (pure) | `Streaming` |
| `QualitySelection` | `QualitySelectorImpl.ts` (pure) | `Streaming` |
| `Streaming` | the walk of the segment controller along the media: the two above composed | `MCStreaming`, `PlayerProofs` |
| `Buffering` | `BufferingController.ts` with `SourceBufferController.ts` and the browser's source buffer | `MCBuffering`, `BufferingProofs` |
| `MediaSource` | `MseTrack.ts`, `MediaSourceController.ts`, `SourceBufferController.ts` over the browser's media source | `MCMediaSource`, `MediaSourceProofs` |
| `PlayerRecovery` | `AutoResetController.ts` with the errors of player, DRM and playback controllers, track and streams | `MCPlayerRecovery`, `PlayerProofs` |
| `TrackController` | `TrackController.ts` with the interstitial breaks of `AdControllerImpl.ts` | `MCTrackController`, `TrackControllerProofs` |
| `TrackCache` | `LruCache.ts` on `LinkedList.ts` and the calls of `TrackController.ts` that use it | `MCTrackCache`, `UtilProofs` |
| `LruOrder` | what a cache of the most recently used promises (abstract) | instantiated by `TrackCache` |
| `Requests` | `RequesterImpl.ts`, the service metrics of `NetworkMetricsControllerImpl.ts` | `ManifestLoading`, `RequestsProofs` |
| `ManifestLoading` | `ManifestControllerImpl.ts` on top of the requester | `MCManifestLoading`, `RequestsProofs` |
| `Playback` | `PlaybackControllerImpl.ts`, `createStallDetector.ts`, `createStallMonitor.ts` over a media element | `MCPlayback`, `PlayerProofs` |
| `Drm` | `DrmControllerImpl.ts` over the browser's EME | `MCDrm`, `DrmProofs` |

Every module has one action per operation, promise callback or event. `PROJECT.json` "map" gives the
source lines of each definition. Operators marked "Mutant" in their comment are faulty variants of the
definition below them; they are not part of the specification and show that each property is sensitive
to the code it is about.

### TaskQueue

A synchronous body may re-enter `enqueue`, `abort` or the capacity setter, so the call stack is a
variable: `CHECK` frames are running `checkQueue` loops, task frames are bodies. Promise reactions
(`workSettles`, `finally`) happen only when the stack is empty. The work of a body may hang for good;
an abort then settles its promise through `withAbort`. The linked list is a set of pending tasks with
their insertion position. Handlers of the abort signal that re-enter the queue are not modelled.

`Scheduler` is what a caller of the queue may rely on, without call stack, promises or generations of
aborts: it starts the most urgent waiting task, in order of arrival among equals, within its capacity,
and nothing that an abort cancelled. `ImplementsScheduler` maps the queue to it: a task is waiting while
it is in the pending list, active from its start until its slot is free, and finished after that; the
history variable `cancelled` holds the tasks that were waiting at an abort. Steps of the call stack are
stutters.

### SegmentController

Time is counted in segments. Each lookup (`prefetch`, `immediate`, and one per `getSegment` call) is
an operation with a program counter, one value for each await of the code; microtasks (`Progress`) run
before the next macrotask (network, timers, media events), and calls of the API may come between any
two microtasks, since other promise reactions of the player make them. The identities of slots and
requests are reused once unreachable. The quality selector may choose any playable quality. Init
segments, which are requested together with the data, load spans and the reported streaming quality are
left out.

`PrefetchNotForgotten` is an action property: no step makes the prefetch rest while something of its
range is left (`forgotten`), with two exceptions that the code has and the next event makes up for
(observations): a `getSegment` that resets a failed slot, which revokes the end of media without polling,
and the reaction of a request that a sweep aborted, which drops the range of its segment although that
has been fetched again meanwhile. A segment that a `getSegment` asked for, in flight or failed and
reported to its caller, counts as requested.

### Buffering

The presentation is cut into unit positions; segment *n* belongs at position *n* and is appended in up
to `Chunks` pieces, as `maxAppendSize` and quota errors make the code do. The source buffer `sb` holds
which segment, of which quality, and how much of it is at each position, the init segment it was last
given and its timestamp offset; `ctl` holds the controller's copies of those and its list of buffered
segments. `BufferAgrees` (init segment, list and single range) and `ContentInPlace` relate the two.
Segment requests, appends and removals can fail, exceed the quota or be aborted by a clear or a
deactivation. In DASH a segment is placed by its media time offset; in HLS (`hls`) by an anchor the
controller computes. In HLS a tail that a failure leaves half appended can be appended again in the
place of its successor (observations); the instance therefore has partial appends and failures in DASH
only: an HLS append may take all the chunks that the longest timeline has, and none fails. Left out: the stepping of `alignToTime` over approximate manifest times, the `sequence` append
mode, gaps in the media, calls from a microtask between the settling of a promise and its continuation,
the state of the browser's segment parser and eviction by the browser.

### PlayerRecovery

`failed` holds the error of the playback controller, the DRM controller, the track and each stream;
`playerError` is the player's copy and `watched` the copy of the `AutoResetController`. A `"network"`
error is a `RequestError` without a response, the only kind that is retried. `report` and `streamFails`
are the error paths (a stream's error reaches the player only through a track that has none),
`timerFires`, `goOnline` and `playbackEvent` the resets, `appReset` the application's,
`trackRestarts` the new or hard-reset track, `drmRestarts` new init data. The `enabled` option,
`dispose` and the `resetPendingChange` events are left out.

### TrackController

`TrackController` and `AdController` call each other synchronously: `setCurrentTrack` calls
`setAdsProvider`, which completes the break in progress, whose event runs the handler that calls
`setCurrentTrack` or `next()` again, before the first call has finished. The operators therefore map a
record of the whole state (`World`) to the state after a call, in the order of the code, and the actions
are the calls, callbacks and events. `setCurrentTrackWith` takes `setAdsProvider` as an argument: in the
nested calls no break is in progress and `assignProvider` is what is left of it.

`jobs` are the promises whose callbacks have yet to run: `enterPreroll`, `enterPostroll`, the microtask
that advances the queue, and the load options of an ad. `ads.loadingNext` is the lock of
`nextAdOrBreak`, held while an ad list resolves and until its `finally` has run. The constructor of the
`TrackController` subscribes to `ended` before it first touches the lazily created `AdController`, so
`endedHandlers` runs its handler first. `pendingAdBreaks` is always a filtered part of the sorted list
of breaks, so `pending` is a set and `Start` gives the order in which `First` takes breaks from it. Left
out: eviction and preloading (tracks stay cached here; see `TrackCache`), `dispose`, stitched breaks,
`once` midrolls, `adsChange` updates, ads without a uri, progress events, positions and playback
configuration. Each call brings an object of its own for a uri; one object queued twice is not modelled.
`getAds` fails always or never for a uri (`NoAds`).

### Streaming, MediaTimelines, QualitySelection

`MediaTimelines` translates the pure code that says which segments a manifest has: periods, the forms a
DASH representation can take (`SegmentTimeline`, fixed durations in a template or a list, a `sidx` box,
WebM cues), an HLS playlist, and the lookup of a segment by time. `QualitySelection` is `selectQuality`
in whole numbers: bandwidths are compared in units of one over `Scale`. `Streaming` composes the two as
`createSlotForTime` does: at the position reached so far it takes the period, selects a quality from it
with the network and buffer of the moment, and looks the segment up in the timeline of that quality. What
it remembers of the segment is its quality and its decoder, which for an HLS segment with another
`EXT-X-MAP` than the first of its playlist is one of its own (`decoderOf`, with `maps` in the form of a
playlist), so that the next selection compares the list with that decoder. A fixed duration, or cues, in a
period without an end is a `ValidationError` in the code: such a quality has no times (`NoTimes`).
`LookupsExact` compares each lookup with a reference definition (`SegmentCount`, `SegmentStart`) written
from what the forms of a manifest mean, not from the code. Urls, templates and byte ranges, trick modes,
remote elements and the averaging of bandwidth measurements are left out.

### MediaSource

An active track with one stream per content type. `msc` is the state of the
`MediaSourceControllerImpl`, `ms` the browser's media source, `stream` the phase of each stream and of its
source buffer controller, `refresh` the `refreshDuration()` whose token is current, with one phase for
each of its awaits, and `orphans` the continuations of disposed controllers. The content types and the
duration come from promises that resolve later (`TimelineChanges`, `TimelineResolves`). The browser
refuses a source buffer after another has been initialized and a duration or an end while one is
updating; it may close the source at any time. What a stream appends is `Buffering`. Content types are
assumed to resolve in the order of their timelines; qualities, periods, seek ranges, text tracks and
preloading are left out.

The operations of a track nest (a change of content types resets the track, which deactivates and
activates its streams), so they map a record of the whole state (`World`) to the state after them. The
streams of a track are activated and deactivated one after the other without anything in between, which
the model does at once (`activateStreams`, `deactivateStreams`). There are more identities of buffers than
content types: then a new one is free whenever one is needed, which is proved (`FreeBuffer`).

### TrackCache

The linked list under the `LruCache` is modelled with its `next` and `prev` pointers, as `list` and
`cached` (the keys of its map). A call of the application is a sequence of cache operations, held in
`agenda`: between two of them a track may be evicted, which disposes it, drops its ad tracks and leaves
references to it dangling (a reference carries the flag `disposed`). `LruOrder` is the abstract cache: an
order of last use from which only the longest unused key that is not protected is dropped, and only above
the capacity; `ImplementsLru` reads its `order` off the pointers.

### Requests, ManifestLoading

Each call of `request` is a record: its phase (backoff, backoff of no time, fetch, body of an error),
attempts, timer and abort. A backoff of no time is a promise that has resolved (`ready`): its reaction,
`Fetches`, runs before any event or timer, but the caller may abort before it (`CallerAborts`), and it calls
`fetch` without looking at the abort again. Time is counted in ticks, and a tick waits for the timers that are due. `Platforms` are the ways in
which browsers abort a fetch: with the reason of the signal, with an `AbortError`, or not at all.
`ManifestLoading` puts the promises of the `ManifestControllerImpl` on top: every load is a request
followed by the reading of its body, which neither timeout nor abort reaches. Callers of other requests
share the metrics of the service, which delay the retries of a load. Logging, redaction of errors and
`configure` are left out.

### Playback

The element (`media`) queues its events; one is delivered when no promise reaction is left to run, so
that the state the controller derives from events lags behind the element. A call of `play()` is two
promises (the async function and the promise around it), a call of `seekTo()` has a phase for each of its
waits. The application calls between events or, with `SameTask`, before the reactions that are left. The
environment leaves out events as WebKit does, lands seeks elsewhere, never completes them, and lets data
run out. The stall detector and monitor are polls whose thresholds are reduced to one poll. Volume, mute,
rate and error events only pass through and are left out.

### Drm

A flow is one call of `createSessionFromInitData` or `maybeCreateSession`, from the manifest or from an
`encrypted` event, with a phase for each await; an exchange is one call of `messageHandler`. The browser
may settle them in any order. `gaveUp` and `attachments` are history variables. Configurations,
robustness levels, key statuses, load spans and the prefixed EME interfaces are left out.

## Runs

| Run | Shows |
|---|---|
| `task_queue` | Under re-entrant bodies, throws, hung work, aborts and changes of capacity: the running count is exact, no wakeup is lost, tasks waiting at an abort never start, started ones settle, all settle if their work does, and the queue implements `Scheduler`. |
| `segments` | With a live timeline, two qualities and all lookups interleaved, over seeks, sweeps, clears, resets and failures: the cache holds one sound slot per segment, a cached segment is downloaded by one request at a time, no step but a retry after a failure or a late abort leaves the prefetch idle with something of its range missing, and it comes to rest. |
| `streaming` | Over manifests in every form, with qualities whose segments are not aligned and any course of bandwidth and buffer: every lookup finds the segment the manifest has there, no gap opens at a switch or a period boundary, and selections keep hysteresis, caps, decoder and (where one of its qualities fits) the adaptation set, and do not alternate, with one exception for HLS audio (observations). |
| `buffering` | DASH and HLS, two periods, two qualities, partial appends, a timeline that may grow: media is appended after its init segment, at its place; list and buffer agree; the buffer is one range; a stream that ended was appended whole; an active controller goes on buffering until enough is buffered or an error is reported. |
| `media_source` | Two streams, content types and a duration that change, resets, failed appends, timeouts, and a media source that closes: no append before every stream has its buffer, no stream waits in vain, no source buffer leaks, the duration is the timeline's at rest unless setting it threw. |
| `media_duration` (violation) | The same instance: the duration is set while a source buffer is updating. |
| `recovery` | Retries are bounded, no object is left in an error state that a reset of the player would not reach, network errors are retried until the retries are used up, and a pending reset ends. |
| `tracks` | Prerolls, midrolls and postrolls of up to two ads, failing and empty lists, skips, errors, timeouts and queue changes: only the current track is active, an ad is current only during its break, a break always has something that moves it on, postrolls follow content only, and at rest the current entry of the queue plays. |
| `track_cache` | Over loads, queues, preloads, options and late ad options: the linked list implements an order of last use, the current track and what was just preloaded survive their own evictions, and no ad track outlives its content. |
| `manifest` | Requests with retries, timeouts, aborts and silent servers, two of them loads of a manifest: they settle in time, only aborts are silent, an abort ends the attempts, and a failed load is one that reset repeats. |
| `playback` | Over an element that leaves out events, lands seeks elsewhere or never completes them: every seek settles, a newer one leaves no older one waiting, and at rest the controller agrees with the element. |
| `drm` | Two activations whose streams share data, sessions from the manifest and from events, license failures, resets and disposal at every await: one open session per data, none of a track that is gone, what the active track needs stays open, and a failed license is remembered. |

## Bounds

| Run | Instance | Why it is enough |
|---|---|---|
| `task_queue` | 3 tasks, two priorities, capacities 1 and 2, one abort | two tasks of one priority and a more urgent one exercise the scan and the tie; two fill both slots while the third waits. All but the liveness properties are proved for any number. |
| `segments` | a live timeline that grows from 2 segments to 3, 2 qualities, 3 slots, 2 requests, one `getSegment`, 3 calls | one lookup of each kind at once; a third slot for what an overlapping lookup throws away, and two requests in flight, a third waiting until one has settled (also checked with a third request, on one quality or with 2 calls); the safety properties are proved for any number of each; the prefetch range shrinks when inactive and reaches the end; no symmetry, as liveness is checked. |
| `streaming` | six manifests: four with the forms of DASH and HLS, of which the HLS one is audio with an ad that has another `EXT-X-MAP`, one with two adaptation sets and one with a period that lacks the content type; two to four qualities, one to three periods, three bandwidths, four sets of options | the bandwidths lie below, between and above those of the qualities; segments with a decoder of their own follow one another and are left again; boundaries differ by one between qualities; segments straddle the start and the end of a period; every time of the media is looked up. Both properties are proved for any manifests that go forward. |
| `buffering` | on-demand timeline of 3 segments or one growing to 4, 2 periods, 2 qualities, segments of 2 chunks, 4 calls, 2 failures in DASH | a segment may take two appends, the third is in another period than the first, and two failures can hit one segment at both of its steps. The invariants were also checked with 4 segments, with 5 calls and with 3 failures. |
| `media_source`, `media_duration` | audio and video, three timelines (the second longer, the third without audio), 3 identities of buffers, 2 calls, one fault; one call and no fault in `media_duration` | a buffer of each type and a replacement, both buffering when the duration grows; a stream is disposed while it waits, while it is woken and while it appends. One identity is free at every creation (a lemma of the proofs), so none waits. Also checked with 3 calls; all properties of `media_source` are proved for any number. |
| `recovery` | audio and video, 2 retries, 5 errors | one more error than it takes to fail every source; the safety properties are proved for any number. |
| `tracks` | 2 uris, 3 breaks (one per placement) on the first, a queue of 1, 2 ads per break, 2 calls | the second uri has no ads and rejects; two calls are enough to change the content in the middle of any break, and to skip and then change it; two ads distinguish the last ad of a break from the others. With 3 calls or a queue of 2 it was checked with one ad. |
| `track_cache` | 3 uris, a queue of 2, capacity 1 or a prefetch window of 1, one pending ad; the uris are symmetric (safety only) | one track more than the cache holds, so that each call can evict at each of its operations; calls are unbounded. |
| `manifest` | 3 requests (2 loads), one retry, a timeout of 2, backoff, jitter and retry-after up to 1, 4 ticks | an attempt, a backoff and a second attempt fit before the timeout in one order and not in the other; a load can be superseded, time out and be repeated. All properties of this run are proved for any number of requests, retries and ticks. |
| `playback` | a media of two positions, one play, two seeks, one retry of a seek, two calls, one fault, queue of 2 events | a second seek at each wait of the first; also checked without `SameTask` and with two plays. |
| `drm` | two activations, two flows, sessions and exchanges, two key systems | the second activation needs the data of one stream of the first, so its session may be shared, reused or of the track that goes. |

`MaxAborts`, `MaxCalls`, `MaxErrors`, `MaxFailures`, `MaxFaults`, `MaxTime`, `MaxActivations`,
`MaxFlows` and the like bound what the environment does and nothing that the program does; where the
program may run out of identities (slots, requests, buffers), an action that needs one waits for a free
one. The instances have one more than is in use at a time, the two requests of `segments` apart. Runs set `CHECK_DEADLOCK FALSE` where the
program stops when nothing is left to do and the environment has used up its bound.

## Fairness

Fairness is given to what the event loop or the program itself guarantees and never to the user, the
network or the application.

- `TaskQueue`: a synchronous body returns or throws, a promise reaction runs, the loop goes on (strong
  fairness, as a nested body may interrupt them again and again). `AllSettle` assumes in its own
  statement that the work of a task settles.
- `SegmentController`: microtasks, due polls and settling requests (`Progress`); a request ends because
  the requester has a timeout (`SettlesInTime` of the run `manifest`).
- `Buffering`: due polls (`setTimeout`), the steps of the running task (settling of requests, appends
  and removals) and the opening of an attached media source.
- `PlayerRecovery`: the retry timer. `PendingResetEnds` assumes in its statement that the device is
  online again and again.
- `Playback`: promise reactions, the delivery of queued events and the timeout of a seek. The element
  need not complete a seek.
- The others have none: their properties are about safety. Where something must move on,
  they say of every state that it has what moves it: `BreakMovesOn` (`TrackController`), `WaitsEnd`
  (`MediaSource`), and `SettlesInTime` (`Requests`) bounds the clock.

## Proofs

`UtilProofs`, the task queue (for every finite set of tasks, every priority function, any natural capacities):

- `TypeCorrect`, `RunningExact`, `WorkConserving` from one inductive invariant `Inv`: `running` equals
  the number of started tasks; every task frame of the call stack belongs to a task in its body, occurs
  once and lies directly above a `CHECK` frame (`FrameInv`); and when there is work to start some
  `CHECK` frame is on the stack (`WakeupInv`). `FrameInv` is needed because a body that throws frees its
  slot without calling `checkQueue`: the loop below it must be there to look again.
- `AbortStopsWaiting`, when no capacity is 0: a task that waits when `abort()` is called never starts.
  `DoomInv` says that such tasks hold an abort older than the current one; the early return of `abort()`
  (`if (!this.running) return`) is harmless because nothing waits when nothing runs and the caller has
  control, which is `WakeupInv` again. With capacity 0 the theorem is false (observations).
- `QueueImplementsScheduler`: every step of the queue is a step of `Scheduler` or a stutter, from `Inv`
  and the facts that relate positions in the list to the order of arrival.

`UtilProofs`, the track cache (for any set of uris, any ads, options and lengths of the queue, any number of
calls):

- `TracksAlwaysSound` from `CacheInvAlways`. `Linked(l, q)` says that the pointers link the entries of a
  sequence in both directions; `RemoveUnlinks`, `LinkingAppends` and `PushNodeMoves` say what the operations
  of the list do to that sequence, and `ListIsWalked`, by a least counterexample, that the walks from head
  and tail, which read nothing but pointers, give it. What is left of a call is one of a few forms of the
  agenda (`Shape`), each with what it still has to establish (`CurrentInv`, `CapacityInv`).
- That a preload does not evict what it has just loaded needs an argument about numbers: with
  `|window| <= trackPrefetchCount + 1` and `|asked \ window|` at most the raised capacity, all that was asked
  for fits beside the window. So when the cache is full some unprotected track was not asked for, and
  because what was loaded lies behind all of those (`Fresh`), the victim is one of them
  (`VictimIsNotDone`). `SurvivorsStay` carries this over each eviction.
- `CacheImplementsLru`: the sequence linked by the pointers, under the same invariant, takes a step of
  `LruOrder` or a stutter in every step.

`PlayerProofs`, playback (for any length of media, any number of plays, seeks, calls, faults and events, any
queue of events):

- `ControllerAlwaysAgrees` from `PlaybackInv`. What the controller knows comes from events that are still
  queued, so agreement at rest is not inductive. `Leads(q, good, bad, now)` is: the last event of the queue
  about a matter is one that ends in what the element does, or none is queued and the controller has it
  right already. `Follows` says so of pausing, waiting, seeking and the end of media; every action of the
  element changes the one and appends the event in the same step, and delivering an event shortens the queue.
- `SupersededSeeksAlwaysEnd` from `SeeksInv`: only the last call of `seekTo` holds the abort that has not
  fired, and whoever else still waits has a reaction due.

`PlayerProofs`, streaming (for any manifests, options, bandwidths and seeks):

- `SelectionsAlwaysFit` under `Ladders`: qualities between which there is switching are sorted by bandwidth
  and agree on what they may be followed by. The default transformers sort each adaptation set; that
  sets which name each other are sorted as one is up to the manifest. `StreamingInv` says what the last selection
  was made from; `SelectionWithin`, `SelectionSteady` and `SelectionStable` prove the clauses of `QualityFits`
  for a single call of `selectQuality`, with `Cheaper` for the comparison of bandwidths that are scaled.
  `SelectionSteady` and `SelectionStable` exclude audio after a segment whose decoder is in no list (`stranded`).
  The proof found that the clauses about steps up do not hold where the code leaves the permitted groups
  (observations), which the instances of the run had not shown; the property now says where it excepts that.
- `NeverAGap` under `Chronological`: periods, and the times a manifest gives for the media of each quality,
  go forward. `TimelineIs` derives that the segments cut from them do, too. `Prefix` shows that the count of
  segments that have begun is the index of the last of them, on which `LookupIs` rests.
- `TimesAlwaysServed`: `EveryTimeIsServed` as a whole, under `Chronological` and `AreForms`. `FormIsRead` proves
  for every form and any number of segments that the code reads it as the standard has it: elements of a
  `SegmentTimeline` with repetitions, with and without times (`TimelineIsRead`, by the invariant `Expanded` of its loop),
  durations of a `sidx` box or a playlist (`DurationsAreRead`), a fixed duration (`FixedIsRead`, with
  `Multiples` for the count), and cues. `PeriodSpans` and `LookupIsLast` are the lookup. The forms with
  sums are induction over the data, done without the library's induction theorems: `UpTo` is
  induction over a set, `FoldExists` shows that the recursive function inside `FoldLeft` exists, and `CountGoes`,
  `LengthGoes`, `SumGoes` and `ExpansionGoes` that a fold goes through those of the prefixes.
- `Ladders`, `Chronological` and `AreForms` are hypotheses about what a manifest says. `AreForms` gives the
  types of what a form consists of, and leaves out a fixed duration with an offset, which the code misreads
  (observations), and negative repetitions. TLC evaluates all three for the manifests of the run (`InstanceAssumption`).

`PlayerProofs`, recovery (for any set of streams, any `maxRetries`):

- `TimedResetsBounded` and `ErrorsAgreed` (of which `NoFailureIsSilent` and `NetworkErrorsRetried` are
  parts) from `RecoveryInv`, which adds `RetriesCounted` (every timed reset was counted, and giving up
  means that the counter has passed `maxRetries`). Resets by the network and by playback events, and the
  reset by the application, are covered by `ResetClearsAll`: a reset of a player with an error leaves no
  object with one.

`TrackControllerProofs` (for any content, any breaks with any number of ads, any queue, any number of
calls):

- `TypeCorrect`, `OneActiveHolds` and `AdHasBreakHolds` from one inductive invariant, `TrackInv`. Because
  the calls nest, it is stated of the record of the whole state in two strengths: `Loose` (types, only the
  current track is active, an ad is pegged to the ad parent) holds also in the middle of `setCurrentTrack`,
  where the nested handlers run, and `Good` (`Loose`, and an ad that is current belongs to the break in
  progress) holds between the calls. Every operator has a lemma that takes one of the two to the other:
  `BreakCompletedContent` and `CompleteAdBreakGood` say that the end of a break always leaves content, or
  nothing, as the current track, `SetContentGood` that a `setCurrentTrack` whose nested calls set another
  track ends with the ads consistent all the same. `n <= total + 1` of the break in progress is the
  strengthening that an exceeded playout limit needs (`LimitGood`), which jumps past the last ad.
- `RestPlaysContentHolds` and `BreakMovesOnHolds` from a second invariant, `RestInv`, on top of it: without a
  break the current entry is active or a preroll that is still to settle will activate it (`Supplied`); with
  one, an active ad, its pending options or timer, a held lock or a list still to resolve moves it on
  (`Moving`); an entry that waits has no ad in its place (`InPlace`), and pending breaks belong to the
  provider (`BreaksProvided`). `Calm`, which is `Sure` without `Moving`, is what the operators may rely on
  between the end of a break and the call that starts the next thing.
- `PostrollAfterContentHolds`, an action property: no operator but the handler of `ended` adds a postroll to
  the jobs (`NoneAdded`, one lemma for each operator from `EnterNone` to `ApplicationNone`), and that handler
  adds one only for content that plays (`EndedContent`).

`RequestsProofs` (for any requests and loads, any retries, cutoff, timeout, backoff, jitter and headers,
each way in which a browser aborts a fetch):

- `RequestsSettleInTime`, `SilentOnlyWhenAborted` and the action property `AbortsEndAttempts` from
  `RequestsInv`, which ties the fields of a call to its phase: where the browser can abort, a request under
  way has its timer, no abort and time left; a backoff ends before the timeout (`UnderWay`); the last
  attempt knows that it is the last; a settled call holds neither signal nor body; only a request with a body
  to read or with a resolved backoff may be aborted and not yet settled. `SleepSound` and
  `NextAttemptsSound` carry it through any backoff, `AttemptEndsSound` from one attempt to the next.
- `LoadsAgreed` from `LoadsInv` on top of it: of the loads that measure the span at most one has not
  failed, which is what makes the span unique although the measurement is armed again by loads that were
  superseded; and a load reads no body of an error, so that an abort always settles its request.
  The assumption on `MaxTime` only says that the clock starts within its bound.

`SegmentControllerProofs` (for any slots, requests, `getSegment` calls, qualities, timelines, prefetch ranges,
any number of calls and events):

- `CacheIsSound` and `SlotsAreRequestedOnce` from `CacheInv`. A cached slot may be requested again while the
  abort of its last request is still on its way, so that "one open request per slot" is not inductive. What
  is: every request of a cached slot is the slot's current promise and none of them is being aborted
  (`PromisesInv`), because a slot is reset only when it has failed and leaves the cache when it is aborted;
  and the identity of a slot that an operation or a request still holds is not given away (`RefsInv`).
- `PrefetchIsNotForgotten`, an action property, adds `ChainInv`: each cached slot has its range handler, a
  prefetch under way keeps `prefetching` set, and a disposed controller is not active.

`BufferingProofs` (for any timeline, periods, qualities, sizes of segments and appends, any number of calls
and failures, under `Placeable`):

- `BufferAndListAgree`, `SegmentsAreInPlace` and `EndIsBuffered` from one invariant of controller, source
  buffer and running task: the decoder and the offset the controller knows are those of the buffer
  (`KeptInv`); what is listed is buffered (`ListInv`) and what is buffered lies in place, without a gap up to
  the newest segment (`MediaInv`), of which `appendOffset` chunks are there (`TailInv`); and what an append
  carries over its awaits is the successor of the newest segment or its rest (`TaskInv`), which a clear, a
  failure or a deactivation in between would have aborted.
- `Placeable` is a hypothesis of the theorems, not an assumption of the model. It excludes the two cases
  of which the theorems are false (observations): a browser without `changeType`, in which a new source buffer starts at
  offset 0 while the controller keeps the one it knew, and HLS segments that are appended in pieces or fail,
  which are appended again behind themselves. DASH is not restricted. The instance of the run satisfies it.

`MediaSourceProofs` (for any finite sets of content types and buffers with a buffer to spare, any timelines,
any number of calls and faults):

- `BuffersAreAccounted`, `AppendsAreReady`, `DurationIsCurrent` and `WaitsEndInTime` from one invariant,
  `Sound`, of the record of the whole state. `Owned` gives each tracked buffer one owner, a stream or a
  rejected continuation; from it `ReadyMeans` proves, by a bijection, that the count `readyToAppend` compares
  is right: it holds just when the duration and the content types are there and every stream has a buffer.
  `Quiet` is needed for that: a continuation left behind is gone before the duration is set again, so none is counted in
  place of a stream. `Begun` says that the first buffer to be initialized finds all others created;
  `Waiters` and `Woken` that those who wait are woken when the count becomes right, and not before;
  `Current` and `Blameless` where the duration comes from.
- Activation, deactivation and the change of content types pass through states in which the streams are off
  and the track is not: `Off` is what holds there, and leads back to `Sound` in either direction
  (`DeactivatedOff`, `OffSound`, `OnSound`, `NewTypesSound`).

`DrmProofs` (for any key systems, data, manifests, activations, flows, sessions and exchanges):

- `SessionsAreSound` and `CurrentSessionsAreKept` from `SessionInv`: a flow belongs to a track that has been
  activated (`FlowsInv`), and the session that a flow of the active track has found is one of that track even if
  another flow created it (`OwnersInv`), so that closing the sessions of one track closes none that the next
  one needs. `KeysInv` follows the promise of the media keys.
- `FailuresAreRemembered` from `ExchangesInv`, a weaker condition that does not speak of all exchanges at once.

Only the assumptions on the constants named in the modules are used. What is only model-checked: all
liveness properties (`AbortedSettle`, `AllSettle`, `PrefetchComesToRest`, `PendingResetEnds`,
`BufferingProgress`, `SeekSettles`: TLAPS does not reason about fairness here). Every invariant and every
action property of the passing runs is proved.

## Findings and observations

The violation run is a disagreement of the code with a comment, quoted in `PROJECT.json` "findings".
`refreshDuration` waits for the source buffers that are updating when it looks (`MediaSourceController.ts`
285). One that is idle first begins its next append before the last one is idle: the duration is set while
it is updating, which throws, against the comment at l. 274, and the old duration stays.

Further observations, seen while modelling or in ad-hoc runs, which no run repeats:

- `TaskQueue` with capacity 0: `abort()` returns early when nothing runs (l. 144), so tasks waiting in a
  paused queue run later.
- `SegmentControllerImpl`: a prefetch that looked past the end sets `ended` (l. 338) after a seek (l. 681),
  `configure` (l. 226) or a timeline change (l. 180) has cleared it, and polling stops at l. 322 although
  the comment of l. 141 promises that the last segment is cached; with 4 calls the run `segments` finds the
  same on a live timeline. A `getSegment` that resets a failed slot revokes such an `ended` without polling
  (l. 734), and the late reaction to the abort of a swept slot drops a range that has been fetched again
  (l. 346-356, 740-751); with more calls and slots than those of the run either leaves the prefetch idle with a segment
  missing until the next event. `PrefetchNotForgotten` excepts both. A slot whose quality was selected before `clear()` is inserted after it (l. 581,
  640), also after the hard reset that was to drop a denylisted codec (`TrackBase.ts` 251). A slot swept from
  the cache and still held by a `getSegment` reports its range as fetched (l. 556). A `getSegment` that
  resumes after `dispose()` starts a request that nothing aborts (l. 487).
- `BufferingController`: a clear in the middle of a segment appended in pieces does not finish it or reset
  the parser (l. 992-997). Without `changeType` a new source buffer starts at offset 0 while the controller
  keeps the offset it knew (`SourceBufferController.ts` 166, `BufferingController.ts` 305). `deactivate()`
  keeps `_error` (l. 398). `_bufferingEnded` survives a timeline that grows (l. 481), which is then buffered
  one append at a time. In HLS a segment that was fetched and not appended resets `appendOffset` (l. 514), so
  that a complete tail looks partial and is appended again, in the place of its successor (l. 660).
- `QualitySelectorImpl`: when no quality of the permitted groups fits the bandwidth, `selectQuality` falls
  back to the last quality of the whole list within the resolution (l. 351) and leaves the adaptation set,
  which `MediaQualityMetadata.ts` 215-219 does not permit. What it takes then may need more bandwidth than the
  preceding quality, have another decoder, and be given up again at the next selection, in its own group.
  `QualityFits` excepts this case (`leaves`).
- `QualitySelectorImpl` and HLS audio: with `restrictDecoderChangeOnAudioAbrUp` the selection looks for the
  decoder of the preceding segment (l. 323, 334), which after a new `EXT-X-MAP` has a decoder id that no
  quality of the list has (`buildHlsMediaTimeline.ts` 240-250). Nothing is permitted, and l. 351 takes the
  lowest audio quality, with however much bandwidth and buffer, where the option is only meant to prevent a step
  up (l. 317-319): at a stitched ad the audio falls to the lowest quality. `QualityFits` excepts this case
  (`stranded`) from its clauses about steps down and about alternating; without the exception the run `streaming` finds it
  in four steps.
- DASH timelines: segments of a fixed duration start at sample 0 whatever the `presentationTimeOffset`
  (`DashRepresentationSegmentProvider.ts` 539), so with an offset they lie before their period and each
  lookup finds the last one; the manifests of the model have none. The last sample time is the end of the
  period, not the duration that the comment names, which clamping makes good. `r = -1` in a `SegmentTimeline`
  yields no segments. Two failing concurrent `getSegments` may drop a newer promise of segments.
- `MseTrack` and `MediaSourceControllerImpl`: `endOfStream` is called while another stream clears or appends
  (`MseTrack.ts` 334), which the browser answers with an `InvalidStateError`; and, after the browser has
  closed the media source, while another one waits for the duration, which an ended source is not given
  (l. 288), so that only the timeout ends the wait. Content types have no stale check (`MseTrack.ts` 121). A call between `readyToAppend` and the continuation of a woken `appendInit` leaves its
  buffer in `sourceBuffers`. After the browser closes and reopens a media source the streams keep references
  to the removed buffers.
- `AutoResetController`: `reset()` clears first, so `resetPendingChange(false)` is dispatched while
  `player.error` is still set, which the comment at `VinylPlayer.ts` 109 reserves for exhausted retries.
  Once the retries are used up the `online` listener is gone (l. 198), where `vinyl/docs/AUTO_RESET.md` 21
  lets a reader expect a reset when the network returns.
- `AdController`: prerolls play again when a track is loaded twice in quick succession, because the pending
  list is filled before the break is completed. An ad that fails while `loadingNext` is held leaves the
  rest of the pending list undrained until the next event, which blocks midroll ingress; a dropped ad of a
  longer break waits for the 15 s load timeout. `load()` of the uri that is current during an ad keeps the
  old break (early return at l. 356). `setAdsProvider` completes a postroll of the old content (l. 358),
  which the `TrackController` then reports as `trackEnded` of the new content (l. 425, against l. 64).
- `StitchedAdTracker`: `skipAd` within the seek tolerance of the end is a seek without events, so `seeking`
  stays set and time updates are ignored until another seek; ads that resolve late are entered without a
  look at `contentActive` or `seeking`; skipping an open-ended ad re-enters it.
- `TrackController`: content that ends while the list of a midroll resolves, and the list is empty or
  fails, never advances the queue. The same object queued twice is not re-activated by `next()`, though the
  comment of `setQueue` says that a track may be in the queue more than once. `clearTrackCache()` disposes
  the active track before it leaves it. `queueIdx` also counts changes of the upcoming queue (l. 476, 484),
  so `enqueue` or `clearQueue` in response to `ended` cancels `trackEnded` and the advance. `load()` of
  tracks that are not cached may evict, and so dispose, the outgoing track before `setCurrentTrack`: no
  `trackDeactivated` is dispatched for it. `getCachedTrack`, a read, changes the order of eviction.
- `RequesterImpl`: without an `AbortController` a timeout does not end a silent fetch (l. 392-400), and
  browsers without abort reasons report a timeout as a silent abort. Failure count and retry-after are read
  before the sleep (l. 369); `retryAfter` is never cleared (`NetworkMetricsControllerImpl.ts` 300). Once the
  headers are there neither timeout nor abort reaches the body (l. 336). A request that has timed out and has
  retries left reports one more attempt and ends as an internal error. The providers of the repository pass no
  `serviceId`, so the failure count is 0 for them. A caller that aborts in the task in which it called `request`,
  or before the reaction to any other backoff of no time, does not keep the code from calling `fetch`: the sleep has
  resolved (`sleep.ts` 39) and nothing looks at the abort between it (l. 374, 385) and the fetch (l. 392-394),
  after which `withAbort` rejects. Where there is an `AbortController` the fetch gets a signal that is aborted
  already; where there is none it is a real fetch whose response is dropped.
- `ManifestControllerImpl`: a superseded load that fails sets the error (l. 85), so that a reset reloads a
  good manifest.
- `PlaybackControllerImpl`: the `finally` of an aborted play clears what a newer play of the same task has
  stored (l. 659), so that a later `pause()` does not abort it. A queued `playing` ends `waiting` while the
  element seeks to where nothing is buffered. The stall monitor can report a stall while the element seeks
  (`createStallMonitor.ts` 60 says never). The kick of a stuck seek calls `play()` on a paused element. A
  seek whose wait for metadata resolved in the dispatch in which a newer seek was made still sets the
  position, which the comment at l. 729-731 leaves to the newer one. `seekTo` documents that a superseded promise rejects with an `AbortError`; it resolves. The
  second seek may be resolved by queued events of the first.
- `DrmControllerImpl`: an exchange repeated by a reset has no license timeout (l. 857), and one in flight or
  of a closed session is repeated, too; of two failed sessions only the last is repeated. `sessionClose` is
  dispatched twice for a session that closed and is then aborted. A rejected promise of media keys is never
  retried (l. 310). A dispose during `setMediaKeys` leaves the keys on the element.

## Not modelled

The map of `PROJECT.json` covers about 8 % of the lines of the repository, because most of them are not
control logic: the manifest schemas and parsers (DASH, HLS, XML, WebVTT, SCTE-35), validation,
transmuxing, the website, test utilities, bindings, event and option types, documentation comments, and
the wiring of the player are translations of data or declarations. A model of them would be a second copy
of the code whose only specification is the code, and tables of unit tests cover it better. What is
modelled are the stateful parts at which concurrency, failure and ordering bite. Of components with state
of their own, these are left out:

- `StitchedAdTracker`: one synchronous handler of time updates; its irregularities are observations above.
- `SegmentPrefetch`: a `TaskQueue` whose priorities come from the order of the tracks; the queue is
  modelled and proved.
- `CacheManager`: a separate package over the browser's cache API, on which the player does not depend.
- Text tracks: a loader that fetches once; the rest is parsing and rendering.
- `throttle`, `debounce`, observables, ranges, persistence: the models use what they do (a pending flag, a
  read at the point where the code reads, sets of segments in place of intervals of floating-point numbers).
- Bandwidth averages and loudness: floating-point arithmetic.

Left out of the components that are modelled in part: see their sections and the notes in `PROJECT.json`.

## Plan

What is left, most valuable first.

1. Abstract specifications: an append-only presentation implemented by `Buffering`; a queue of tracks with
   ad breaks as atomic interludes implemented by `TrackController`.
2. `StitchedAdTracker` and `SegmentPrefetch`; the composition of `MediaSource` with one `Buffering` per
   stream, on an instance smaller than those of the two runs.
