---------------------------- MODULE PlayerRecovery ----------------------------
(* Recovery from playback errors: AutoResetControllerImpl                      *)
(* (vinyl/src/track/AutoResetController.ts) composed with the error state of   *)
(* VinylPlayer, of the playback and DRM controllers, and of the current track  *)
(* with its content streams (TrackBase, MseTrack, BufferingController).        *)
(*                                                                             *)
(* Each object keeps an error of its own and is silent about a second error    *)
(* until it is reset; reset() is a no-op for an object without one.  Recovery  *)
(* works only while these copies agree with each other and with the retry      *)
(* watch of the AutoResetController.                                           *)
EXTENDS Integers, FiniteSets

CONSTANTS
    Streams,        \* the content streams of the current track
    MaxRetries,     \* options.maxRetries
    MaxErrors       \* bound on the number of errors reported

Controllers == {"drm", "playback", "track"}

ASSUME PlayerRecoveryAssumption ==
    /\ MaxRetries \in Nat
    /\ MaxErrors \in Nat
    /\ Streams \cap Controllers = {}

VARIABLES
    online,         \* navigator.onLine
    watched,        \* AutoResetControllerImpl._error is set
    watch,          \* its watchSub: see Watches
    currentRetry,   \* its currentRetry
    playerError,    \* VinylPlayer._error
    failed,         \* the _error of each controller, track and stream
    timedResets,    \* history: resets by the timer since currentRetry was zeroed
    errors          \* history: errors reported

recoveryVars == <<online, watched, watch, currentRetry, playerError, failed,
          timedResets, errors>>

Sources == Controllers \cup Streams

(* "network": a RequestError without a response, the only kind the             *)
(* AutoResetController retries; "fatal": every other error that is not silent. *)
Errors == {"network", "fatal"}

(* "none": watchSub is null; "timer": the timeout is pending; "fired": it has  *)
(* elapsed while offline, and only the 'online' listener is left.              *)
Watches == {"none", "timer", "fired"}

resetPending == watch # "none"

(* The retries are used up: the error is kept, nothing watches any more.       *)
Exhausted == watched /\ ~resetPending

RecoveryTypeOK ==
    /\ online \in BOOLEAN
    /\ watched \in BOOLEAN
    /\ watch \in Watches
    /\ currentRetry \in Nat
    /\ playerError \in Errors \cup {"none"}
    /\ failed \in [Sources -> Errors \cup {"none"}]
    /\ timedResets \in Nat
    /\ errors \in 0..MaxErrors
    /\ resetPending => watched

RecoveryInit ==
    /\ online \in BOOLEAN
    /\ watched = FALSE
    /\ watch = "none"
    /\ currentRetry = 0
    /\ playerError = "none"
    /\ failed = [s \in Sources |-> "none"]
    /\ timedResets = 0
    /\ errors = 0

------------------------------------------------------------------------------
(* AutoResetControllerImpl.setError, called by the player's 'error' handler    *)
(* after the one that stores player._error.                                    *)
setError(e) ==
    IF watched \/ e # "network"
    THEN UNCHANGED <<watched, watch>>
    ELSE /\ watched' = TRUE
         /\ watch' = "timer"

(* AutoResetControllerImpl.clear; its resetPendingChange is not modelled.      *)
clear ==
    /\ watched' = FALSE
    /\ watch' = "none"

MutResetSkipsStreams ==    \* Mutant: a track reset that leaves its streams failed
    [s \in Sources |-> IF s \in Streams THEN failed[s] ELSE "none"]

(* VinylPlayer.reset resets the DRM controller, the playback controller and    *)
(* the current track; MseTrack.reset resets its streams.  Each is a no-op for  *)
(* an object that is not in an error state.                                    *)
resetSources ==
    [s \in Sources |-> IF s \in Streams /\ failed["track"] = "none"
                       THEN failed[s] ELSE "none"]

(* VinylPlayer.reset, run by the 'reset' event or by the application.          *)
playerReset ==
    /\ playerError' = "none"
    /\ failed' = IF playerError = "none" THEN failed ELSE resetSources

(* AutoResetControllerImpl.reset: clear(), then the 'reset' event.  The player *)
(* still holds its error while clear() notifies.                               *)
autoReset ==
    IF watched
    THEN /\ clear
         /\ playerReset
    ELSE UNCHANGED <<watched, watch, playerError, failed>>

------------------------------------------------------------------------------
(* An error of the DRM controller or of the track (TrackBase.errorHandler):    *)
(* ignored while one is set.  A media element error is always dispatched.      *)
report(s, e) ==
    /\ errors < MaxErrors
    /\ s = "playback" => e = "fatal"
    /\ s # "playback" => failed[s] = "none"
    /\ failed' = [failed EXCEPT ![s] = e]
    /\ playerError' = e
    /\ setError(e)
    /\ errors' = errors + 1
    /\ UNCHANGED <<online, currentRetry, timedResets>>

(* A stream in an error state stops; the track passes its error on only if it  *)
(* has none itself.                                                            *)
streamFails(s, e) ==
    /\ errors < MaxErrors
    /\ failed[s] = "none"
    /\ IF failed["track"] = "none"
       THEN /\ failed' = [failed EXCEPT ![s] = e, !["track"] = e]
            /\ playerError' = e
            /\ setError(e)
       ELSE /\ failed' = [failed EXCEPT ![s] = e]
            /\ UNCHANGED <<playerError, watched, watch>>
    /\ errors' = errors + 1
    /\ UNCHANGED <<online, currentRetry, timedResets>>

MutRetriesInclusive ==    \* Mutant: retries compared with <= after the increment
    /\ watch = "timer"
    /\ currentRetry' = currentRetry + 1
    /\ IF currentRetry > MaxRetries
       THEN /\ watch' = "none"
            /\ UNCHANGED <<watched, playerError, failed, timedResets>>
       ELSE IF online
            THEN autoReset /\ timedResets' = timedResets + 1
            ELSE /\ watch' = "fired"
                 /\ UNCHANGED <<watched, playerError, failed, timedResets>>
    /\ UNCHANGED <<online, errors>>

(* The timeout of setResetPending.                                             *)
timerFires ==
    /\ watch = "timer"
    /\ currentRetry' = currentRetry + 1
    /\ IF currentRetry >= MaxRetries
       THEN /\ watch' = "none"
            /\ UNCHANGED <<watched, playerError, failed, timedResets>>
       ELSE IF online
            THEN autoReset /\ timedResets' = timedResets + 1
            ELSE /\ watch' = "fired"
                 /\ UNCHANGED <<watched, playerError, failed, timedResets>>
    /\ UNCHANGED <<online, errors>>

MutOnlineNeedsTimer ==    \* Mutant: the online listener goes with the timeout
    /\ ~online
    /\ online' = TRUE
    /\ IF watch = "timer"
       THEN autoReset
       ELSE UNCHANGED <<watched, watch, playerError, failed>>
    /\ UNCHANGED <<currentRetry, timedResets, errors>>

(* The 'online' event; its listener exists only while watching.                *)
goOnline ==
    /\ ~online
    /\ online' = TRUE
    /\ IF resetPending
       THEN autoReset
       ELSE UNCHANGED <<watched, watch, playerError, failed>>
    /\ UNCHANGED <<currentRetry, timedResets, errors>>

goOffline ==
    /\ online
    /\ online' = FALSE
    /\ UNCHANGED <<watched, watch, currentRetry, playerError, failed,
                   timedResets, errors>>

(* 'play', 'pause', 'seeking' or 'playing' of the playback controller.         *)
playbackEvent ==
    /\ currentRetry' = 0
    /\ timedResets' = 0
    /\ autoReset
    /\ UNCHANGED <<online, errors>>

(* player.reset() called by the application, which clears the                  *)
(* AutoResetController as well.                                                *)
appReset ==
    /\ playerError # "none"
    /\ playerReset
    /\ clear
    /\ UNCHANGED <<online, currentRetry, timedResets, errors>>

(* The track and its streams start afresh: TrackController.setCurrentTrack     *)
(* activates another track (TrackBase.activate resets it), or an unsupported   *)
(* codec makes the player reset the current one hard.  Neither touches the     *)
(* error of the player or of the AutoResetController.                          *)
trackRestarts ==
    /\ failed' = [s \in Sources |-> IF s \in Streams \cup {"track"}
                                    THEN "none" ELSE failed[s]]
    /\ UNCHANGED <<online, watched, watch, currentRetry, playerError,
                   timedResets, errors>>

(* DrmControllerImpl.setBufferingDrmInfo resets the DRM error on its own.      *)
drmRestarts ==
    /\ failed' = [failed EXCEPT !["drm"] = "none"]
    /\ UNCHANGED <<online, watched, watch, currentRetry, playerError,
                   timedResets, errors>>

RecoveryNext ==
    \/ \E s \in Controllers, e \in Errors : report(s, e)
    \/ \E s \in Streams, e \in Errors : streamFails(s, e)
    \/ timerFires
    \/ goOnline
    \/ goOffline
    \/ playbackEvent
    \/ appReset
    \/ trackRestarts
    \/ drmRestarts

RecoverySpec == RecoveryInit /\ [][RecoveryNext]_recoveryVars

(* The browser fires a pending timeout.                                        *)
RecoveryFairSpec == RecoverySpec /\ WF_recoveryVars(timerFires)

------------------------------------------------------------------------------
(* Without successful playback or another playback event in between, the timer *)
(* resets at most maxRetries times (AutoResetControllerImplOptions.maxRetries),*)
(* however errors, outages and resets by the application are interleaved.      *)
RetryBound == timedResets <= MaxRetries

(* No object is stuck in an error state the player does not know of: reset()   *)
(* is a no-op for a player, or a track, without an error, so such an object    *)
(* would stay failed for good.                                                 *)
NoSilentFailure ==
    /\ (\E s \in Sources : failed[s] # "none") => playerError # "none"
    /\ (\E s \in Streams : failed[s] # "none") => failed["track"] # "none"

(* A network error the player shows is being retried, unless all retries have  *)
(* been used up (VinylPlayer.resetPending, AutoResetController.resetPending).  *)
NetworkErrorIsWatched ==
    playerError = "network" /\ ~resetPending =>
        Exhausted /\ currentRetry > MaxRetries

(* The error states of player, controllers, track and streams agree, and the   *)
(* network error shown is being retried.                                       *)
ErrorsAgree == RecoveryTypeOK /\ NoSilentFailure /\ NetworkErrorIsWatched

(* If the device keeps coming back online, a pending reset is not pending for  *)
(* ever: it is emitted, cleared, or the retries are used up.                   *)
PendingResetEnds == []<>online => (resetPending ~> ~resetPending)
===============================================================================
