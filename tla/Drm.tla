--------------------------------- MODULE Drm ---------------------------------
(* DrmControllerImpl: media keys that are created and set once for all streams *)
(* and tracks, key sessions created from the manifest or on encrypted events,  *)
(* and the license exchanges of the sessions, which a reset repeats.           *)
(*                                                                             *)
(* A track that is activated holds an abort slot (TrackBase) until it is       *)
(* deactivated; a flow is one call of createSessionFromInitData or             *)
(* maybeCreateSession, an exchange one call of messageHandler.  Awaited        *)
(* promises settle in any order.                                               *)
EXTENDS Naturals, FiniteSets

CONSTANTS
    Systems,            \* key systems
    Data,               \* initialization data
    Contents,           \* content ids
    MaxActivations, MaxFlows, MaxSessions, MaxExchanges,   \* bounds
    DataOf,             \* of an activation, that of its streams
    ContentOf,          \* of an activation, its content id
    Protections         \* of an activation, the key systems of its manifest

Activations == 1..MaxActivations
Flows == 1..MaxFlows
Sessions == 1..MaxSessions
Exchanges == 1..MaxExchanges

ASSUME DrmAssumption ==
    /\ {MaxActivations, MaxFlows, MaxSessions, MaxExchanges} \subseteq Nat
    /\ DataOf \in [Activations -> SUBSET Data]
    /\ ContentOf \in [Activations -> Contents]
    /\ Protections \in [Activations -> SUBSET Systems]
    /\ Data \cap Contents = {} /\ "none" \notin Systems

VARIABLES
    fairPlay,           \* sessions start from the content id
    manifest,           \* the manifests provide init data
    now, last,          \* the active activation or 0, and the latest one
    buffering,          \* whose drmInfo, track and abort are set for encrypted events
    keys,               \* mediaKeysPromise and the key system it is for
    attachments,        \* history: how often media keys were set on the element
    flow, session, exchange,
    pending,            \* the session of pendingMessageProps, or 0
    gaveUp,             \* history: a reset found the decoder failed, too
    error,              \* _error # null
    disposed

vars == <<fairPlay, manifest, now, last, buffering, keys, attachments, flow, session,
          exchange, pending, gaveUp, error, disposed>>

config == <<fairPlay, manifest>>
tracks == <<now, last, buffering>>

noFlow == [phase |-> "none", act |-> 0, data |-> "none", manifest |-> FALSE, session |-> 0]

(* Sessions that the controller closes are "closed", others are "gone".        *)
noSession == [state |-> "none", act |-> 0, key |-> "none"]

noExchange == [phase |-> "none", session |-> 0, timed |-> FALSE]

TypeOK ==
    /\ fairPlay \in BOOLEAN /\ manifest \in BOOLEAN
    /\ {now, last, buffering} \subseteq 0..MaxActivations
    /\ keys \in [promise : {"none", "access", "attach", "resolved", "rejected"},
                 system : Systems \cup {"none"}]
    /\ attachments \in 0..MaxFlows
    /\ flow \in [Flows -> [phase : {"none", "keys", "options", "ended"},
                           act : 0..MaxActivations, data : Data \cup {"none"},
                           manifest : BOOLEAN, session : 0..MaxSessions]]
    /\ session \in [Sessions -> [state : {"none", "open", "closed", "gone"},
                                 act : 0..MaxActivations,
                                 key : Data \cup Contents \cup {"none"}]]
    /\ exchange \in [Exchanges -> [phase : {"none", "license", "done", "failed", "aborted"},
                                   session : 0..MaxSessions, timed : BOOLEAN]]
    /\ pending \in 0..MaxSessions /\ gaveUp \in BOOLEAN
    /\ error \in BOOLEAN /\ disposed \in BOOLEAN

Init ==
    /\ fairPlay \in BOOLEAN /\ manifest \in BOOLEAN
    /\ now = 0 /\ last = 0 /\ buffering = 0
    /\ keys = [promise |-> "none", system |-> "none"] /\ attachments = 0
    /\ flow = [f \in Flows |-> noFlow] /\ session = [s \in Sessions |-> noSession]
    /\ exchange = [x \in Exchanges |-> noExchange]
    /\ pending = 0 /\ gaveUp = FALSE /\ error = FALSE /\ disposed = FALSE

------------------------------------------------------------------------------
aborted(a) == a # now

isOpen(s) == session[s].state = "open"

(* What a session is matched by: FairPlay starts it from the content id.       *)
keyOf(a, d) == IF fairPlay THEN ContentOf[a] ELSE d

isNextFlow(f) == flow[f].phase = "none" /\ \A g \in 1..(f - 1) : flow[g].phase # "none"
isNextSession(s) == session[s].state = "none" /\ \A r \in 1..(s - 1) : session[r].state # "none"
isNextExchange(x) ==
    exchange[x].phase = "none" /\ \A y \in 1..(x - 1) : exchange[y].phase # "none"

(* attachMediaKeys: the first caller determines the key system for all.        *)
attachMediaKeys(a) ==
    IF keys.promise = "none"
    THEN \E sys \in Protections[a] : keys' = [promise |-> "access", system |-> sys]
    ELSE UNCHANGED keys

Starts(f, a, d, fromManifest) ==
    /\ isNextFlow(f)
    /\ flow' = [flow EXCEPT ![f] = [noFlow EXCEPT !.phase = "keys", !.act = a, !.data = d,
                                                 !.manifest = fromManifest]]
    /\ attachMediaKeys(a)

ends(f) == flow' = [flow EXCEPT ![f] = [noFlow EXCEPT !.phase = "ended"]]

(* ---- media keys ---- *)
AccessCreated ==
    /\ keys.promise = "access"
    /\ keys' = [keys EXCEPT !.promise = IF disposed THEN "rejected" ELSE "attach"]
    /\ attachments' = IF disposed THEN attachments ELSE attachments + 1
    /\ UNCHANGED <<config, tracks, flow, session, exchange, pending, gaveUp, error,
                   disposed>>

KeysSet ==
    /\ keys.promise = "attach"
    /\ keys' = [keys EXCEPT !.promise = IF disposed THEN "rejected" ELSE "resolved"]
    /\ UNCHANGED <<config, tracks, attachments, flow, session, exchange, pending,
                   gaveUp, error,
                   disposed>>

KeysFail ==
    /\ keys.promise \in {"access", "attach"}
    /\ keys' = [keys EXCEPT !.promise = "rejected"]
    /\ UNCHANGED <<config, tracks, attachments, flow, session, exchange, pending,
                   gaveUp, error,
                   disposed>>

(* ---- sessions ---- *)
(* Mutant: whether a session exists is only asked before the awaits.           *)
MutNoReuse(f) ==
    \E s \in Sessions :
        /\ isNextSession(s)
        /\ session' = [session EXCEPT ![s] =
              [state |-> IF aborted(flow[f].act) THEN "closed" ELSE "open",
               act |-> flow[f].act, key |-> keyOf(flow[f].act, flow[f].data)]]
        /\ flow' = [flow EXCEPT ![f].phase = "ended", ![f].session = s]

(* Mutant: a session that was closed is found again.                           *)
MutReusesClosed(f) ==
    LET key == keyOf(flow[f].act, flow[f].data)
        existing == {s \in Sessions : session[s].state # "none" /\ session[s].key = key}
    IN \E s \in IF existing # {} THEN existing ELSE {r \in Sessions : isNextSession(r)} :
        /\ session' = IF existing # {} THEN session
                      ELSE [session EXCEPT ![s] =
                              [state |-> IF aborted(flow[f].act) THEN "closed" ELSE "open",
                               act |-> flow[f].act, key |-> key]]
        /\ flow' = [flow EXCEPT ![f].phase = "ended", ![f].session = s]

(* The end of maybeCreateSession, after its last await: an open session is     *)
(* reused, and a new one is closed at once if its abort came meanwhile.        *)
CreatesSession(f) ==
    LET key == keyOf(flow[f].act, flow[f].data)
        existing == {s \in Sessions : isOpen(s) /\ session[s].key = key}
        created == [state |-> IF aborted(flow[f].act) THEN "closed" ELSE "open",
                    act |-> flow[f].act, key |-> key]
    IN \E s \in IF existing # {} THEN existing ELSE {r \in Sessions : isNextSession(r)} :
        /\ session' = IF existing # {} THEN session ELSE [session EXCEPT ![s] = created]
        /\ flow' = [flow EXCEPT ![f].phase = "ended", ![f].session = s]

Fails(f) == ends(f) /\ error' = TRUE /\ UNCHANGED session

FlowHasKeys(f) ==
    /\ flow[f].phase = "keys"
    /\ \/ keys.promise = "rejected"
          /\ ends(f) /\ error' = (error \/ ~disposed) /\ UNCHANGED session
       \/ keys.promise = "resolved" /\ disposed
          /\ ends(f) /\ UNCHANGED <<error, session>>
       \/ keys.promise = "resolved" /\ ~disposed
          /\ IF flow[f].manifest /\ keys.system \notin Protections[flow[f].act] THEN Fails(f)
             ELSE /\ flow' = [flow EXCEPT ![f].phase =
                                IF flow[f].manifest /\ ~manifest THEN "ended" ELSE "options"]
                  /\ UNCHANGED <<error, session>>
    /\ UNCHANGED <<config, tracks, keys, attachments, exchange, pending, gaveUp,
                   disposed>>

(* The awaits of the options of the license server and of the certificate, one *)
(* after the other, go on in the same way.                                     *)
FlowHasOptions(f) ==
    /\ flow[f].phase = "options"
    /\ \/ disposed /\ ends(f) /\ UNCHANGED <<error, session>>
       \/ ~disposed /\ CreatesSession(f) /\ UNCHANGED error
       \/ ~disposed /\ Fails(f)
    /\ UNCHANGED <<config, tracks, keys, attachments, exchange, pending, gaveUp,
                   disposed>>

SessionEnds(s) ==
    /\ isOpen(s)
    /\ session' = [session EXCEPT ![s].state = "gone"]
    /\ error' \in {error, TRUE}
    /\ UNCHANGED <<config, tracks, keys, attachments, flow, exchange, pending, gaveUp,
                   disposed>>

(* ---- license exchanges ---- *)
Begins(x, s, timed) ==
    /\ isNextExchange(x)
    /\ exchange' = [exchange EXCEPT ![x] = [phase |-> "license", session |-> s, timed |-> timed]]

Message(s) ==
    /\ isOpen(s)
    /\ \E x \in Exchanges : Begins(x, s, TRUE)
    /\ pending' = s /\ gaveUp' = FALSE
    /\ UNCHANGED <<config, tracks, keys, attachments, flow, session, error, disposed>>

to(x, phase) == exchange' = [exchange EXCEPT ![x] = [noExchange EXCEPT !.phase = phase]]

(* FairPlay asks for the certificate first: no license is requested.           *)
CertificateSent(x) ==
    /\ exchange[x].phase = "license" /\ fairPlay /\ ~disposed
    /\ to(x, "done") /\ pending' = 0
    /\ UNCHANGED <<config, tracks, keys, attachments, flow, session, gaveUp, error,
                   disposed>>

(* The update of an open session may fail.                                     *)
LicenseArrives(x) ==
    /\ exchange[x].phase = "license"
    /\ IF disposed THEN to(x, "aborted") /\ UNCHANGED <<pending, error>>
       ELSE /\ to(x, "done") /\ pending' = 0
            /\ error' \in IF isOpen(exchange[x].session) THEN {error, TRUE} ELSE {error}
    /\ UNCHANGED <<config, tracks, keys, attachments, flow, session, gaveUp, disposed>>

(* Mutant: the exchange is forgotten when it fails, too.                       *)
MutForgetsFailed(x) ==
    /\ exchange[x].phase = "license"
    /\ to(x, "failed") /\ error' = TRUE /\ pending' = 0
    /\ UNCHANGED <<config, tracks, keys, attachments, flow, session, gaveUp, disposed>>

ExchangeFails(x) ==
    /\ exchange[x].phase = "license"
    /\ to(x, "failed") /\ error' = TRUE
    /\ UNCHANGED <<config, tracks, keys, attachments, flow, session, pending, gaveUp,
                   disposed>>

(* withTimeout reports; the exchange itself goes on.                           *)
LicenseTimesOut(x) ==
    /\ exchange[x].phase = "license" /\ exchange[x].timed
    /\ exchange' = [exchange EXCEPT ![x].timed = FALSE]
    /\ error' = TRUE
    /\ UNCHANGED <<config, tracks, keys, attachments, flow, session, pending, gaveUp,
                   disposed>>

(* reset: a failed exchange is repeated unless the decoder has failed, too.    *)
ResetsError ==
    /\ error' = FALSE
    /\ IF ~error \/ pending = 0 THEN UNCHANGED <<exchange, pending, gaveUp>>
       ELSE \/ pending' = 0 /\ gaveUp' = TRUE /\ UNCHANGED exchange
            \/ (\E x \in Exchanges : Begins(x, pending, FALSE))
               /\ UNCHANGED <<pending, gaveUp>>

------------------------------------------------------------------------------
(* ---- tracks and the player ---- *)
Reset ==
    /\ ~disposed /\ error
    /\ ResetsError
    /\ UNCHANGED <<config, tracks, keys, attachments, flow, session, disposed>>

Activate ==
    /\ ~disposed /\ now = 0 /\ last < MaxActivations
    /\ now' = last + 1 /\ last' = last + 1
    /\ UNCHANGED <<config, buffering, keys, attachments, flow, session, exchange,
                   pending, gaveUp,
                   error, disposed>>

(* initializeForPlayback, for the quality of a stream.                         *)
InitializeForPlayback ==
    /\ ~disposed /\ now # 0
    /\ \E f \in Flows : \E d \in DataOf[now] : Starts(f, now, d, TRUE)
    /\ UNCHANGED <<config, tracks, attachments, session, exchange, pending, gaveUp,
                   error, disposed>>

SetBufferingDrmInfo ==
    /\ ~disposed /\ now # 0
    /\ buffering' \in {0, now} \ {buffering}
    /\ ResetsError
    /\ UNCHANGED <<config, now, last, keys, attachments, flow, session, disposed>>

(* An open session is reused, before buffering information is asked for.       *)
Encrypted(d) ==
    /\ ~disposed /\ now # 0 /\ d \in DataOf[now]
    /\ ~(buffering # 0 /\ manifest)
    /\ ~\E s \in Sessions : isOpen(s) /\ session[s].key = d
    /\ IF buffering = 0 THEN error' = TRUE /\ UNCHANGED <<flow, keys>>
       ELSE (\E f \in Flows : Starts(f, buffering, d, FALSE)) /\ UNCHANGED error
    /\ UNCHANGED <<config, tracks, attachments, session, exchange, pending, gaveUp,
                   disposed>>

closes(toClose) ==
    session' = [s \in Sessions |->
        IF isOpen(s) /\ s \in toClose THEN [session[s] EXCEPT !.state = "closed"]
        ELSE session[s]]

(* The track clears the buffering information and aborts its sessions.         *)
Deactivate ==
    /\ ~disposed /\ now # 0
    /\ now' = 0 /\ buffering' = 0
    /\ ResetsError
    /\ closes({s \in Sessions : session[s].act = now})
    /\ UNCHANGED <<config, last, keys, attachments, flow, disposed>>

CloseSessions ==
    /\ ~disposed /\ now = 0
    /\ closes(Sessions)
    /\ UNCHANGED <<config, tracks, keys, attachments, flow, exchange, pending, gaveUp,
                   error, disposed>>

(* What still awaits the media keys finds the controller disposed.             *)
Dispose ==
    /\ ~disposed /\ disposed' = TRUE
    /\ closes(Sessions)
    /\ UNCHANGED <<config, tracks, keys, attachments, flow, exchange, pending, gaveUp,
                   error>>

FlowStep == \E f \in Flows : FlowHasKeys(f) \/ FlowHasOptions(f)

ExchangeStep ==
    \E x \in Exchanges : CertificateSent(x) \/ LicenseArrives(x) \/ ExchangeFails(x)
                         \/ LicenseTimesOut(x)

SessionStep == \E s \in Sessions : Message(s) \/ SessionEnds(s)

KeysStep == AccessCreated \/ KeysSet \/ KeysFail

Calls ==
    Reset \/ Activate \/ InitializeForPlayback \/ SetBufferingDrmInfo \/ Deactivate
    \/ CloseSessions \/ Dispose \/ \E d \in Data : Encrypted(d)

Next == KeysStep \/ FlowStep \/ SessionStep \/ ExchangeStep \/ Calls

Spec == Init /\ [][Next]_vars

------------------------------------------------------------------------------
(* Properties                                                                  *)

(* Streams that initialise at the same time, and events of the element, never  *)
(* open two sessions for the same data (DrmControllerImpl.ts:374).             *)
OneSessionPerData ==
    \A s, r \in Sessions : isOpen(s) /\ isOpen(r) /\ session[s].key = session[r].key => s = r

(* A track that was deactivated leaves no session open, although its sessions  *)
(* may be created after that (DrmControllerImpl.ts:399).                       *)
NoStraySessions == \A s \in Sessions : isOpen(s) => ~aborted(session[s].act)

(* What the active track was given stays open until the CDM ends it, although  *)
(* sessions of a track before it, for the same data, are closed                *)
(* (DrmControllerImpl.ts:374).                                                 *)
CurrentSessionsKept ==
    \A f \in Flows :
        flow[f].session # 0 /\ ~aborted(flow[f].act) /\ ~disposed
            => session[flow[f].session].state \in {"open", "gone"}

(* "The media keys will only be created and set once", however many streams    *)
(* wait for them (DrmControllerImpl.ts:306).                                   *)
KeysSetOnce == attachments <= 1

(* After dispose no session is left open or created (DrmControllerImpl.ts:355).*)
DisposedIsQuiet == disposed => \A s \in Sessions : ~isOpen(s)

(* When every exchange has failed, reset has one to repeat, until the decoder  *)
(* fails, too (DrmControllerImpl.ts:845).                                      *)
FailureIsRemembered ==
    /\ \E x \in Exchanges : exchange[x].phase = "failed"
    /\ \A x \in Exchanges : exchange[x].phase \in {"none", "failed"}
    /\ ~gaveUp
    => pending # 0

(* The invariant of the media keys and sessions: the keys are set once, and    *)
(* there is one open session per data, none of it of a track that is gone or   *)
(* of a disposed controller.                                                   *)
SessionsSound ==
    TypeOK /\ KeysSetOnce /\ OneSessionPerData /\ NoStraySessions /\ DisposedIsQuiet

==============================================================================
