------------------------------ MODULE DrmProofs ------------------------------
(* Proofs about Drm, for any key systems, data and manifests and any number of *)
(* activations, flows, sessions and exchanges.                                 *)
EXTENDS Drm, TLAPS

------------------------------------------------------------------------------
\* The inductive invariants

FlowRecs == [phase : {"none", "keys", "options", "ended"}, act : 0..MaxActivations,
             data : Data \cup {"none"}, manifest : BOOLEAN, session : 0..MaxSessions]

SessionRecs == [state : {"none", "open", "closed", "gone"}, act : 0..MaxActivations,
                key : Data \cup Contents \cup {"none"}]

ExchangeRecs == [phase : {"none", "license", "done", "failed", "aborted"},
                 session : 0..MaxSessions, timed : BOOLEAN]

KeyRecs == [promise : {"none", "access", "attach", "resolved", "rejected"},
            system : Systems \cup {"none"}]

(* The keys are set on the way from their access to the end of their promise,  *)
(* which only a flow can have started.                                         *)
KeysInv ==
    /\ keys.promise \in {"none", "access"} => attachments = 0
    /\ keys.promise # "none" => MaxFlows >= 1
    /\ KeysSetOnce

(* Only the latest activation can be active, and buffer.                       *)
TracksInv == now \in {0, last} /\ buffering \in {0, now}

(* A flow under way, and one that has found a session, belongs to a track that *)
(* has been activated, never to one still to come.                             *)
FlowsInv ==
    \A f \in Flows :
        /\ flow[f].phase \in {"keys", "options"} => flow[f].act \in 1..last
        /\ flow[f].session # 0 => flow[f].act \in 1..last

(* So does an open session; the session a flow of the active track has found   *)
(* is one of that track, though another flow may have created it.              *)
OwnersInv ==
    /\ \A s \in Sessions : isOpen(s) => session[s].act \in 1..last
    /\ \A f \in Flows : flow[f].session # 0 /\ flow[f].act = now
            => session[flow[f].session].act = now

(* Nothing has been exchanged yet, something has succeeded, the decoder has    *)
(* failed, or there is a message to repeat.                                    *)
ExchangesInv ==
    \/ \A x \in Exchanges : exchange[x].phase = "none"
    \/ \E x \in Exchanges : exchange[x].phase = "done"
    \/ gaveUp \/ pending # 0

SessionInv ==
    /\ TypeOK /\ KeysInv /\ TracksInv /\ FlowsInv /\ OwnersInv
    /\ OneSessionPerData /\ NoStraySessions /\ CurrentSessionsKept /\ DisposedIsQuiet

------------------------------------------------------------------------------
\* One record of a function is replaced

(* A flow's record is replaced by one of the type.                             *)
LEMMA FlowUpdated ==
    ASSUME NEW f \in Flows, NEW n \in FlowRecs, flow \in [Flows -> FlowRecs],
           flow' = [flow EXCEPT ![f] = n]
    PROVE  /\ flow' \in [Flows -> FlowRecs]
           /\ flow'[f] = n
           /\ \A g \in Flows : g # f => flow'[g] = flow[g]
OBVIOUS

(* An exchange's record is replaced by one of the type.                        *)
LEMMA ExchangeUpdated ==
    ASSUME NEW x \in Exchanges, NEW n \in ExchangeRecs,
           exchange \in [Exchanges -> ExchangeRecs],
           exchange' = [exchange EXCEPT ![x] = n]
    PROVE  /\ exchange' \in [Exchanges -> ExchangeRecs]
           /\ exchange'[x] = n
           /\ \A y \in Exchanges : y # x => exchange'[y] = exchange[y]
OBVIOUS

(* The parts of the type invariant.                                            *)
LEMMA Types ==
    ASSUME TypeOK
    PROVE  /\ fairPlay \in BOOLEAN /\ manifest \in BOOLEAN
           /\ now \in 0..MaxActivations /\ last \in 0..MaxActivations
           /\ buffering \in 0..MaxActivations
           /\ keys \in KeyRecs /\ attachments \in 0..MaxFlows
           /\ flow \in [Flows -> FlowRecs] /\ session \in [Sessions -> SessionRecs]
           /\ exchange \in [Exchanges -> ExchangeRecs]
           /\ pending \in 0..MaxSessions /\ gaveUp \in BOOLEAN
           /\ error \in BOOLEAN /\ disposed \in BOOLEAN
           /\ MaxActivations \in Nat /\ MaxFlows \in Nat
           /\ MaxSessions \in Nat /\ MaxExchanges \in Nat
           /\ DataOf \in [Activations -> SUBSET Data]
           /\ ContentOf \in [Activations -> Contents]
           /\ Protections \in [Activations -> SUBSET Systems]
BY DrmAssumption DEF TypeOK, FlowRecs, SessionRecs, ExchangeRecs, KeyRecs

------------------------------------------------------------------------------
\* What an operation does to the flows, the keys and the sessions

(* A flow that starts waits for the media keys, and attaches them if none does.*)
LEMMA StartsStep ==
    ASSUME TypeOK, KeysInv, NEW f \in Flows, NEW a \in Activations, NEW d \in Data,
           NEW fromManifest \in BOOLEAN, Starts(f, a, d, fromManifest)
    PROVE  /\ flow' \in [Flows -> FlowRecs]
           /\ flow'[f].phase = "keys" /\ flow'[f].act = a /\ flow'[f].session = 0
           /\ \A g \in Flows : g # f => flow'[g] = flow[g]
           /\ keys' \in KeyRecs
           /\ \/ keys'.promise = keys.promise
              \/ keys.promise = "none" /\ keys'.promise = "access"
           /\ MaxFlows >= 1
<1> DEFINE n == [noFlow EXCEPT !.phase = "keys", !.act = a, !.data = d,
                               !.manifest = fromManifest]
<1>1. n \in FlowRecs /\ n.phase = "keys" /\ n.act = a /\ n.session = 0
  <2>1. noFlow \in FlowRecs /\ noFlow.session = 0
    BY Types DEF noFlow, FlowRecs
  <2>2. a \in 0..MaxActivations
    BY Types DEF Activations
  <2>3. QED
    BY <2>1, <2>2 DEF FlowRecs
<1>2. flow' = [flow EXCEPT ![f] = n]
  BY DEF Starts
<1>3. /\ flow' \in [Flows -> FlowRecs] /\ flow'[f] = n
      /\ \A g \in Flows : g # f => flow'[g] = flow[g]
  <2> HIDE DEF n
  <2>1. QED
    BY <1>1, <1>2, FlowUpdated, Types
<1>4. /\ keys' \in KeyRecs
      /\ \/ keys'.promise = keys.promise
         \/ keys.promise = "none" /\ keys'.promise = "access"
  <2>1. CASE keys.promise = "none"
    BY <2>1, Types DEF Starts, attachMediaKeys, KeyRecs
  <2>2. CASE keys.promise # "none"
    BY <2>2, Types DEF Starts, attachMediaKeys
  <2>3. QED
    BY <2>1, <2>2
<1>5. MaxFlows >= 1
  BY Types DEF Flows
<1> HIDE DEF n
<1>6. QED
  BY <1>1, <1>3, <1>4, <1>5

(* A flow that ends without a session.                                         *)
LEMMA EndsStep ==
    ASSUME TypeOK, NEW f \in Flows, ends(f)
    PROVE  /\ flow' \in [Flows -> FlowRecs]
           /\ flow'[f].phase = "ended" /\ flow'[f].session = 0
           /\ \A g \in Flows : g # f => flow'[g] = flow[g]
<1> DEFINE n == [noFlow EXCEPT !.phase = "ended"]
<1>1. n \in FlowRecs /\ n.phase = "ended" /\ n.session = 0
  <2>1. noFlow \in FlowRecs /\ noFlow.session = 0
    BY Types DEF noFlow, FlowRecs
  <2>2. QED
    BY <2>1 DEF FlowRecs
<1>2. flow' = [flow EXCEPT ![f] = n]
  BY DEF ends
<1> HIDE DEF n
<1>3. QED
  BY <1>1, <1>2, FlowUpdated, Types

(* The open sessions of a set are closed, the others are as they were.         *)
LEMMA ClosesStep ==
    ASSUME TypeOK, NEW toClose \in SUBSET Sessions, closes(toClose)
    PROVE  /\ session' \in [Sessions -> SessionRecs]
           /\ \A s \in Sessions :
                 /\ session'[s].act = session[s].act /\ session'[s].key = session[s].key
                 /\ session'[s].state = IF isOpen(s) /\ s \in toClose THEN "closed"
                                        ELSE session[s].state
<1>1. ASSUME NEW s \in Sessions
      PROVE  /\ session'[s] \in SessionRecs
             /\ session'[s].act = session[s].act /\ session'[s].key = session[s].key
             /\ session'[s].state = IF isOpen(s) /\ s \in toClose THEN "closed"
                                    ELSE session[s].state
  <2>1. session[s] \in SessionRecs
    BY Types
  <2>2. CASE isOpen(s) /\ s \in toClose
    BY <2>1, <2>2 DEF closes, SessionRecs
  <2>3. CASE ~(isOpen(s) /\ s \in toClose)
    BY <2>1, <2>3 DEF closes
  <2>4. QED
    BY <2>2, <2>3
<1>2. session' = [s \in Sessions |-> session'[s]]
  BY DEF closes
<1>3. QED
  BY <1>1, <1>2

(* The end of maybeCreateSession: an open session for the data is found, or    *)
(* there is none and a new one is created for the flow's track.                *)
LEMMA CreatesStep ==
    ASSUME TypeOK, FlowsInv, NEW f \in Flows, flow[f].phase = "options", CreatesSession(f)
    PROVE  \E s \in Sessions :
              /\ flow' \in [Flows -> FlowRecs] /\ session' \in [Sessions -> SessionRecs]
              /\ flow'[f].phase = "ended" /\ flow'[f].act = flow[f].act
              /\ flow'[f].session = s /\ flow[f].act \in 1..last
              /\ \A g \in Flows : g # f => flow'[g] = flow[g]
              /\ \/ isOpen(s) /\ session' = session
                 \/ /\ session[s].state = "none"
                    /\ session'[s].state = IF aborted(flow[f].act) THEN "closed" ELSE "open"
                    /\ session'[s].act = flow[f].act
                    /\ \A r \in Sessions : isOpen(r) => session[r].key # session'[s].key
                    /\ \A r \in Sessions : r # s => session'[r] = session[r]
<1> DEFINE key == keyOf(flow[f].act, flow[f].data)
           existing == {s \in Sessions : isOpen(s) /\ session[s].key = key}
           created == [state |-> IF aborted(flow[f].act) THEN "closed" ELSE "open",
                       act |-> flow[f].act, key |-> key]
<1>1. /\ flow[f] \in FlowRecs /\ flow[f].act \in Activations
      /\ flow[f].act \in 1..last
  BY Types DEF FlowsInv, Activations
<1>2. created \in SessionRecs
  <2>1. key \in Data \cup Contents \cup {"none"}
    BY <1>1, Types DEF keyOf, FlowRecs
  <2>2. flow[f].act \in 0..MaxActivations
    BY <1>1, Types DEF Activations
  <2> HIDE DEF key
  <2>3. QED
    BY <2>1, <2>2 DEF SessionRecs
<1>3. PICK s \in IF existing # {} THEN existing ELSE {r \in Sessions : isNextSession(r)} :
          /\ session' = IF existing # {} THEN session ELSE [session EXCEPT ![s] = created]
          /\ flow' = [flow EXCEPT ![f].phase = "ended", ![f].session = s]
  BY DEF CreatesSession
<1>4. s \in Sessions /\ s \in 0..MaxSessions
  <2>1. s \in Sessions
    BY <1>3
  <2>2. QED
    BY <2>1, Types DEF Sessions
<1>5. /\ flow' \in [Flows -> FlowRecs]
      /\ flow'[f].phase = "ended" /\ flow'[f].act = flow[f].act /\ flow'[f].session = s
      /\ \A g \in Flows : g # f => flow'[g] = flow[g]
  <2> DEFINE n == [flow[f] EXCEPT !.phase = "ended", !.session = s]
  <2>1. n \in FlowRecs /\ n.phase = "ended" /\ n.act = flow[f].act /\ n.session = s
    BY <1>1, <1>4 DEF FlowRecs
  <2>2. flow' = [flow EXCEPT ![f] = n]
    BY <1>3, Types
  <2> HIDE DEF n
  <2>3. QED
    BY <2>1, <2>2, FlowUpdated, Types
<1>6. CASE existing # {}
  <2>1. isOpen(s) /\ session' = session
    BY <1>3, <1>6
  <2>2. session' \in [Sessions -> SessionRecs]
    BY <2>1, Types
  <2>3. QED
    BY <1>1, <1>4, <1>5, <2>1, <2>2
<1>7. CASE existing = {}
  <2>1. session[s].state = "none" /\ session' = [session EXCEPT ![s] = created]
    BY <1>3, <1>7 DEF isNextSession
  <2>2. /\ session' \in [Sessions -> SessionRecs] /\ session'[s] = created
        /\ \A r \in Sessions : r # s => session'[r] = session[r]
    <3> HIDE DEF created
    <3>1. QED
      BY <1>2, <1>4, <2>1, Types
  <2>3. \A r \in Sessions : isOpen(r) => session[r].key # key
    BY <1>7
  <2>4. /\ session'[s].state = IF aborted(flow[f].act) THEN "closed" ELSE "open"
        /\ session'[s].act = flow[f].act /\ session'[s].key = key
    BY <2>2
  <2> HIDE DEF key, existing, created
  <2>5. QED
    BY <1>1, <1>4, <1>5, <2>1, <2>2, <2>3, <2>4
<1>8. QED
  BY <1>6, <1>7

(* An exchange that begins is of the session it is given.                      *)
LEMMA BeginsStep ==
    ASSUME TypeOK, NEW x \in Exchanges, NEW s \in 0..MaxSessions, NEW timed \in BOOLEAN,
           Begins(x, s, timed)
    PROVE  /\ exchange' \in [Exchanges -> ExchangeRecs]
           /\ exchange[x].phase = "none"
           /\ \A y \in Exchanges : y # x => exchange'[y] = exchange[y]
<1> DEFINE n == [phase |-> "license", session |-> s, timed |-> timed]
<1>1. n \in ExchangeRecs
  BY DEF ExchangeRecs
<1>2. exchange' = [exchange EXCEPT ![x] = n] /\ exchange[x].phase = "none"
  BY DEF Begins, isNextExchange
<1> HIDE DEF n
<1>3. QED
  BY <1>1, <1>2, ExchangeUpdated, Types

(* An exchange that ends.                                                      *)
LEMMA ToStep ==
    ASSUME TypeOK, NEW x \in Exchanges,
           NEW phase \in {"none", "license", "done", "failed", "aborted"}, to(x, phase)
    PROVE  /\ exchange' \in [Exchanges -> ExchangeRecs]
           /\ exchange'[x].phase = phase
           /\ \A y \in Exchanges : y # x => exchange'[y] = exchange[y]
<1> DEFINE n == [noExchange EXCEPT !.phase = phase]
<1>1. n \in ExchangeRecs /\ n.phase = phase
  <2>1. noExchange \in ExchangeRecs
    BY Types DEF noExchange, ExchangeRecs
  <2>2. QED
    BY <2>1 DEF ExchangeRecs
<1>2. exchange' = [exchange EXCEPT ![x] = n]
  BY DEF to
<1> HIDE DEF n
<1>3. QED
  BY <1>1, <1>2, ExchangeUpdated, Types

(* reset, whoever calls it, leaves the other exchanges and what has succeeded. *)
LEMMA ResetsErrorStep ==
    ASSUME TypeOK, ExchangesInv, ResetsError
    PROVE  /\ exchange' \in [Exchanges -> ExchangeRecs]
           /\ pending' \in 0..MaxSessions /\ gaveUp' \in BOOLEAN /\ error' \in BOOLEAN
           /\ ExchangesInv'
<1>1. error' \in BOOLEAN
  BY DEF ResetsError
<1>2. CASE ~error \/ pending = 0
  BY <1>1, <1>2, Types DEF ResetsError, ExchangesInv
<1>3. CASE error /\ pending # 0 /\ pending' = 0 /\ gaveUp' = TRUE /\ UNCHANGED exchange
  BY <1>1, <1>3, Types DEF ExchangesInv
<1>4. CASE /\ error /\ pending # 0
           /\ (\E x \in Exchanges : Begins(x, pending, FALSE)) /\ UNCHANGED <<pending, gaveUp>>
  BY <1>1, <1>4, BeginsStep, Types DEF ExchangesInv
<1>5. QED
  BY <1>2, <1>3, <1>4, Types DEF ResetsError

------------------------------------------------------------------------------
\* A step preserves the invariants

Inductive == SessionInv /\ ExchangesInv

(* The type invariant of the next state, from its parts.                       *)
LEMMA TypesNext ==
    ASSUME fairPlay' \in BOOLEAN, manifest' \in BOOLEAN,
           now' \in 0..MaxActivations, last' \in 0..MaxActivations,
           buffering' \in 0..MaxActivations,
           keys' \in KeyRecs, attachments' \in 0..MaxFlows,
           flow' \in [Flows -> FlowRecs], session' \in [Sessions -> SessionRecs],
           exchange' \in [Exchanges -> ExchangeRecs],
           pending' \in 0..MaxSessions, gaveUp' \in BOOLEAN,
           error' \in BOOLEAN, disposed' \in BOOLEAN
    PROVE  TypeOK'
BY DEF TypeOK, FlowRecs, SessionRecs, ExchangeRecs, KeyRecs

(* Steps of the license exchanges and of the error alone.                      *)
LEMMA QuietStep ==
    ASSUME Inductive, UNCHANGED <<config, tracks, keys, attachments, flow, session, disposed>>,
           exchange' \in [Exchanges -> ExchangeRecs], pending' \in 0..MaxSessions,
           gaveUp' \in BOOLEAN, error' \in BOOLEAN, ExchangesInv'
    PROVE  Inductive'
<1>1. TypeOK
  BY DEF Inductive, SessionInv
<1>2. TypeOK'
  BY <1>1, Types, TypesNext DEF config, tracks
<1>3. (KeysInv /\ TracksInv /\ FlowsInv)'
  BY DEF Inductive, SessionInv, KeysInv, KeysSetOnce, TracksInv, FlowsInv, tracks
<1>4. (OwnersInv /\ OneSessionPerData /\ NoStraySessions)'
  BY DEF Inductive, SessionInv, OwnersInv, OneSessionPerData, NoStraySessions, isOpen,
         aborted, tracks
<1>5. (CurrentSessionsKept /\ DisposedIsQuiet)'
  BY DEF Inductive, SessionInv, CurrentSessionsKept, DisposedIsQuiet, isOpen, aborted, tracks
<1>6. QED
  BY <1>2, <1>3, <1>4, <1>5 DEF Inductive, SessionInv

(* The steps of the media keys: they are set on the element once.              *)
LEMMA KeysStepInductive ==
    ASSUME Inductive, KeysStep
    PROVE  Inductive'
<1>1. TypeOK /\ KeysInv
  BY DEF Inductive, SessionInv
<1>2. UNCHANGED <<config, tracks, flow, session, exchange, pending, gaveUp, error, disposed>>
  BY DEF KeysStep, AccessCreated, KeysSet, KeysFail
<1>3. keys' \in KeyRecs /\ attachments' \in 0..MaxFlows /\ KeysInv'
  <2>1. CASE AccessCreated
    BY <1>1, <2>1, Types DEF AccessCreated, KeyRecs, KeysInv, KeysSetOnce
  <2>2. CASE KeysSet
    BY <1>1, <2>2, Types DEF KeysSet, KeyRecs, KeysInv, KeysSetOnce
  <2>3. CASE KeysFail
    BY <1>1, <2>3, Types DEF KeysFail, KeyRecs, KeysInv, KeysSetOnce
  <2>4. QED
    BY <2>1, <2>2, <2>3 DEF KeysStep
<1>4. TypeOK'
  BY <1>1, <1>2, <1>3, Types, TypesNext DEF config, tracks
<1>5. (TracksInv /\ FlowsInv /\ OwnersInv)'
  BY <1>2 DEF Inductive, SessionInv, TracksInv, FlowsInv, OwnersInv, isOpen, tracks
<1>6. (OneSessionPerData /\ NoStraySessions /\ CurrentSessionsKept /\ DisposedIsQuiet)'
  BY <1>2 DEF Inductive, SessionInv, OneSessionPerData, NoStraySessions, CurrentSessionsKept,
              DisposedIsQuiet, isOpen, aborted, tracks
<1>7. ExchangesInv'
  BY <1>2 DEF Inductive, ExchangesInv
<1>8. QED
  BY <1>3, <1>4, <1>5, <1>6, <1>7 DEF Inductive, SessionInv

(* Flows that end without a session, or go on, and sessions that the CDM ends. *)
LEMMA NoNewSession ==
    ASSUME Inductive,
           UNCHANGED <<config, tracks, keys, attachments, exchange, pending, gaveUp, disposed>>,
           error' \in BOOLEAN,
           flow' \in [Flows -> FlowRecs], session' \in [Sessions -> SessionRecs],
           \A f \in Flows :
              /\ flow'[f].session # 0 => flow'[f].session = flow[f].session
                                         /\ flow'[f].act = flow[f].act
              /\ flow'[f].phase \in {"keys", "options"} =>
                    flow[f].phase \in {"keys", "options"} /\ flow'[f].act = flow[f].act,
           \A s \in Sessions :
              /\ session'[s].act = session[s].act /\ session'[s].key = session[s].key
              /\ \/ session'[s].state = session[s].state
                 \/ isOpen(s) /\ session'[s].state = "gone"
    PROVE  Inductive'
<1>1. TypeOK
  BY DEF Inductive, SessionInv
<1>2. TypeOK'
  BY <1>1, Types, TypesNext DEF config, tracks
<1>3. (KeysInv /\ TracksInv)'
  BY DEF Inductive, SessionInv, KeysInv, KeysSetOnce, TracksInv, tracks
<1>4. FlowsInv'
  BY DEF Inductive, SessionInv, FlowsInv, tracks
<1>5. \A f \in Flows : flow'[f].session # 0 => flow'[f].session \in Sessions
  BY <1>1, Types DEF FlowRecs, Sessions
<1>6. OwnersInv'
  BY <1>5 DEF Inductive, SessionInv, OwnersInv, isOpen, tracks
<1>7. (OneSessionPerData /\ NoStraySessions /\ DisposedIsQuiet)'
  BY DEF Inductive, SessionInv, OneSessionPerData, NoStraySessions, DisposedIsQuiet, isOpen,
         aborted, tracks
<1>8. CurrentSessionsKept'
  BY <1>5 DEF Inductive, SessionInv, CurrentSessionsKept, isOpen, aborted, tracks
<1>9. ExchangesInv'
  BY DEF Inductive, ExchangesInv
<1>10. QED
  BY <1>2, <1>3, <1>4, <1>6, <1>7, <1>8, <1>9 DEF Inductive, SessionInv

(* A flow that has the media keys.                                             *)
LEMMA HasKeysInductive ==
    ASSUME Inductive, NEW f \in Flows, FlowHasKeys(f)
    PROVE  Inductive'
<1>1. TypeOK /\ flow[f] \in FlowRecs
  BY Types DEF Inductive, SessionInv
<1>2. /\ UNCHANGED <<config, tracks, keys, attachments, exchange, pending, gaveUp, disposed>>
      /\ session' = session /\ error' \in BOOLEAN
      /\ flow[f].phase = "keys"
  BY <1>1, Types DEF FlowHasKeys, Fails
<1>3. \/ ends(f)
      \/ flow' = [flow EXCEPT ![f].phase = IF flow[f].manifest /\ ~manifest THEN "ended"
                                           ELSE "options"]
  BY DEF FlowHasKeys, Fails
<1>4. CASE ends(f)
  <2>1. /\ flow' \in [Flows -> FlowRecs]
        /\ flow'[f].phase = "ended" /\ flow'[f].session = 0
        /\ \A g \in Flows : g # f => flow'[g] = flow[g]
    BY <1>1, <1>4, EndsStep
  <2>2. QED
    BY <1>1, <1>2, <2>1, NoNewSession, Types
<1>5. CASE flow' = [flow EXCEPT ![f].phase = IF flow[f].manifest /\ ~manifest THEN "ended"
                                             ELSE "options"]
  <2> DEFINE p == IF flow[f].manifest /\ ~manifest THEN "ended" ELSE "options"
             n == [flow[f] EXCEPT !.phase = p]
  <2>1. n \in FlowRecs /\ n.act = flow[f].act /\ n.session = flow[f].session
    <3>1. p \in {"ended", "options"}
      OBVIOUS
    <3> HIDE DEF p
    <3>2. QED
      BY <1>1, <3>1 DEF FlowRecs
  <2>2. flow' = [flow EXCEPT ![f] = n]
    BY <1>1, <1>5, Types
  <2> HIDE DEF n
  <2>3. /\ flow' \in [Flows -> FlowRecs] /\ flow'[f] = n
        /\ \A g \in Flows : g # f => flow'[g] = flow[g]
    BY <1>1, <2>1, <2>2, FlowUpdated, Types
  <2>4. QED
    BY <1>1, <1>2, <2>1, <2>3, NoNewSession, Types
<1>6. QED
  BY <1>3, <1>4, <1>5

(* A flow that finds or creates its session: nothing happens between the last  *)
(* look for a session with its data and the creation of one.                   *)
LEMMA CreatesInductive ==
    ASSUME Inductive, NEW f \in Flows, flow[f].phase = "options", ~disposed, CreatesSession(f),
           UNCHANGED <<config, tracks, keys, attachments, exchange, pending, gaveUp, error,
                       disposed>>
    PROVE  Inductive'
<1>1. TypeOK /\ FlowsInv
  BY DEF Inductive, SessionInv
<1>2. PICK s \in Sessions :
         /\ flow' \in [Flows -> FlowRecs] /\ session' \in [Sessions -> SessionRecs]
         /\ flow'[f].phase = "ended" /\ flow'[f].act = flow[f].act
         /\ flow'[f].session = s /\ flow[f].act \in 1..last
         /\ \A g \in Flows : g # f => flow'[g] = flow[g]
         /\ \/ isOpen(s) /\ session' = session
            \/ /\ session[s].state = "none"
               /\ session'[s].state = IF aborted(flow[f].act) THEN "closed" ELSE "open"
               /\ session'[s].act = flow[f].act
               /\ \A r \in Sessions : isOpen(r) => session[r].key # session'[s].key
               /\ \A r \in Sessions : r # s => session'[r] = session[r]
  BY <1>1, CreatesStep
<1>3. TypeOK'
  BY <1>1, <1>2, Types, TypesNext DEF config, tracks
<1>4. (KeysInv /\ TracksInv)'
  BY DEF Inductive, SessionInv, KeysInv, KeysSetOnce, TracksInv, tracks
<1>5. FlowsInv'
  BY <1>1, <1>2 DEF FlowsInv, tracks
<1>6. ExchangesInv'
  BY DEF Inductive, ExchangesInv
<1>7. \A g \in Flows : flow[g].session # 0 => flow[g].session \in Sessions
  BY <1>1, Types DEF FlowRecs, Sessions
<1>8. now # 0 => now \in 1..last
  BY <1>1, Types DEF Inductive, SessionInv, TracksInv
<1>9. CASE isOpen(s) /\ session' = session
  <2>1. session[s].act = now
    BY <1>9 DEF Inductive, SessionInv, NoStraySessions, aborted
  <2>2. (OneSessionPerData /\ NoStraySessions /\ DisposedIsQuiet)'
    BY <1>9 DEF Inductive, SessionInv, OneSessionPerData, NoStraySessions, DisposedIsQuiet,
                isOpen, aborted, tracks
  <2>3. OwnersInv'
    BY <1>2, <1>9, <2>1 DEF Inductive, SessionInv, OwnersInv, isOpen, tracks
  <2>4. CurrentSessionsKept'
    BY <1>2, <1>9, <2>1 DEF Inductive, SessionInv, CurrentSessionsKept, isOpen, aborted, tracks
  <2>5. QED
    BY <1>3, <1>4, <1>5, <1>6, <2>2, <2>3, <2>4 DEF Inductive, SessionInv
<1>10. CASE /\ session[s].state = "none"
            /\ session'[s].state = IF aborted(flow[f].act) THEN "closed" ELSE "open"
            /\ session'[s].act = flow[f].act
            /\ \A r \in Sessions : isOpen(r) => session[r].key # session'[s].key
            /\ \A r \in Sessions : r # s => session'[r] = session[r]
  <2>1. \A r \in Sessions : isOpen(r)' => \/ r # s /\ isOpen(r)
                                          \/ r = s /\ flow[f].act = now
    BY <1>10 DEF isOpen, aborted
  <2>2. OneSessionPerData'
    BY <1>10, <2>1 DEF Inductive, SessionInv, OneSessionPerData
  <2>3. NoStraySessions'
    BY <1>10, <2>1 DEF Inductive, SessionInv, NoStraySessions, aborted, tracks
  <2>4. DisposedIsQuiet'
    BY DEF DisposedIsQuiet
  <2>5. \A g \in Flows : g # f /\ flow[g].session # 0 /\ flow[g].act = now
                            => flow[g].session # s
    BY <1>10 DEF Inductive, SessionInv, CurrentSessionsKept, aborted
  <2>6. \A r \in Sessions : isOpen(r)' => session'[r].act \in 1..last
    BY <1>2, <1>10, <2>1 DEF Inductive, SessionInv, OwnersInv
  <2>7. \A g \in Flows : flow'[g].session # 0 /\ flow'[g].act = now
                            => session'[flow'[g].session].act = now
    BY <1>2, <1>7, <1>10, <2>5 DEF Inductive, SessionInv, OwnersInv
  <2>8. OwnersInv'
    BY <2>6, <2>7 DEF OwnersInv, tracks
  <2>9. CurrentSessionsKept'
    BY <1>2, <1>7, <1>10, <2>5
       DEF Inductive, SessionInv, CurrentSessionsKept, aborted, tracks
  <2>10. QED
    BY <1>3, <1>4, <1>5, <1>6, <2>2, <2>3, <2>4, <2>8, <2>9 DEF Inductive, SessionInv
<1>11. QED
  BY <1>2, <1>9, <1>10

(* A flow that has the options of the license server.                          *)
LEMMA HasOptionsInductive ==
    ASSUME Inductive, NEW f \in Flows, FlowHasOptions(f)
    PROVE  Inductive'
<1>1. TypeOK
  BY DEF Inductive, SessionInv
<1>2. UNCHANGED <<config, tracks, keys, attachments, exchange, pending, gaveUp, disposed>>
  BY DEF FlowHasOptions
<1>3. CASE ends(f) /\ session' = session /\ error' \in BOOLEAN
  <2>1. /\ flow' \in [Flows -> FlowRecs]
        /\ flow'[f].phase = "ended" /\ flow'[f].session = 0
        /\ \A g \in Flows : g # f => flow'[g] = flow[g]
    BY <1>1, <1>3, EndsStep
  <2>2. QED
    BY <1>1, <1>2, <1>3, <2>1, NoNewSession, Types
<1>4. CASE flow[f].phase = "options" /\ ~disposed /\ CreatesSession(f) /\ UNCHANGED error
  BY <1>2, <1>4, CreatesInductive
<1>5. QED
  BY <1>1, <1>3, <1>4, Types DEF FlowHasOptions, Fails

(* Sessions exchange licenses, and the CDM ends them.                          *)
LEMMA SessionStepInductive ==
    ASSUME Inductive, SessionStep
    PROVE  Inductive'
<1>1. TypeOK
  BY DEF Inductive, SessionInv
<1>2. ASSUME NEW s \in Sessions, Message(s)
      PROVE  Inductive'
  <2>1. s \in 0..MaxSessions /\ s # 0
    BY <1>1, Types DEF Sessions
  <2>2. PICK x \in Exchanges : Begins(x, s, TRUE)
    BY <1>2 DEF Message
  <2>3. exchange' \in [Exchanges -> ExchangeRecs]
    BY <1>1, <2>1, <2>2, BeginsStep
  <2>4. pending' = s /\ gaveUp' = FALSE
    BY <1>2 DEF Message
  <2>5. ExchangesInv'
    BY <2>1, <2>4 DEF ExchangesInv
  <2>6. UNCHANGED <<config, tracks, keys, attachments, flow, session, error, disposed>>
    BY <1>2 DEF Message
  <2>7. QED
    BY <1>1, <2>1, <2>3, <2>4, <2>5, <2>6, QuietStep, Types
<1>3. ASSUME NEW s \in Sessions, SessionEnds(s)
      PROVE  Inductive'
  <2> DEFINE n == [session[s] EXCEPT !.state = "gone"]
  <2>1. session[s] \in SessionRecs
    BY <1>1, Types
  <2>2. /\ n \in SessionRecs /\ n.state = "gone"
        /\ n.act = session[s].act /\ n.key = session[s].key
    BY <2>1 DEF SessionRecs
  <2>3. session' = [session EXCEPT ![s] = n] /\ isOpen(s)
    BY <1>1, <1>3, Types DEF SessionEnds
  <2> HIDE DEF n
  <2>4. /\ session' \in [Sessions -> SessionRecs] /\ session'[s] = n
        /\ \A r \in Sessions : r # s => session'[r] = session[r]
    BY <1>1, <2>2, <2>3, Types
  <2>5. /\ UNCHANGED <<config, tracks, keys, attachments, flow, exchange, pending, gaveUp,
                       disposed>>
        /\ error' \in BOOLEAN
    BY <1>1, <1>3, Types DEF SessionEnds
  <2>6. QED
    BY <1>1, <2>2, <2>3, <2>4, <2>5, NoNewSession, Types
<1>4. QED
  BY <1>2, <1>3 DEF SessionStep

(* Exchanges end: only what has failed keeps its message to be repeated.       *)
LEMMA ExchangeStepInductive ==
    ASSUME Inductive, ExchangeStep
    PROVE  Inductive'
<1>1. TypeOK /\ ExchangesInv
  BY DEF Inductive, SessionInv
<1>2. PICK x \in Exchanges : CertificateSent(x) \/ LicenseArrives(x) \/ ExchangeFails(x)
                             \/ LicenseTimesOut(x)
  BY DEF ExchangeStep
<1>3. /\ UNCHANGED <<config, tracks, keys, attachments, flow, session, gaveUp, disposed>>
      /\ exchange[x].phase = "license" /\ error' \in BOOLEAN
  <2>1. CASE CertificateSent(x)
    BY <1>1, <2>1, Types DEF CertificateSent
  <2>2. CASE LicenseArrives(x)
    BY <1>1, <2>2, Types DEF LicenseArrives
  <2>3. CASE ExchangeFails(x)
    BY <1>1, <2>3, Types DEF ExchangeFails
  <2>4. CASE LicenseTimesOut(x)
    BY <1>1, <2>4, Types DEF LicenseTimesOut
  <2>5. QED
    BY <1>2, <2>1, <2>2, <2>3, <2>4
<1>4. CASE \/ to(x, "done") /\ pending' = 0
           \/ to(x, "aborted") /\ UNCHANGED pending
           \/ to(x, "failed") /\ UNCHANGED pending
  <2>1. /\ exchange' \in [Exchanges -> ExchangeRecs]
        /\ \A y \in Exchanges : y # x => exchange'[y] = exchange[y]
        /\ \/ exchange'[x].phase = "done" /\ pending' = 0
           \/ UNCHANGED pending
    BY <1>1, <1>4, ToStep
  <2>2. pending' \in 0..MaxSessions
    BY <1>1, <1>4, Types
  <2>3. ExchangesInv'
    BY <1>1, <1>3, <2>1 DEF ExchangesInv
  <2>4. QED
    BY <1>1, <1>3, <2>1, <2>2, <2>3, QuietStep, Types
<1>5. CASE LicenseTimesOut(x)
  <2> DEFINE n == [exchange[x] EXCEPT !.timed = FALSE]
  <2>1. exchange[x] \in ExchangeRecs
    BY <1>1, Types
  <2>2. n \in ExchangeRecs /\ n.phase = exchange[x].phase
    BY <2>1 DEF ExchangeRecs
  <2>3. exchange' = [exchange EXCEPT ![x] = n] /\ UNCHANGED pending
    BY <1>1, <1>5, Types DEF LicenseTimesOut
  <2> HIDE DEF n
  <2>4. /\ exchange' \in [Exchanges -> ExchangeRecs]
        /\ \A y \in Exchanges : exchange'[y].phase = exchange[y].phase
    BY <1>1, <2>2, <2>3, ExchangeUpdated, Types
  <2>5. ExchangesInv'
    BY <1>1, <1>3, <2>3, <2>4 DEF ExchangesInv
  <2>6. QED
    BY <1>1, <1>3, <2>3, <2>4, <2>5, QuietStep, Types
<1>6. QED
  BY <1>2, <1>4, <1>5 DEF CertificateSent, LicenseArrives, ExchangeFails

(* A flow starts for the active track.                                         *)
LEMMA StartsInductive ==
    ASSUME Inductive, NEW f \in Flows, NEW d \in Data, NEW fromManifest \in BOOLEAN,
           now # 0, Starts(f, now, d, fromManifest),
           UNCHANGED <<config, tracks, attachments, session, exchange, pending, gaveUp, error,
                       disposed>>
    PROVE  Inductive'
<1>1. TypeOK /\ KeysInv
  BY DEF Inductive, SessionInv
<1>2. now \in 1..last /\ now \in Activations
  BY <1>1, Types DEF Inductive, SessionInv, TracksInv, Activations
<1>3. /\ flow' \in [Flows -> FlowRecs]
      /\ flow'[f].phase = "keys" /\ flow'[f].act = now /\ flow'[f].session = 0
      /\ \A g \in Flows : g # f => flow'[g] = flow[g]
      /\ keys' \in KeyRecs
      /\ \/ keys'.promise = keys.promise
         \/ keys.promise = "none" /\ keys'.promise = "access"
      /\ MaxFlows >= 1
  BY <1>1, <1>2, StartsStep
<1>4. TypeOK'
  BY <1>1, <1>3, Types, TypesNext DEF config, tracks
<1>5. KeysInv'
  BY <1>1, <1>3 DEF KeysInv, KeysSetOnce
<1>6. (TracksInv /\ FlowsInv)'
  BY <1>2, <1>3 DEF Inductive, SessionInv, TracksInv, FlowsInv, tracks
<1>7. (OneSessionPerData /\ NoStraySessions /\ DisposedIsQuiet)'
  BY DEF Inductive, SessionInv, OneSessionPerData, NoStraySessions, DisposedIsQuiet, isOpen,
         aborted, tracks
<1>8. (OwnersInv /\ CurrentSessionsKept)'
  BY <1>3 DEF Inductive, SessionInv, OwnersInv, CurrentSessionsKept, isOpen, aborted, tracks
<1>9. ExchangesInv'
  BY DEF Inductive, ExchangesInv
<1>10. QED
  BY <1>4, <1>5, <1>6, <1>7, <1>8, <1>9 DEF Inductive, SessionInv

(* Sessions are closed when no track is active any more, or for good.          *)
LEMMA ClosesInductive ==
    ASSUME Inductive, NEW toClose \in SUBSET Sessions, closes(toClose),
           \A s \in Sessions : isOpen(s) => s \in toClose,
           UNCHANGED <<config, last, keys, attachments, flow>>,
           (now' = 0 /\ buffering' = 0) \/ UNCHANGED <<now, buffering>>,
           now' = 0 \/ disposed',
           exchange' \in [Exchanges -> ExchangeRecs], pending' \in 0..MaxSessions,
           gaveUp' \in BOOLEAN, error' \in BOOLEAN, disposed' \in BOOLEAN, ExchangesInv'
    PROVE  Inductive'
<1>1. TypeOK
  BY DEF Inductive, SessionInv
<1>2. /\ session' \in [Sessions -> SessionRecs]
      /\ \A s \in Sessions : session'[s].act = session[s].act
      /\ \A s \in Sessions : ~isOpen(s)'
  <2>1. /\ session' \in [Sessions -> SessionRecs]
        /\ \A s \in Sessions :
              /\ session'[s].act = session[s].act
              /\ session'[s].state = IF isOpen(s) /\ s \in toClose THEN "closed"
                                     ELSE session[s].state
    BY <1>1, ClosesStep
  <2>2. QED
    BY <2>1 DEF isOpen
<1>3. TypeOK'
  <2>1. now' \in 0..MaxActivations /\ buffering' \in 0..MaxActivations
    BY <1>1, Types
  <2>2. QED
    BY <1>1, <1>2, <2>1, Types, TypesNext DEF config
<1>4. KeysInv'
  BY DEF Inductive, SessionInv, KeysInv, KeysSetOnce
<1>5. (TracksInv /\ FlowsInv)'
  BY DEF Inductive, SessionInv, TracksInv, FlowsInv
<1>6. (OneSessionPerData /\ NoStraySessions /\ DisposedIsQuiet)'
  BY <1>2 DEF OneSessionPerData, NoStraySessions, DisposedIsQuiet
<1>7. \A f \in Flows : flow[f].session # 0 => flow[f].act # 0 /\ flow[f].session \in Sessions
  <2>1. \A f \in Flows : flow[f].session # 0 => flow[f].act \in 1..last
    BY DEF Inductive, SessionInv, FlowsInv
  <2>2. QED
    BY <1>1, <2>1, Types DEF FlowRecs, Sessions
<1>8. OwnersInv'
  BY <1>2, <1>7 DEF Inductive, SessionInv, OwnersInv
<1>9. CurrentSessionsKept'
  BY <1>7 DEF CurrentSessionsKept, aborted
<1>10. QED
  BY <1>3, <1>4, <1>5, <1>6, <1>8, <1>9 DEF Inductive, SessionInv

(* A track is activated: no session is open then, and none is its own yet.     *)
LEMMA ActivateInductive ==
    ASSUME Inductive, Activate
    PROVE  Inductive'
<1>1. TypeOK
  BY DEF Inductive, SessionInv
<1>2. /\ now = 0 /\ last < MaxActivations /\ now' = last + 1 /\ last' = last + 1
      /\ UNCHANGED <<config, buffering, keys, attachments, flow, session, exchange, pending,
                     gaveUp, error, disposed>>
  BY DEF Activate
<1>3. TypeOK'
  <2>1. now' \in 0..MaxActivations /\ last' \in 0..MaxActivations
    BY <1>1, <1>2, Types
  <2>2. QED
    BY <1>1, <1>2, <2>1, Types, TypesNext DEF config
<1>4. KeysInv'
  BY <1>2 DEF Inductive, SessionInv, KeysInv, KeysSetOnce
<1>5. TracksInv'
  BY <1>1, <1>2, Types DEF Inductive, SessionInv, TracksInv
<1>6. FlowsInv'
  BY <1>1, <1>2, Types DEF Inductive, SessionInv, FlowsInv
<1>7. \A s \in Sessions : ~isOpen(s)
  BY <1>1, <1>2, Types DEF Inductive, SessionInv, NoStraySessions, OwnersInv, aborted
<1>8. \A f \in Flows : flow[f].session # 0 => flow[f].act # now'
  BY <1>1, <1>2, Types DEF Inductive, SessionInv, FlowsInv
<1>9. (OneSessionPerData /\ NoStraySessions /\ DisposedIsQuiet)'
  BY <1>2, <1>7 DEF OneSessionPerData, NoStraySessions, DisposedIsQuiet, isOpen
<1>10. (OwnersInv /\ CurrentSessionsKept)'
  BY <1>2, <1>7, <1>8 DEF OwnersInv, CurrentSessionsKept, isOpen, aborted
<1>11. ExchangesInv'
  BY <1>2 DEF Inductive, ExchangesInv
<1>12. QED
  BY <1>3, <1>4, <1>5, <1>6, <1>9, <1>10, <1>11 DEF Inductive, SessionInv

(* The track sets or clears the information for encrypted events, and resets.  *)
LEMMA SetBufferingInductive ==
    ASSUME Inductive, SetBufferingDrmInfo
    PROVE  Inductive'
<1>1. TypeOK /\ ExchangesInv
  BY DEF Inductive, SessionInv
<1>2. /\ buffering' \in {0, now} /\ ResetsError
      /\ UNCHANGED <<config, now, last, keys, attachments, flow, session, disposed>>
  BY DEF SetBufferingDrmInfo
<1>3. /\ exchange' \in [Exchanges -> ExchangeRecs]
      /\ pending' \in 0..MaxSessions /\ gaveUp' \in BOOLEAN /\ error' \in BOOLEAN
      /\ ExchangesInv'
  BY <1>1, <1>2, ResetsErrorStep
<1>4. TypeOK'
  <2>1. buffering' \in 0..MaxActivations
    BY <1>1, <1>2, Types
  <2>2. QED
    BY <1>1, <1>2, <1>3, <2>1, Types, TypesNext DEF config
<1>5. (KeysInv /\ TracksInv /\ FlowsInv)'
  BY <1>2 DEF Inductive, SessionInv, KeysInv, KeysSetOnce, TracksInv, FlowsInv
<1>6. (OwnersInv /\ OneSessionPerData /\ NoStraySessions)'
  BY <1>2 DEF Inductive, SessionInv, OwnersInv, OneSessionPerData, NoStraySessions, isOpen,
              aborted
<1>7. (CurrentSessionsKept /\ DisposedIsQuiet)'
  BY <1>2 DEF Inductive, SessionInv, CurrentSessionsKept, DisposedIsQuiet, isOpen, aborted
<1>8. QED
  BY <1>3, <1>4, <1>5, <1>6, <1>7 DEF Inductive, SessionInv

(* The calls of the tracks and of the player.                                  *)
LEMMA CallsInductive ==
    ASSUME Inductive, Calls
    PROVE  Inductive'
<1>1. TypeOK /\ ExchangesInv
  BY DEF Inductive, SessionInv
<1>2. CASE Reset
  <2>1. ResetsError /\ UNCHANGED <<config, tracks, keys, attachments, flow, session, disposed>>
    BY <1>2 DEF Reset
  <2>2. QED
    BY <1>1, <2>1, ResetsErrorStep, QuietStep
<1>3. CASE Activate
  BY <1>3, ActivateInductive
<1>4. CASE InitializeForPlayback
  <2>1. PICK f \in Flows : \E d \in DataOf[now] : Starts(f, now, d, TRUE)
    BY <1>4 DEF InitializeForPlayback
  <2>2. PICK d \in DataOf[now] : Starts(f, now, d, TRUE)
    BY <2>1
  <2>3. now # 0 /\ UNCHANGED <<config, tracks, attachments, session, exchange, pending, gaveUp,
                               error, disposed>>
    BY <1>4 DEF InitializeForPlayback
  <2>4. d \in Data
    BY <1>1, <2>2, <2>3, Types DEF Activations
  <2>5. QED
    BY <2>2, <2>3, <2>4, StartsInductive
<1>5. CASE SetBufferingDrmInfo
  BY <1>5, SetBufferingInductive
<1>6. CASE Deactivate
  <2> DEFINE toClose == {s \in Sessions : session[s].act = now}
  <2>1. /\ now' = 0 /\ buffering' = 0 /\ ResetsError /\ closes(toClose)
        /\ UNCHANGED <<config, last, keys, attachments, flow, disposed>>
    BY <1>6 DEF Deactivate
  <2>2. \A s \in Sessions : isOpen(s) => s \in toClose
    BY DEF Inductive, SessionInv, NoStraySessions, aborted
  <2>3. toClose \in SUBSET Sessions
    OBVIOUS
  <2> HIDE DEF toClose
  <2>4. disposed' \in BOOLEAN
    BY <1>1, <2>1, Types
  <2>5. /\ exchange' \in [Exchanges -> ExchangeRecs]
        /\ pending' \in 0..MaxSessions /\ gaveUp' \in BOOLEAN /\ error' \in BOOLEAN
        /\ ExchangesInv'
    BY <1>1, <2>1, ResetsErrorStep
  <2>6. QED
    BY <2>1, <2>2, <2>3, <2>4, <2>5, ClosesInductive
<1>7. CASE CloseSessions \/ Dispose
  <2>1. /\ closes(Sessions) /\ now' = now /\ buffering' = buffering
        /\ UNCHANGED <<config, last, keys, attachments, flow, exchange, pending, gaveUp, error>>
        /\ now' = 0 \/ disposed'
    BY <1>7 DEF CloseSessions, Dispose, tracks
  <2>2. ExchangesInv'
    BY <1>1, <2>1 DEF ExchangesInv
  <2>3. disposed' \in BOOLEAN
    BY <1>1, <1>7, Types DEF CloseSessions, Dispose
  <2>4. QED
    BY <1>1, <2>1, <2>2, <2>3, ClosesInductive, Types
<1>8. ASSUME NEW d \in Data, Encrypted(d)
      PROVE  Inductive'
  <2>1. CASE buffering = 0
    <3>1. /\ UNCHANGED <<config, tracks, keys, attachments, flow, session, exchange, pending,
                         gaveUp, disposed>>
          /\ error' = TRUE
      BY <1>8, <2>1 DEF Encrypted
    <3>2. ExchangesInv'
      BY <1>1, <3>1 DEF ExchangesInv
    <3>3. QED
      BY <1>1, <3>1, <3>2, QuietStep, Types
  <2>2. CASE buffering # 0
    <3>1. buffering = now /\ now # 0
      BY <1>8, <2>2 DEF Encrypted, Inductive, SessionInv, TracksInv
    <3>2. PICK f \in Flows : Starts(f, now, d, FALSE)
      BY <1>8, <2>2, <3>1 DEF Encrypted
    <3>3. UNCHANGED <<config, tracks, attachments, session, exchange, pending, gaveUp, error,
                      disposed>>
      BY <1>8, <2>2 DEF Encrypted
    <3>4. QED
      BY <3>1, <3>2, <3>3, StartsInductive
  <2>3. QED
    BY <2>1, <2>2
<1>9. QED
  BY <1>2, <1>3, <1>4, <1>5, <1>6, <1>7, <1>8 DEF Calls

------------------------------------------------------------------------------
\* The theorems

(* The invariants hold initially.                                              *)
LEMMA InitInductive == Init => Inductive
<1> SUFFICES ASSUME Init PROVE Inductive
  OBVIOUS
<1>1. TypeOK
  <2>1. noFlow \in FlowRecs /\ noSession \in SessionRecs /\ noExchange \in ExchangeRecs
    BY DrmAssumption DEF noFlow, noSession, noExchange, FlowRecs, SessionRecs, ExchangeRecs
  <2>2. flow \in [Flows -> FlowRecs] /\ session \in [Sessions -> SessionRecs]
        /\ exchange \in [Exchanges -> ExchangeRecs]
    BY <2>1 DEF Init
  <2>3. keys \in KeyRecs /\ attachments \in 0..MaxFlows
    BY DrmAssumption DEF Init, KeyRecs
  <2>4. {now, last, buffering} \subseteq 0..MaxActivations /\ pending \in 0..MaxSessions
    BY DrmAssumption DEF Init
  <2>5. fairPlay \in BOOLEAN /\ manifest \in BOOLEAN
    BY DEF Init
  <2>6. gaveUp \in BOOLEAN /\ error \in BOOLEAN /\ disposed \in BOOLEAN
    BY DEF Init
  <2>7. QED
    BY <2>2, <2>3, <2>4, <2>5, <2>6 DEF TypeOK, FlowRecs, SessionRecs, ExchangeRecs, KeyRecs
<1>2. KeysInv /\ TracksInv
  BY DEF Init, KeysInv, KeysSetOnce, TracksInv
<1>3. FlowsInv /\ OwnersInv /\ CurrentSessionsKept
  BY DEF Init, FlowsInv, OwnersInv, CurrentSessionsKept, noFlow, noSession, isOpen
<1>4. OneSessionPerData /\ NoStraySessions /\ DisposedIsQuiet
  BY DEF Init, OneSessionPerData, NoStraySessions, DisposedIsQuiet, noSession, isOpen
<1>5. ExchangesInv
  BY DEF Init, ExchangesInv, noExchange
<1>6. QED
  BY <1>1, <1>2, <1>3, <1>4, <1>5 DEF Inductive, SessionInv

(* Every step of the controller preserves the invariants.                      *)
LEMMA NextInductive == Inductive /\ [Next]_vars => Inductive'
<1> SUFFICES ASSUME Inductive, [Next]_vars PROVE Inductive'
  OBVIOUS
<1>1. CASE KeysStep
  BY <1>1, KeysStepInductive
<1>2. CASE FlowStep
  BY <1>2, HasKeysInductive, HasOptionsInductive DEF FlowStep
<1>3. CASE SessionStep
  BY <1>3, SessionStepInductive
<1>4. CASE ExchangeStep
  BY <1>4, ExchangeStepInductive
<1>5. CASE Calls
  BY <1>5, CallsInductive
<1>6. CASE UNCHANGED vars
  <2>1. TypeOK
    BY DEF Inductive, SessionInv
  <2>2. /\ UNCHANGED <<config, tracks, keys, attachments, flow, session, disposed>>
        /\ UNCHANGED <<exchange, pending, gaveUp, error>>
    BY <1>6 DEF vars, config, tracks
  <2>3. ExchangesInv'
    BY <2>2 DEF Inductive, ExchangesInv
  <2>4. QED
    BY <2>1, <2>2, <2>3, QuietStep, Types
<1>7. QED
  BY <1>1, <1>2, <1>3, <1>4, <1>5, <1>6 DEF Next

(* The invariants are those of the specification.                              *)
LEMMA InductiveInvariant == Spec => []Inductive
BY InitInductive, NextInductive, PTL DEF Spec

(* The media keys are set once and there is at most one open session per data, *)
(* none of a track that was deactivated or of a disposed controller, however   *)
(* the streams, the encrypted events and their promises interleave             *)
(* (createSessionFromInitData, maybeCreateSession and closeSessions of         *)
(* DrmControllerImpl.ts).                                                      *)
THEOREM SessionsAreSound == Spec => []SessionsSound
<1>1. Inductive => SessionsSound
  BY DEF Inductive, SessionInv, KeysInv, SessionsSound
<1>2. QED
  BY <1>1, InductiveInvariant, PTL

(* What the active track was given by maybeCreateSession stays open until the  *)
(* CDM ends it: closing the sessions of a track never closes one that a later  *)
(* track shares.                                                               *)
THEOREM CurrentSessionsAreKept == Spec => []CurrentSessionsKept
<1>1. Inductive => CurrentSessionsKept
  BY DEF Inductive, SessionInv
<1>2. QED
  BY <1>1, InductiveInvariant, PTL

(* While nothing but failures has come of the license exchanges, reset of      *)
(* DrmControllerImpl has one to repeat, until the decoder fails, too.          *)
THEOREM FailuresAreRemembered == Spec => []FailureIsRemembered
<1>1. Inductive => FailureIsRemembered
  <2> SUFFICES ASSUME ExchangesInv, ~gaveUp,
                      \E x \in Exchanges : exchange[x].phase = "failed",
                      \A x \in Exchanges : exchange[x].phase \in {"none", "failed"}
               PROVE  pending # 0
    BY DEF Inductive, FailureIsRemembered
  <2>1. QED
    BY DEF ExchangesInv
<1>2. QED
  BY <1>1, InductiveInvariant, PTL

==============================================================================
