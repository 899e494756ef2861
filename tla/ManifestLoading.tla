--------------------------- MODULE ManifestLoading ---------------------------
(***************************************************************************)
(* ManifestControllerImpl on top of the requester: the manifest a track    *)
(* loads, reloads with refresh and reloads after a failure with reset.     *)
(* Each load is a request followed by the reading of its body, which       *)
(* neither the timeout nor an abort reaches any more: the requester has    *)
(* let go of both once the headers are there.  Other callers send requests *)
(* of their own to the same service.                                       *)
(***************************************************************************)
EXTENDS Requests

CONSTANTS Loads   \* the requests that are loads of the manifest

ASSUME LoadsAssumption ==
    /\ Loads \subseteq Requests
    /\ \E first \in Loads : \A other \in Loads : first <= other

VARIABLES
    current,   \* the load whose promise is the value of the controller
    promise,   \* the promise of each load
    error,     \* _error # null
    armed,     \* manifestSpanArmed
    measured,  \* the loads that measure a span
    spans,     \* the loads whose span was dispatched
    disposed

manifestVars == <<current, promise, error, armed, measured, spans, disposed>>

vars == <<requestVars, manifestVars>>

Promises == {"none", "request", "body", "resolved", "rejected"}

loading(l) == promise[l] \in {"request", "body"}

-----------------------------------------------------------------------------

(* Mutant: only a load that is measured keeps its error.                   *)
MutOnlyMeasured(l) ==
    IF promise[l] = "request" /\ req'[l].phase = "settled"
    THEN IF req'[l].outcome = "ok"
         THEN /\ promise' = [promise EXCEPT ![l] = "body"]
              /\ UNCHANGED <<error, armed>>
         ELSE /\ promise' = [promise EXCEPT ![l] = "rejected"]
              /\ error' = (error \/ l \in measured)
              /\ armed' = (armed \/ l \in measured)
    ELSE UNCHANGED <<promise, error, armed>>

(* What follows the settling of the request of a load.                     *)
Follows(l) ==
    IF promise[l] = "request" /\ req'[l].phase = "settled"
    THEN IF req'[l].outcome = "ok"
         THEN /\ promise' = [promise EXCEPT ![l] = "body"]
              /\ UNCHANGED <<error, armed>>
         ELSE /\ promise' = [promise EXCEPT ![l] = "rejected"]
              /\ error' = TRUE
              /\ armed' = (armed \/ l \in measured)
    ELSE UNCHANGED <<promise, error, armed>>

LoadStep(l) ==
    /\ RequestStep(l)
    /\ Follows(l)
    /\ UNCHANGED <<current, measured, spans, disposed>>

BodyArrives(l) ==
    /\ ~MicrotaskPending /\ promise[l] = "body"
    /\ promise' = [promise EXCEPT ![l] = "resolved"]
    /\ spans' = IF disposed THEN spans ELSE spans \union ({l} \intersect measured)
    /\ UNCHANGED <<requestVars, current, error, armed, measured, disposed>>

(* The body cannot be read or parsed.                                      *)
BodyFails(l) ==
    /\ ~MicrotaskPending /\ promise[l] = "body"
    /\ promise' = [promise EXCEPT ![l] = "rejected"]
    /\ error' = TRUE
    /\ armed' = (armed \/ l \in measured)
    /\ UNCHANGED <<requestVars, current, measured, spans, disposed>>

(* requestManifest: the load under way is aborted; the reaction to its     *)
(* rejection runs after the error was cleared and the new load has begun,  *)
(* and only after the fetch where that was still to be called.             *)
(* The repository's own providers name no service; one that the load       *)
(* options bring may.                                                      *)
Load(l) ==
    LET old == IF live(req[current]) THEN callerAborts(req[current]) ELSE req[current]
        ended == live(req[current]) /\ ~live(old)
        measures == measured \union (IF armed THEN {l} ELSE {})
    IN  /\ promise[l] = "none" /\ \A other \in Loads : other < l => promise[other] # "none"
        /\ \E metered \in BOOLEAN :
              \E q \in nextAttempts(begun(metered, FALSE, FALSE), service) :
                 req' = [req EXCEPT ![current] = old, ![l] = q]
        /\ current' = l
        /\ promise' = [promise EXCEPT
              ![current] = IF ended THEN "rejected" ELSE @,
              ![l] = IF req'[l].phase = "settled" THEN "rejected" ELSE "request"]
        /\ error' = (ended \/ promise'[l] = "rejected")
        /\ measured' = measures
        /\ armed' = \/ ended /\ current \in measured
                    \/ promise'[l] = "rejected" /\ l \in measures
        /\ UNCHANGED <<now, service, platform, spans, disposed>>

Refresh(l) == ~disposed /\ promise[current] # "none" /\ Load(l)

Reset(l) == ~disposed /\ error /\ Load(l)

Dispose ==
    /\ ~disposed /\ promise[current] # "none" /\ disposed' = TRUE
    /\ req' = [req EXCEPT ![current] = IF live(@) THEN callerAborts(@) ELSE @]
    /\ Follows(current)
    /\ UNCHANGED <<now, service, platform, current, measured, spans>>

OtherStep(r) ==
    /\ \/ \E metered, readErrorBody, aborted \in BOOLEAN :
             Begin(r, metered, readErrorBody, aborted)
       \/ CallerAborts(r)
       \/ RequestStep(r)
    /\ UNCHANGED manifestVars

TimePasses == Tick /\ UNCHANGED manifestVars

(* The constructor of the controller begins the first load.                *)
Init ==
    /\ RequestsInit
    /\ current = CHOOSE l \in Loads : \A other \in Loads : l <= other
    /\ promise = [l \in Loads |-> "none"]
    /\ error = FALSE /\ armed = TRUE /\ disposed = FALSE
    /\ measured = {} /\ spans = {}

Construct == ~disposed /\ promise[current] = "none" /\ Load(current)

Next ==
    \/ Construct
    \/ \E l \in Loads : LoadStep(l) \/ BodyArrives(l) \/ BodyFails(l)
    \/ \E l \in Loads : Refresh(l) \/ Reset(l)
    \/ Dispose
    \/ \E r \in Requests \ Loads : OtherStep(r)
    \/ TimePasses

Spec == Init /\ [][Next]_vars

-----------------------------------------------------------------------------
(* Properties                                                              *)

TypeOK ==
    /\ RequestsTypeOK
    /\ current \in Loads /\ promise \in [Loads -> Promises]
    /\ {error, armed, disposed} \subseteq BOOLEAN
    /\ spans \subseteq measured /\ measured \subseteq Loads
    /\ \A l \in Loads : promise[l] = "request" <=> live(req[l])

(* When the manifest the track is waiting for could not be loaded, reset   *)
(* loads it again: a later load, superseded or not, never hides that       *)
(* failure from it (ManifestController.ts:29).                             *)
FailureRemembered == promise[current] = "rejected" => error

(* The load of the manifest is measured at most once, and it stays to be   *)
(* measured as long as every load it was measured by has failed.           *)
LoadSpanOnce ==
    /\ Cardinality(spans) <= 1
    /\ Cardinality({l \in measured : loading(l)}) <= 1
    /\ armed <=> \A l \in measured : promise[l] = "rejected"

(* Error, measurement and promise of the current load agree, whichever of the  *)
(* loads it superseded settle late.                                        *)
LoadsAgree == TypeOK /\ FailureRemembered /\ LoadSpanOnce

=============================================================================
