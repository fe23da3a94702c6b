------------------------------ MODULE Resilience ------------------------------
(***************************************************************************)
(* The guard of the triage endpoint: a token bucket, then a circuit        *)
(* breaker that opens after FailureThreshold failures in a row, admits     *)
(* everybody again once OpenDuration has passed, and closes at the first   *)
(* success, whenever that request was admitted. Requests run side by side  *)
(* and end in any order. Each method is synchronized.                      *)
(***************************************************************************)
EXTENDS Integers

CONSTANTS
    Request,
    Capacity,           \* tokens of the bucket, refilled in a unit of time
    FailureThreshold, OpenDuration,
    MaxTime

ResilienceAssumption ==
    /\ Capacity \in Nat \ {0} /\ FailureThreshold \in Nat \ {0} /\ OpenDuration \in Nat \ {0}

VARIABLES
    tokens,
    state, failures, openedAt,  \* the circuit breaker
    request,                    \* of each request: new, scoring, or how it ended
    now,
    streak, lastFailure         \* what callers saw: failures since a success, and when

vars == <<tokens, state, failures, openedAt, request, now, streak, lastFailure>>
breaker == <<state, failures, openedAt>>
seen == <<streak, lastFailure>>

Init ==
    /\ tokens = Capacity
    /\ state = "CLOSED" /\ failures = 0 /\ openedAt = 0
    /\ request = [r \in Request |-> "new"]
    /\ now = 0 /\ streak = 0 /\ lastFailure = 0

Rested == now > openedAt + OpenDuration

Limit(r) ==
    /\ request[r] = "new" /\ tokens = 0
    /\ request' = [request EXCEPT ![r] = "limited"]
    /\ UNCHANGED <<tokens, breaker, now, seen>>

(* A refusal has cost a token. *)
Refuse(r) ==
    /\ request[r] = "new" /\ tokens > 0
    /\ state = "OPEN" /\ ~Rested
    /\ tokens' = tokens - 1
    /\ request' = [request EXCEPT ![r] = "refused"]
    /\ UNCHANGED <<breaker, now, seen>>

AdmitFrom_Afresh == failures' = IF state = "OPEN" THEN 0 ELSE failures

(* Half-open keeps the failures that opened the breaker: one more opens it again. *)
AdmitFrom == UNCHANGED failures

(* allowRequest. A batch without policies is answered 400 behind the guard and
   reports neither success nor failure. *)
Admit(r) ==
    /\ request[r] = "new" /\ tokens > 0
    /\ state # "OPEN" \/ Rested
    /\ tokens' = tokens - 1
    /\ state' = IF state = "OPEN" THEN "HALF_OPEN" ELSE state
    /\ AdmitFrom
    /\ \E next \in {"scoring", "malformed"} : request' = [request EXCEPT ![r] = next]
    /\ UNCHANGED <<openedAt, now, seen>>

(* recordSuccess: also of a request admitted before the breaker opened. *)
Success(r) ==
    /\ request[r] = "scoring"
    /\ request' = [request EXCEPT ![r] = "answered"]
    /\ state' = "CLOSED" /\ failures' = 0 /\ openedAt' = 0
    /\ streak' = 0
    /\ UNCHANGED <<tokens, now, lastFailure>>

(* recordFailure: any exception of the batch, from inference or from the case store;
   a late one moves the time at which the breaker opened. *)
Failure(r) ==
    /\ request[r] = "scoring"
    /\ request' = [request EXCEPT ![r] = "failed"]
    /\ failures' = failures + 1
    /\ IF failures' >= FailureThreshold
       THEN state' = "OPEN" /\ openedAt' = now
       ELSE UNCHANGED <<state, openedAt>>
    /\ streak' = streak + 1 /\ lastFailure' = now
    /\ UNCHANGED <<tokens, now>>

Tick ==
    /\ now < MaxTime
    /\ now' = now + 1
    /\ tokens' = Capacity
    /\ UNCHANGED <<breaker, request, seen>>

Next ==
    \/ \E r \in Request : Limit(r) \/ Refuse(r) \/ Admit(r) \/ Success(r) \/ Failure(r)
    \/ Tick

Spec == Init /\ [][Next]_vars
-----------------------------------------------------------------------------
Admitted(r) == request[r] = "new" /\ request'[r] \in {"scoring", "malformed"}

(* Inference that failed FailureThreshold times in a row, in whatever order those
   requests were admitted and answered, is left alone for OpenDuration after the last
   of them: nobody is admitted meanwhile, not even through a breaker half open. *)
InferenceRests ==
    [][\A r \in Request : Admitted(r) =>
          streak < FailureThreshold \/ now > lastFailure + OpenDuration]_vars
===============================================================================
