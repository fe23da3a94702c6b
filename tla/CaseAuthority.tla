--------------------------- MODULE CaseAuthority ---------------------------
(***************************************************************************)
(* What the audited history of the cases promises, whatever the service    *)
(* that writes it crashes, retries or fails to do: each case moves along   *)
(* the transitions of its contract, an intake that failed half-way may     *)
(* start over, and an action is executed at most once, only after a        *)
(* specialist approved it, and within the capacity there is.               *)
(***************************************************************************)
EXTENDS CaseStates, Integers, Sequences, Functions

CONSTANTS
    Case,
    Cost,           \* what each action takes of the capacity
    Capacity

VARIABLES
    status,         \* the last audited state of each case
    approved,       \* the action approved for each case
    executed        \* the cases whose action was executed

authorityVars == <<status, approved, executed>>

Abstain == "abstain"

CapacityTaken(cases) == SumFunctionOnSet([c \in Case |-> Cost[approved[c]]], cases)

AuthorityInit ==
    /\ status \in [Case -> {"NONE", "RECOMMENDED"}]
    /\ approved = [c \in Case |-> Abstain]
    /\ executed = {}

Move(c, to) ==
    /\ <<status[c], to>> \in VALID_TRANSITIONS
    /\ status' = [status EXCEPT ![c] = to]

(* A failed intake is not taken up where it stopped, it begins again. *)
IntakeRestarts(c) ==
    /\ \E k \in DOMAIN Intake : status[c] = Intake[k]
    /\ status' = [status EXCEPT ![c] = "CREATED"]
    /\ UNCHANGED <<approved, executed>>

Review(c) ==
    /\ Move(c, "HUMAN_REVIEWED")
    /\ \E action \in DOMAIN Cost : approved' = [approved EXCEPT ![c] = action]
    /\ UNCHANGED executed

Execute(c) ==
    /\ approved[c] # Abstain
    /\ Move(c, "EXECUTED")
    /\ executed' = executed \union {c}
    /\ CapacityTaken(executed') <= Capacity
    /\ UNCHANGED approved

MoveOn(c) ==
    /\ \E to \in CaseState \ {"HUMAN_REVIEWED", "EXECUTED"} : Move(c, to)
    /\ UNCHANGED <<approved, executed>>

AuthorityNext ==
    \E c \in Case : IntakeRestarts(c) \/ Review(c) \/ Execute(c) \/ MoveOn(c)

AuthoritySpec == AuthorityInit /\ [][AuthorityNext]_authorityVars
=============================================================================
