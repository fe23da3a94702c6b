--------------------------- MODULE WorkflowService ---------------------------
(***************************************************************************)
(* The case workflow service of the simulator package                      *)
(* (simulator/src/inforsight_simulator/workflow/service.py, with           *)
(* state_machine.py and persistence.py).  The service keeps cases,         *)
(* reservations and execution results in memory, writes each transition to *)
(* the durable audit ledger, and brackets the audit write with two atomic  *)
(* writes of its state file: a pending target before it, the committed     *)
(* state after it.                                                         *)
(*                                                                         *)
(* Reviews and dispatches hold the service's lock from end to end; the     *)
(* creation, dismissal and resolution of a case hold none.  A call that    *)
(* fails its checks before it touches anything is a call that is not made. *)
(*                                                                         *)
(* The two resources (seconds and micro-dollars) are one; the optimistic   *)
(* capacity_version is left out: a call with a stale one changes nothing.  *)
(* Approving the recommendation and overriding it differ in which eligible *)
(* action is chosen, so a review chooses any; a request for more           *)
(* information notes itself in the metadata of the case and is left out.   *)
(***************************************************************************)
EXTENDS CaseStates, Integers, Sequences, FiniteSets, FiniteSetsExt, Functions

CONSTANTS
    Case,
    Caller,         \* threads that call the service
    Cost,           \* what each action, "abstain" included, takes of the capacity
    Capacity,       \* what the capacity is at the start
    Known,          \* the cases that exist at the start, in the order of their creation
    Calls,          \* the operations that are called
    Alone,          \* calls that take no lock are made while no other call runs
    Faults,         \* the faults that happen: a subset of FaultKind
    MaxFaults,      \* bound: faults
    MaxEvents,      \* bound: case events, beyond those of the known cases
    None            \* no case, review, pending transition, lock holder or call

Operation == {"create", "review", "dispatch", "dismiss", "resolve"}
Locked == {"review", "dispatch"}

(* A crash of the process; a state-file write that raises in create_case, in *)
(* begin, in commit or in rollback; an audit append that raises without      *)
(* effect, leaving the ledger behind its file, or after it committed.        *)
FaultKind == {"crash", "create", "begin", "commit", "rollback",
              "append", "append-stale", "append-committed"}

ASSUME WorkflowAssumption ==
    /\ Known \in Seq(Case)
    /\ IsFiniteSet(Case)
    /\ Cost \in [DOMAIN Cost -> Nat]
    /\ "abstain" \in DOMAIN Cost
    /\ Cost["abstain"] = 0
    /\ Capacity \in Nat
    /\ Calls \subseteq Operation
    /\ Faults \subseteq FaultKind
    /\ Alone \in BOOLEAN
    /\ MaxFaults \in Nat
    /\ MaxEvents \in Nat

VARIABLES
    up,             \* the service runs
    mem,            \* its state: cases, reservations, remaining capacity, results
    store,          \* the state file: committed state and pending transition
    audit,          \* the committed entries of the audit ledger
    stale,          \* the ledger object no longer agrees with its file
    lock,           \* the caller inside the service's lock
    pc,             \* where each caller is in its call
    call,           \* the arguments and locals of each caller's call
    nextEvent,      \* the next case_event_id
    returned,       \* the events that calls returned to their callers
    faults          \* faults so far

vars == <<up, mem, store, audit, stale, lock, pc, call, nextEvent, returned, faults>>

Abstain == "abstain"
Action == DOMAIN Cost
Event == Nat \ {0}
Decision == {"APPROVED", "REJECTED"}

(* A review and the approval bound to it; key, the event of the review,      *)
(* stands for both the approval id and its idempotency key.                  *)
Review == [decision : Decision, action : Action, key : Event, version : Nat]
Context == {ctx \in [state : CaseState, version : Nat, review : Review \union {None},
                      events : SUBSET Event] :
                (ctx.state = "RECOMMENDED") = (ctx.review = None)}
Result == [key : Event, event : Event]
State == [cases : [Case -> Context \union {None}],
          reserved : [Case -> Action \union {None}],
          remaining : Nat,
          results : SUBSET Result]
Pending == [event : Event, target : State]
Store == [committed : State, pending : Pending \union {None}]
Entry == [event : Event, case : Case, from : CaseState, to : CaseState,
          decision : Decision \union {None}, action : Action]

ASSUME NoneAssumption ==
    /\ None \notin Caller /\ None \notin Action
    /\ None \notin Review /\ None \notin Context
    /\ None \notin Pending /\ None \notin Store

EmptyState == [cases |-> [c \in Case |-> None], reserved |-> [c \in Case |-> None],
               remaining |-> Capacity, results |-> {}]

NewContext(events) ==
    [state |-> "RECOMMENDED", version |-> 4, review |-> None, events |-> events]

(* The state a case is in before step n of its intake. *)
Before(n) == IF n = 1 THEN "NONE" ELSE Intake[n - 1]

EventIds(entries) == {entries[k].event : k \in DOMAIN entries}

NewEntry(e, c, from, to, review) ==
    [event |-> e, case |-> c, from |-> from, to |-> to,
     decision |-> IF review = None THEN None ELSE review.decision,
     action |-> IF review = None THEN Abstain ELSE review.action]

(* What the reservation of a case holds of the capacity, and the capacity    *)
(* that is free once the case gives it up.                                   *)
Held(s, c) == IF s.reserved[c] = None THEN 0 ELSE Cost[s.reserved[c]]
Available(c) == mem.remaining + Held(mem, c)

-----------------------------------------------------------------------------

(* The known cases were created one after the other, and persisted. *)
SeedEntry(k) ==
    LET n == ((k - 1) % 4) + 1
    IN  NewEntry(k, Known[(k + 3) \div 4], Before(n), Intake[n], None)
SeedAudit == [k \in 1 .. 4 * Len(Known) |-> SeedEntry(k)]
SeedState ==
    [EmptyState EXCEPT !.cases =
        [c \in Case |-> IF \E k \in DOMAIN SeedAudit : SeedAudit[k].case = c
                        THEN NewContext({k \in DOMAIN SeedAudit : SeedAudit[k].case = c})
                        ELSE None]]

Init ==
    /\ up = TRUE
    /\ mem = SeedState
    /\ store = IF Known = <<>> THEN None ELSE [committed |-> SeedState, pending |-> None]
    /\ audit = SeedAudit
    /\ stale = FALSE
    /\ lock = None
    /\ pc = [t \in Caller |-> "idle"]
    /\ call = [t \in Caller |-> None]
    /\ nextEvent = Len(SeedAudit) + 1
    /\ returned = {}
    /\ faults = 0

MaxEvent == Len(SeedAudit) + MaxEvents

(* Without Alone, callers that take no lock come when they like. *)
Admitted(t, op) ==
    Alone => \A u \in Caller \ {t} :
        pc[u] # "idle" => {op, call[u].op} \subseteq Locked

Goto(t, phase) == pc' = [pc EXCEPT ![t] = phase]

Enter_Unlocked(t, op, c, decision, action, reserve) ==
    /\ up
    /\ pc[t] = "idle"
    /\ op \in Calls
    /\ Admitted(t, op)
    /\ nextEvent <= MaxEvent
    /\ mem.cases[c] # None
    /\ lock' = IF op \in Locked THEN t ELSE lock
    /\ call' = [call EXCEPT ![t] =
                   [op |-> op, case |-> c, decision |-> decision, action |-> action,
                    reserve |-> reserve, before |-> mem, entry |-> None]]
    /\ Goto(t, "entered")
    /\ UNCHANGED <<up, mem, store, audit, stale, nextEvent, returned, faults>>

(* The call begins, with the state it saw: what _snapshot_mutation_state and *)
(* _serialize_state captured before the try block.                           *)
Enter(t, op, c, decision, action, reserve) ==
    /\ up
    /\ pc[t] = "idle"
    /\ op \in Calls
    /\ Admitted(t, op)
    /\ nextEvent <= MaxEvent
    /\ mem.cases[c] # None
    /\ op \in Locked => lock = None
    /\ lock' = IF op \in Locked THEN t ELSE lock
    /\ call' = [call EXCEPT ![t] =
                   [op |-> op, case |-> c, decision |-> decision, action |-> action,
                    reserve |-> reserve, before |-> mem, entry |-> None]]
    /\ Goto(t, "entered")
    /\ UNCHANGED <<up, mem, store, audit, stale, nextEvent, returned, faults>>

Leave_KeepsLock(t) ==
    /\ Goto(t, "idle")
    /\ call' = [call EXCEPT ![t] = None]
    /\ UNCHANGED lock

Leave(t) ==
    /\ Goto(t, "idle")
    /\ call' = [call EXCEPT ![t] = None]
    /\ lock' = IF lock = t THEN None ELSE lock

Restored_NotTheCapacity(t) ==
    LET before == call[t].before
    IN  [mem EXCEPT !.cases[call[t].case] = before.cases[call[t].case],
                    !.reserved = before.reserved]

(* _restore_mutation_state: the case, the whole reservation map and the      *)
(* remaining capacity go back to what the call saw; _execution_results, and  *)
(* the other cases, do not.                                                  *)
Restored(t) ==
    LET before == call[t].before
    IN  [mem EXCEPT !.cases[call[t].case] = before.cases[call[t].case],
                    !.reserved = before.reserved,
                    !.remaining = before.remaining]

(* An exception before the audit commit: memory is restored, and the state   *)
(* file is to be rolled back.                                                *)
Raise(t) ==
    /\ mem' = Restored(t)
    /\ Goto(t, "failed")
    /\ UNCHANGED <<lock, call>>

Fault(kind) ==
    /\ kind \in Faults
    /\ faults < MaxFaults
    /\ faults' = faults + 1

(***************************************************************************)
(* The calls, up to their try block.                                       *)
(***************************************************************************)

SubmitReview(t, c, decision, action, reserve) ==
    /\ decision = "REJECTED" => action = Abstain
    /\ reserve => Cost[action] <= Available(c)
    /\ Enter(t, "review", c, decision, action, reserve)

(* A used idempotency key returns the event recorded for it. *)
ReplayDispatch(t, result) ==
    /\ up
    /\ pc[t] = "idle"
    /\ "dispatch" \in Calls
    /\ Admitted(t, "dispatch")
    /\ lock = None
    /\ result \in mem.results
    /\ returned' = returned \union {result.event}
    /\ UNCHANGED <<up, mem, store, audit, stale, lock, pc, call, nextEvent, faults>>

(* The case's approval, unused, current and backed by the exact reservation, *)
(* or by enough capacity to make one.                                        *)
Dispatchable(c) ==
    LET ctx == mem.cases[c]
    IN  /\ ctx # None /\ ctx.review # None
        /\ \A result \in mem.results : result.key # ctx.review.key
        /\ ctx.review.version = ctx.version
        /\ IF mem.reserved[c] = None THEN Cost[ctx.review.action] <= Available(c)
           ELSE mem.reserved[c] = ctx.review.action

DispatchExecution(t, c) ==
    /\ Dispatchable(c)
    /\ Enter(t, "dispatch", c, mem.cases[c].review.decision, mem.cases[c].review.action,
             mem.reserved[c] = None)

DismissCase(t, c) == Enter(t, "dismiss", c, None, Abstain, FALSE)

ResolveCase(t, c) == Enter(t, "resolve", c, None, Abstain, FALSE)

(***************************************************************************)
(* The try block: prepare in memory, begin, append, commit.                *)
(***************************************************************************)

(* Where CaseStateMachine lets each operation start from, and take a case. *)
Source == [review |-> {"RECOMMENDED"}, dispatch |-> {"HUMAN_REVIEWED"},
           dismiss |-> {"HUMAN_REVIEWED"}, resolve |-> {"EXECUTED", "DISMISSED"}]
Target == [review |-> "HUMAN_REVIEWED", dispatch |-> "EXECUTED",
           dismiss |-> "DISMISSED", resolve |-> "RESOLVED"]

Accepts_AnyReview(op, ctx) == ctx.state \in Source[op]

(* A rejection or an abstention is not dispatched. *)
Accepts(op, ctx) ==
    /\ ctx.state \in Source[op]
    /\ op = "dispatch" => ctx.review.decision # "REJECTED" /\ ctx.review.action # Abstain

(* The case after the operation; only reviews and dispatches count as        *)
(* versions of it.                                                           *)
Moved(cl, ctx) ==
    LET version == IF cl.op \in Locked THEN ctx.version + 1 ELSE ctx.version
    IN  [state |-> Target[cl.op], version |-> version, events |-> ctx.events \union {nextEvent},
         review |-> IF cl.op # "review" THEN ctx.review
                    ELSE [decision |-> cl.decision, action |-> cl.action,
                          key |-> nextEvent, version |-> version]]

Results(cl, ctx) ==
    IF cl.op = "dispatch"
    THEN mem.results \union {[key |-> ctx.review.key, event |-> nextEvent]}
    ELSE mem.results

(* replace_reservation: a rejection gives the old reservation up. *)
Prepared(cl, ctx) ==
    [cases |-> [mem.cases EXCEPT ![cl.case] = Moved(cl, ctx)],
     reserved |-> [mem.reserved EXCEPT ![cl.case] =
                      IF ~cl.reserve THEN @
                      ELSE IF cl.decision = "APPROVED" THEN cl.action ELSE None],
     remaining |-> IF cl.reserve THEN Available(cl.case) - Cost[cl.action] ELSE mem.remaining,
     results |-> Results(cl, ctx)]

(* The transition in memory, or the exception of the state machine or of     *)
(* replace_reservation.                                                      *)
Prepare(t) ==
    LET cl == call[t]
        ctx == mem.cases[cl.case]
        fits == cl.reserve => Cost[cl.action] <= Available(cl.case)
    IN  /\ pc[t] = "entered"
        /\ IF Accepts(cl.op, ctx) /\ fits
           THEN /\ mem' = Prepared(cl, ctx)
                /\ call' = [call EXCEPT ![t].entry =
                       NewEntry(nextEvent, cl.case, ctx.state, Target[cl.op],
                                Moved(cl, ctx).review)]
                /\ nextEvent' = nextEvent + 1
                /\ Goto(t, "prepared")
                /\ UNCHANGED lock
           ELSE Raise(t) /\ UNCHANGED nextEvent
        /\ UNCHANGED <<up, store, audit, stale, returned, faults>>

PendingStore_CommitsTarget(t) ==
    [committed |-> mem,
     pending |-> [event |-> call[t].entry.event, target |-> mem]]

PendingStore(t) ==
    [committed |-> call[t].before,
     pending |-> [event |-> call[t].entry.event, target |-> mem]]

(* _begin_pending; the write may raise before or after os.replace. *)
BeginPending(t) ==
    /\ pc[t] = "prepared"
    /\ store' = PendingStore(t)
    /\ Goto(t, "begun")
    /\ UNCHANGED <<up, mem, audit, stale, lock, call, nextEvent, returned, faults>>

BeginFails(t, replaced) ==
    /\ Fault("begin")
    /\ pc[t] = "prepared"
    /\ store' = IF replaced THEN PendingStore(t) ELSE store
    /\ Raise(t)
    /\ UNCHANGED <<up, audit, stale, nextEvent, returned>>

(* ledger.append, as one step: AuditLedger has its steps. *)
AppendAudit(t) ==
    /\ pc[t] = "begun"
    /\ ~stale
    /\ audit' = Append(audit, call[t].entry)
    /\ Goto(t, "audited")
    /\ UNCHANGED <<up, mem, store, stale, lock, call, nextEvent, returned, faults>>

(* The append raises: the ledger is stale, or becomes so, or its writer is   *)
(* busy, or only the directory sync after its checkpoint failed.             *)
AppendRaises ==
    \/ stale /\ UNCHANGED <<stale, faults>>
    \/ ~stale /\ Fault("append") /\ UNCHANGED stale
    \/ ~stale /\ Fault("append-stale") /\ stale' = TRUE

AppendFails(t) ==
    /\ pc[t] = "begun"
    /\ \/ AppendRaises /\ UNCHANGED audit
       \/ /\ ~stale /\ Fault("append-committed") /\ UNCHANGED stale
          /\ audit' = Append(audit, call[t].entry)
    /\ Raise(t)
    /\ UNCHANGED <<up, store, nextEvent, returned>>

(* _persist_committed: the state as it now is. *)
Commit(t) ==
    /\ pc[t] = "audited"
    /\ store' = [committed |-> mem, pending |-> None]
    /\ returned' = returned \union {call[t].entry.event}
    /\ Leave(t)
    /\ UNCHANGED <<up, mem, audit, stale, nextEvent, faults>>

(* After the audit commit, an exception restores memory but rolls nothing    *)
(* back.                                                                     *)
CommitFails(t, replaced) ==
    /\ Fault("commit")
    /\ pc[t] = "audited"
    /\ store' = IF replaced THEN [committed |-> mem, pending |-> None] ELSE store
    /\ mem' = Restored(t)
    /\ Leave(t)
    /\ UNCHANGED <<up, audit, stale, nextEvent, returned>>

Rollback(t) ==
    /\ pc[t] = "failed"
    /\ store' = [committed |-> call[t].before, pending |-> None]
    /\ Leave(t)
    /\ UNCHANGED <<up, mem, audit, stale, nextEvent, returned, faults>>

RollbackFails(t) ==
    /\ Fault("rollback")
    /\ pc[t] = "failed"
    /\ Leave(t)
    /\ UNCHANGED <<up, mem, store, audit, stale, nextEvent, returned>>

(***************************************************************************)
(* create_case: four appends, then the case, then its persistence.         *)
(***************************************************************************)

(* A caller creates a case that get_case does not find. *)
CreateCase(t, c) ==
    /\ up
    /\ pc[t] = "idle"
    /\ "create" \in Calls
    /\ Admitted(t, "create")
    /\ nextEvent + 3 <= MaxEvent
    /\ mem.cases[c] = None
    /\ call' = [call EXCEPT ![t] = [op |-> "create", case |-> c, made |-> <<>>]]
    /\ Goto(t, "creating")
    /\ UNCHANGED <<up, mem, store, audit, stale, lock, nextEvent, returned, faults>>

IntakeEntry(t) ==
    LET n == Len(call[t].made) + 1
    IN  NewEntry(nextEvent, call[t].case, Before(n), Intake[n], None)

AppendIntake(t) ==
    /\ pc[t] = "creating"
    /\ Len(call[t].made) < Len(Intake)
    /\ ~stale
    /\ audit' = Append(audit, IntakeEntry(t))
    /\ call' = [call EXCEPT ![t].made = Append(@, nextEvent)]
    /\ nextEvent' = nextEvent + 1
    /\ UNCHANGED <<up, mem, store, stale, lock, pc, returned, faults>>

(* A failed intake leaves the entries it made. *)
AppendIntakeFails(t) ==
    /\ pc[t] = "creating"
    /\ Len(call[t].made) < Len(Intake)
    /\ \/ AppendRaises /\ UNCHANGED <<audit, nextEvent>>
       \/ /\ ~stale /\ Fault("append-committed") /\ UNCHANGED stale
          /\ audit' = Append(audit, IntakeEntry(t))
          /\ nextEvent' = nextEvent + 1
    /\ Leave(t)
    /\ UNCHANGED <<up, mem, store, returned>>

(* The case replaces any other of its name; the model leaves out that        *)
(* another call may still be working on the context it replaces.             *)
RegisterCase(t) ==
    LET c == call[t].case
    IN  /\ pc[t] = "creating"
        /\ Len(call[t].made) = Len(Intake)
        /\ \A u \in Caller \ {t} :
               pc[u] \notin {"idle", "creating", "registered"} => call[u].case # c
        /\ mem' = [mem EXCEPT !.cases[c] = NewContext(Range(call[t].made))]
        /\ Goto(t, "registered")
        /\ UNCHANGED <<up, store, audit, stale, lock, call, nextEvent, returned, faults>>

PersistCase(t) ==
    /\ pc[t] = "registered"
    /\ store' = [committed |-> mem, pending |-> None]
    /\ Leave(t)
    /\ UNCHANGED <<up, mem, audit, stale, nextEvent, returned, faults>>

PersistCaseFails(t, replaced) ==
    /\ Fault("create")
    /\ pc[t] = "registered"
    /\ store' = IF replaced THEN [committed |-> mem, pending |-> None] ELSE store
    /\ Leave(t)
    /\ UNCHANGED <<up, mem, audit, stale, nextEvent, returned>>

(***************************************************************************)
(* Crash and recovery.                                                     *)
(***************************************************************************)

Crash ==
    /\ Fault("crash")
    /\ up
    /\ up' = FALSE
    /\ mem' = EmptyState
    /\ lock' = None
    /\ pc' = [t \in Caller |-> "idle"]
    /\ call' = [t \in Caller |-> None]
    /\ UNCHANGED <<store, audit, stale, nextEvent, returned>>

Selected_NeverPromotes == IF store = None THEN EmptyState ELSE store.committed

(* The pending target is chosen when its event was audited. *)
Selected ==
    IF store = None THEN EmptyState
    ELSE IF store.pending # None /\ store.pending.event \in EventIds(audit)
         THEN store.pending.target
         ELSE store.committed

(* The state refers to no event that the ledger does not have. *)
Recoverable(state) ==
    \A c \in Case :
        state.cases[c] # None => state.cases[c].events \subseteq EventIds(audit)

(* A new AuditLedger has cut its uncommitted suffix; then                    *)
(* _restore_persisted_state, which refuses a state it cannot recover.        *)
Restart ==
    /\ ~up
    /\ Recoverable(Selected)
    /\ up' = TRUE
    /\ mem' = Selected
    /\ stale' = FALSE
    /\ UNCHANGED <<store, audit, lock, pc, call, nextEvent, returned, faults>>

Next ==
    \/ \E t \in Caller, c \in Case :
        \/ \E decision \in Decision, action \in Action, reserve \in BOOLEAN :
               SubmitReview(t, c, decision, action, reserve)
        \/ DispatchExecution(t, c)
        \/ DismissCase(t, c)
        \/ ResolveCase(t, c)
        \/ CreateCase(t, c)
    \/ \E t \in Caller :
        \/ \E result \in mem.results : ReplayDispatch(t, result)
        \/ Prepare(t)
        \/ BeginPending(t)
        \/ \E replaced \in BOOLEAN : BeginFails(t, replaced)
        \/ AppendAudit(t)
        \/ AppendFails(t)
        \/ Commit(t)
        \/ \E replaced \in BOOLEAN : CommitFails(t, replaced)
        \/ Rollback(t)
        \/ RollbackFails(t)
        \/ AppendIntake(t)
        \/ AppendIntakeFails(t)
        \/ RegisterCase(t)
        \/ PersistCase(t)
        \/ \E replaced \in BOOLEAN : PersistCaseFails(t, replaced)
    \/ Crash
    \/ Restart

Spec == Init /\ [][Next]_vars

-----------------------------------------------------------------------------

Call == {cl \in [op : Operation \ {"create"}, case : Case,
                 decision : Decision \union {None}, action : Action, reserve : BOOLEAN,
                 before : State, entry : Entry \union {None}] :
             cl.op = "review" => cl.decision \in Decision}
Creation == [op : {"create"}, case : Case, made : Seq(Event)]
Trying == {"entered", "prepared", "begun", "audited", "failed"}
Phase == {"idle", "creating", "registered"} \union Trying

(* Every variable has its type, a call its arguments, and only a call holds  *)
(* the lock.                                                                 *)
TypeOK ==
    /\ up \in BOOLEAN
    /\ mem \in State
    /\ store \in Store \union {None}
    /\ audit \in Seq(Entry)
    /\ stale \in BOOLEAN
    /\ lock \in Caller \union {None}
    /\ pc \in [Caller -> Phase]
    /\ call \in [Caller -> Call \union Creation \union {None}]
    /\ \A t \in Caller :
           /\ pc[t] = "idle" => call[t] = None /\ lock # t
           /\ pc[t] \in Trying => call[t] \in Call
           /\ pc[t] \in Trying \ {"entered", "failed"} => call[t].entry \in Entry
           /\ pc[t] \in {"creating", "registered"} => call[t] \in Creation
    /\ nextEvent \in Event
    /\ returned \subseteq Event
    /\ faults \in 0 .. MaxFaults

(* What the audit ledger tells of each case. *)
EntriesOf(c) == {k \in DOMAIN audit : audit[k].case = c}
ReviewsOf(c) == {k \in EntriesOf(c) : audit[k].to = "HUMAN_REVIEWED"}
AuditedState(c) == IF EntriesOf(c) = {} THEN "NONE" ELSE audit[Max(EntriesOf(c))].to
AuditedApproval(c) == IF ReviewsOf(c) = {} THEN Abstain ELSE audit[Max(ReviewsOf(c))].action
AuditedExecutions == {c \in Case : \E k \in EntriesOf(c) : audit[k].to = "EXECUTED"}

Quiet == up /\ \A t \in Caller : pc[t] = "idle"

(* "It must never silently apply a different state": between calls, and      *)
(* after every recovery, a case is in the state its last audit entry says,   *)
(* with the approval the audit has for it.                                   *)
StateMatchesAudit ==
    Quiet => \A c \in Case :
        mem.cases[c] # None =>
            /\ mem.cases[c].state = AuditedState(c)
            /\ mem.cases[c].review # None => mem.cases[c].review.action = AuditedApproval(c)

(* "Neither state nor audit transition is committed": at every moment the    *)
(* state file is one that a restart accepts, for whatever event it refers to *)
(* is in the durable ledger.                                                 *)
RecoveryNeverRefuses == Recoverable(Selected)

(* "Restart reproduces the same state": between calls, a crash loses nothing *)
(* of the cases, their versions and approvals, nor of the reservations.      *)
RestartReproduces ==
    Quiet =>
        /\ \A c \in Case : mem.cases[c] # None /\ Selected.cases[c] # None =>
               mem.cases[c] = Selected.cases[c]
        /\ mem.reserved = Selected.reserved
        /\ mem.remaining = Selected.remaining

(* The free capacity is what the reservations leave, in memory and in what a *)
(* restart would recover.                                                    *)
ReservedIn(s) == SumFunction([c \in Case |-> Held(s, c)])
CapacityConserved ==
    \A s \in {mem, Selected} : s.remaining + ReservedIn(s) = Capacity

(* The audited history implements the authority of specialists over cases.   *)
Authority == INSTANCE CaseAuthority WITH
    status <- [c \in Case |-> AuditedState(c)],
    approved <- [c \in Case |-> AuditedApproval(c)],
    executed <- AuditedExecutions
ImplementsCaseAuthority == Authority!AuthoritySpec

(* "Return the committed event only after both commits succeed": an event    *)
(* that a call returned is in the ledger.                                    *)
ReturnedCommitted == returned \subseteq EventIds(audit)
=============================================================================
