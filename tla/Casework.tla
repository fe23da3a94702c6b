------------------------------ MODULE Casework ------------------------------
(***************************************************************************)
(* The persistent casework of the Java control plane: decisions on cases   *)
(* and drafts of the agents, each one transaction that locks the row of    *)
(* its case, and appends to the audit ledger. PostgreSQL runs them at READ *)
(* COMMITTED: a statement sees what was committed when it began, SELECT .. *)
(* FOR UPDATE waits for the holder of the row and then returns the row as  *)
(* committed, and of ORDER BY .. LIMIT 1 the row chosen before it waited.  *)
(* A digest of a payload is modelled by what it is a digest of, the hash   *)
(* of a ledger row by its ledger_sequence, which no other row has.         *)
(***************************************************************************)
EXTENDS Integers, Sequences, FiniteSets, FiniteSetsExt

CONSTANTS
    Client,         \* threads of the service, one request at a time each
    Case,
    IdempotencyKey,
    Action,         \* actions a reviewer or a draft may select, "abstain" among them
    MaxRequests,    \* bound on the requests of one behaviour
    MaxFaults       \* bound on the transactions that fail or lose their server

ASSUME CaseworkAssumption ==
    /\ MaxRequests \in Nat /\ MaxFaults \in Nat
    /\ "abstain" \in Action /\ "free" \notin Client

VARIABLES
    cases,          \* control_case: the committed row of each case
    handoffs,       \* trusted_agent_handoff: the allowed actions of each case, {} without one
    idempotency,    \* decision_idempotency, committed
    drafts,         \* agent_review_draft, committed
    ledger,         \* audit_ledger, committed
    sequence,       \* the BIGSERIAL of the ledger, never rolled back
    monitor,        \* who is inside AuditLedgerRepository.append, or "free"
    tx,             \* what each client is doing
    answers,        \* the decisions clients were answered with
    overlapped,     \* an append began while the row of another was not yet committed
    requests, faults

tables == <<cases, handoffs, idempotency, drafts, ledger>>
vars == <<tables, sequence, monitor, tx, answers, overlapped, requests, faults>>

Decision == {"APPROVED", "OVERRIDDEN", "REJECTED"}
Idle == [at |-> "idle"]
Genesis == 0
DecisionRequest ==
    [case : Case, key : IdempotencyKey, decision : Decision, version : 0 .. 1, action : Action]
DraftRequest == [case : Case, key : IdempotencyKey, action : Action]

Busy(cl) == tx[cl].at # "idle"
HasRow(cl) == tx[cl].at \in {"append", "head", "commit"}     \* holds the row of its case
RowFree(c) == \A cl \in Client : ~(HasRow(cl) /\ tx[cl].request.case = c)
HeadFree(seq) ==
    seq = Genesis \/ \A cl \in Client : ~(tx[cl].at = "commit" /\ tx[cl].row.parent = seq)
ChainHead_OfSequence == sequence

ChainHead == Max({Genesis} \cup {row.seq : row \in ledger})

Drafted(c) == {draft \in drafts : draft.case = c}

Authorizes(decision) == decision \in {"APPROVED", "OVERRIDDEN"}

Permitted(r) ==
    (handoffs[r.case] # {} /\ Authorizes(r.decision)) =>
        r.action \in handoffs[r.case] \ {"abstain"}

(* An overridden recommendation is dismissed, and authorized. *)
Decided(r) ==
    [state |-> IF r.decision = "APPROVED" THEN "HUMAN_REVIEWED" ELSE "DISMISSED",
     version |-> cases[r.case].version + 1,
     authorized |-> Authorizes(r.decision),
     action |-> IF handoffs[r.case] # {} /\ Authorizes(r.decision)
                THEN r.action ELSE cases[r.case].action]
-----------------------------------------------------------------------------
NoCase == [state |-> "none", version |-> 0, authorized |-> FALSE, action |-> "abstain"]

Init ==
    /\ cases = [c \in Case |-> NoCase]
    /\ handoffs = [c \in Case |-> {}]
    /\ idempotency = {} /\ drafts = {} /\ ledger = {} /\ answers = {}
    /\ sequence = 0
    /\ monitor = "free"
    /\ tx = [cl \in Client |-> Idle]
    /\ overlapped = FALSE
    /\ requests = 0 /\ faults = 0

Goto(cl, state) == tx' = [tx EXCEPT ![cl] = state]

(* The cases of a triage, or of a fictional event with its handoff, are created
   in a transaction that waits for nobody. *)
Create(c) ==
    /\ cases[c] = NoCase
    /\ cases' = [cases EXCEPT ![c] = [NoCase EXCEPT !.state = "RECOMMENDED"]]
    /\ \E allowed \in {{}} \cup {s \in SUBSET Action : "abstain" \in s} :
          handoffs' = [handoffs EXCEPT ![c] = allowed]
    /\ UNCHANGED <<idempotency, drafts, ledger, sequence, monitor, tx, answers,
                   overlapped, requests, faults>>

Request(cl) ==
    /\ tx[cl] = Idle
    /\ requests < MaxRequests
    /\ requests' = requests + 1

Recorded(r) == {i \in idempotency : i.case = r.case /\ i.key = r.key}

(* decide looks the idempotency key up before it locks the case: a decision
   recorded under it is answered again, or refused if the request differs. *)
DecideRequest(cl) ==
    /\ Request(cl)
    /\ \E r \in DecisionRequest :
          /\ cases[r.case] # NoCase
          /\ IF Recorded(r) = {}
             THEN Goto(cl, [at |-> "lock", kind |-> "decision", request |-> r]) /\ UNCHANGED answers
             ELSE /\ UNCHANGED tx
                  /\ answers' = answers \cup {i \in Recorded(r) : i.request = r}
    /\ UNCHANGED <<tables, sequence, monitor, overlapped, faults>>

Versioned_NotOlder(r) == cases[r.case].version >= r.version

Versioned(r) == cases[r.case].version = r.version

(* With the row of the case locked: the version, the handoff, then the update. *)
DecideLocked(cl) ==
    /\ tx[cl].at = "lock" /\ tx[cl].kind = "decision"
    /\ LET r == tx[cl].request IN
       /\ RowFree(r.case)
       /\ Goto(cl, IF Versioned(r) /\ Permitted(r)
                   THEN [tx[cl] EXCEPT !.at = "append"] ELSE Idle)
    /\ UNCHANGED <<tables, sequence, monitor, answers, overlapped, requests, faults>>

DraftRequested(cl) ==
    /\ Request(cl)
    /\ \E r \in DraftRequest :
          cases[r.case] # NoCase /\ Goto(cl, [at |-> "lock", kind |-> "draft", request |-> r])
    /\ UNCHANGED <<tables, sequence, monitor, answers, overlapped, faults>>

DraftLocked_AnyState(cl) ==
    /\ tx[cl].at = "lock" /\ tx[cl].kind = "draft"
    /\ LET r == tx[cl].request IN
       /\ RowFree(r.case)
       /\ Goto(cl, IF Drafted(r.case) = {} THEN [tx[cl] EXCEPT !.at = "append"] ELSE Idle)
    /\ UNCHANGED <<tables, sequence, monitor, answers, overlapped, requests, faults>>

(* A draft is stored for a recommended case of version 0, once; a trusted handoff
   must allow the action it proposes. A stored draft is replayed or conflicts. *)
DraftLocked(cl) ==
    /\ tx[cl].at = "lock" /\ tx[cl].kind = "draft"
    /\ LET r == tx[cl].request IN
       /\ RowFree(r.case)
       /\ Goto(cl, IF /\ Drafted(r.case) = {}
                      /\ cases[r.case].state = "RECOMMENDED" /\ cases[r.case].version = 0
                      /\ r.action \in (IF handoffs[r.case] = {} THEN Action
                                       ELSE handoffs[r.case])
                   THEN [tx[cl] EXCEPT !.at = "append"] ELSE Idle)
    /\ UNCHANGED <<tables, sequence, monitor, answers, overlapped, requests, faults>>

Uncommitted == {cl \in Client : tx[cl].at = "commit"}

(* append is synchronized; its first statement chooses the head of the chain ... *)
EnterAppend(cl) ==
    /\ tx[cl].at = "append"
    /\ monitor = "free"
    /\ monitor' = cl
    /\ Goto(cl, [at |-> "head", kind |-> tx[cl].kind, request |-> tx[cl].request, head |-> ChainHead])
    /\ overlapped' = (overlapped \/ Uncommitted # {})
    /\ UNCHANGED <<tables, sequence, answers, requests, faults>>

Row(cl) ==
    LET r == tx[cl].request IN
    [seq |-> sequence + 1, parent |-> tx[cl].head, case |-> r.case, kind |-> tx[cl].kind, key |-> r.key,
     version |-> cases[r.case].version + IF tx[cl].kind = "decision" THEN 1 ELSE 0]

InsertRow_KeepsMonitor(cl) ==
    /\ tx[cl].at = "head"
    /\ HeadFree(tx[cl].head)
    /\ sequence' = sequence + 1
    /\ Goto(cl, [at |-> "commit", kind |-> tx[cl].kind, request |-> tx[cl].request, row |-> Row(cl)])
    /\ UNCHANGED <<tables, monitor, answers, overlapped, requests, faults>>

(* ... waits for whoever has it locked, and inserts a row after it. The monitor
   is left, and the transaction is not yet committed. *)
InsertRow(cl) ==
    /\ tx[cl].at = "head"
    /\ HeadFree(tx[cl].head)
    /\ sequence' = sequence + 1
    /\ Goto(cl, [at |-> "commit", kind |-> tx[cl].kind, request |-> tx[cl].request, row |-> Row(cl)])
    /\ monitor' = "free"
    /\ UNCHANGED <<tables, answers, overlapped, requests, faults>>

CommitDecision_KeyReused(cl) ==
    /\ tx[cl].at = "commit" /\ tx[cl].kind = "decision"
    /\ LET r == tx[cl].request
           done == [case |-> r.case, key |-> r.key, request |-> r, response |-> Decided(r)]
       IN  /\ cases' = [cases EXCEPT ![r.case] = Decided(r)]
           /\ ledger' = ledger \cup {tx[cl].row}
           /\ idempotency' = idempotency \cup {done}
           /\ answers' = answers \cup {done}
    /\ Goto(cl, Idle)
    /\ UNCHANGED <<handoffs, drafts, sequence, monitor, overlapped, requests, faults>>

(* The decision, its audit row and its idempotency record commit together; a key
   another decision committed meanwhile violates the primary key, and nothing is. *)
CommitDecision(cl) ==
    /\ tx[cl].at = "commit" /\ tx[cl].kind = "decision"
    /\ LET r == tx[cl].request
           done == [case |-> r.case, key |-> r.key, request |-> r, response |-> Decided(r)]
       IN  IF Recorded(r) # {} THEN UNCHANGED <<cases, ledger, idempotency, answers>>
           ELSE /\ cases' = [cases EXCEPT ![r.case] = Decided(r)]
                /\ ledger' = ledger \cup {tx[cl].row}
                /\ idempotency' = idempotency \cup {done}
                /\ answers' = answers \cup {done}
    /\ Goto(cl, Idle)
    /\ UNCHANGED <<handoffs, drafts, sequence, monitor, overlapped, requests, faults>>

CommitDraft(cl) ==
    /\ tx[cl].at = "commit" /\ tx[cl].kind = "draft"
    /\ LET r == tx[cl].request IN
       /\ drafts' = drafts \cup {[case |-> r.case, key |-> r.key, action |-> r.action, row |-> tx[cl].row.seq]}
       /\ ledger' = ledger \cup {tx[cl].row}
    /\ Goto(cl, Idle)
    /\ UNCHANGED <<cases, handoffs, idempotency, sequence, monitor, answers, overlapped, requests, faults>>

(* A transaction may fail at any statement; its locks and its rows are gone, its
   place in the sequence is not used again. *)
Rollback(cl) ==
    /\ Busy(cl)
    /\ faults < MaxFaults
    /\ faults' = faults + 1
    /\ monitor' = IF monitor = cl THEN "free" ELSE monitor
    /\ Goto(cl, Idle)
    /\ UNCHANGED <<tables, sequence, answers, overlapped, requests>>

Proceed(cl) ==
    \/ DecideLocked(cl) \/ DraftLocked(cl) \/ EnterAppend(cl) \/ InsertRow(cl)
    \/ CommitDecision(cl) \/ CommitDraft(cl)

Next ==
    \/ \E c \in Case : Create(c)
    \/ \E cl \in Client : DecideRequest(cl) \/ DraftRequested(cl) \/ Proceed(cl) \/ Rollback(cl)

Spec == Init /\ [][Next]_vars
-----------------------------------------------------------------------------
CaseRow ==
    [state : {"none", "RECOMMENDED", "HUMAN_REVIEWED", "DISMISSED"},
     version : Nat, authorized : BOOLEAN, action : Action]
LedgerRow ==
    [seq : Nat, parent : Nat, case : Case, kind : {"decision", "draft"}, key : IdempotencyKey,
     version : Nat]
Done == [case : Case, key : IdempotencyKey, request : DecisionRequest, response : CaseRow]
Typed(kind) == IF kind = "decision" THEN DecisionRequest ELSE DraftRequest
IsTransaction(t) ==
    t = Idle \/ \E kind \in {"decision", "draft"} :
        \/ t \in [at : {"lock", "append"}, kind : {kind}, request : Typed(kind)]
        \/ t \in [at : {"head"}, kind : {kind}, request : Typed(kind), head : Nat]
        \/ t \in [at : {"commit"}, kind : {kind}, request : Typed(kind), row : LedgerRow]
TypeOK ==
    /\ cases \in [Case -> CaseRow]
    /\ handoffs \in [Case -> SUBSET Action]
    /\ idempotency \subseteq Done /\ answers \subseteq Done
    /\ drafts \subseteq [case : Case, key : IdempotencyKey, action : Action, row : Nat]
    /\ ledger \subseteq LedgerRow
    /\ sequence \in Nat
    /\ monitor \in Client \cup {"free"}
    /\ DOMAIN tx = Client /\ \A cl \in Client : IsTransaction(tx[cl])
    /\ \A cl \in Client : (monitor = cl) <=> (tx[cl].at = "head")
    /\ overlapped \in BOOLEAN
    /\ requests \in 0 .. MaxRequests /\ faults \in 0 .. MaxFaults

DecisionRows(c) == {row \in ledger : row.case = c /\ row.kind = "decision"}

(* phase-04-04: a decision, its audit record and its idempotency record are one.
   Whatever interleaves, fails or is retried, a case of version n has the audited
   decisions 1 .. n, each recorded under a key of its own and made on the version
   before it, and stands as the last of them left it. *)
DecisionsAudited ==
    \A c \in Case :
        LET rows == DecisionRows(c)
            done == {i \in idempotency : i.case = c}
        IN  /\ {row.version : row \in rows} = 1 .. cases[c].version
            /\ Cardinality(rows) = cases[c].version
            /\ {<<row.key, row.version>> : row \in rows} = {<<i.key, i.response.version>> : i \in done}
            /\ Cardinality({i.key : i \in done}) = Cardinality(rows)
            /\ \A i \in done : i.response.version = i.request.version + 1
            /\ \A i \in done : i.response.version = cases[c].version => cases[c] = i.response

(* A decision delivered again, even while the first is under way, is answered with
   what the first one did, or refused: no two answers under a key differ. *)
AnswersAgree ==
    \A a, b \in answers : a.case = b.case /\ a.key = b.key => a = b

(* A case with a trusted handoff is authorized only for an action the handoff
   allows; an agent's draft is of an undecided case, so that in the ledger it
   precedes every decision on it. *)
AdvicePrecedesAuthority ==
    \A c \in Case :
        /\ cases[c].authorized /\ handoffs[c] # {} =>
              cases[c].action \in handoffs[c] \ {"abstain"}
        /\ Cardinality(Drafted(c)) <= 1
        /\ \A draft \in Drafted(c) :
              /\ \A row \in DecisionRows(c) : draft.row < row.seq
              /\ \E row \in ledger : row.seq = draft.row /\ row.kind = "draft" /\ row.case = c

(* AuditLedgerVerifier: read by sequence, each row names the one before it. *)
ChainVerifies ==
    \A row \in ledger :
        row.parent = Max({Genesis} \cup {r.seq : r \in {r \in ledger : r.seq < row.seq}})

(* Gaps of rolled-back rows do no harm: the chain verifies as long as no append
   began while the row of another waited for its commit. *)
ChainVerifiesInTurn == ~overlapped => ChainVerifies

Waits(cl) ==
    \/ tx[cl].at = "lock" /\ ~RowFree(tx[cl].request.case)
    \/ tx[cl].at = "append" /\ monitor # "free"
    \/ tx[cl].at = "head" /\ ~HeadFree(tx[cl].head)

(* The row of the case, the monitor and the head of the chain are taken in one
   order: of the transactions under way one can always go on. *)
NoCircularWait == (\E cl \in Client : Busy(cl)) => \E cl \in Client : Busy(cl) /\ ~Waits(cl)
=============================================================================
