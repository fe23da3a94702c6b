---------------------------- MODULE CaseworkProofs ----------------------------
(***************************************************************************)
(* Proofs about the persistent casework, for any number of clients, cases  *)
(* and requests: TypeInv gives the types and that nobody waits in a        *)
(* circle, LockInv what the lock of a row protects, RecordInv that the     *)
(* case, its audit rows, its drafts and its idempotency records agree,     *)
(* ChainInv that the ledger is one chain while appends do not overlap.     *)
(***************************************************************************)
EXTENDS Casework, FiniteSetTheorems, WellFoundedInduction, TLAPS

LEMMA MaxOfBounded ==
    ASSUME NEW S \in SUBSET Nat, 0 \in S, NEW b \in Nat, \A s \in S : s <= b
    PROVE  Max(S) \in S /\ \A s \in S : s <= Max(S)
<1> DEFINE U == {m \in Nat : \A s \in S : s <= m}
<1>1. PICK m \in U : \A k \in U : m <= k
  <2> DEFINE less == OpToRel(<, Nat)
  <2>1. U \subseteq Nat /\ U # {}
    OBVIOUS
  <2>2. IsWellFoundedOn(less, Nat)
    BY NatLessThanWellFounded
  <2>3. \A k, m \in Nat : k < m => <<k, m>> \in less
    BY DEF OpToRel
  <2> HIDE DEF less, U
  <2>4. PICK m \in U : \A k \in U : <<k, m>> \notin less
    BY <2>1, <2>2, WFMin
  <2>5. ASSUME NEW k \in U PROVE ~(k < m)
    <3>1. <<k, m>> \notin less /\ k \in Nat /\ m \in Nat
      BY <2>1, <2>4
    <3> QED
      BY <3>1, <2>3, Zenon
  <2>6. ASSUME NEW k \in U PROVE m <= k
    <3>1. k \in Nat /\ m \in Nat
      BY <2>1
    <3> QED
      BY <3>1, <2>5
  <2> QED
    BY <2>6, Zenon
<1>2. m \in S
  <2>1. CASE m = 0
    BY <2>1
  <2>2. CASE m > 0
    <3>1. m - 1 \notin U /\ m - 1 \in Nat
      BY <1>1, <2>2
    <3>2. PICK s \in S : s > m - 1
      BY <3>1
    <3>3. s = m
      BY <3>2, <1>1
    <3> QED
      BY <3>3
  <2> QED
    BY <1>1, <2>1, <2>2
<1> HIDE DEF U
<1>3. \A s \in S : m >= s
  BY <1>1 DEF U
<1> QED
  BY <1>2, <1>3 DEF Max

LEMMA HeadIsNatural ==
    ASSUME ledger \subseteq LedgerRow, sequence \in Nat, \A row \in ledger : row.seq <= sequence
    PROVE  ChainHead \in Nat
<1> DEFINE S == {Genesis} \cup {row.seq : row \in ledger}
<1>1. S \in SUBSET Nat /\ 0 \in S /\ \A s \in S : s <= sequence
  BY DEF LedgerRow, Genesis
<1>2. Max(S) \in S
  BY <1>1, MaxOfBounded
<1> QED
  BY <1>1, <1>2 DEF ChainHead
-----------------------------------------------------------------------------
(* A case a request is about exists, and the rows of the ledger have their places in
   the sequence. *)
Placed ==
    /\ \A cl \in Client : Busy(cl) => cases[tx[cl].request.case] # NoCase
    /\ \A row \in ledger : row.seq <= sequence
    /\ \A cl \in Client : tx[cl].at = "commit" => tx[cl].row.seq <= sequence

TypeInv == TypeOK /\ Placed

LEMMA TypeStarts == Init => TypeInv
<1> SUFFICES ASSUME Init PROVE TypeInv
  OBVIOUS
<1>1. NoCase \in CaseRow
  BY CaseworkAssumption DEF NoCase, CaseRow
<1>2. DOMAIN tx = Client /\ \A cl \in Client : tx[cl] = Idle /\ tx[cl].at = "idle"
  BY DEF Init, Idle
<1>3. \A cl \in Client : IsTransaction(tx[cl]) /\ ((monitor = cl) <=> (tx[cl].at = "head"))
  BY <1>2, CaseworkAssumption DEF Init, IsTransaction
<1>5. TypeOK
  <2>1. overlapped \in BOOLEAN
    BY DEF Init
  <2>2. cases \in [Case -> CaseRow] /\ handoffs \in [Case -> SUBSET Action]
    BY <1>1 DEF Init
  <2> QED
    BY <1>2, <1>3, <2>1, <2>2, CaseworkAssumption DEF Init, TypeOK
<1>4. Placed
  BY <1>2 DEF Init, Placed, Busy
<1> QED
  BY <1>4, <1>5 DEF TypeInv

LEMMA CreateTyped == ASSUME TypeInv, NEW c \in Case, Create(c) PROVE TypeInv'
<1>1. cases' \in [Case -> CaseRow] /\ \A d \in Case : cases[d] # NoCase => cases'[d] # NoCase
  BY DEF Create, TypeInv, TypeOK, CaseRow, NoCase
<1>2. handoffs' \in [Case -> SUBSET Action]
  BY DEF Create, TypeInv, TypeOK
<1>3. TypeOK'
  BY <1>1, <1>2 DEF Create, TypeInv, TypeOK, IsTransaction
<1>4. Placed'
  <2>1. \A cl \in Client : Busy(cl) => tx[cl].request.case \in Case
    BY DEF TypeInv, TypeOK, IsTransaction, Busy, Idle, Typed, DecisionRequest, DraftRequest
  <2> QED
    BY <2>1, <1>1 DEF Create, TypeInv, Placed, Busy
<1> QED
  BY <1>3, <1>4 DEF TypeInv

(* The transactions of the others are as they were. *)
Moves(cl, s) ==
    /\ DOMAIN tx' = Client /\ tx'[cl] = s
    /\ \A d \in Client : d # cl => tx'[d] = tx[d]

LEMMA OthersStay ==
    ASSUME TypeInv, NEW cl \in Client, NEW s, Goto(cl, s) PROVE Moves(cl, s)
  BY DEF TypeInv, TypeOK, Goto, Moves

LEMMA QuietTyped ==
    ASSUME TypeInv, NEW cl \in Client, NEW s, Moves(cl, s),
           UNCHANGED <<tables, sequence>>,
           IsTransaction(s), s.at # "idle" => cases[s.request.case] # NoCase, s.at # "commit",
           answers' \subseteq Done, overlapped' \in BOOLEAN,
           requests' \in 0 .. MaxRequests, faults' \in 0 .. MaxFaults,
           IF s.at = "head" THEN monitor' = cl /\ monitor = "free"
           ELSE monitor' = IF monitor = cl THEN "free" ELSE monitor
    PROVE  TypeInv'
<1>1. /\ DOMAIN tx' = Client /\ tx'[cl] = s
      /\ \A d \in Client : d # cl => tx'[d] = tx[d]
  BY DEF Moves
<1>2. \A d \in Client : IsTransaction(tx[d])
  BY DEF TypeInv, TypeOK
<1>3. \A d \in Client : IsTransaction(tx'[d])
  BY <1>1, <1>2
<1>4. \A d \in Client : (monitor' = d) <=> (tx'[d].at = "head")
  BY <1>1, CaseworkAssumption DEF TypeInv, TypeOK
<1>5. TypeOK'
  BY <1>1, <1>3, <1>4, CaseworkAssumption DEF TypeInv, TypeOK, tables, IsTransaction
<1>6. Placed'
  BY <1>1 DEF TypeInv, Placed, Busy, tables
<1> QED
  BY <1>5, <1>6 DEF TypeInv

LEMMA RequestTyped ==
    ASSUME TypeInv, NEW cl \in Client, DecideRequest(cl) \/ DraftRequested(cl)
    PROVE  TypeInv'
<1>1. /\ tx[cl] = Idle /\ requests' \in 0 .. MaxRequests
      /\ UNCHANGED <<tables, sequence, monitor, overlapped, faults>>
  BY CaseworkAssumption DEF DecideRequest, DraftRequested, Request, TypeInv, TypeOK
<1>2. answers' \subseteq Done
  BY DEF DecideRequest, DraftRequested, TypeInv, TypeOK, Recorded
<1>3. monitor # cl
  BY <1>1 DEF TypeInv, TypeOK, Idle
<1>4. CASE UNCHANGED tx
  <2>1. Moves(cl, Idle)
    BY <1>1, <1>4 DEF Moves, TypeInv, TypeOK
  <2> QED
    BY <1>1, <1>2, <1>3, <2>1, QuietTyped, OthersStay DEF IsTransaction, Idle, TypeInv, TypeOK
<1>5. ASSUME NEW r \in DecisionRequest, cases[r.case] # NoCase,
             Goto(cl, [at |-> "lock", kind |-> "decision", request |-> r])
      PROVE  TypeInv'
  <2> DEFINE s == [at |-> "lock", kind |-> "decision", request |-> r]
  <2>1. IsTransaction(s) /\ s.at = "lock"
    BY DEF IsTransaction, Typed
  <2> QED
    BY <1>1, <1>2, <1>3, <1>5, <2>1, QuietTyped, OthersStay DEF TypeInv, TypeOK
<1>6. ASSUME NEW r \in DraftRequest, cases[r.case] # NoCase,
             Goto(cl, [at |-> "lock", kind |-> "draft", request |-> r])
      PROVE  TypeInv'
  <2> DEFINE s == [at |-> "lock", kind |-> "draft", request |-> r]
  <2>1. IsTransaction(s) /\ s.at = "lock"
    BY DEF IsTransaction, Typed
  <2> QED
    BY <1>1, <1>2, <1>3, <1>6, <2>1, QuietTyped, OthersStay DEF TypeInv, TypeOK
<1> QED
  BY <1>4, <1>5, <1>6 DEF DecideRequest, DraftRequested

LEMMA LockTyped ==
    ASSUME TypeInv, NEW cl \in Client, DecideLocked(cl) \/ DraftLocked(cl)
    PROVE  TypeInv'
<1> DEFINE t == [tx[cl] EXCEPT !.at = "append"]
<1>1. tx[cl].at = "lock" /\ UNCHANGED <<tables, sequence, monitor, answers, overlapped, requests, faults>>
  BY DEF DecideLocked, DraftLocked
<1>2. monitor # cl /\ cases[tx[cl].request.case] # NoCase /\ answers \subseteq Done
  BY <1>1 DEF TypeInv, TypeOK, Placed, Busy
<1>3. PICK kind \in {"decision", "draft"} :
        tx[cl] \in [at : {"lock", "append"}, kind : {kind}, request : Typed(kind)]
  BY <1>1 DEF TypeInv, TypeOK, IsTransaction, Idle
<1>4. t \in [at : {"lock", "append"}, kind : {kind}, request : Typed(kind)]
      /\ t.at = "append" /\ t.request = tx[cl].request
  BY <1>3
<1>5. IsTransaction(t)
  BY <1>4 DEF IsTransaction
<1>6. IsTransaction(Idle) /\ Idle.at = "idle"
  BY DEF IsTransaction, Idle
<1>7. Goto(cl, t) \/ Goto(cl, Idle)
  BY DEF DecideLocked, DraftLocked
<1> HIDE DEF t
<1> QED
  BY <1>1, <1>2, <1>4, <1>5, <1>6, <1>7, QuietTyped, OthersStay DEF TypeInv, TypeOK

LEMMA EnterTyped == ASSUME TypeInv, NEW cl \in Client, EnterAppend(cl) PROVE TypeInv'
<1> DEFINE t == [at |-> "head", kind |-> tx[cl].kind, request |-> tx[cl].request, head |-> ChainHead]
<1>1. PICK kind \in {"decision", "draft"} : tx[cl].kind = kind /\ tx[cl].request \in Typed(kind)
  BY DEF EnterAppend, TypeInv, TypeOK, IsTransaction, Idle
<1>2. ChainHead \in Nat
  BY HeadIsNatural DEF TypeInv, TypeOK, Placed
<1>3. IsTransaction(t) /\ t.at = "head" /\ t.request = tx[cl].request
  BY <1>1, <1>2 DEF IsTransaction
<1>4. cases[tx[cl].request.case] # NoCase
  BY DEF EnterAppend, TypeInv, Placed, Busy
<1> QED
  BY <1>3, <1>4, QuietTyped, OthersStay DEF EnterAppend, TypeInv, TypeOK

LEMMA RollbackTyped == ASSUME TypeInv, NEW cl \in Client, Rollback(cl) PROVE TypeInv'
<1>1. IsTransaction(Idle) /\ Idle.at = "idle"
  BY DEF IsTransaction, Idle
<1>2. faults' \in 0 .. MaxFaults
  BY CaseworkAssumption DEF Rollback, TypeInv, TypeOK
<1> QED
  BY <1>1, <1>2, QuietTyped, OthersStay DEF Rollback, TypeInv, TypeOK

LEMMA InsertTyped == ASSUME TypeInv, NEW cl \in Client, InsertRow(cl) PROVE TypeInv'
<1> DEFINE t == [at |-> "commit", kind |-> tx[cl].kind, request |-> tx[cl].request, row |-> Row(cl)]
<1>1. PICK kind \in {"decision", "draft"} :
        /\ tx[cl].kind = kind /\ tx[cl].request \in Typed(kind) /\ tx[cl].head \in Nat
  BY DEF InsertRow, TypeInv, TypeOK, IsTransaction, Idle
<1>2. tx[cl].request.case \in Case /\ tx[cl].request.key \in IdempotencyKey
      /\ cases[tx[cl].request.case].version \in Nat
  BY <1>1 DEF Typed, DecisionRequest, DraftRequest, TypeInv, TypeOK, CaseRow
<1>3. Row(cl) \in LedgerRow /\ Row(cl).seq = sequence + 1
  BY <1>1, <1>2 DEF Row, LedgerRow, TypeInv, TypeOK
<1>4. IsTransaction(t) /\ t.at = "commit" /\ t.request = tx[cl].request /\ t.row = Row(cl)
  BY <1>1, <1>3 DEF IsTransaction
<1>5. /\ DOMAIN tx' = Client /\ tx'[cl] = t
      /\ \A d \in Client : d # cl => tx'[d] = tx[d]
  BY OthersStay DEF InsertRow, Moves
<1> HIDE DEF t
<1>6. \A d \in Client : IsTransaction(tx'[d])
  BY <1>4, <1>5 DEF TypeInv, TypeOK
<1>7. monitor' = "free" /\ sequence' = sequence + 1 /\ UNCHANGED <<tables, answers, overlapped, requests, faults>>
      /\ monitor = cl /\ tx[cl].at = "head"
  BY DEF InsertRow, TypeInv, TypeOK
<1>10. \A d \in Client : (monitor' = d) <=> (tx'[d].at = "head")
  BY <1>4, <1>5, <1>7, CaseworkAssumption DEF TypeInv, TypeOK
<1>8. TypeOK'
  <2>1. overlapped' \in BOOLEAN
    BY <1>7 DEF TypeInv, TypeOK
  <2>2. sequence' \in Nat
    BY <1>7 DEF TypeInv, TypeOK
  <2> QED
    BY <1>5, <1>6, <1>7, <1>10, <2>1, <2>2 DEF TypeInv, TypeOK, tables
<1>9. Placed'
  <2>1. \A row \in ledger : row.seq \in Nat
    BY DEF TypeInv, TypeOK, LedgerRow
  <2>2. \A d \in Client : tx[d].at = "commit" => tx[d].row.seq \in Nat
    BY DEF TypeInv, TypeOK, IsTransaction, Idle, LedgerRow
  <2>3. sequence \in Nat
    BY DEF TypeInv, TypeOK
  <2>4. \A row \in ledger' : row.seq <= sequence'
    BY <1>7, <2>1, <2>3 DEF TypeInv, Placed, tables
  <2>5. \A d \in Client : tx'[d].at = "commit" => tx'[d].row.seq <= sequence'
    BY <1>3, <1>4, <1>5, <1>7, <2>2, <2>3 DEF TypeInv, Placed
  <2>6. \A d \in Client : tx'[d].at # "idle" => cases'[tx'[d].request.case] # NoCase
    BY <1>2, <1>4, <1>5, <1>7 DEF TypeInv, Placed, Busy, tables
  <2> QED
    BY <2>4, <2>5, <2>6 DEF Placed, Busy
<1> QED
  BY <1>8, <1>9 DEF TypeInv

LEMMA CommitDecisionTyped == ASSUME TypeInv, NEW cl \in Client, CommitDecision(cl) PROVE TypeInv'
<1> DEFINE r == tx[cl].request
           done == [case |-> r.case, key |-> r.key, request |-> r, response |-> Decided(r)]
<1>1. r \in DecisionRequest /\ tx[cl].row \in LedgerRow /\ tx[cl].row.seq <= sequence
  BY DEF CommitDecision, TypeInv, TypeOK, IsTransaction, Idle, Typed, Placed
<1>2. Decided(r) \in CaseRow /\ Decided(r) # NoCase
  <2>1. cases[r.case] \in CaseRow /\ r.action \in Action
    BY <1>1 DEF DecisionRequest, TypeInv, TypeOK
  <2> QED
    BY <2>1 DEF Decided, CaseRow, Authorizes, NoCase
<1>3. done \in Done
  BY <1>1, <1>2 DEF Done, DecisionRequest
<1>4. cases' \in [Case -> CaseRow] /\ \A c \in Case : cases[c] # NoCase => cases'[c] # NoCase
  BY <1>1, <1>2 DEF CommitDecision, TypeInv, TypeOK
<1>5. idempotency' \subseteq Done /\ answers' \subseteq Done
  BY <1>3 DEF CommitDecision, TypeInv, TypeOK
<1>6. ledger' \subseteq LedgerRow /\ \A row \in ledger' : row.seq <= sequence
  BY <1>1 DEF CommitDecision, TypeInv, TypeOK, Placed
<1>7. /\ DOMAIN tx' = Client /\ tx'[cl] = Idle
      /\ \A d \in Client : d # cl => tx'[d] = tx[d]
  BY OthersStay DEF CommitDecision, Moves
<1>8. tx[cl].at = "commit" /\ UNCHANGED <<handoffs, drafts, sequence, monitor, overlapped, requests, faults>>
  BY DEF CommitDecision
<1>9. TypeOK'
  BY <1>4, <1>5, <1>6, <1>7, <1>8 DEF TypeInv, TypeOK, IsTransaction, Idle
<1>10. Placed'
  <2>1. \A d \in Client : Busy(d) => tx[d].request.case \in Case
    BY DEF TypeInv, TypeOK, IsTransaction, Busy, Idle, Typed, DecisionRequest, DraftRequest
  <2> QED
    BY <2>1, <1>4, <1>6, <1>7, <1>8 DEF TypeInv, Placed, Busy, Idle
<1> QED
  BY <1>9, <1>10 DEF TypeInv

LEMMA CommitDraftTyped == ASSUME TypeInv, NEW cl \in Client, CommitDraft(cl) PROVE TypeInv'
<1> DEFINE r == tx[cl].request
<1>1. r \in DraftRequest /\ tx[cl].row \in LedgerRow /\ tx[cl].row.seq <= sequence
  BY DEF CommitDraft, TypeInv, TypeOK, IsTransaction, Idle, Typed, Placed
<1>2. drafts' \subseteq [case : Case, key : IdempotencyKey, action : Action, row : Nat]
  BY <1>1 DEF CommitDraft, TypeInv, TypeOK, DraftRequest, LedgerRow
<1>3. ledger' \subseteq LedgerRow /\ \A row \in ledger' : row.seq <= sequence
  BY <1>1 DEF CommitDraft, TypeInv, TypeOK, Placed
<1>4. /\ DOMAIN tx' = Client /\ tx'[cl] = Idle
      /\ \A d \in Client : d # cl => tx'[d] = tx[d]
  BY OthersStay DEF CommitDraft, Moves
<1>5. /\ tx[cl].at = "commit"
      /\ UNCHANGED <<cases, handoffs, idempotency, sequence, monitor, answers, overlapped, requests, faults>>
  BY DEF CommitDraft
<1>6. TypeOK'
  BY <1>2, <1>3, <1>4, <1>5 DEF TypeInv, TypeOK, IsTransaction, Idle
<1>7. Placed'
  BY <1>3, <1>4, <1>5 DEF TypeInv, Placed, Busy, Idle
<1> QED
  BY <1>6, <1>7 DEF TypeInv

LEMMA TypeStep == ASSUME TypeInv, [Next]_vars PROVE TypeInv'
<1>1. CASE UNCHANGED vars
  BY <1>1 DEF vars, tables, TypeInv, TypeOK, Placed, Busy, IsTransaction
<1> QED
  BY <1>1, CreateTyped, RequestTyped, LockTyped, EnterTyped, InsertTyped, CommitDecisionTyped,
    CommitDraftTyped, RollbackTyped
  DEF Next, Proceed
-----------------------------------------------------------------------------
(* The row of a case, the monitor and the head of the chain: of the transactions under
   way, one that committed its statements can end, else the one in the monitor finds the
   head free, else one enters the monitor, and else no row is locked. *)
THEOREM NobodyWaitsInACircle == Spec => []NoCircularWait
<1>1. TypeInv => NoCircularWait
  <2> SUFFICES ASSUME TypeInv, NEW b \in Client, Busy(b)
               PROVE  \E cl \in Client : Busy(cl) /\ ~Waits(cl)
    BY DEF NoCircularWait
  <2>1. \A cl \in Client : tx[cl].at \in {"idle", "lock", "append", "head", "commit"}
    BY DEF TypeInv, TypeOK, IsTransaction, Idle
  <2>2. CASE \E cl \in Client : tx[cl].at = "commit"
    BY <2>2 DEF Waits, Busy
  <2>3. CASE (\A cl \in Client : tx[cl].at # "commit") /\ \E cl \in Client : tx[cl].at = "head"
    BY <2>3 DEF Waits, Busy, HeadFree
  <2>4. CASE (\A cl \in Client : tx[cl].at \notin {"commit", "head"})
             /\ \E cl \in Client : tx[cl].at = "append"
    BY <2>4 DEF Waits, Busy, TypeInv, TypeOK
  <2>5. CASE \A cl \in Client : tx[cl].at \notin {"commit", "head", "append"}
    BY <2>1, <2>5 DEF Waits, Busy, RowFree, HasRow
  <2> QED
    BY <2>2, <2>3, <2>4, <2>5
<1> QED
  BY <1>1, TypeStarts, TypeStep, PTL DEF Spec
-----------------------------------------------------------------------------
(* A case has one transaction at a time, from the lock of its row to the commit. *)
Locked ==
    \A cl, d \in Client :
        HasRow(cl) /\ HasRow(d) /\ tx[cl].request.case = tx[d].request.case => cl = d

(* What a transaction found when it locked the row holds until it commits. *)
FoundBy(cl) ==
    LET r == tx[cl].request IN
    /\ tx[cl].kind = "decision" => Versioned(r) /\ Permitted(r)
    /\ tx[cl].kind = "draft" => Drafted(r.case) = {} /\ cases[r.case].version = 0

Found == \A cl \in Client : HasRow(cl) => FoundBy(cl)

LockInv == TypeInv /\ Locked /\ Found

LEMMA LockMoves ==
    ASSUME LockInv, NEW cl \in Client, NEW s, Moves(cl, s), UNCHANGED <<cases, handoffs, drafts>>,
           s.at \in {"append", "head", "commit"} =>
              /\ s.request = tx[cl].request /\ s.kind = tx[cl].kind
              /\ HasRow(cl) \/ (RowFree(s.request.case) /\ FoundBy(cl))
    PROVE  (Locked /\ Found)'
<1>1. /\ tx'[cl] = s
      /\ \A d \in Client : d # cl => tx'[d] = tx[d]
  BY DEF Moves
<1>2. Locked'
  BY <1>1 DEF LockInv, Locked, HasRow, RowFree
<1>3. ASSUME NEW d \in Client, HasRow(d)' PROVE FoundBy(d)'
  <2>1. tx'[d].request = tx[d].request /\ tx'[d].kind = tx[d].kind /\ FoundBy(d)
    BY <1>1, <1>3 DEF LockInv, Found, HasRow
  <2> QED
    BY <2>1 DEF FoundBy, Versioned, Permitted, Drafted
<1> QED
  BY <1>2, <1>3 DEF Found

LEMMA LockCommits ==
    ASSUME LockInv, NEW cl \in Client, CommitDecision(cl) \/ CommitDraft(cl)
    PROVE  (Locked /\ Found)'
<1> DEFINE c == tx[cl].request.case
<1>1. tx'[cl] = Idle /\ \A d \in Client : d # cl => tx'[d] = tx[d]
  BY OthersStay DEF LockInv, CommitDecision, CommitDraft, Moves
<1>2. HasRow(cl) /\ c \in Case /\ handoffs' = handoffs
      /\ \A d \in Case : d # c => cases'[d] = cases[d] /\ Drafted(d)' = Drafted(d)
  BY DEF CommitDecision, CommitDraft, HasRow, Drafted, LockInv, TypeInv, TypeOK, IsTransaction, Idle,
    Typed, DecisionRequest, DraftRequest
<1>3. Locked'
  BY <1>1 DEF LockInv, Locked, HasRow, Idle
<1>4. ASSUME NEW d \in Client, HasRow(d)' PROVE FoundBy(d)'
  <2>1. d # cl /\ HasRow(d) /\ tx'[d] = tx[d] /\ FoundBy(d)
    BY <1>1, <1>4 DEF LockInv, Found, HasRow, Idle
  <2>2. tx[d].request.case # c /\ tx[d].request.case \in Case
    BY <1>2, <2>1 DEF LockInv, Locked, HasRow, TypeInv, TypeOK, IsTransaction, Idle, Typed,
      DecisionRequest, DraftRequest
  <2>3. \A e : e = tx[d].request.case => cases'[e] = cases[e] /\ Drafted(e)' = Drafted(e)
    BY <1>2, <2>2
  <2> QED
    BY <1>2, <2>1, <2>3 DEF FoundBy, Versioned, Permitted, Drafted
<1> QED
  BY <1>3, <1>4 DEF Found

LEMMA LockStep == ASSUME LockInv, [Next]_vars PROVE LockInv'
<1>0. TypeInv'
  BY TypeStep DEF LockInv
<1>1. ASSUME NEW c \in Case, Create(c) PROVE (Locked /\ Found)'
  <2>1. Locked' /\ tx' = tx /\ drafts' = drafts
    BY <1>1 DEF Create, LockInv, Locked, HasRow
  <2>2. ASSUME NEW d \in Client, HasRow(d)' PROVE FoundBy(d)'
    <3>1. HasRow(d) /\ FoundBy(d) /\ tx[d].request.case # c
      BY <1>1, <2>1, <2>2 DEF Create, LockInv, Found, HasRow, TypeInv, Placed, Busy
    <3>2. cases'[tx[d].request.case] = cases[tx[d].request.case]
          /\ handoffs'[tx[d].request.case] = handoffs[tx[d].request.case]
      BY <1>1, <3>1 DEF Create, LockInv, TypeInv, TypeOK
    <3> QED
      BY <2>1, <3>1, <3>2 DEF FoundBy, Versioned, Permitted, Drafted
  <2> QED
    BY <2>1, <2>2 DEF Found
<1>2. ASSUME NEW cl \in Client, DecideRequest(cl) \/ DraftRequested(cl) PROVE (Locked /\ Found)'
  <2>1. UNCHANGED <<cases, handoffs, drafts>> /\ tx[cl] = Idle
    BY <1>2 DEF DecideRequest, DraftRequested, Request, tables
  <2>2. CASE UNCHANGED tx
    BY <2>1, <2>2 DEF LockInv, Locked, Found, HasRow, FoundBy, Versioned, Permitted, Drafted
  <2>3. ASSUME NEW s, Goto(cl, s), s.at = "lock" PROVE (Locked /\ Found)'
    BY <2>1, <2>3, OthersStay, LockMoves DEF LockInv
  <2> QED
    BY <1>2, <2>2, <2>3 DEF DecideRequest, DraftRequested
<1>3. ASSUME NEW cl \in Client, DecideLocked(cl) \/ DraftLocked(cl) PROVE (Locked /\ Found)'
  <2> DEFINE t == [tx[cl] EXCEPT !.at = "append"]
  <2>1. UNCHANGED <<cases, handoffs, drafts>> /\ tx[cl].at = "lock"
    BY <1>3 DEF DecideLocked, DraftLocked, tables
  <2>2. PICK kind \in {"decision", "draft"} :
          tx[cl] \in [at : {"lock", "append"}, kind : {kind}, request : Typed(kind)]
    BY <2>1 DEF LockInv, TypeInv, TypeOK, IsTransaction, Idle
  <2>3. t.at = "append" /\ t.request = tx[cl].request /\ t.kind = tx[cl].kind
    BY <2>2
  <2>4. CASE Goto(cl, Idle)
    BY <2>1, <2>4, OthersStay, LockMoves DEF LockInv, Idle
  <2>5. CASE Goto(cl, t) /\ RowFree(tx[cl].request.case) /\ FoundBy(cl)
    <3> HIDE DEF t
    <3> QED
      BY <2>1, <2>3, <2>5, OthersStay, LockMoves DEF LockInv
  <2>6. CASE DecideLocked(cl)
    BY <2>4, <2>5, <2>6 DEF DecideLocked, FoundBy
  <2>7. CASE DraftLocked(cl)
    BY <2>4, <2>5, <2>7 DEF DraftLocked, FoundBy
  <2> QED
    BY <1>3, <2>6, <2>7
<1>4. ASSUME NEW cl \in Client, EnterAppend(cl) PROVE (Locked /\ Found)'
  <2> DEFINE t == [at |-> "head", kind |-> tx[cl].kind, request |-> tx[cl].request, head |-> ChainHead]
  <2>1. UNCHANGED <<cases, handoffs, drafts>> /\ HasRow(cl) /\ Goto(cl, t)
    BY <1>4 DEF EnterAppend, HasRow, tables
  <2> QED
    BY <2>1, OthersStay, LockMoves DEF LockInv
<1>5. ASSUME NEW cl \in Client, InsertRow(cl) PROVE (Locked /\ Found)'
  <2> DEFINE t == [at |-> "commit", kind |-> tx[cl].kind, request |-> tx[cl].request, row |-> Row(cl)]
  <2>1. UNCHANGED <<cases, handoffs, drafts>> /\ HasRow(cl) /\ Goto(cl, t)
    BY <1>5 DEF InsertRow, HasRow, tables
  <2> QED
    BY <2>1, OthersStay, LockMoves DEF LockInv
<1>6. ASSUME NEW cl \in Client, Rollback(cl) PROVE (Locked /\ Found)'
  <2>1. UNCHANGED <<cases, handoffs, drafts>> /\ Goto(cl, Idle)
    BY <1>6 DEF Rollback, tables
  <2> QED
    BY <2>1, OthersStay, LockMoves DEF LockInv, Idle
<1>7. ASSUME UNCHANGED vars PROVE (Locked /\ Found)'
  BY <1>7 DEF vars, tables, LockInv, Locked, Found, HasRow, FoundBy, Versioned, Permitted, Drafted
<1>8. ASSUME NEW cl \in Client, Proceed(cl) PROVE (Locked /\ Found)'
  BY <1>3, <1>4, <1>5, <1>8, LockCommits DEF Proceed
<1>9. (Locked /\ Found)'
  BY <1>1, <1>2, <1>6, <1>7, <1>8 DEF Next
<1> QED
  BY <1>0, <1>9 DEF LockInv

LEMMA LockStarts == Init => LockInv
  BY TypeStarts DEF Init, LockInv, Locked, Found, HasRow, Idle
-----------------------------------------------------------------------------
(* The row of the ledger that a transaction is about to commit says what it did. *)
PendingBy(cl) ==
    LET r == tx[cl].request  row == tx[cl].row IN
    /\ row.case = r.case /\ row.kind = tx[cl].kind /\ row.key = r.key
    /\ row.version = cases[r.case].version + IF tx[cl].kind = "decision" THEN 1 ELSE 0
    /\ \A draft \in Drafted(r.case) : draft.row < row.seq

Pending == \A cl \in Client : tx[cl].at = "commit" => PendingBy(cl)

(* One case's decisions: its row, those of the ledger and the idempotency records agree. *)
AgreeOn(case, rows, done) ==
    LET keys == {i.key : i \in done} IN
    /\ IsFiniteSet(rows) /\ Cardinality(rows) = case.version
    /\ {row.version : row \in rows} = 1 .. case.version
    /\ {<<row.key, row.version>> : row \in rows} = {<<i.key, i.response.version>> : i \in done}
    /\ IsFiniteSet(keys) /\ Cardinality(keys) = Cardinality(rows)
    /\ \A i \in done : i.response.version = i.request.version + 1
    /\ \A i \in done : i.response.version = case.version => case = i.response

DoneFor(c) == {i \in idempotency : i.case = c}
Agree(c) == AgreeOn(cases[c], DecisionRows(c), DoneFor(c))

(* An answer is one of the idempotency records, of which a key has one. *)
Answered ==
    /\ answers \subseteq idempotency
    /\ \A i, j \in idempotency : i.case = j.case /\ i.key = j.key => i = j

(* Advice: what is authorized is permitted, and a draft precedes every decision. *)
Advised(c) ==
    /\ cases[c].authorized /\ handoffs[c] # {} => cases[c].action \in handoffs[c] \ {"abstain"}
    /\ \A a, b \in Drafted(c) : a = b
    /\ \A draft \in Drafted(c) :
          /\ \A row \in DecisionRows(c) : draft.row < row.seq
          /\ \E row \in ledger : row.seq = draft.row /\ row.kind = "draft" /\ row.case = c

RecordInv ==
    /\ LockInv /\ Pending /\ Answered
    /\ \A c \in Case : Agree(c) /\ Advised(c)

LEMMA RecordStarts == Init => RecordInv
<1> SUFFICES ASSUME Init PROVE RecordInv
  OBVIOUS
<1>1. LockInv /\ Pending /\ Answered
  BY LockStarts DEF Init, Pending, Answered, Idle
<1>2. ASSUME NEW c \in Case PROVE Agree(c) /\ Advised(c)
  <2>1. DecisionRows(c) = {} /\ Drafted(c) = {} /\ idempotency = {} /\ cases[c] = NoCase
    BY DEF Init, DecisionRows, Drafted
  <2>2. cases[c].version = 0 /\ ~cases[c].authorized
    BY <2>1 DEF NoCase
  <2> QED
    BY <2>1, <2>2, FS_EmptySet DEF Agree, AgreeOn, DoneFor, Advised
<1> QED
  BY <1>1, <1>2 DEF RecordInv

LEMMA RecordsStay ==
    ASSUME NEW c \in Case, Agree(c), Advised(c),
           UNCHANGED <<cases, handoffs, idempotency, drafts, ledger>>
    PROVE  Agree(c)' /\ Advised(c)'
<1>1. DecisionRows(c)' = DecisionRows(c) /\ DoneFor(c)' = DoneFor(c) /\ Drafted(c)' = Drafted(c)
  BY DEF DecisionRows, DoneFor, Drafted
<1>2. Agree(c)'
  BY <1>1 DEF Agree
<1> QED
  BY <1>1, <1>2 DEF Advised

(* Everything a transaction does before its row is in the ledger leaves the records as
   they are; an answer that is given again is one of them. *)
LEMMA QuietRecords ==
    ASSUME RecordInv, LockInv', NEW cl \in Client, NEW s, Moves(cl, s), s.at # "commit",
           UNCHANGED <<cases, handoffs, idempotency, drafts, ledger>>,
           answers' \subseteq answers \cup idempotency
    PROVE  RecordInv'
<1>1. Answered'
  BY DEF RecordInv, Answered
<1>2. ASSUME NEW c \in Case PROVE Agree(c)' /\ Advised(c)'
  BY RecordsStay DEF RecordInv
<1>3. ASSUME NEW d \in Client, tx'[d].at = "commit" PROVE PendingBy(d)'
  <2>1. tx'[d] = tx[d] /\ PendingBy(d)
    BY <1>3 DEF Moves, RecordInv, Pending
  <2> QED
    BY <2>1 DEF PendingBy, Drafted
<1> QED
  BY <1>1, <1>2, <1>3 DEF RecordInv, Pending

LEMMA InsertRecords ==
    ASSUME RecordInv, LockInv', NEW cl \in Client, InsertRow(cl) PROVE RecordInv'
<1> DEFINE t == [at |-> "commit", kind |-> tx[cl].kind, request |-> tx[cl].request, row |-> Row(cl)]
<1>1. /\ UNCHANGED <<cases, handoffs, idempotency, drafts, ledger, answers>> /\ Goto(cl, t)
      /\ tx[cl].at = "head"
  BY DEF InsertRow, tables
<1>2. Answered'
  BY <1>1 DEF RecordInv, Answered
<1>3. ASSUME NEW c \in Case PROVE Agree(c)' /\ Advised(c)'
  BY <1>1, RecordsStay DEF RecordInv
<1>4. tx'[cl] = t /\ \A d \in Client : d # cl => tx'[d] = tx[d]
  BY <1>1, OthersStay DEF RecordInv, LockInv, Moves
<1>5. ASSUME NEW draft \in Drafted(tx[cl].request.case) PROVE draft.row < sequence + 1
  <2>1. tx[cl].request.case \in Case
    BY <1>1 DEF RecordInv, LockInv, TypeInv, TypeOK, IsTransaction, Idle, Typed, DecisionRequest,
      DraftRequest
  <2>2. PICK row \in ledger : row.seq = draft.row
    BY <1>5, <2>1 DEF RecordInv, Advised
  <2> QED
    BY <2>2 DEF RecordInv, LockInv, TypeInv, TypeOK, Placed, LedgerRow
<1>6. PendingBy(cl)'
  BY <1>1, <1>4, <1>5 DEF PendingBy, Row, Drafted
<1>7. ASSUME NEW d \in Client, d # cl, tx'[d].at = "commit" PROVE PendingBy(d)'
  <2>1. tx'[d] = tx[d] /\ PendingBy(d)
    BY <1>4, <1>7 DEF RecordInv, Pending
  <2> QED
    BY <2>1, <1>1 DEF PendingBy, Drafted
<1> QED
  BY <1>2, <1>3, <1>6, <1>7 DEF RecordInv, Pending

(* A commit of a decision adds one row, one record and one version. *)
LEMMA OneMore ==
    ASSUME NEW case \in CaseRow, NEW rows, NEW done, AgreeOn(case, rows, done),
           NEW next \in CaseRow, next.version = case.version + 1,
           NEW row, row.version = next.version,
           NEW i, i.key = row.key, i.response = next, i.request.version = case.version,
           \A j \in done : j.key # i.key
    PROVE  AgreeOn(next, rows \cup {row}, done \cup {i})
<1> DEFINE n == case.version
           keys == {j.key : j \in done}
           more == {j.key : j \in done \cup {i}}
<1>1. n \in Nat /\ row.version = n + 1 /\ i.response.version = n + 1
  BY DEF CaseRow
<1>2. row \notin rows
  <2>1. \A r \in rows : r.version \in 1 .. n
    BY DEF AgreeOn
  <2> QED
    BY <1>1, <2>1
<1>3. IsFiniteSet(rows \cup {row}) /\ Cardinality(rows \cup {row}) = n + 1
  BY <1>1, <1>2, FS_AddElement DEF AgreeOn
<1>4. {r.version : r \in rows \cup {row}} = 1 .. n + 1
  <2>1. {r.version : r \in rows \cup {row}} = {r.version : r \in rows} \cup {n + 1}
    BY <1>1
  <2>2. {r.version : r \in rows} = 1 .. n
    BY DEF AgreeOn
  <2>3. 1 .. n + 1 = 1 .. n \cup {n + 1}
    BY <1>1
  <2> QED
    BY <2>1, <2>2, <2>3
<1>5. {<<r.key, r.version>> : r \in rows \cup {row}}
        = {<<j.key, j.response.version>> : j \in done \cup {i}}
  <2>1. {<<r.key, r.version>> : r \in rows \cup {row}}
          = {<<r.key, r.version>> : r \in rows} \cup {<<row.key, row.version>>}
    OBVIOUS
  <2>2. {<<j.key, j.response.version>> : j \in done \cup {i}}
          = {<<j.key, j.response.version>> : j \in done} \cup {<<i.key, i.response.version>>}
    OBVIOUS
  <2>3. {<<r.key, r.version>> : r \in rows} = {<<j.key, j.response.version>> : j \in done}
    BY DEF AgreeOn
  <2> QED
    BY <1>1, <2>1, <2>2, <2>3
<1>6. IsFiniteSet(more) /\ Cardinality(more) = n + 1
  <2>1. more = keys \cup {i.key} /\ i.key \notin keys
    OBVIOUS
  <2>2. IsFiniteSet(keys) /\ Cardinality(keys) = n
    BY DEF AgreeOn
  <2> HIDE DEF keys, more
  <2>3. ASSUME NEW k, k \notin keys
        PROVE  IsFiniteSet(keys \cup {k}) /\ Cardinality(keys \cup {k}) = Cardinality(keys) + 1
    BY <2>2, <2>3, FS_AddElement
  <2> QED
    BY <2>1, <2>2, <2>3
<1>7. \A j \in done : j.response.version \in 1 .. n /\ j.response.version # n + 1
  <2> SUFFICES ASSUME NEW j \in done PROVE j.response.version \in 1 .. n
    BY <1>1
  <2>1. <<j.key, j.response.version>> \in {<<r.key, r.version>> : r \in rows}
    BY DEF AgreeOn
  <2>2. PICK r \in rows : <<j.key, j.response.version>> = <<r.key, r.version>>
    BY <2>1
  <2> QED
    BY <2>2 DEF AgreeOn
<1>8. \A j \in done \cup {i} : j.response.version = j.request.version + 1
  BY <1>1 DEF AgreeOn
<1>9. \A j \in done \cup {i} : j.response.version = n + 1 => next = j.response
  BY <1>7
<1> HIDE DEF keys, more
<1> QED
  BY <1>1, <1>3, <1>4, <1>5, <1>6, <1>8, <1>9 DEF AgreeOn, more

LEMMA DecisionRecords ==
    ASSUME RecordInv, LockInv', NEW cl \in Client, CommitDecision(cl),
           NEW r, r = tx[cl].request, NEW row, row = tx[cl].row
    PROVE  RecordInv'
<1> DEFINE c == r.case
           done == [case |-> r.case, key |-> r.key, request |-> r, response |-> Decided(r)]
<1>1. CASE Recorded(r) # {}
  <2>1. UNCHANGED <<cases, handoffs, idempotency, drafts, ledger, answers>> /\ Goto(cl, Idle)
    BY <1>1 DEF CommitDecision
  <2> QED
    BY <2>1, QuietRecords, OthersStay DEF RecordInv, LockInv, Idle
<1>2. CASE Recorded(r) = {}
  <2>1. /\ cases' = [cases EXCEPT ![c] = Decided(r)]
        /\ ledger' = ledger \cup {row}
        /\ idempotency' = idempotency \cup {done}
        /\ answers' = answers \cup {done}
        /\ UNCHANGED <<handoffs, drafts>>
        /\ Goto(cl, Idle) /\ tx[cl].at = "commit" /\ tx[cl].kind = "decision"
    BY <1>2 DEF CommitDecision
  <2>2. r \in DecisionRequest /\ c \in Case /\ row \in LedgerRow
    BY <2>1 DEF RecordInv, LockInv, TypeInv, TypeOK, IsTransaction, Idle, Typed, DecisionRequest
  <2>3. PendingBy(cl) /\ Versioned(r) /\ Permitted(r)
    BY <2>1 DEF RecordInv, LockInv, Pending, Found, FoundBy, HasRow
  <2>4. cases' \in [Case -> CaseRow] /\ cases \in [Case -> CaseRow]
    BY DEF RecordInv, LockInv, TypeInv, TypeOK
  <2>5. /\ Decided(r).version = cases[c].version + 1
        /\ Decided(r).authorized = Authorizes(r.decision)
        /\ Decided(r).action = IF handoffs[c] # {} /\ Authorizes(r.decision)
                               THEN r.action ELSE cases[c].action
    BY DEF Decided
  <2>6. cases'[c] = Decided(r) /\ Decided(r) \in CaseRow /\ \A d \in Case : d # c => cases'[d] = cases[d]
    BY <2>1, <2>2, <2>4
  <2>7. /\ row.case = c /\ row.kind = "decision" /\ row.key = r.key
        /\ row.version = cases[c].version + 1
        /\ \A draft \in Drafted(c) : draft.row < row.seq
    BY <2>1, <2>3 DEF PendingBy
  <2>8. done.case = c /\ done.key = r.key /\ done.request = r /\ done.response = Decided(r)
    OBVIOUS
  <2>9. \A i \in idempotency : i.case = c => i.key # r.key
    BY <1>2 DEF Recorded
  <2> HIDE DEF done
  <2>10. Answered'
    BY <2>1, <2>8, <2>9 DEF RecordInv, Answered
  <2>11. Agree(c)'
    <3>1. DecisionRows(c)' = DecisionRows(c) \cup {row} /\ DoneFor(c)' = DoneFor(c) \cup {done}
      BY <2>1, <2>7, <2>8 DEF DecisionRows, DoneFor
    <3>2. AgreeOn(cases[c], DecisionRows(c), DoneFor(c)) /\ cases[c] \in CaseRow
      BY <2>2, <2>4 DEF RecordInv, Agree
    <3>3. \A j \in DoneFor(c) : j.key # done.key
      BY <2>8, <2>9 DEF DoneFor
    <3>4. done.request.version = cases[c].version
      BY <2>3, <2>8 DEF Versioned
    <3>5. AgreeOn(Decided(r), DecisionRows(c) \cup {row}, DoneFor(c) \cup {done})
      <4> DEFINE next == Decided(r)
      <4>1. next \in CaseRow /\ next.version = cases[c].version + 1 /\ row.version = next.version
            /\ done.key = row.key /\ done.response = next
        BY <2>5, <2>6, <2>7, <2>8
      <4> HIDE DEF next
      <4>2. AgreeOn(next, DecisionRows(c) \cup {row}, DoneFor(c) \cup {done})
        BY <3>2, <3>3, <3>4, <4>1, OneMore
      <4> QED
        BY <4>2 DEF next
    <3> QED
      BY <3>1, <3>5, <2>6 DEF Agree
  <2>12. ASSUME NEW d \in Case, d # c PROVE Agree(d)'
    <3>1. DecisionRows(d)' = DecisionRows(d) /\ DoneFor(d)' = DoneFor(d) /\ cases'[d] = cases[d]
      BY <2>1, <2>6, <2>7, <2>8, <2>12 DEF DecisionRows, DoneFor
    <3> QED
      BY <3>1 DEF RecordInv, Agree
  <2>13. ASSUME NEW d \in Case PROVE Advised(d)'
    <3>1. Drafted(d)' = Drafted(d) /\ ledger \subseteq ledger' /\ Advised(d)
      BY <2>1 DEF Drafted, RecordInv
    <3>2. CASE d # c
      <4>1. DecisionRows(d)' = DecisionRows(d) /\ cases'[d] = cases[d]
        BY <2>1, <2>6, <2>7, <3>2 DEF DecisionRows
      <4> QED
        BY <2>1, <3>1, <4>1 DEF Advised
    <3>3. CASE d = c
      <4>1. DecisionRows(c)' = DecisionRows(c) \cup {row}
        BY <2>1, <2>7 DEF DecisionRows
      <4>2. \A draft \in Drafted(c), x \in DecisionRows(c)' : draft.row < x.seq
        BY <4>1, <2>7, <3>1, <3>3 DEF Advised
      <4>3. cases'[c].authorized /\ handoffs[c] # {} => cases'[c].action \in handoffs[c] \ {"abstain"}
        BY <2>3, <2>5, <2>6 DEF Permitted
      <4> QED
        BY <2>1, <3>1, <3>3, <4>2, <4>3 DEF Advised
    <3> QED
      BY <3>2, <3>3
  <2>14. ASSUME NEW d \in Client, tx'[d].at = "commit" PROVE PendingBy(d)'
    <3>1. tx'[cl] = Idle /\ \A e \in Client : e # cl => tx'[e] = tx[e]
      BY <2>1, OthersStay DEF RecordInv, LockInv, Moves
    <3>2. d # cl /\ tx'[d] = tx[d] /\ tx[d].at = "commit"
      BY <2>14, <3>1 DEF Idle
    <3>3. tx[d].request.case # c /\ tx[d].request.case \in Case
      BY <2>1, <3>2 DEF RecordInv, LockInv, Locked, HasRow, TypeInv, TypeOK, IsTransaction, Idle,
        Typed, DecisionRequest, DraftRequest
    <3>4. PendingBy(d)
      BY <3>2 DEF RecordInv, Pending
    <3>5. \A e : e = tx[d].request.case => cases'[e] = cases[e] /\ Drafted(e)' = Drafted(e)
      BY <2>1, <2>6, <3>3 DEF Drafted
    <3> QED
      BY <3>2, <3>4, <3>5 DEF PendingBy, Drafted
  <2> QED
    BY <2>10, <2>11, <2>12, <2>13, <2>14 DEF RecordInv, Pending
<1> QED
  BY <1>1, <1>2

LEMMA DraftRecords ==
    ASSUME RecordInv, LockInv', NEW cl \in Client, CommitDraft(cl),
           NEW r, r = tx[cl].request, NEW row, row = tx[cl].row
    PROVE  RecordInv'
<1> DEFINE c == r.case
           draft == [case |-> c, key |-> r.key, action |-> r.action, row |-> row.seq]
<1>1. /\ drafts' = drafts \cup {draft} /\ ledger' = ledger \cup {row}
      /\ UNCHANGED <<cases, handoffs, idempotency, answers>>
      /\ Goto(cl, Idle) /\ tx[cl].at = "commit" /\ tx[cl].kind = "draft"
  BY DEF CommitDraft
<1>2. c \in Case /\ row.case = c /\ row.kind = "draft"
      /\ Drafted(c) = {} /\ cases[c].version = 0
  BY <1>1 DEF RecordInv, LockInv, TypeInv, TypeOK, IsTransaction, Idle, Typed, DraftRequest,
    Pending, PendingBy, Found, FoundBy, HasRow
<1>3. draft.case = c /\ draft.row = row.seq
  OBVIOUS
<1> HIDE DEF draft
<1>4. Answered'
  BY <1>1 DEF RecordInv, Answered
<1>5. ASSUME NEW d \in Case PROVE DecisionRows(d)' = DecisionRows(d) /\ Agree(d)'
  <2>1. DecisionRows(d)' = DecisionRows(d) /\ DoneFor(d)' = DoneFor(d)
    BY <1>1, <1>2 DEF DecisionRows, DoneFor
  <2> QED
    BY <2>1, <1>1 DEF RecordInv, Agree
<1>6. DecisionRows(c) = {}
  <2> SUFFICES ASSUME NEW x \in DecisionRows(c) PROVE FALSE
    OBVIOUS
  <2>1. {y.version : y \in DecisionRows(c)} = 1 .. cases[c].version
    BY <1>2 DEF RecordInv, Agree, AgreeOn
  <2>2. x.version \in 1 .. cases[c].version
    BY <2>1
  <2> QED
    BY <2>2, <1>2
<1>7. ASSUME NEW d \in Case PROVE Advised(d)'
  <2>1. Advised(d) /\ DecisionRows(d)' = DecisionRows(d)
    BY <1>5 DEF RecordInv
  <2>2. CASE d # c
    <3>1. Drafted(d)' = Drafted(d)
      BY <1>1, <1>3, <2>2 DEF Drafted
    <3> QED
      BY <1>1, <2>1, <3>1 DEF Advised
  <2>3. CASE d = c
    <3>1. Drafted(c)' = {draft}
      BY <1>1, <1>2, <1>3 DEF Drafted
    <3> QED
      BY <1>1, <1>2, <1>3, <1>6, <2>1, <2>3, <3>1 DEF Advised
  <2> QED
    BY <2>2, <2>3
<1>8. ASSUME NEW d \in Client, tx'[d].at = "commit" PROVE PendingBy(d)'
  <2>1. tx'[cl] = Idle /\ \A e \in Client : e # cl => tx'[e] = tx[e]
    BY <1>1, OthersStay DEF RecordInv, LockInv, Moves
  <2>2. d # cl /\ tx'[d] = tx[d] /\ tx[d].at = "commit"
    BY <1>8, <2>1 DEF Idle
  <2>3. tx[d].request.case # c
    BY <1>1, <2>2 DEF RecordInv, LockInv, Locked, HasRow
  <2>4. PendingBy(d)
    BY <2>2 DEF RecordInv, Pending
  <2>5. \A e : e = tx[d].request.case => cases'[e] = cases[e] /\ Drafted(e)' = Drafted(e)
    BY <1>1, <1>3, <2>3 DEF Drafted
  <2> QED
    BY <2>2, <2>4, <2>5 DEF PendingBy, Drafted
<1> QED
  BY <1>4, <1>5, <1>7, <1>8 DEF RecordInv, Pending

LEMMA CreateRecords ==
    ASSUME RecordInv, LockInv', NEW c \in Case, Create(c) PROVE RecordInv'
<1>1. /\ cases' = [cases EXCEPT ![c] = [NoCase EXCEPT !.state = "RECOMMENDED"]]
      /\ UNCHANGED <<idempotency, drafts, ledger, tx, answers>>
      /\ cases[c] = NoCase
  BY DEF Create
<1>2. /\ cases'[c].version = 0 /\ cases[c].version = 0 /\ ~cases'[c].authorized
      /\ \A d \in Case : d # c => cases'[d] = cases[d] /\ handoffs'[d] = handoffs[d]
  BY <1>1 DEF Create, NoCase, RecordInv, LockInv, TypeInv, TypeOK
<1>3. Answered'
  BY <1>1 DEF RecordInv, Answered
<1>4. ASSUME NEW d \in Case PROVE Agree(d)' /\ Advised(d)'
  <2>1. DecisionRows(d)' = DecisionRows(d) /\ DoneFor(d)' = DoneFor(d) /\ Drafted(d)' = Drafted(d)
    BY <1>1 DEF DecisionRows, DoneFor, Drafted
  <2>2. AgreeOn(cases[d], DecisionRows(d), DoneFor(d)) /\ Advised(d)
    BY DEF RecordInv, Agree
  <2>3. CASE d # c
    BY <1>1, <1>2, <2>1, <2>2, <2>3 DEF Agree, Advised
  <2>4. CASE d = c
    <3>1. \A i \in DoneFor(c) : i.response.version # 0
      <4> SUFFICES ASSUME NEW i \in DoneFor(c) PROVE i.response.version # 0
        OBVIOUS
      <4>1. i.request.version \in 0 .. 1
        BY DEF DoneFor, RecordInv, LockInv, TypeInv, TypeOK, Done, DecisionRequest
      <4> QED
        BY <4>1, <2>2, <2>4 DEF AgreeOn
    <3>2. AgreeOn(cases'[c], DecisionRows(c), DoneFor(c))
      BY <1>2, <2>2, <2>4, <3>1 DEF AgreeOn
    <3> QED
      BY <1>1, <1>2, <2>1, <2>2, <2>4, <3>2 DEF Agree, Advised
  <2> QED
    BY <2>3, <2>4
<1>5. ASSUME NEW d \in Client, tx'[d].at = "commit" PROVE PendingBy(d)'
  <2>1. tx[d].at = "commit" /\ PendingBy(d)
    BY <1>1, <1>5 DEF RecordInv, Pending
  <2>2. tx[d].request.case # c /\ tx[d].request.case \in Case
    BY <1>1, <2>1 DEF RecordInv, LockInv, TypeInv, TypeOK, Placed, Busy, IsTransaction, Idle,
      Typed, DecisionRequest, DraftRequest
  <2>3. cases'[tx[d].request.case] = cases[tx[d].request.case]
    BY <1>2, <2>2
  <2> QED
    BY <1>1, <2>1, <2>3 DEF PendingBy, Drafted
<1> QED
  BY <1>3, <1>4, <1>5 DEF RecordInv, Pending

LEMMA RecordStep == ASSUME RecordInv, [Next]_vars PROVE RecordInv'
<1>0. LockInv'
  BY LockStep DEF RecordInv
<1>1. ASSUME NEW cl \in Client, DecideRequest(cl) \/ DraftRequested(cl) PROVE RecordInv'
  <2>1. /\ UNCHANGED <<cases, handoffs, idempotency, drafts, ledger>> /\ tx[cl] = Idle
        /\ answers' \subseteq answers \cup idempotency
    BY <1>1 DEF DecideRequest, DraftRequested, Request, Recorded, tables
  <2>2. CASE UNCHANGED tx
    <3>1. Moves(cl, Idle)
      BY <2>1, <2>2 DEF Moves, RecordInv, LockInv, TypeInv, TypeOK
    <3> QED
      BY <1>0, <2>1, <3>1, QuietRecords DEF Idle
  <2>3. ASSUME NEW s, Goto(cl, s), s.at = "lock" PROVE RecordInv'
    BY <1>0, <2>1, <2>3, OthersStay, QuietRecords DEF RecordInv, LockInv
  <2> QED
    BY <1>1, <2>2, <2>3 DEF DecideRequest, DraftRequested
<1>2. ASSUME NEW cl \in Client, DecideLocked(cl) \/ DraftLocked(cl) PROVE RecordInv'
  <2> DEFINE t == [tx[cl] EXCEPT !.at = "append"]
  <2>1. UNCHANGED <<cases, handoffs, idempotency, drafts, ledger, answers>> /\ tx[cl].at = "lock"
    BY <1>2 DEF DecideLocked, DraftLocked, tables
  <2>2. PICK kind \in {"decision", "draft"} :
          tx[cl] \in [at : {"lock", "append"}, kind : {kind}, request : Typed(kind)]
    BY <2>1 DEF RecordInv, LockInv, TypeInv, TypeOK, IsTransaction, Idle
  <2>3. t.at = "append"
    BY <2>2
  <2>4. Goto(cl, t) \/ Goto(cl, Idle)
    BY <1>2 DEF DecideLocked, DraftLocked
  <2> HIDE DEF t
  <2> QED
    BY <1>0, <2>1, <2>3, <2>4, OthersStay, QuietRecords DEF RecordInv, LockInv, Idle
<1>3. ASSUME NEW cl \in Client, EnterAppend(cl) PROVE RecordInv'
  <2> DEFINE t == [at |-> "head", kind |-> tx[cl].kind, request |-> tx[cl].request, head |-> ChainHead]
  <2>1. UNCHANGED <<cases, handoffs, idempotency, drafts, ledger, answers>> /\ Goto(cl, t)
    BY <1>3 DEF EnterAppend, tables
  <2> QED
    BY <1>0, <2>1, OthersStay, QuietRecords DEF RecordInv, LockInv
<1>4. ASSUME NEW cl \in Client, Rollback(cl) PROVE RecordInv'
  <2>1. UNCHANGED <<cases, handoffs, idempotency, drafts, ledger, answers>> /\ Goto(cl, Idle)
    BY <1>4 DEF Rollback, tables
  <2> QED
    BY <1>0, <2>1, OthersStay, QuietRecords DEF RecordInv, LockInv, Idle
<1>5. ASSUME UNCHANGED vars PROVE RecordInv'
  <2>1. UNCHANGED <<cases, handoffs, idempotency, drafts, ledger, tx, answers>>
    BY <1>5 DEF vars, tables
  <2>2. Pending' /\ Answered'
    BY <2>1 DEF RecordInv, Pending, PendingBy, Drafted, Answered
  <2> QED
    BY <1>0, <2>1, <2>2, RecordsStay DEF RecordInv
<1>6. ASSUME NEW cl \in Client, Proceed(cl) PROVE RecordInv'
  BY <1>0, <1>2, <1>3, <1>6, InsertRecords, DecisionRecords, DraftRecords DEF Proceed
<1> QED
  BY <1>0, <1>1, <1>4, <1>5, <1>6, CreateRecords DEF Next

(* phase-04-04: whatever interleaves, fails or is retried, a decision, its audit row and its
   idempotency record are one. *)
THEOREM DecisionsAreAudited == Spec => []DecisionsAudited
<1>1. RecordInv => DecisionsAudited
  BY DEF RecordInv, Agree, AgreeOn, DoneFor, DecisionsAudited
<1> QED
  BY <1>1, RecordStarts, RecordStep, PTL DEF Spec

(* No two answers to a decision that is delivered again differ. *)
THEOREM RetriesAgree == Spec => []AnswersAgree
<1>1. RecordInv => AnswersAgree
  BY DEF RecordInv, Answered, AnswersAgree
<1> QED
  BY <1>1, RecordStarts, RecordStep, PTL DEF Spec

(* Nothing is authorized that the handoff does not allow, and a draft never follows a
   decision on its case. *)
THEOREM AdviceComesFirst == Spec => []AdvicePrecedesAuthority
<1>1. ASSUME RecordInv, NEW c \in Case PROVE Cardinality(Drafted(c)) <= 1
  <2>1. CASE Drafted(c) = {}
    BY <2>1, FS_EmptySet
  <2>2. CASE Drafted(c) # {}
    <3>1. PICK a : Drafted(c) = {a}
      BY <1>1, <2>2 DEF RecordInv, Advised
    <3>2. Cardinality({a}) = 1
      BY FS_Singleton
    <3> QED
      BY <3>1, <3>2
  <2> QED
    BY <2>1, <2>2
<1>2. RecordInv => AdvicePrecedesAuthority
  BY <1>1 DEF RecordInv, Advised, AdvicePrecedesAuthority
<1> QED
  BY <1>2, RecordStarts, RecordStep, PTL DEF Spec
-----------------------------------------------------------------------------
Appending(cl) == tx[cl].at \in {"head", "commit"}

(* While no append overlapped, one transaction at a time is between the choice of its head
   and its commit, and its head is the head of the ledger. *)
InTurn ==
    /\ \A cl, d \in Client : Appending(cl) /\ Appending(d) => cl = d
    /\ \A cl \in Client : tx[cl].at = "head" => tx[cl].head = ChainHead
    /\ \A cl \in Client : tx[cl].at = "commit" =>
          /\ tx[cl].row.parent = ChainHead
          /\ \A row \in ledger : row.seq < tx[cl].row.seq
    /\ ChainVerifies

ChainInv == ~overlapped => InTurn

LEMMA ChainMoves ==
    ASSUME InTurn, NEW cl \in Client, NEW s, Moves(cl, s), UNCHANGED ledger,
           s.at \notin {"head", "commit"}
    PROVE  InTurn'
<1>1. ChainHead' = ChainHead /\ (ChainVerifies <=> ChainVerifies')
  BY DEF ChainHead, ChainVerifies
<1>2. \A d \in Client : Appending(d)' => d # cl /\ Appending(d) /\ tx'[d] = tx[d]
  BY DEF Appending, Moves
<1> QED
  BY <1>1, <1>2 DEF InTurn, Appending

LEMMA ChainEnter ==
    ASSUME LockInv, ChainInv, NEW cl \in Client, EnterAppend(cl), ~overlapped' PROVE InTurn'
<1> DEFINE t == [at |-> "head", kind |-> tx[cl].kind, request |-> tx[cl].request, head |-> ChainHead]
<1>1. /\ Goto(cl, t) /\ UNCHANGED ledger /\ ~overlapped /\ Uncommitted = {} /\ monitor = "free"
  BY DEF EnterAppend, tables
<1>2. \A d \in Client : ~Appending(d)
  BY <1>1, CaseworkAssumption DEF Uncommitted, Appending, LockInv, TypeInv, TypeOK
<1>3. tx'[cl] = t /\ \A d \in Client : d # cl => tx'[d] = tx[d]
  BY <1>1, OthersStay DEF LockInv, Moves
<1>4. ChainHead' = ChainHead /\ (ChainVerifies <=> ChainVerifies')
  BY <1>1 DEF ChainHead, ChainVerifies
<1> QED
  BY <1>1, <1>2, <1>3, <1>4 DEF InTurn, Appending, ChainInv

LEMMA ChainInsert ==
    ASSUME LockInv, InTurn, NEW cl \in Client, InsertRow(cl) PROVE InTurn'
<1> DEFINE t == [at |-> "commit", kind |-> tx[cl].kind, request |-> tx[cl].request, row |-> Row(cl)]
<1>1. Goto(cl, t) /\ UNCHANGED ledger /\ tx[cl].at = "head"
  BY DEF InsertRow, tables
<1>2. tx'[cl] = t /\ \A d \in Client : d # cl => tx'[d] = tx[d]
  BY <1>1, OthersStay DEF LockInv, Moves
<1>3. ChainHead' = ChainHead /\ (ChainVerifies <=> ChainVerifies')
  BY <1>1 DEF ChainHead, ChainVerifies
<1>4. Row(cl).parent = ChainHead /\ Row(cl).seq = sequence + 1
  BY <1>1 DEF Row, InTurn
<1>5. \A row \in ledger : row.seq < sequence + 1
  BY DEF LockInv, TypeInv, TypeOK, Placed, LedgerRow
<1>6. \A d \in Client : d # cl => ~Appending(d)'
  BY <1>1, <1>2 DEF InTurn, Appending
<1>7. \A row \in ledger' : row.seq < tx'[cl].row.seq
  BY <1>1, <1>2, <1>4, <1>5
<1> QED
  BY <1>1, <1>2, <1>3, <1>4, <1>6, <1>7 DEF InTurn, Appending

LEMMA ChainCommit ==
    ASSUME LockInv, InTurn, NEW cl \in Client, tx[cl].at = "commit", Goto(cl, Idle),
           NEW row, row = tx[cl].row, ledger' = ledger \cup {row}
    PROVE  InTurn'
<1>1. tx'[cl] = Idle /\ \A d \in Client : d # cl => tx'[d] = tx[d]
  BY OthersStay DEF LockInv, Moves
<1>2. \A d \in Client : ~Appending(d)'
  BY <1>1 DEF InTurn, Appending, Idle
<1>3. row.seq \in Nat /\ \A x \in ledger : x.seq \in Nat /\ x.seq < row.seq
  BY DEF InTurn, LockInv, TypeInv, TypeOK, IsTransaction, Idle, LedgerRow
<1>4. ChainVerifies'
  <2> SUFFICES ASSUME NEW x \in ledger'
      PROVE x.parent = Max({Genesis} \cup {r.seq : r \in {r \in ledger' : r.seq < x.seq}})
    BY DEF ChainVerifies
  <2>1. CASE x = row
    <3>1. {r \in ledger' : r.seq < x.seq} = ledger
      BY <1>3, <2>1
    <3> QED
      BY <2>1, <3>1 DEF InTurn, ChainHead
  <2>2. CASE x \in ledger
    <3>1. {r \in ledger' : r.seq < x.seq} = {r \in ledger : r.seq < x.seq}
      BY <1>3, <2>2
    <3> QED
      BY <2>2, <3>1 DEF InTurn, ChainVerifies
  <2> QED
    BY <2>1, <2>2
<1> QED
  BY <1>2, <1>4 DEF InTurn, Appending

LEMMA ChainStep == ASSUME LockInv, ChainInv, [Next]_vars PROVE ChainInv'
<1> SUFFICES ASSUME ~overlapped' PROVE InTurn'
  BY DEF ChainInv
<1>1. ASSUME NEW cl \in Client, EnterAppend(cl) PROVE InTurn'
  BY <1>1, ChainEnter
<1>2. ASSUME overlapped' = overlapped, UNCHANGED <<tx, ledger>> PROVE InTurn'
  BY <1>2 DEF ChainInv, InTurn, Appending, ChainHead, ChainVerifies
<1>3. ASSUME NEW c \in Case, Create(c) PROVE InTurn'
  BY <1>2, <1>3 DEF Create
<1>4. ASSUME NEW cl \in Client, DecideRequest(cl) \/ DraftRequested(cl) PROVE InTurn'
  <2>1. UNCHANGED <<ledger, overlapped>>
    BY <1>4 DEF DecideRequest, DraftRequested, tables
  <2>2. ASSUME NEW s, Goto(cl, s), s.at = "lock" PROVE InTurn'
    BY <2>1, <2>2, OthersStay, ChainMoves DEF LockInv, ChainInv
  <2> QED
    BY <1>2, <1>4, <2>1, <2>2 DEF DecideRequest, DraftRequested
<1>5. ASSUME NEW cl \in Client, DecideLocked(cl) \/ DraftLocked(cl) PROVE InTurn'
  <2> DEFINE t == [tx[cl] EXCEPT !.at = "append"]
  <2>1. UNCHANGED <<ledger, overlapped>> /\ tx[cl].at = "lock"
    BY <1>5 DEF DecideLocked, DraftLocked, tables
  <2>2. PICK kind \in {"decision", "draft"} :
          tx[cl] \in [at : {"lock", "append"}, kind : {kind}, request : Typed(kind)]
    BY <2>1 DEF LockInv, TypeInv, TypeOK, IsTransaction, Idle
  <2>3. t.at = "append"
    BY <2>2
  <2>4. Goto(cl, t) \/ Goto(cl, Idle)
    BY <1>5 DEF DecideLocked, DraftLocked
  <2> HIDE DEF t
  <2> QED
    BY <2>1, <2>3, <2>4, OthersStay, ChainMoves DEF LockInv, ChainInv, Idle
<1>6. ASSUME NEW cl \in Client, InsertRow(cl) PROVE InTurn'
  BY <1>6, ChainInsert DEF InsertRow, ChainInv
<1>7. ASSUME NEW cl \in Client, CommitDecision(cl) \/ CommitDraft(cl) PROVE InTurn'
  <2>1. UNCHANGED overlapped /\ tx[cl].at = "commit" /\ Goto(cl, Idle)
        /\ (ledger' = ledger \/ ledger' = ledger \cup {tx[cl].row})
    BY <1>7 DEF CommitDecision, CommitDraft
  <2>2. CASE ledger' = ledger
    BY <2>1, <2>2, OthersStay, ChainMoves DEF LockInv, ChainInv, Idle
  <2>3. CASE ledger' = ledger \cup {tx[cl].row}
    BY <2>1, <2>3, ChainCommit DEF ChainInv
  <2> QED
    BY <2>1, <2>2, <2>3
<1>8. ASSUME NEW cl \in Client, Rollback(cl) PROVE InTurn'
  <2>1. UNCHANGED <<ledger, overlapped>> /\ Goto(cl, Idle)
    BY <1>8 DEF Rollback, tables
  <2> QED
    BY <2>1, OthersStay, ChainMoves DEF LockInv, ChainInv, Idle
<1>9. ASSUME UNCHANGED vars PROVE InTurn'
  BY <1>2, <1>9 DEF vars, tables
<1>10. ASSUME NEW cl \in Client, Proceed(cl) PROVE InTurn'
  BY <1>1, <1>5, <1>6, <1>7, <1>10 DEF Proceed
<1> QED
  BY <1>3, <1>4, <1>8, <1>9, <1>10 DEF Next

(* AuditLedgerVerifier accepts the ledger as long as no append began while the row of
   another waited for its commit, whatever was rolled back. *)
THEOREM TheChainVerifies == Spec => []ChainVerifiesInTurn
<1>1. Init => ChainInv
  BY DEF Init, ChainInv, InTurn, Appending, Idle, ChainVerifies
<1>2. ChainInv => ChainVerifiesInTurn
  BY DEF ChainInv, InTurn, ChainVerifiesInTurn
<1> QED
  BY <1>1, <1>2, LockStarts, LockStep, ChainStep, PTL DEF Spec
================================================================================
