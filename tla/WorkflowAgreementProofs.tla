---------------------- MODULE WorkflowAgreementProofs ----------------------
(***************************************************************************)
(* That the capacity of WorkflowService is conserved, for any constants;   *)
(* and, as long as the calls that take no lock run alone and a write that  *)
(* fails fails before it is committed, that memory, the state a restart    *)
(* would take up and the ledger agree, and that the ledger implements the  *)
(* authority of specialists (CaseAuthority).                               *)
(***************************************************************************)
EXTENDS WorkflowProofs, SumTheorems

(***************************************************************************)
(* Capacity.                                                               *)
(***************************************************************************)

(* What a state reserves and what is left make up the capacity, and a        *)
(* rejection holds nothing.                                                  *)
Balanced(s) ==
    /\ s.remaining + ReservedIn(s) = Capacity
    /\ \A c \in Case : s.cases[c] \in Context /\ s.cases[c].review \in Review =>
               (s.cases[c].review.decision = "REJECTED" => s.cases[c].review.action = Abstain)

(* A call that reviews or reserves comes with a decision that fits its       *)
(* action.                                                                   *)
Decided(cl) ==
    cl.reserve \/ cl.op = "review" =>
        /\ cl.decision \in Decision
        /\ cl.decision = "REJECTED" => cl.action = Abstain

StoreBalanced(file) ==
    file # None => /\ Balanced(file.committed)
                   /\ file.pending # None => Balanced(file.pending.target)

(* The inductive invariant: every state that the service may take up is      *)
(* balanced.                                                                 *)
BalanceInv ==
    /\ Balanced(mem)
    /\ StoreBalanced(store)
    /\ \A t \in Caller : pc[t] \in Trying =>
           Balanced(call[t].before) /\ Decided(call[t])

LEMMA HeldTyped ==
    ASSUME NEW s \in State
    PROVE  /\ [c \in Case |-> Held(s, c)] \in [Case -> Nat]
           /\ ReservedIn(s) \in Nat
           /\ s.remaining \in Nat
<1>1. \A c \in Case : Held(s, c) \in Nat
  <2> SUFFICES ASSUME NEW c \in Case, s.reserved[c] # None
               PROVE  Held(s, c) \in Nat
    BY DEF Held
  <2>1. s.reserved[c] \in Action
    BY DEF State
  <2> QED
    BY <2>1, CostTyped DEF Held
<1>2. [c \in Case |-> Held(s, c)] \in [Case -> Nat]
  BY <1>1
<1>3. IsFiniteSet(Case) /\ Case \in SUBSET Case
  BY WorkflowAssumption
<1>4. SumFunctionOnSet([c \in Case |-> Held(s, c)], Case) \in Nat
  BY <1>2, <1>3, SumAny
<1>5. ReservedIn(s) = SumFunctionOnSet([c \in Case |-> Held(s, c)], Case)
  BY DEF ReservedIn, SumFunction
<1> QED
  BY <1>2, <1>4, <1>5 DEF State

(* A state that changes the reservation of one case changes the sum by as    *)
(* much.                                                                     *)
LEMMA ReservationMoves ==
    ASSUME NEW r \in State, NEW s \in State, NEW c0 \in Case,
           \A c \in Case \ {c0} : r.reserved[c] = s.reserved[c]
    PROVE  ReservedIn(r) + Held(s, c0) = ReservedIn(s) + Held(r, c0)
<1> DEFINE v == [c \in Case |-> Held(r, c)]
           w == [c \in Case |-> Held(s, c)]
<1>1. v \in [Case -> Nat] /\ w \in [Case -> Nat]
  BY HeldTyped
<1>2. \A c \in Case \ {c0} : v[c] = w[c]
  BY DEF Held
<1>3. v[c0] = Held(r, c0) /\ w[c0] = Held(s, c0)
  OBVIOUS
<1>4. ReservedIn(r) = SumFunction(v) /\ ReservedIn(s) = SumFunction(w)
  BY DEF ReservedIn
<1>5. IsFiniteSet(Case)
  BY WorkflowAssumption
<1> HIDE DEF v, w
<1>6. SumFunction(v) + w[c0] = SumFunction(w) + v[c0]
  BY <1>1, <1>2, <1>5, SumChanges
<1> QED
  BY <1>3, <1>4, <1>6

LEMMA EmptyBalanced ==
    ASSUME NEW s \in State, s.reserved = EmptyState.reserved, s.remaining = Capacity,
           \A c \in Case : s.cases[c] \in Context => s.cases[c].review = None
    PROVE  Balanced(s)
<1> DEFINE w == [c \in Case |-> Held(s, c)]
<1>1. \A c \in Case : w[c] = 0
  BY DEF EmptyState, Held
<1>2. ReservedIn(s) = SumFunctionOnSet(w, Case)
  BY DEF ReservedIn, SumFunction
<1>3. w \in [Case -> Nat] /\ IsFiniteSet(Case) /\ {} \in SUBSET Case /\ Case \in SUBSET Case
  BY HeldTyped, WorkflowAssumption
<1> HIDE DEF w
<1>4. SumFunctionOnSet(w, Case) = 0
  BY <1>1, <1>3, SumZero
<1>5. Capacity \in Nat
  BY WorkflowAssumption
<1> QED
  BY <1>2, <1>4, <1>5, NoneAssumption DEF Balanced

LEMMA RestoredBalanced ==
    ASSUME TypeInv, BalanceInv, NEW t \in Caller, pc[t] \in Trying
    PROVE  Balanced(Restored(t))
<1> DEFINE before == call[t].before
           c0 == call[t].case
<1>1. /\ Restored(t).cases = [mem.cases EXCEPT ![c0] = before.cases[c0]]
      /\ Restored(t) \in State
  BY RestoredTyped
<1>2. c0 \in Case /\ mem.cases \in [Case -> Context \union {None}] /\ mem \in State
  BY TryingTyped, MemTyped DEF TypeInv, TypeOK
<1>3. Balanced(before) /\ Balanced(mem)
  BY DEF BalanceInv
<1>4. Restored(t).reserved = before.reserved /\ Restored(t).remaining = before.remaining
  <2>1. Restored(t) = [mem EXCEPT !.cases[c0] = before.cases[c0],
                                  !.reserved = before.reserved,
                                  !.remaining = before.remaining]
    BY DEF Restored
  <2> HIDE DEF before, c0
  <2> QED
    BY <1>2, <2>1 DEF State
<1> HIDE DEF before, c0
<1>5. ReservedIn(Restored(t)) = ReservedIn(before)
  <2>1. \A c \in Case : Held(Restored(t), c) = Held(before, c)
    BY <1>4 DEF Held
  <2>2. [c \in Case |-> Held(Restored(t), c)] = [c \in Case |-> Held(before, c)]
    BY <2>1
  <2> QED
    BY <2>2 DEF ReservedIn
<1>6. ASSUME NEW c \in Case, Restored(t).cases[c] \in Context,
             Restored(t).cases[c].review \in Review,
             Restored(t).cases[c].review.decision = "REJECTED"
      PROVE  Restored(t).cases[c].review.action = Abstain
  <2>1. Restored(t).cases[c] = IF c = c0 THEN before.cases[c] ELSE mem.cases[c]
    BY <1>1, <1>2
  <2> QED
    BY <1>3, <1>6, <2>1 DEF Balanced
<1>7. before.remaining + ReservedIn(before) = Capacity
  BY <1>3 DEF Balanced
<1> QED
  BY <1>4, <1>5, <1>6, <1>7 DEF Balanced

(* A transition pays for the reservation it makes.                           *)
LEMMA PreparedBalanced ==
    ASSUME TypeInv, BalanceInv, NEW t \in Caller, pc[t] \in Trying,
           Accepts(call[t].op, mem.cases[call[t].case]),
           call[t].reserve => Cost[call[t].action] <= Available(call[t].case)
    PROVE  Balanced(Prepared(call[t], mem.cases[call[t].case]))
<1> DEFINE cl == call[t]
           ctx == mem.cases[call[t].case]
           after == Prepared(cl, ctx)
<1>1. cl \in Call /\ cl.case \in Case /\ ctx \in Context /\ cl.op \in Operation \ {"create"}
  BY TryingTyped
<1>2. after \in State /\ after.cases = [mem.cases EXCEPT ![cl.case] = Moved(cl, ctx)]
  BY PreparedTyped
<1>3. /\ after.reserved = [mem.reserved EXCEPT ![cl.case] =
                              IF ~cl.reserve THEN @
                              ELSE IF cl.decision = "APPROVED" THEN cl.action ELSE None]
      /\ after.remaining = IF cl.reserve THEN Available(cl.case) - Cost[cl.action]
                           ELSE mem.remaining
  BY DEF Prepared
<1>4. Balanced(mem) /\ Decided(cl)
  BY DEF BalanceInv
<1>5. mem \in State /\ cl.action \in Action /\ Cost[cl.action] \in Nat
      /\ cl.reserve \in BOOLEAN
  BY <1>1, CostTyped DEF TypeInv, TypeOK, Call
<1>6. Moved(cl, ctx).review = IF cl.op # "review" THEN ctx.review
                              ELSE [decision |-> cl.decision, action |-> cl.action, key |-> nextEvent,
                                    version |-> IF cl.op \in Locked THEN ctx.version + 1
                                                ELSE ctx.version]
  BY DEF Moved
<1> DEFINE c0 == cl.case
<1>7. c0 \in Case /\ Available(c0) = mem.remaining + Held(mem, c0)
  BY <1>1 DEF Available
<1>8. cl.reserve => cl.decision \in Decision /\ (cl.decision = "REJECTED" => cl.action = Abstain)
  BY <1>4 DEF Decided
<1>9. cl.op = "review" /\ cl.decision = "REJECTED" => cl.action = Abstain
  BY <1>4 DEF Decided
<1> HIDE DEF cl, ctx, after, c0
<1>10. mem.reserved \in [Case -> Action \union {None}]
  BY <1>5 DEF State
<1>11. after.remaining + ReservedIn(after) = Capacity
  <2>1. \A c \in Case \ {c0} : after.reserved[c] = mem.reserved[c]
    BY <1>3, <1>10 DEF c0
  <2>2. ReservedIn(after) + Held(mem, c0) = ReservedIn(mem) + Held(after, c0)
    BY <1>2, <1>5, <1>7, <2>1, ReservationMoves
  <2>3. mem.remaining + ReservedIn(mem) = Capacity
    BY <1>4 DEF Balanced
  <2>4. ReservedIn(mem) \in Nat /\ mem.remaining \in Nat /\ ReservedIn(after) \in Nat
    BY <1>2, <1>5, HeldTyped
  <2>5. Held(mem, c0) \in Nat
    <3>1. mem.reserved[c0] \in Action \union {None}
      BY <1>7, <1>10
    <3> QED
      BY <3>1, CostTyped DEF Held
  <2>6. CASE ~cl.reserve
    <3>1. after.reserved[c0] = mem.reserved[c0] /\ after.remaining = mem.remaining
      BY <1>3, <1>7, <1>10, <2>6 DEF c0
    <3>2. Held(after, c0) = Held(mem, c0)
      BY <3>1 DEF Held
    <3> QED
      BY <2>2, <2>3, <2>4, <2>5, <3>1, <3>2
  <2>7. CASE cl.reserve
    <3>1. after.remaining = Available(c0) - Cost[cl.action]
      BY <1>3, <2>7 DEF c0
    <3>2. Held(after, c0) = Cost[cl.action]
      <4>1. CASE cl.decision = "APPROVED"
        <5>1. after.reserved[c0] = cl.action
          BY <1>3, <1>7, <1>10, <2>7, <4>1 DEF c0
        <5> QED
          BY <1>5, <5>1, NoneAssumption DEF Held
      <4>2. CASE cl.decision = "REJECTED"
        <5>1. after.reserved[c0] = None
          BY <1>3, <1>7, <1>10, <2>7, <4>2 DEF c0
        <5>2. Cost[cl.action] = 0
          BY <1>8, <2>7, <4>2, WorkflowAssumption DEF Abstain
        <5> QED
          BY <5>1, <5>2 DEF Held
      <4> QED
        BY <1>8, <2>7, <4>1, <4>2 DEF Decision
    <3>3. Available(c0) = mem.remaining + Held(mem, c0)
      BY <1>7
    <3> QED
      BY <1>5, <2>2, <2>3, <2>4, <2>5, <3>1, <3>2, <3>3
  <2> QED
    BY <2>6, <2>7
<1>12. ASSUME NEW c \in Case, after.cases[c] \in Context, after.cases[c].review \in Review,
              after.cases[c].review.decision = "REJECTED"
       PROVE  after.cases[c].review.action = Abstain
  <2>1. mem.cases \in [Case -> Context \union {None}]
    BY <1>5 DEF State
  <2>2. CASE c # cl.case
    <3>1. after.cases[c] = mem.cases[c]
      BY <1>2, <2>1, <2>2
    <3> QED
      BY <1>4, <1>12, <3>1 DEF Balanced
  <2>3. CASE c = cl.case
    <3>1. after.cases[c].review = Moved(cl, ctx).review
      BY <1>1, <1>2, <2>1, <2>3
    <3>2. CASE cl.op = "review"
      BY <1>6, <1>9, <1>12, <3>1, <3>2
    <3>3. CASE cl.op # "review"
      <4>1. after.cases[c].review = ctx.review /\ mem.cases[c] = ctx
        BY <1>6, <2>3, <3>1, <3>3 DEF cl, ctx
      <4> QED
        BY <1>1, <1>4, <1>12, <4>1 DEF Balanced
    <3> QED
      BY <3>2, <3>3
  <2> QED
    BY <2>2, <2>3
<1>13. Balanced(after)
  BY <1>11, <1>12 DEF Balanced
<1> QED
  BY <1>13 DEF after, cl, ctx

(* The invariant after a step of one caller. *)
LEMMA BalanceKept ==
    ASSUME BalanceInv, NEW t \in Caller,
           \A u \in Caller \ {t} : pc'[u] = pc[u] /\ call'[u] = call[u],
           Balanced(mem'), StoreBalanced(store'),
           pc'[t] \in Trying => Balanced(call'[t].before) /\ Decided(call'[t])
    PROVE  BalanceInv'
<1> SUFFICES ASSUME NEW u \in Caller, pc'[u] \in Trying
             PROVE  Balanced(call'[u].before) /\ Decided(call'[u])
  BY DEF BalanceInv
<1>1. CASE u = t
  BY <1>1
<1>2. CASE u # t
  <2>1. pc[u] \in Trying /\ call'[u] = call[u]
    BY <1>2
  <2> QED
    BY <2>1 DEF BalanceInv
<1> QED
  BY <1>1, <1>2

(* A step that moves a caller on, or back to idle, with the call it has.     *)
LEMMA BalanceStep ==
    ASSUME TypeInv, BalanceInv, NEW t \in Caller, NEW phase,
           pc' = [pc EXCEPT ![t] = phase],
           phase \notin Trying \/ (pc[t] \in Trying /\ call' = call),
           \A u \in Caller \ {t} : call'[u] = call[u],
           Balanced(mem'), StoreBalanced(store')
    PROVE  BalanceInv'
<1>1. pc \in [Caller -> Phase]
  BY DEF TypeInv, TypeOK
<1>2. pc'[t] = phase /\ \A u \in Caller \ {t} : pc'[u] = pc[u]
  BY <1>1
<1>3. pc'[t] \in Trying => Balanced(call'[t].before) /\ Decided(call'[t])
  BY <1>2 DEF BalanceInv
<1> QED
  BY <1>2, <1>3, BalanceKept

LEMMA BalanceLeave ==
    ASSUME TypeInv, BalanceInv, NEW t \in Caller, Leave(t), Balanced(mem'), StoreBalanced(store')
    PROVE  BalanceInv'
<1>1. pc' = [pc EXCEPT ![t] = "idle"] /\ "idle" \notin Trying
  BY DEF Leave, Goto, Trying
<1>2. \A u \in Caller \ {t} : call'[u] = call[u]
  BY LeaveKeepsCalls
<1> QED
  BY <1>1, <1>2, BalanceStep

LEMMA BalanceRaise ==
    ASSUME TypeInv, BalanceInv, NEW t \in Caller, pc[t] \in Trying, Raise(t), StoreBalanced(store')
    PROVE  BalanceInv'
<1>1. mem' = Restored(t) /\ pc' = [pc EXCEPT ![t] = "failed"] /\ call' = call
  BY DEF Raise, Goto
<1> QED
  BY <1>1, RestoredBalanced, BalanceStep

LEMMA BalanceEnter ==
    ASSUME TypeInv, BalanceInv, NEW t \in Caller, NEW c \in Case, NEW op, NEW decision,
           NEW action, NEW reserve, Enter(t, op, c, decision, action, reserve),
           reserve \/ op = "review" =>
               decision \in Decision /\ (decision = "REJECTED" => action = Abstain)
    PROVE  BalanceInv'
<1> DEFINE cl == [op |-> op, case |-> c, decision |-> decision, action |-> action,
                  reserve |-> reserve, before |-> mem, entry |-> None]
<1>1. /\ pc' = [pc EXCEPT ![t] = "entered"] /\ call' = [call EXCEPT ![t] = cl]
      /\ UNCHANGED <<mem, store>>
  BY DEF Enter, Goto
<1>2. cl.before = mem /\ Decided(cl)
  BY DEF Decided
<1> HIDE DEF cl
<1>3. call'[t] = cl /\ \A u \in Caller \ {t} : pc'[u] = pc[u] /\ call'[u] = call[u]
  BY <1>1 DEF TypeInv, TypeOK
<1>4. Balanced(mem) /\ Balanced(mem') /\ StoreBalanced(store')
  BY <1>1 DEF BalanceInv
<1> QED
  BY <1>2, <1>3, <1>4, BalanceKept

LEMMA BalancePrepare ==
    ASSUME TypeInv, BalanceInv, NEW t \in Caller, Prepare(t)
    PROVE  BalanceInv'
<1> DEFINE cl == call[t]
           ctx == mem.cases[call[t].case]
           fits == cl.reserve => Cost[cl.action] <= Available(cl.case)
<1>1. pc[t] = "entered" /\ pc[t] \in Trying /\ UNCHANGED store
  BY DEF Prepare, Trying
<1>2. StoreBalanced(store')
  BY <1>1 DEF BalanceInv
<1>3. CASE Accepts(cl.op, ctx) /\ fits
  <2> DEFINE entry == NewEntry(nextEvent, cl.case, ctx.state, Target[cl.op],
                               Moved(cl, ctx).review)
  <2>1. /\ mem' = Prepared(cl, ctx)
        /\ call' = [call EXCEPT ![t].entry = entry]
        /\ pc' = [pc EXCEPT ![t] = "prepared"]
    BY <1>3 DEF Prepare, Goto
  <2>2. Balanced(mem')
    BY <1>1, <1>3, <2>1, PreparedBalanced
  <2>3. cl \in Call /\ call \in [Caller -> Call \union Creation \union {None}]
    BY <1>1, TryingTyped DEF TypeInv, TypeOK
  <2> HIDE DEF entry
  <2>4. call'[t].before = cl.before /\ Decided(call'[t]) = Decided(cl)
        /\ \A u \in Caller \ {t} : call'[u] = call[u]
    <3>1. call'[t] = [cl EXCEPT !.entry = entry] /\ \A u \in Caller \ {t} : call'[u] = call[u]
      BY <2>1, <2>3
    <3>2. /\ [cl EXCEPT !.entry = entry].before = cl.before
          /\ [cl EXCEPT !.entry = entry].op = cl.op
          /\ [cl EXCEPT !.entry = entry].reserve = cl.reserve
          /\ [cl EXCEPT !.entry = entry].decision = cl.decision
          /\ [cl EXCEPT !.entry = entry].action = cl.action
      BY <2>3 DEF Call
    <3> HIDE DEF cl
    <3>3. Decided([cl EXCEPT !.entry = entry]) = Decided(cl)
      BY <3>2 DEF Decided
    <3> QED
      BY <3>1, <3>2, <3>3
  <2>5. Balanced(cl.before) /\ Decided(cl)
    BY <1>1 DEF BalanceInv
  <2>6. \A u \in Caller \ {t} : pc'[u] = pc[u]
    BY <2>1 DEF TypeInv, TypeOK
  <2>7. Balanced(call'[t].before) /\ Decided(call'[t])
    BY <2>4, <2>5
  <2> QED
    BY <1>2, <2>2, <2>4, <2>6, <2>7, BalanceKept
<1>4. CASE ~(Accepts(cl.op, ctx) /\ fits)
  <2>1. Raise(t)
    BY <1>4 DEF Prepare
  <2> QED
    BY <1>1, <1>2, <2>1, BalanceRaise
<1> QED
  BY <1>3, <1>4

LEMMA BalanceRegister ==
    ASSUME TypeInv, BalanceInv, NEW t \in Caller, RegisterCase(t)
    PROVE  BalanceInv'
<1> DEFINE ctx == NewContext(Range(call[t].made))
           c0 == call[t].case
<1>1. /\ mem' = [mem EXCEPT !.cases[c0] = ctx] /\ pc' = [pc EXCEPT ![t] = "registered"]
      /\ UNCHANGED <<store, call>>
  BY DEF RegisterCase, Goto
<1>2. mem \in State /\ mem.cases \in [Case -> Context \union {None}]
  BY DEF TypeInv, TypeOK, State
<1>3. ctx.review = None
  BY DEF NewContext
<1> HIDE DEF ctx, c0
<1>4. /\ mem'.cases = [mem.cases EXCEPT ![c0] = ctx] /\ mem'.reserved = mem.reserved
      /\ mem'.remaining = mem.remaining
  BY <1>1, <1>2 DEF State
<1>5. ReservedIn(mem') = ReservedIn(mem)
  <2>1. \A c \in Case : Held(mem', c) = Held(mem, c)
    BY <1>4 DEF Held
  <2>2. [c \in Case |-> Held(mem', c)] = [c \in Case |-> Held(mem, c)]
    BY <2>1
  <2> QED
    BY <2>2 DEF ReservedIn
<1>6. Balanced(mem)
  BY DEF BalanceInv
<1>7. ASSUME NEW c \in Case, mem'.cases[c] \in Context, mem'.cases[c].review \in Review,
             mem'.cases[c].review.decision = "REJECTED"
      PROVE  mem'.cases[c].review.action = Abstain
  <2>1. mem'.cases[c] = IF c = c0 THEN ctx ELSE mem.cases[c]
    BY <1>2, <1>4
  <2> QED
    BY <1>3, <1>6, <1>7, <2>1, NoneAssumption DEF Balanced
<1>8. Balanced(mem')
  BY <1>4, <1>5, <1>6, <1>7 DEF Balanced
<1>9. StoreBalanced(store') /\ "registered" \notin Trying
  BY <1>1 DEF BalanceInv, Trying
<1> QED
  BY <1>1, <1>8, <1>9, BalanceStep

LEMMA StutterBalance ==
    ASSUME BalanceInv, UNCHANGED <<mem, store, pc, call>>
    PROVE  BalanceInv'
BY DEF BalanceInv, StoreBalanced, Balanced, ReservedIn, Held, Decided

LEMMA SelectedBalanced ==
    ASSUME TypeInv, BalanceInv
    PROVE  Balanced(Selected)
<1>1. CASE store = None
  BY <1>1, EmptyTyped, EmptyBalanced, NoneAssumption DEF Selected, EmptyState
<1>2. CASE store # None /\ store.pending # None /\ store.pending.event \in EventIds(audit)
  BY <1>2 DEF Selected, BalanceInv, StoreBalanced
<1>3. CASE store # None
           /\ ~(store.pending # None /\ store.pending.event \in EventIds(audit))
  BY <1>3 DEF Selected, BalanceInv, StoreBalanced
<1> QED
  BY <1>1, <1>2, <1>3

LEMMA InitBalance == Init => BalanceInv
<1> SUFFICES ASSUME Init
             PROVE  BalanceInv
  OBVIOUS
<1>1. SeedState \in State
  BY SeedTyped
<1>2. /\ SeedState.reserved = EmptyState.reserved /\ SeedState.remaining = Capacity
      /\ \A c \in Case : SeedState.cases[c] \in Context => SeedState.cases[c].review = None
  BY NoneAssumption DEF SeedState, EmptyState, NewContext
<1>3. Balanced(SeedState)
  BY <1>1, <1>2, EmptyBalanced
<1>4. /\ mem = SeedState
      /\ \A t \in Caller : pc[t] \notin Trying
      /\ store = IF Known = <<>> THEN None ELSE [committed |-> SeedState, pending |-> None]
  BY DEF Init, Trying
<1>5. StoreBalanced([committed |-> SeedState, pending |-> None]) /\ StoreBalanced(None)
  BY <1>3 DEF StoreBalanced
<1>6. StoreBalanced(store)
  <2>1. store = None \/ store = [committed |-> SeedState, pending |-> None]
    BY <1>4
  <2>2. CASE store = None
    BY <2>2 DEF StoreBalanced
  <2>3. CASE store = [committed |-> SeedState, pending |-> None]
    BY <1>3, <2>3 DEF StoreBalanced
  <2> QED
    BY <2>1, <2>2, <2>3
<1> QED
  BY <1>3, <1>4, <1>6 DEF BalanceInv

LEMMA NextBalance ==
    ASSUME TypeInv, TypeInv', BalanceInv, [Next]_vars
    PROVE  BalanceInv'
<1>1. Balanced(mem) /\ StoreBalanced(store)
  BY DEF BalanceInv
<1>2. CASE UNCHANGED vars
  BY <1>2, StutterBalance DEF vars
<1>3. ASSUME NEW t \in Caller, NEW c \in Case, NEW decision \in Decision, NEW action \in Action,
             NEW reserve \in BOOLEAN, SubmitReview(t, c, decision, action, reserve)
      PROVE  BalanceInv'
  <2>1. Enter(t, "review", c, decision, action, reserve) /\ (decision = "REJECTED" => action = Abstain)
    BY <1>3 DEF SubmitReview
  <2> QED
    BY <2>1, BalanceEnter
<1>4. ASSUME NEW t \in Caller, NEW c \in Case, DispatchExecution(t, c)
      PROVE  BalanceInv'
  <2> DEFINE review == mem.cases[c].review
  <2>1. /\ mem.cases[c] # None /\ review # None
        /\ Enter(t, "dispatch", c, review.decision, review.action, mem.reserved[c] = None)
    BY <1>4 DEF DispatchExecution, Dispatchable
  <2>2. mem.cases[c] \in Context /\ review \in Review
    BY <2>1, MemTyped DEF TypeInv, Context
  <2>3. review.decision \in Decision /\ (review.decision = "REJECTED" => review.action = Abstain)
    BY <1>1, <2>2 DEF Balanced, Review
  <2> HIDE DEF review
  <2> QED
    BY <2>1, <2>3, BalanceEnter
<1>5. ASSUME NEW t \in Caller, NEW c \in Case, DismissCase(t, c) \/ ResolveCase(t, c)
      PROVE  BalanceInv'
  <2>1. Enter(t, "dismiss", c, None, Abstain, FALSE) \/ Enter(t, "resolve", c, None, Abstain, FALSE)
    BY <1>5 DEF DismissCase, ResolveCase
  <2> QED
    BY <2>1, BalanceEnter
<1>6. ASSUME NEW t \in Caller, NEW c \in Case, CreateCase(t, c)
      PROVE  BalanceInv'
  <2>1. /\ pc' = [pc EXCEPT ![t] = "creating"] /\ UNCHANGED <<mem, store>>
        /\ call' = [call EXCEPT ![t] = [op |-> "create", case |-> c, made |-> <<>>]]
    BY <1>6 DEF CreateCase, Goto
  <2>2. \A u \in Caller \ {t} : call'[u] = call[u]
    BY <2>1 DEF TypeInv, TypeOK
  <2>3. "creating" \notin Trying
    BY DEF Trying
  <2> QED
    BY <1>1, <2>1, <2>2, <2>3, BalanceStep
<1>7. ASSUME NEW t \in Caller, NEW result \in mem.results, ReplayDispatch(t, result)
      PROVE  BalanceInv'
  BY <1>7, StutterBalance DEF ReplayDispatch
<1>8. ASSUME NEW t \in Caller, Prepare(t) \/ RegisterCase(t)
      PROVE  BalanceInv'
  BY <1>8, BalancePrepare, BalanceRegister
<1>9. ASSUME NEW t \in Caller, pc[t] = "prepared"
      PROVE  StoreBalanced(PendingStore(t))
  <2>1. Balanced(call[t].before)
    BY <1>9 DEF BalanceInv, Trying
  <2> QED
    BY <1>1, <2>1 DEF StoreBalanced, PendingStore
<1>10. ASSUME NEW t \in Caller, BeginPending(t)
       PROVE  BalanceInv'
  <2>1. /\ pc[t] = "prepared" /\ pc[t] \in Trying /\ store' = PendingStore(t)
        /\ pc' = [pc EXCEPT ![t] = "begun"] /\ UNCHANGED <<mem, call>>
    BY <1>10 DEF BeginPending, Goto, Trying
  <2>2. Balanced(mem') /\ StoreBalanced(store')
    BY <1>1, <1>9, <2>1
  <2> QED
    BY <2>1, <2>2, BalanceStep
<1>11. ASSUME NEW t \in Caller, NEW replaced \in BOOLEAN, BeginFails(t, replaced)
       PROVE  BalanceInv'
  <2>1. /\ pc[t] = "prepared" /\ pc[t] \in Trying /\ Raise(t)
        /\ store' = IF replaced THEN PendingStore(t) ELSE store
    BY <1>11 DEF BeginFails, Trying
  <2>2. StoreBalanced(store')
    BY <1>1, <1>9, <2>1
  <2> QED
    BY <2>1, <2>2, BalanceRaise
<1>12. ASSUME NEW t \in Caller, AppendAudit(t)
       PROVE  BalanceInv'
  <2>1. /\ pc[t] = "begun" /\ pc[t] \in Trying
        /\ pc' = [pc EXCEPT ![t] = "audited"] /\ UNCHANGED <<mem, store, call>>
    BY <1>12 DEF AppendAudit, Goto, Trying
  <2> QED
    BY <1>1, <2>1, BalanceStep
<1>13. ASSUME NEW t \in Caller, AppendFails(t)
       PROVE  BalanceInv'
  <2>1. pc[t] = "begun" /\ pc[t] \in Trying /\ Raise(t) /\ UNCHANGED store
    BY <1>13 DEF AppendFails, Trying
  <2> QED
    BY <1>1, <2>1, BalanceRaise
<1>14. Balanced(mem) => StoreBalanced([committed |-> mem, pending |-> None])
  BY DEF StoreBalanced
<1>15. ASSUME NEW t \in Caller, Commit(t) \/ PersistCase(t)
       PROVE  BalanceInv'
  <2>1. store' = [committed |-> mem, pending |-> None] /\ Leave(t) /\ UNCHANGED mem
    BY <1>15 DEF Commit, PersistCase
  <2> QED
    BY <1>1, <1>14, <2>1, BalanceLeave
<1>16. ASSUME NEW t \in Caller, NEW replaced \in BOOLEAN, CommitFails(t, replaced)
       PROVE  BalanceInv'
  <2>1. /\ pc[t] = "audited" /\ pc[t] \in Trying /\ mem' = Restored(t) /\ Leave(t)
        /\ store' = IF replaced THEN [committed |-> mem, pending |-> None] ELSE store
    BY <1>16 DEF CommitFails, Trying
  <2>2. Balanced(mem') /\ StoreBalanced(store')
    BY <1>1, <1>14, <2>1, RestoredBalanced
  <2> QED
    BY <2>1, <2>2, BalanceLeave
<1>17. ASSUME NEW t \in Caller, Rollback(t) \/ RollbackFails(t)
       PROVE  BalanceInv'
  <2>1. /\ pc[t] = "failed" /\ pc[t] \in Trying /\ Leave(t) /\ UNCHANGED mem
        /\ (store' = store \/ store' = [committed |-> call[t].before, pending |-> None])
    BY <1>17 DEF Rollback, RollbackFails, Trying
  <2>2. Balanced(call[t].before)
    BY <2>1 DEF BalanceInv
  <2>3. StoreBalanced([committed |-> call[t].before, pending |-> None])
    BY <2>2 DEF StoreBalanced
  <2>4. Balanced(mem') /\ StoreBalanced(store')
    BY <1>1, <2>1, <2>3
  <2> QED
    BY <2>1, <2>4, BalanceLeave
<1>18. ASSUME NEW t \in Caller, AppendIntake(t)
       PROVE  BalanceInv'
  <2>1. /\ pc[t] = "creating" /\ UNCHANGED <<mem, store, pc>>
        /\ call' = [call EXCEPT ![t].made = Append(@, nextEvent)]
    BY <1>18 DEF AppendIntake
  <2>2. \A u \in Caller \ {t} : pc'[u] = pc[u] /\ call'[u] = call[u]
    BY <2>1 DEF TypeInv, TypeOK
  <2>3. pc'[t] \notin Trying
    BY <2>1 DEF Trying
  <2> QED
    BY <1>1, <2>1, <2>2, <2>3, BalanceKept
<1>19. ASSUME NEW t \in Caller, AppendIntakeFails(t)
       PROVE  BalanceInv'
  <2>1. Leave(t) /\ UNCHANGED <<mem, store>>
    BY <1>19 DEF AppendIntakeFails
  <2> QED
    BY <1>1, <2>1, BalanceLeave
<1>20. ASSUME NEW t \in Caller, NEW replaced \in BOOLEAN, PersistCaseFails(t, replaced)
       PROVE  BalanceInv'
  <2>1. /\ Leave(t) /\ UNCHANGED mem
        /\ store' = IF replaced THEN [committed |-> mem, pending |-> None] ELSE store
    BY <1>20 DEF PersistCaseFails
  <2>2. Balanced(mem') /\ StoreBalanced(store')
    BY <1>1, <1>14, <2>1
  <2> QED
    BY <2>1, <2>2, BalanceLeave
<1>21. CASE Crash
  <2>1. mem' = EmptyState /\ UNCHANGED store /\ \A t \in Caller : pc'[t] \notin Trying
    BY <1>21 DEF Crash, Trying
  <2>2. Balanced(EmptyState)
    BY EmptyTyped, EmptyBalanced, NoneAssumption DEF EmptyState
  <2> QED
    BY <1>1, <2>1, <2>2 DEF BalanceInv
<1>22. CASE Restart
  <2>1. mem' = Selected /\ UNCHANGED <<store, pc, call>> /\ ~up
    BY <1>22 DEF Restart
  <2>2. \A t \in Caller : pc'[t] \notin Trying
    BY <2>1 DEF TypeInv, CallInv, Trying
  <2> QED
    BY <1>1, <2>1, <2>2, SelectedBalanced DEF BalanceInv
<1> QED
  BY <1>2, <1>3, <1>4, <1>5, <1>6, <1>7, <1>8, <1>10, <1>11, <1>12, <1>13, <1>15, <1>16, <1>17,
     <1>18, <1>19, <1>20, <1>21, <1>22 DEF Next

(* The capacity that is free is what the reservations leave of it, in memory *)
(* and in what a restart would take up: whatever faults there are and        *)
(* however callers interleave, no reservation is paid twice or given back    *)
(* twice.                                                                    *)
THEOREM CapacityBalanced == Spec => []CapacityConserved
<1>1. Init => TypeInv /\ BalanceInv
  BY InitTyped, InitBalance
<1>2. TypeInv /\ BalanceInv /\ [Next]_vars => TypeInv' /\ BalanceInv'
  BY NextTyped, NextBalance
<1>3. TypeInv /\ BalanceInv => CapacityConserved
  BY SelectedBalanced DEF CapacityConserved, BalanceInv, Balanced
<1> QED
  BY <1>1, <1>2, <1>3, PTL DEF Spec

(***************************************************************************)
(* The ledger and the state of the service agree.                          *)
(***************************************************************************)

(* What the ledger tells of the cases. *)
Ledger == [status |-> [c \in Case |-> AuditedState(c)],
           approved |-> [c \in Case |-> AuditedApproval(c)],
           executed |-> AuditedExecutions]

(* The states of a case that only a review leads to. *)
Reviewed == {"HUMAN_REVIEWED", "EXECUTED", "DISMISSED", "RESOLVED"}

(* An executed case is never reopened. *)
Sound(l) == \A c \in l.executed : l.status[c] \in {"EXECUTED", "RESOLVED"}

(* What state s says of the cases is what ledger l says: a case is in its    *)
(* last audited state, with its last audited approval; a reviewed case is    *)
(* there; an executed one still holds the reservation of its action.         *)
Faithful(s, l) ==
    \A c \in Case :
        /\ s.cases[c] # None => s.cases[c].state = l.status[c]
        /\ s.cases[c] # None /\ s.cases[c].review # None =>
               s.cases[c].review.action = l.approved[c]
        /\ l.status[c] \in Reviewed => s.cases[c] # None
        /\ c \in l.executed => s.reserved[c] = l.approved[c]

(* Were r recovered in place of s, nothing would be lost but cases that were *)
(* never persisted.                                                          *)
Covers(s, r) ==
    /\ \A c \in Case : r.cases[c] # None => s.cases[c] = r.cases[c]
    /\ s.reserved = r.reserved
    /\ s.remaining = r.remaining

Agrees(s, l, r) == Faithful(s, l) /\ Covers(s, r)

SameButResults(s, r) ==
    s.cases = r.cases /\ s.reserved = r.reserved /\ s.remaining = r.remaining

(* The transition of case c that entry e records takes before to after. *)
Transition(before, after, c, e) ==
    /\ e.case = c
    /\ before.cases[c] # None /\ after.cases[c] # None
    /\ \A d \in Case \ {c} : /\ after.cases[d] = before.cases[d]
                             /\ after.reserved[d] = before.reserved[d]
    /\ <<before.cases[c].state, e.to>> \in VALID_TRANSITIONS
    /\ e.to \in Reviewed
    /\ after.cases[c].state = e.to
    /\ after.cases[c].review # None
    /\ IF e.to = "HUMAN_REVIEWED" THEN after.cases[c].review.action = e.action
       ELSE after.cases[c].review = before.cases[c].review
    /\ e.to = "EXECUTED" => /\ after.cases[c].review.action # Abstain
                            /\ after.reserved[c] = after.cases[c].review.action
    /\ e.to \in {"DISMISSED", "RESOLVED"} => after.reserved[c] = before.reserved[c]

(* What a call of the try block begins with: a dispatch that makes no        *)
(* reservation finds the one that its approval needs.                        *)
Asked(cl) ==
    /\ cl.op = "dispatch" =>
        LET ctx == cl.before.cases[cl.case]
        IN  /\ cl.decision = ctx.review.decision /\ cl.action = ctx.review.action
            /\ ~cl.reserve => cl.before.reserved[cl.case] = cl.action
    /\ cl.op \in {"dismiss", "resolve"} => ~cl.reserve

CallAgrees(t) ==
    LET cl == call[t]
    IN  /\ pc[t] \in Trying \ {"audited"} => Agrees(cl.before, Ledger, Selected)
        /\ pc[t] = "entered" => Asked(cl)
        /\ pc[t] \in {"entered", "failed"} => SameButResults(mem, cl.before)
        /\ pc[t] \in Unaudited =>
               /\ Transition(cl.before, mem, cl.case, cl.entry)
               /\ cl.entry.event < nextEvent
               /\ cl.entry.event \notin EventIds(audit)
        /\ pc[t] = "begun" => store = PendingStore(t)
        /\ pc[t] \in {"creating", "registered", "audited"} => Agrees(mem, Ledger, Selected)
        /\ pc[t] = "creating" =>
               /\ mem.cases[cl.case] = None
               /\ Len(cl.made) <= Len(Intake)
               /\ Len(cl.made) > 0 => Ledger.status[cl.case] = Intake[Len(cl.made)]

(* The ledger is sound, its events are numbered as they are made, and a      *)
(* restart would take up a state that agrees with it.                        *)
FileInv ==
    /\ Sound(Ledger)
    /\ \A e \in EventIds(audit) : e < nextEvent
    /\ store # None /\ store.pending # None => store.pending.event < nextEvent
    /\ Faithful(Selected, Ledger)

(* The inductive invariant: memory, the state before the call that runs, and *)
(* the state a restart would take up agree with the ledger, each as far as   *)
(* that call has come.                                                       *)
AgreeInv ==
    /\ FileInv
    /\ up /\ (\A t \in Caller : pc[t] = "idle") => Agrees(mem, Ledger, Selected)
    /\ \A t \in Caller : CallAgrees(t)

(* The entries of a case, as the ledger has them one after the other. *)
LEMMA EntriesTyped ==
    ASSUME audit \in Seq(Entry), NEW c \in Case
    PROVE  /\ EntriesOf(c) \in SUBSET Nat /\ EntriesOf(c) \subseteq 1 .. Len(audit)
           /\ ReviewsOf(c) \in SUBSET Nat /\ ReviewsOf(c) \subseteq EntriesOf(c)
           /\ EntriesOf(c) # {} => Max(EntriesOf(c)) \in EntriesOf(c)
           /\ ReviewsOf(c) # {} => Max(ReviewsOf(c)) \in ReviewsOf(c)
<1>1. Len(audit) \in Nat /\ DOMAIN audit = 1 .. Len(audit)
  OBVIOUS
<1>2. EntriesOf(c) \in SUBSET Nat /\ EntriesOf(c) \subseteq 1 .. Len(audit)
  BY <1>1 DEF EntriesOf
<1>3. ReviewsOf(c) \in SUBSET Nat /\ ReviewsOf(c) \subseteq EntriesOf(c)
  BY <1>2 DEF ReviewsOf
<1>4. /\ \A k \in EntriesOf(c) : k <= Len(audit)
      /\ \A k \in ReviewsOf(c) : k <= Len(audit)
  BY <1>1, <1>2, <1>3
<1>5. EntriesOf(c) # {} => Max(EntriesOf(c)) \in EntriesOf(c)
  BY <1>1, <1>2, <1>4, GreatestElement
<1>6. ReviewsOf(c) # {} => Max(ReviewsOf(c)) \in ReviewsOf(c)
  BY <1>1, <1>3, <1>4, GreatestElement
<1> QED
  BY <1>2, <1>3, <1>5, <1>6

LEMMA LedgerTyped ==
    ASSUME audit \in Seq(Entry)
    PROVE  /\ Ledger.status \in [Case -> CaseState]
           /\ Ledger.approved \in [Case -> Action]
           /\ Ledger.executed \in SUBSET Case
<1>1. ASSUME NEW c \in Case
      PROVE  AuditedState(c) \in CaseState /\ AuditedApproval(c) \in Action
  <2>1. \A k \in 1 .. Len(audit) : audit[k].to \in CaseState /\ audit[k].action \in Action
    <3>1. \A k \in 1 .. Len(audit) : audit[k] \in Entry
      BY ElementOfSeq
    <3>2. \A e \in Entry : e.to \in CaseState /\ e.action \in Action
      BY DEF Entry
    <3> QED
      BY <3>1, <3>2
  <2>2. AuditedState(c) \in CaseState
    <3>1. CASE EntriesOf(c) = {}
      BY <3>1 DEF AuditedState, CaseState
    <3>2. CASE EntriesOf(c) # {}
      <4>1. Max(EntriesOf(c)) \in 1 .. Len(audit)
        BY <3>2, EntriesTyped
      <4> QED
        BY <2>1, <3>2, <4>1 DEF AuditedState
    <3> QED
      BY <3>1, <3>2
  <2>3. AuditedApproval(c) \in Action
    <3>1. CASE ReviewsOf(c) = {}
      BY <3>1, CostTyped DEF AuditedApproval
    <3>2. CASE ReviewsOf(c) # {}
      <4>1. Max(ReviewsOf(c)) \in 1 .. Len(audit)
        BY <3>2, EntriesTyped
      <4> QED
        BY <2>1, <3>2, <4>1 DEF AuditedApproval
    <3> QED
      BY <3>1, <3>2
  <2> QED
    BY <2>2, <2>3
<1>2. AuditedExecutions \in SUBSET Case
  BY DEF AuditedExecutions
<1> QED
  BY <1>1, <1>2 DEF Ledger

(* What ledger l says once it holds entry e as well. *)
After(l, e) ==
    [status |-> [l.status EXCEPT ![e.case] = e.to],
     approved |-> IF e.to = "HUMAN_REVIEWED" THEN [l.approved EXCEPT ![e.case] = e.action]
                  ELSE l.approved,
     executed |-> IF e.to = "EXECUTED" THEN l.executed \union {e.case} ELSE l.executed]

LEMMA LedgerMoves ==
    ASSUME audit \in Seq(Entry), NEW e \in Entry, audit' = Append(audit, e)
    PROVE  Ledger' = After(Ledger, e)
<1> DEFINE n == Len(audit)
<1>1. n \in Nat /\ DOMAIN audit = 1 .. n
  OBVIOUS
<1>2. /\ DOMAIN audit' = 1 .. n + 1 /\ audit'[n + 1] = e
      /\ \A k \in 1 .. n : audit'[k] = audit[k]
      /\ audit' \in Seq(Entry) /\ Len(audit') = n + 1
  BY <1>1
<1> HIDE DEF n
<1>3. ASSUME NEW c \in Case
      PROVE  /\ EntriesOf(c)' = EntriesOf(c) \union (IF e.case = c THEN {n + 1} ELSE {})
             /\ ReviewsOf(c)' = ReviewsOf(c) \union
                    (IF e.case = c /\ e.to = "HUMAN_REVIEWED" THEN {n + 1} ELSE {})
  <2>1. \A k \in 1 .. n + 1 : k \in 1 .. n \/ k = n + 1
    BY <1>1
  <2>2. EntriesOf(c)' = EntriesOf(c) \union (IF e.case = c THEN {n + 1} ELSE {})
    BY <1>1, <1>2, <2>1 DEF EntriesOf
  <2>3. EntriesOf(c) \subseteq 1 .. n /\ n + 1 \notin 1 .. n
    BY <1>1 DEF EntriesOf
  <2>4. \A k \in EntriesOf(c) : audit'[k].to = audit[k].to
    BY <1>2, <2>3
  <2>5. ReviewsOf(c)' = {k \in EntriesOf(c)' : audit'[k].to = "HUMAN_REVIEWED"}
    BY DEF ReviewsOf
  <2>6. ReviewsOf(c)' = ReviewsOf(c) \union
            (IF e.case = c /\ e.to = "HUMAN_REVIEWED" THEN {n + 1} ELSE {})
    BY <1>2, <2>2, <2>4, <2>5 DEF ReviewsOf
  <2> QED
    BY <2>2, <2>6
<1>4. ASSUME NEW c \in Case
      PROVE  AuditedState(c)' = IF e.case = c THEN e.to ELSE AuditedState(c)
  <2>1. EntriesOf(c) \in SUBSET Nat /\ EntriesOf(c) \subseteq 1 .. n
    BY <1>1, EntriesTyped DEF n
  <2>2. CASE e.case = c
    <3>1. EntriesOf(c)' = EntriesOf(c) \union {n + 1}
      BY <1>3, <2>2
    <3>2. /\ EntriesOf(c)' \in SUBSET Nat /\ n + 1 \in EntriesOf(c)'
          /\ \A k \in EntriesOf(c)' : k <= n + 1
      BY <1>1, <2>1, <3>1
    <3>3. Max(EntriesOf(c)') = n + 1
      BY <3>2, GreatestIs
    <3> QED
      BY <1>2, <2>2, <3>2, <3>3 DEF AuditedState
  <2>3. CASE e.case # c
    <3>1. EntriesOf(c)' = EntriesOf(c)
      BY <1>3, <2>3
    <3>2. EntriesOf(c) # {} => Max(EntriesOf(c)) \in 1 .. n
      BY <2>1, EntriesTyped
    <3> QED
      BY <1>2, <2>3, <3>1, <3>2 DEF AuditedState
  <2> QED
    BY <2>2, <2>3
<1>5. ASSUME NEW c \in Case
      PROVE  AuditedApproval(c)' = IF e.case = c /\ e.to = "HUMAN_REVIEWED" THEN e.action
                                   ELSE AuditedApproval(c)
  <2>1. ReviewsOf(c) \in SUBSET Nat /\ ReviewsOf(c) \subseteq 1 .. n
    BY <1>1, EntriesTyped DEF n
  <2>2. CASE e.case = c /\ e.to = "HUMAN_REVIEWED"
    <3>1. ReviewsOf(c)' = ReviewsOf(c) \union {n + 1}
      BY <1>3, <2>2
    <3>2. /\ ReviewsOf(c)' \in SUBSET Nat /\ n + 1 \in ReviewsOf(c)'
          /\ \A k \in ReviewsOf(c)' : k <= n + 1
      BY <1>1, <2>1, <3>1
    <3>3. Max(ReviewsOf(c)') = n + 1
      BY <3>2, GreatestIs
    <3> QED
      BY <1>2, <2>2, <3>2, <3>3 DEF AuditedApproval
  <2>3. CASE ~(e.case = c /\ e.to = "HUMAN_REVIEWED")
    <3>1. ReviewsOf(c)' = ReviewsOf(c)
      BY <1>3, <2>3
    <3>2. ReviewsOf(c) # {} => Max(ReviewsOf(c)) \in 1 .. n
      BY <2>1, EntriesTyped
    <3> QED
      BY <1>2, <2>3, <3>1, <3>2 DEF AuditedApproval
  <2> QED
    BY <2>2, <2>3
<1>6. AuditedExecutions' = IF e.to = "EXECUTED" THEN AuditedExecutions \union {e.case}
                           ELSE AuditedExecutions
  <2>1. e.case \in Case
    BY DEF Entry
  <2>2. ASSUME NEW c \in Case
        PROVE  c \in AuditedExecutions' <=>
                   c \in AuditedExecutions \/ (e.to = "EXECUTED" /\ c = e.case)
    <3>1. EntriesOf(c) \subseteq 1 .. n
      BY <1>1, EntriesTyped DEF n
    <3>2. \A k \in EntriesOf(c) : audit'[k].to = audit[k].to
      BY <1>2, <3>1
    <3>3. EntriesOf(c)' = EntriesOf(c) \union (IF e.case = c THEN {n + 1} ELSE {})
      BY <1>3
    <3>4. c \in AuditedExecutions' <=> \E k \in EntriesOf(c)' : audit'[k].to = "EXECUTED"
      BY DEF AuditedExecutions
    <3>5. c \in AuditedExecutions <=> \E k \in EntriesOf(c) : audit[k].to = "EXECUTED"
      BY DEF AuditedExecutions
    <3> QED
      BY <1>2, <3>2, <3>3, <3>4, <3>5
  <2>3. AuditedExecutions' \subseteq Case /\ AuditedExecutions \subseteq Case
    BY DEF AuditedExecutions
  <2> QED
    BY <2>1, <2>2, <2>3
<1>7. e.case \in Case
  BY DEF Entry
<1>8. [c \in Case |-> AuditedState(c)]' = [[c \in Case |-> AuditedState(c)] EXCEPT ![e.case] = e.to]
  BY <1>4, <1>7
<1>9. [c \in Case |-> AuditedApproval(c)]' =
          IF e.to = "HUMAN_REVIEWED"
          THEN [[c \in Case |-> AuditedApproval(c)] EXCEPT ![e.case] = e.action]
          ELSE [c \in Case |-> AuditedApproval(c)]
  BY <1>5, <1>7
<1> QED
  BY <1>6, <1>8, <1>9 DEF Ledger, After

(* The intake of a known case is complete: a fourth step is its last entry.  *)
LEMMA SeedLedger ==
    ASSUME audit = SeedAudit
    PROVE  /\ \A c \in Case : Ledger.status[c] = IF \E k \in DOMAIN SeedAudit : SeedAudit[k].case = c
                                                 THEN "RECOMMENDED" ELSE "NONE"
           /\ \A c \in Case : Ledger.approved[c] = Abstain
           /\ Ledger.executed = {}
<1> DEFINE n == 4 * Len(Known)
           known(c) == {k \in 1 .. n : Known[(k + 3) \div 4] = c}
<1>1. Known \in Seq(Case) /\ Len(Known) \in Nat /\ n \in Nat
  BY WorkflowAssumption
<1>2. DOMAIN SeedAudit = 1 .. n /\ \A k \in 1 .. n : SeedAudit[k] = SeedEntry(k)
  BY DEF SeedAudit
<1>3. \A k \in 1 .. n : ((k - 1) % 4) + 1 \in 1 .. 4
  OBVIOUS
<1>4. \A k \in 1 .. 4 : Intake[k] \in {"CREATED", "TRIAGED", "EVIDENCE_ASSEMBLED", "RECOMMENDED"}
  <2>1. \A k \in 1 .. 4 : k = 1 \/ k = 2 \/ k = 3 \/ k = 4
    OBVIOUS
  <2> QED
    BY <2>1 DEF Intake
<1>5. \A k \in 1 .. n :
          /\ SeedAudit[k].case = Known[(k + 3) \div 4]
          /\ SeedAudit[k].to = Intake[((k - 1) % 4) + 1]
          /\ SeedAudit[k].to \notin {"HUMAN_REVIEWED", "EXECUTED"}
  BY <1>2, <1>3, <1>4 DEF SeedEntry, NewEntry
<1> HIDE DEF n
<1>6. ASSUME NEW c \in Case
      PROVE  EntriesOf(c) = known(c) /\ ReviewsOf(c) = {} /\ c \notin AuditedExecutions
  <2>1. EntriesOf(c) = known(c)
    BY <1>2, <1>5 DEF EntriesOf
  <2>2. ReviewsOf(c) = {}
    BY <1>2, <1>5 DEF ReviewsOf, EntriesOf
  <2>3. c \notin AuditedExecutions
    BY <1>2, <1>5 DEF AuditedExecutions, EntriesOf
  <2> QED
    BY <2>1, <2>2, <2>3
<1>7. ASSUME NEW c \in Case, known(c) # {}
      PROVE  AuditedState(c) = "RECOMMENDED"
  <2> DEFINE m == Max(known(c))
  <2>1. known(c) \in SUBSET Nat /\ \A k \in known(c) : k <= n
    BY <1>1
  <2>2. m \in known(c) /\ \A k \in known(c) : k <= m
    <3> HIDE DEF known
    <3> QED
      BY <1>1, <1>7, <2>1, GreatestElement
  <2>3. m \in 1 .. n /\ m \in Nat
    BY <1>1, <2>2
  <2> HIDE DEF m
  <2>4. (m - 1) % 4 = 3
    <3> SUFFICES ASSUME (m - 1) % 4 # 3
                 PROVE  FALSE
      OBVIOUS
    <3>1. \A k \in Nat \ {0} : (k - 1) % 4 # 3 => (k + 1 + 3) \div 4 = (k + 3) \div 4
      OBVIOUS
    <3>2. \A j, k \in Nat : k \in 1 .. 4 * j /\ (k - 1) % 4 # 3 => k + 1 <= 4 * j
      OBVIOUS
    <3>3. m + 1 \in 1 .. n
      BY <1>1, <2>3, <3>2 DEF n
    <3>4. (m + 1 + 3) \div 4 = (m + 3) \div 4
      BY <1>1, <2>3, <3>1
    <3>5. m + 1 \in known(c)
      BY <2>2, <3>3, <3>4
    <3> QED
      BY <2>2, <2>3, <3>5
  <2>5. SeedAudit[m].to = Intake[4]
    BY <1>5, <2>3, <2>4
  <2> QED
    BY <1>6, <1>7, <2>5 DEF AuditedState, m, Intake
<1>8. ASSUME NEW c \in Case
      PROVE  known(c) # {} <=> \E k \in DOMAIN SeedAudit : SeedAudit[k].case = c
  BY <1>2, <1>5
<1> HIDE DEF known
<1>9. \A c \in Case : AuditedState(c) = IF \E k \in DOMAIN SeedAudit : SeedAudit[k].case = c
                                        THEN "RECOMMENDED" ELSE "NONE"
  BY <1>6, <1>7, <1>8 DEF AuditedState
<1>10. \A c \in Case : AuditedApproval(c) = Abstain
  BY <1>6 DEF AuditedApproval
<1>11. AuditedExecutions = {}
  BY <1>6 DEF AuditedExecutions
<1> QED
  BY <1>9, <1>10, <1>11 DEF Ledger

(***************************************************************************)
(* What the ledger comes to say of the state.                              *)
(***************************************************************************)

LEMMA SameAgrees ==
    ASSUME NEW s, NEW b, NEW l, NEW r, SameButResults(s, b), Agrees(b, l, r)
    PROVE  Agrees(s, l, r) /\ Covers(s, b)
BY DEF SameButResults, Agrees, Faithful, Covers

LEMMA CoversItself == ASSUME NEW s PROVE Covers(s, s)
BY DEF Covers

(* A transition that was faithful before it stays so when it is audited.     *)
LEMMA TransitionAudited ==
    ASSUME NEW l, NEW e, NEW before, NEW after, NEW c \in Case,
           l.status \in [Case -> CaseState], l.approved \in [Case -> Action],
           l.executed \in SUBSET Case, Sound(l), Faithful(before, l), Transition(before, after, c, e)
    PROVE  Sound(After(l, e)) /\ Faithful(after, After(l, e))
<1> DEFINE new == After(l, e)
<1>1. e.case = c
  BY DEF Transition
<1>2. /\ \A d \in Case : new.status[d] = IF d = c THEN e.to ELSE l.status[d]
      /\ \A d \in Case : new.approved[d] = IF d = c /\ e.to = "HUMAN_REVIEWED" THEN e.action
                                           ELSE l.approved[d]
      /\ new.executed = IF e.to = "EXECUTED" THEN l.executed \union {c} ELSE l.executed
  BY <1>1 DEF After
<1> HIDE DEF new
<1>3. before.cases[c].state = l.status[c]
  BY DEF Transition, Faithful
<1>4. c \in l.executed => e.to = "RESOLVED"
  <2> SUFFICES ASSUME c \in l.executed
               PROVE  e.to = "RESOLVED"
    OBVIOUS
  <2>1. l.status[c] \in {"EXECUTED", "RESOLVED"}
    BY DEF Sound
  <2>2. <<l.status[c], e.to>> \in VALID_TRANSITIONS
    BY <1>3 DEF Transition
  <2> QED
    BY <2>1, <2>2 DEF VALID_TRANSITIONS
<1>5. Sound(new)
  <2> SUFFICES ASSUME NEW d \in new.executed
               PROVE  new.status[d] \in {"EXECUTED", "RESOLVED"}
    BY DEF Sound
  <2>1. CASE d = c
    BY <1>2, <1>4, <2>1
  <2>2. CASE d # c
    <3>1. d \in l.executed
      BY <1>2, <2>2
    <3>2. l.status[d] \in {"EXECUTED", "RESOLVED"}
      BY <3>1 DEF Sound
    <3> QED
      BY <1>2, <2>2, <3>1, <3>2
  <2> QED
    BY <2>1, <2>2
<1>6. ASSUME NEW d \in Case, d # c
      PROVE  /\ after.cases[d] # None => after.cases[d].state = new.status[d]
             /\ after.cases[d] # None /\ after.cases[d].review # None =>
                    after.cases[d].review.action = new.approved[d]
             /\ new.status[d] \in Reviewed => after.cases[d] # None
             /\ d \in new.executed => after.reserved[d] = new.approved[d]
  <2>1. after.cases[d] = before.cases[d] /\ after.reserved[d] = before.reserved[d]
    BY <1>6 DEF Transition
  <2>2. /\ new.status[d] = l.status[d] /\ new.approved[d] = l.approved[d]
        /\ d \in new.executed => d \in l.executed
    BY <1>2, <1>6
  <2> QED
    BY <2>1, <2>2 DEF Faithful
<1>7. /\ after.cases[c].state = new.status[c] /\ after.cases[c] # None
      /\ after.cases[c].review.action = new.approved[c]
      /\ c \in new.executed => after.reserved[c] = new.approved[c]
  <2>1. /\ after.cases[c] # None /\ after.cases[c].state = e.to /\ after.cases[c].review # None
        /\ before.cases[c] # None
    BY DEF Transition
  <2>2. after.cases[c].review.action = new.approved[c]
    <3>1. CASE e.to = "HUMAN_REVIEWED"
      BY <1>2, <3>1 DEF Transition
    <3>2. CASE e.to # "HUMAN_REVIEWED"
      <4>1. after.cases[c].review = before.cases[c].review
        BY <3>2 DEF Transition
      <4>2. before.cases[c].review.action = l.approved[c]
        BY <2>1, <4>1 DEF Faithful
      <4> QED
        BY <1>2, <3>2, <4>1, <4>2
    <3> QED
      BY <3>1, <3>2
  <2>3. c \in new.executed => after.reserved[c] = new.approved[c]
    <3>1. CASE e.to = "EXECUTED"
      BY <2>2, <3>1 DEF Transition
    <3>2. CASE e.to # "EXECUTED" /\ c \in new.executed
      <4>1. c \in l.executed /\ e.to = "RESOLVED"
        BY <1>2, <1>4, <3>2
      <4>2. after.reserved[c] = before.reserved[c] /\ before.reserved[c] = l.approved[c]
        BY <4>1 DEF Transition, Faithful
      <4> QED
        BY <1>2, <4>1, <4>2
    <3> QED
      BY <3>1, <3>2
  <2> QED
    BY <1>2, <2>1, <2>2, <2>3
<1>8. Faithful(after, new)
  BY <1>6, <1>7 DEF Faithful
<1> QED
  BY <1>5, <1>8 DEF new

(* A step of the intake of a case that the state does not have changes       *)
(* nothing for the state.                                                    *)
LEMMA IntakeAudited ==
    ASSUME NEW l, NEW e, NEW s, e.case \in Case, s.cases[e.case] = None,
           l.status \in [Case -> CaseState], l.approved \in [Case -> Action],
           l.executed \in SUBSET Case, Sound(l), Faithful(s, l),
           e.to \in {"CREATED", "TRIAGED", "EVIDENCE_ASSEMBLED", "RECOMMENDED"}
    PROVE  /\ Sound(After(l, e)) /\ Faithful(s, After(l, e))
           /\ After(l, e).approved = l.approved /\ After(l, e).executed = l.executed
           /\ After(l, e).status = [l.status EXCEPT ![e.case] = e.to]
<1> DEFINE new == After(l, e)
<1>1. e.to \notin Reviewed /\ e.to \notin {"EXECUTED", "HUMAN_REVIEWED", "RESOLVED"}
  BY DEF Reviewed
<1>2. /\ new.approved = l.approved /\ new.executed = l.executed
      /\ new.status = [l.status EXCEPT ![e.case] = e.to]
  BY <1>1 DEF After
<1> HIDE DEF new
<1>3. e.case \notin l.executed
  BY DEF Sound, Faithful, Reviewed
<1>4. \A d \in Case : new.status[d] = IF d = e.case THEN e.to ELSE l.status[d]
  BY <1>2
<1>5. Sound(new)
  BY <1>2, <1>3, <1>4 DEF Sound
<1>6. Faithful(s, new)
  <2> SUFFICES ASSUME NEW d \in Case
               PROVE  /\ s.cases[d] # None => s.cases[d].state = new.status[d]
                      /\ s.cases[d] # None /\ s.cases[d].review # None =>
                             s.cases[d].review.action = new.approved[d]
                      /\ new.status[d] \in Reviewed => s.cases[d] # None
                      /\ d \in new.executed => s.reserved[d] = new.approved[d]
    BY DEF Faithful
  <2>1. CASE d = e.case
    BY <1>1, <1>2, <1>3, <1>4, <2>1
  <2>2. CASE d # e.case
    BY <1>2, <1>4, <2>2 DEF Faithful
  <2> QED
    BY <2>1, <2>2
<1> QED
  BY <1>2, <1>5, <1>6 DEF new

(***************************************************************************)
(* The steps of a call, while no other runs.                               *)
(***************************************************************************)

LEMMA LedgerKept ==
    ASSUME UNCHANGED audit
    PROVE  /\ Ledger' = Ledger /\ EventIds(audit)' = EventIds(audit)
           /\ UNCHANGED store => Selected' = Selected
BY DEF Ledger, AuditedState, AuditedApproval, AuditedExecutions, EntriesOf, ReviewsOf, Selected,
       EventIds

LEMMA FileKept ==
    ASSUME FileInv, UNCHANGED <<audit, store, nextEvent>>
    PROVE  FileInv' /\ Ledger' = Ledger /\ Selected' = Selected
<1>1. Ledger' = Ledger /\ EventIds(audit)' = EventIds(audit) /\ Selected' = Selected
  BY LedgerKept
<1> QED
  BY <1>1 DEF FileInv

(* The state file is written with a committed state that agrees.             *)
LEMMA FileCommitted ==
    ASSUME FileInv, UNCHANGED <<audit, nextEvent>>, NEW s \in State, Faithful(s, Ledger),
           store' = [committed |-> s, pending |-> None]
    PROVE  FileInv' /\ Ledger' = Ledger /\ Selected' = s
<1>1. Ledger' = Ledger /\ EventIds(audit)' = EventIds(audit)
  BY LedgerKept
<1>2. store' # None
  BY NoneAssumption DEF Store
<1>3. Selected' = s
  BY <1>2 DEF Selected
<1> QED
  BY <1>1, <1>3 DEF FileInv

LEMMA EventsTyped ==
    ASSUME TypeInv
    PROVE  /\ EventIds(audit) \subseteq Nat
           /\ nextEvent \in Nat
           /\ store # None /\ store.pending # None => store.pending.event \in Nat
<1>1. /\ audit \in Seq(Entry) /\ nextEvent \in Event /\ store \in Store \union {None}
  BY DEF TypeInv, TypeOK
<1>2. \A k \in DOMAIN audit : audit[k].event \in Nat
  <2>1. DOMAIN audit = 1 .. Len(audit) /\ \A k \in 1 .. Len(audit) : audit[k] \in Entry
    BY <1>1, ElementOfSeq
  <2>2. \A e \in Entry : e.event \in Nat
    BY DEF Entry, Event
  <2> QED
    BY <2>1, <2>2
<1>3. store # None /\ store.pending # None => store.pending.event \in Nat
  BY <1>1 DEF Store, Pending, Event
<1> QED
  BY <1>1, <1>2, <1>3 DEF EventIds, Event

(* The invariant after a step of the only caller there is. *)
LEMMA OnlyAgrees ==
    ASSUME NEW t \in Caller, \A u \in Caller \ {t} : pc'[u] = "idle",
           FileInv', CallAgrees(t)', pc'[t] = "idle" => Agrees(mem', Ledger', Selected')
    PROVE  AgreeInv'
<1>1. \A u \in Caller \ {t} : CallAgrees(u)'
  BY DEF CallAgrees, Trying, Unaudited
<1>2. \A u \in Caller : CallAgrees(u)'
  BY <1>1
<1> QED
  BY <1>2 DEF AgreeInv

LEMMA OthersStayIdle ==
    ASSUME TypeInv, RecoveryInv, NEW t \in Caller, pc[t] # "idle", NEW phase,
           pc' = [pc EXCEPT ![t] = phase]
    PROVE  pc'[t] = phase /\ \A u \in Caller \ {t} : pc'[u] = "idle"
<1>1. \A u \in Caller \ {t} : pc[u] = "idle"
  BY OthersIdle
<1> QED
  BY <1>1 DEF TypeInv, TypeOK

(* A call that ends, with memory in agreement.                               *)
LEMMA LeaveAgrees ==
    ASSUME TypeInv, RecoveryInv, NEW t \in Caller, pc[t] # "idle", Leave(t),
           FileInv', Agrees(mem', Ledger', Selected')
    PROVE  AgreeInv'
<1>1. pc' = [pc EXCEPT ![t] = "idle"]
  BY DEF Leave, Goto
<1>2. pc'[t] = "idle" /\ \A u \in Caller \ {t} : pc'[u] = "idle"
  BY <1>1, OthersStayIdle
<1>3. CallAgrees(t)'
  BY <1>2 DEF CallAgrees, Trying, Unaudited
<1> QED
  BY <1>2, <1>3, OnlyAgrees

(* Memory goes back to the state before the call.                            *)
LEMMA RestoredIsBefore ==
    ASSUME TypeInv, AgreeInv, NEW t \in Caller,
           pc[t] \in {"entered", "prepared", "begun"}
    PROVE  SameButResults(Restored(t), call[t].before) /\ Agrees(call[t].before, Ledger, Selected)
<1> DEFINE before == call[t].before
           c0 == call[t].case
<1>1. pc[t] \in Trying /\ pc[t] # "audited" /\ Unaudited = {"prepared", "begun"}
  BY DEF Trying, Unaudited
<1>2. /\ Restored(t).cases = [mem.cases EXCEPT ![c0] = before.cases[c0]]
      /\ before \in State /\ c0 \in Case /\ mem \in State
  BY <1>1, RestoredTyped, TryingTyped DEF TypeInv, TypeOK
<1>3. CallAgrees(t)
  BY DEF AgreeInv
<1>4. SameButResults(mem, before) \/ Transition(before, mem, c0, call[t].entry)
  BY <1>1, <1>3 DEF CallAgrees
<1>5. Agrees(before, Ledger, Selected)
  BY <1>1, <1>3 DEF CallAgrees
<1>6. Restored(t).reserved = before.reserved /\ Restored(t).remaining = before.remaining
  <2>1. Restored(t) = [mem EXCEPT !.cases[c0] = before.cases[c0],
                                  !.reserved = before.reserved,
                                  !.remaining = before.remaining]
    BY DEF Restored
  <2> HIDE DEF before, c0
  <2> QED
    BY <1>2, <2>1 DEF State
<1> HIDE DEF before, c0
<1>7. mem.cases \in [Case -> Context \union {None}] /\ before.cases \in [Case -> Context \union {None}]
  BY <1>2 DEF State
<1>8. \A c \in Case \ {c0} : mem.cases[c] = before.cases[c]
  BY <1>4 DEF SameButResults, Transition
<1>9. Restored(t).cases = before.cases
  BY <1>2, <1>7, <1>8
<1>10. SameButResults(Restored(t), before)
  BY <1>6, <1>9 DEF SameButResults
<1> QED
  BY <1>5, <1>10 DEF before

(* A call that raises before its entry is audited.                           *)
LEMMA RaiseAgrees ==
    ASSUME TypeInv, RecoveryInv, AgreeInv, NEW t \in Caller,
           pc[t] \in {"entered", "prepared", "begun"}, Raise(t), UNCHANGED <<audit, nextEvent>>,
           FileInv', Selected' = Selected \/ Selected' = call[t].before
    PROVE  AgreeInv'
<1>1. mem' = Restored(t) /\ pc' = [pc EXCEPT ![t] = "failed"] /\ call' = call
  BY DEF Raise, Goto
<1>2. pc'[t] = "failed" /\ \A u \in Caller \ {t} : pc'[u] = "idle"
  BY <1>1, OthersStayIdle
<1>3. Ledger' = Ledger
  BY LedgerKept
<1>4. SameButResults(mem', call[t].before) /\ Agrees(call[t].before, Ledger, Selected)
  BY <1>1, RestoredIsBefore
<1>5. Agrees(call'[t].before, Ledger', Selected') /\ SameButResults(mem', call'[t].before)
  BY <1>1, <1>3, <1>4, CoversItself DEF Agrees
<1>6. CallAgrees(t)'
  BY <1>2, <1>5 DEF CallAgrees, Unaudited
<1> QED
  BY <1>2, <1>6, OnlyAgrees

LEMMA EnterAgrees ==
    ASSUME Alone, TypeInv, RecoveryInv, AgreeInv, NEW t \in Caller, NEW c \in Case,
           NEW op \in Operation \ {"create"}, NEW decision, NEW action, NEW reserve,
           Enter(t, op, c, decision, action, reserve),
           op = "dispatch" => /\ decision = mem.cases[c].review.decision
                              /\ action = mem.cases[c].review.action
                              /\ ~reserve => mem.reserved[c] = action,
           op \in {"dismiss", "resolve"} => ~reserve
    PROVE  AgreeInv'
<1> DEFINE cl == [op |-> op, case |-> c, decision |-> decision, action |-> action,
                  reserve |-> reserve, before |-> mem, entry |-> None]
<1>1. /\ up /\ pc[t] = "idle" /\ Admitted(t, op)
      /\ op \in Locked => lock = None
      /\ pc' = [pc EXCEPT ![t] = "entered"] /\ call' = [call EXCEPT ![t] = cl]
      /\ UNCHANGED <<mem, store, audit, nextEvent>>
  BY DEF Enter, Goto
<1>2. Asked(cl) /\ cl.before = mem
  BY DEF Asked
<1> HIDE DEF cl
<1>3. \A u \in Caller : pc[u] = "idle"
  BY <1>1, BeginsAlone
<1>4. pc'[t] = "entered" /\ call'[t] = cl /\ \A u \in Caller \ {t} : pc'[u] = "idle"
  BY <1>1, <1>3 DEF TypeInv, TypeOK
<1>5. FileInv' /\ Ledger' = Ledger /\ Selected' = Selected
  BY <1>1, FileKept DEF AgreeInv
<1>6. Agrees(mem, Ledger, Selected)
  BY <1>1, <1>3 DEF AgreeInv
<1>7. Agrees(call'[t].before, Ledger', Selected') /\ SameButResults(mem', call'[t].before)
      /\ Asked(call'[t])
  BY <1>1, <1>2, <1>4, <1>5, <1>6 DEF SameButResults
<1>8. CallAgrees(t)'
  BY <1>4, <1>7 DEF CallAgrees, Unaudited
<1> QED
  BY <1>4, <1>5, <1>8, OnlyAgrees

(* What the state machine makes of a case is a transition of it.             *)
LEMMA PreparedTransition ==
    ASSUME TypeInv, AgreeInv, NEW t \in Caller, pc[t] = "entered",
           Accepts(call[t].op, mem.cases[call[t].case]),
           call[t].reserve => Cost[call[t].action] <= Available(call[t].case),
           NEW e, e = NewEntry(nextEvent, call[t].case, mem.cases[call[t].case].state,
                               Target[call[t].op],
                               Moved(call[t], mem.cases[call[t].case]).review)
    PROVE  Transition(call[t].before, Prepared(call[t], mem.cases[call[t].case]), call[t].case, e)
<1> DEFINE cl == call[t]
           c0 == call[t].case
           ctx == mem.cases[call[t].case]
           after == Prepared(cl, ctx)
           before == call[t].before
<1>1. /\ pc[t] \in Trying /\ cl \in Call /\ c0 \in Case /\ ctx \in Context
      /\ cl.op \in Operation \ {"create"}
  BY TryingTyped DEF Trying
<1>2. Moved(cl, ctx) \in Context
  BY <1>1, MovedTyped
<1>3. after.cases = [mem.cases EXCEPT ![c0] = Moved(cl, ctx)]
  BY <1>1, PreparedTyped
<1>4. after.reserved = [mem.reserved EXCEPT ![c0] = IF ~cl.reserve THEN @
                           ELSE IF cl.decision = "APPROVED" THEN cl.action ELSE None]
  BY DEF Prepared
<1>5. /\ Moved(cl, ctx).state = Target[cl.op]
      /\ cl.op # "review" => Moved(cl, ctx).review = ctx.review
  BY DEF Moved
<1>6. e = NewEntry(nextEvent, c0, ctx.state, Target[cl.op], Moved(cl, ctx).review)
  OBVIOUS
<1>7. ctx.state \in Source[cl.op]
      /\ (cl.op = "dispatch" => ctx.review.decision # "REJECTED" /\ ctx.review.action # Abstain)
  BY DEF Accepts
<1>8. Asked(cl) /\ SameButResults(mem, before)
  BY DEF AgreeInv, CallAgrees
<1> HIDE DEF cl, c0, ctx, after
<1>9. mem.cases \in [Case -> Context \union {None}] /\ mem.reserved \in [Case -> Action \union {None}]
  BY <1>1 DEF TypeInv, TypeOK, State
<1>10. /\ after.cases[c0] = Moved(cl, ctx)
       /\ after.reserved[c0] = IF ~cl.reserve THEN mem.reserved[c0]
                               ELSE IF cl.decision = "APPROVED" THEN cl.action ELSE None
       /\ \A d \in Case \ {c0} : after.cases[d] = mem.cases[d] /\ after.reserved[d] = mem.reserved[d]
  BY <1>1, <1>3, <1>4, <1>9
<1>11. before.cases = mem.cases /\ before.reserved = mem.reserved /\ before.cases[c0] = ctx
  BY <1>8 DEF SameButResults, ctx, c0
<1>12. /\ cl.op = "review" => ctx.state = "RECOMMENDED" /\ Target[cl.op] = "HUMAN_REVIEWED"
       /\ cl.op = "dispatch" => ctx.state = "HUMAN_REVIEWED" /\ Target[cl.op] = "EXECUTED"
       /\ cl.op = "dismiss" => ctx.state = "HUMAN_REVIEWED" /\ Target[cl.op] = "DISMISSED"
       /\ cl.op = "resolve" => ctx.state \in {"EXECUTED", "DISMISSED"} /\ Target[cl.op] = "RESOLVED"
       /\ cl.op \in {"review", "dispatch", "dismiss", "resolve"}
  BY <1>1, <1>7 DEF Source, Target, Operation
<1>13. <<ctx.state, Target[cl.op]>> \in VALID_TRANSITIONS /\ Target[cl.op] \in Reviewed
       /\ Target[cl.op] # "RECOMMENDED"
  BY <1>12 DEF VALID_TRANSITIONS, Reviewed
<1>14. Moved(cl, ctx).review \in Review /\ Moved(cl, ctx).review # None /\ ctx # None
       /\ Moved(cl, ctx) # None
  BY <1>1, <1>2, <1>5, <1>13, NoneAssumption DEF Context
<1>15. e.case = c0 /\ e.to = Target[cl.op] /\ e.action = Moved(cl, ctx).review.action
  BY <1>6, <1>14 DEF NewEntry
<1>16. cl.op = "dispatch" => /\ Moved(cl, ctx).review.action # Abstain
                             /\ after.reserved[c0] = Moved(cl, ctx).review.action
  <2> SUFFICES ASSUME cl.op = "dispatch"
               PROVE  /\ Moved(cl, ctx).review.action # Abstain
                      /\ after.reserved[c0] = Moved(cl, ctx).review.action
    OBVIOUS
  <2>1. Moved(cl, ctx).review = ctx.review /\ ctx.review.action # Abstain
        /\ ctx.review.decision # "REJECTED"
    BY <1>5, <1>7
  <2>2. /\ cl.decision = ctx.review.decision /\ cl.action = ctx.review.action
        /\ ~cl.reserve => mem.reserved[c0] = cl.action
    BY <1>8, <1>11 DEF Asked, cl, c0, before
  <2>3. ctx.review.decision = "APPROVED"
    <3>1. ctx.review \in Review
      BY <1>14, <2>1
    <3> QED
      BY <2>1, <3>1 DEF Review, Decision
  <2> QED
    BY <1>10, <2>1, <2>2, <2>3
<1>17. cl.op \in {"dismiss", "resolve"} => after.reserved[c0] = before.reserved[c0]
  BY <1>8, <1>10, <1>11 DEF Asked
<1> HIDE DEF before
<1>18. Transition(before, after, c0, e)
  <2>1. /\ e.case = c0 /\ before.cases[c0] # None /\ after.cases[c0] # None
        /\ <<before.cases[c0].state, e.to>> \in VALID_TRANSITIONS
        /\ e.to \in Reviewed
        /\ after.cases[c0].state = e.to /\ after.cases[c0].review # None
    BY <1>5, <1>10, <1>11, <1>13, <1>14, <1>15
  <2>2. \A d \in Case \ {c0} : after.cases[d] = before.cases[d] /\ after.reserved[d] = before.reserved[d]
    BY <1>10, <1>11
  <2>3. IF e.to = "HUMAN_REVIEWED" THEN after.cases[c0].review.action = e.action
        ELSE after.cases[c0].review = before.cases[c0].review
    BY <1>5, <1>10, <1>11, <1>12, <1>15
  <2>4. e.to = "EXECUTED" => /\ after.cases[c0].review.action # Abstain
                             /\ after.reserved[c0] = after.cases[c0].review.action
    BY <1>10, <1>12, <1>15, <1>16
  <2>5. e.to \in {"DISMISSED", "RESOLVED"} => after.reserved[c0] = before.reserved[c0]
    BY <1>12, <1>15, <1>17
  <2> QED
    BY <2>1, <2>2, <2>3, <2>4, <2>5 DEF Transition
<1> QED
  BY <1>18 DEF before, after, c0, cl, ctx

LEMMA PrepareAgrees ==
    ASSUME TypeInv, RecoveryInv, AgreeInv, NEW t \in Caller, Prepare(t)
    PROVE  AgreeInv'
<1> DEFINE cl == call[t]
           ctx == mem.cases[call[t].case]
           fits == cl.reserve => Cost[cl.action] <= Available(cl.case)
<1>1. pc[t] = "entered" /\ pc[t] # "idle" /\ pc[t] \in Trying /\ UNCHANGED <<store, audit>>
  BY DEF Prepare, Trying
<1>2. Ledger' = Ledger /\ EventIds(audit)' = EventIds(audit) /\ Selected' = Selected
  BY <1>1, LedgerKept
<1>3. FileInv /\ nextEvent \in Nat
  BY DEF AgreeInv, TypeInv, TypeOK, Event
<1>4. CASE Accepts(cl.op, ctx) /\ fits
  <2> DEFINE entry == NewEntry(nextEvent, cl.case, ctx.state, Target[cl.op],
                               Moved(cl, ctx).review)
  <2>1. /\ mem' = Prepared(cl, ctx) /\ nextEvent' = nextEvent + 1
        /\ call' = [call EXCEPT ![t].entry = entry]
        /\ pc' = [pc EXCEPT ![t] = "prepared"]
    BY <1>4 DEF Prepare, Goto
  <2>2. Transition(cl.before, Prepared(cl, ctx), cl.case, entry)
    BY <1>1, <1>4, PreparedTransition
  <2>3. entry.event = nextEvent
    BY DEF NewEntry
  <2>4. cl \in Call /\ call \in [Caller -> Call \union Creation \union {None}]
    BY <1>1, TryingTyped DEF TypeInv, TypeOK
  <2> HIDE DEF entry
  <2>5. call'[t].before = cl.before /\ call'[t].case = cl.case /\ call'[t].entry = entry
    <3>1. call'[t] = [cl EXCEPT !.entry = entry]
      BY <2>1, <2>4
    <3>2. /\ [cl EXCEPT !.entry = entry].before = cl.before
          /\ [cl EXCEPT !.entry = entry].case = cl.case
          /\ [cl EXCEPT !.entry = entry].entry = entry
      BY <2>4 DEF Call
    <3> HIDE DEF cl
    <3> QED
      BY <3>1, <3>2
  <2>6. pc'[t] = "prepared" /\ \A u \in Caller \ {t} : pc'[u] = "idle"
    BY <1>1, <2>1, OthersStayIdle
  <2>7. Agrees(cl.before, Ledger, Selected)
    BY <1>1 DEF AgreeInv, CallAgrees
  <2> HIDE DEF cl, ctx
  <2>8. EventIds(audit) \subseteq Nat
    BY EventsTyped
  <2>9. /\ \A e \in EventIds(audit) : e < nextEvent /\ e < nextEvent + 1
        /\ nextEvent \notin EventIds(audit) /\ nextEvent < nextEvent + 1
    BY <1>3, <2>8 DEF FileInv
  <2>10. FileInv'
    <3>1. store # None /\ store.pending # None => store.pending.event < nextEvent + 1
      BY <1>3, EventsTyped DEF FileInv
    <3> QED
      BY <1>1, <1>2, <1>3, <2>1, <2>9, <3>1 DEF FileInv
  <2>11. CallAgrees(t)'
    <3>1. /\ Agrees(call'[t].before, Ledger', Selected')
          /\ Transition(call'[t].before, mem', call'[t].case, call'[t].entry)
          /\ call'[t].entry.event < nextEvent' /\ call'[t].entry.event \notin EventIds(audit)'
      BY <1>2, <2>1, <2>2, <2>3, <2>5, <2>7, <2>9
    <3> QED
      BY <2>6, <3>1 DEF CallAgrees
  <2> QED
    BY <2>6, <2>10, <2>11, OnlyAgrees
<1>5. CASE ~(Accepts(cl.op, ctx) /\ fits)
  <2>1. Raise(t) /\ UNCHANGED nextEvent
    BY <1>5 DEF Prepare
  <2>2. FileInv'
    BY <1>1, <1>3, <2>1, FileKept
  <2> QED
    BY <1>1, <1>2, <2>1, <2>2, RaiseAgrees
<1> QED
  BY <1>4, <1>5

(***************************************************************************)
(* The initial state and the steps of a call that begins.                  *)
(***************************************************************************)

LEMMA InitAgrees == Init => AgreeInv
<1> SUFFICES ASSUME Init
             PROVE  AgreeInv
  OBVIOUS
<1>1. /\ mem = SeedState /\ audit = SeedAudit /\ nextEvent = Len(SeedAudit) + 1
      /\ store = IF Known = <<>> THEN None ELSE [committed |-> SeedState, pending |-> None]
      /\ \A t \in Caller : pc[t] = "idle"
  BY DEF Init
<1>2. \A c \in Case : SeedState.cases[c] =
          IF \E k \in DOMAIN SeedAudit : SeedAudit[k].case = c
          THEN NewContext({k \in DOMAIN SeedAudit : SeedAudit[k].case = c}) ELSE None
  BY DEF SeedState, EmptyState
<1>3. \A c \in Case : SeedState.cases[c] # None =>
          SeedState.cases[c].state = Ledger.status[c] /\ SeedState.cases[c].review = None
  <2> SUFFICES ASSUME NEW c \in Case, SeedState.cases[c] # None
               PROVE  SeedState.cases[c].state = Ledger.status[c] /\ SeedState.cases[c].review = None
    OBVIOUS
  <2>1. \E k \in DOMAIN SeedAudit : SeedAudit[k].case = c
    BY <1>2
  <2>2. SeedState.cases[c] = NewContext({k \in DOMAIN SeedAudit : SeedAudit[k].case = c})
    BY <1>2, <2>1
  <2>3. Ledger.status[c] = "RECOMMENDED"
    BY <1>1, <2>1, SeedLedger
  <2> QED
    BY <2>2, <2>3 DEF NewContext
<1>4. Ledger.executed = {} /\ \A c \in Case : Ledger.status[c] \notin Reviewed
  BY <1>1, SeedLedger DEF Reviewed
<1>5. Faithful(SeedState, Ledger)
  BY <1>3, <1>4 DEF Faithful
<1>6. Selected = SeedState
  <2>1. CASE Known = <<>>
    <3>1. DOMAIN SeedAudit = {}
      BY <2>1 DEF SeedAudit
    <3>2. SeedState = [EmptyState EXCEPT !.cases = [c \in Case |-> None]]
      BY <3>1 DEF SeedState
    <3>3. SeedState = EmptyState
      BY <3>2 DEF EmptyState
    <3> QED
      BY <1>1, <2>1, <3>3 DEF Selected
  <2>2. CASE Known # <<>>
    <3>1. store = [committed |-> SeedState, pending |-> None] /\ store # None
      BY <1>1, <2>2, SeedTyped, NoneAssumption DEF Store
    <3> QED
      BY <3>1 DEF Selected
  <2> QED
    BY <2>1, <2>2
<1>7. FileInv
  <2>1. \A e \in EventIds(audit) : e < nextEvent
    <3>1. DOMAIN SeedAudit = 1 .. Len(SeedAudit) /\ Len(SeedAudit) \in Nat
      BY SeedTyped
    <3>2. \A k \in DOMAIN SeedAudit : SeedAudit[k].event = k
      BY DEF SeedAudit, SeedEntry, NewEntry
    <3>3. \A k \in 1 .. Len(SeedAudit) : k < Len(SeedAudit) + 1
      BY <3>1
    <3> QED
      BY <1>1, <3>1, <3>2, <3>3 DEF EventIds
  <2>2. store # None => store.pending = None
    BY <1>1
  <2>3. Sound(Ledger)
    BY <1>4 DEF Sound
  <2> QED
    BY <1>5, <1>6, <2>1, <2>2, <2>3 DEF FileInv
<1>8. Agrees(mem, Ledger, Selected)
  BY <1>1, <1>5, <1>6, CoversItself DEF Agrees
<1>9. \A t \in Caller : CallAgrees(t)
  BY <1>1 DEF CallAgrees, Trying, Unaudited
<1> QED
  BY <1>7, <1>8, <1>9 DEF AgreeInv

LEMMA CreateAgrees ==
    ASSUME Alone, TypeInv, RecoveryInv, AgreeInv, NEW t \in Caller, NEW c \in Case,
           CreateCase(t, c)
    PROVE  AgreeInv'
<1> DEFINE cl == [op |-> "create", case |-> c, made |-> <<>>]
<1>1. /\ up /\ pc[t] = "idle" /\ Admitted(t, "create") /\ mem.cases[c] = None
      /\ pc' = [pc EXCEPT ![t] = "creating"] /\ call' = [call EXCEPT ![t] = cl]
      /\ UNCHANGED <<mem, store, audit, nextEvent>>
  BY DEF CreateCase, Goto
<1>2. \A u \in Caller : pc[u] = "idle"
  BY <1>1, BeginsAlone DEF Locked
<1>3. pc'[t] = "creating" /\ call'[t] = cl /\ \A u \in Caller \ {t} : pc'[u] = "idle"
  BY <1>1, <1>2 DEF TypeInv, TypeOK
<1>4. FileInv' /\ Ledger' = Ledger /\ Selected' = Selected
  BY <1>1, FileKept DEF AgreeInv
<1>5. Agrees(mem', Ledger', Selected')
  BY <1>1, <1>2, <1>4 DEF AgreeInv
<1>6. call'[t].case = c /\ Len(call'[t].made) = 0 /\ Len(Intake) = 4
  BY <1>3, IntakeTyped
<1>7. CallAgrees(t)'
  BY <1>1, <1>3, <1>5, <1>6 DEF CallAgrees, Trying, Unaudited
<1> QED
  BY <1>3, <1>4, <1>7, OnlyAgrees

(***************************************************************************)
(* The steps of the try block.                                             *)
(***************************************************************************)

(* A pending transition is written whose event is not audited.               *)
LEMMA PendingWritten ==
    ASSUME TypeInv, AgreeInv, NEW t \in Caller, pc[t] \in Unaudited,
           store' = PendingStore(t), UNCHANGED <<audit, nextEvent>>
    PROVE  FileInv' /\ Ledger' = Ledger /\ Selected' = call[t].before
<1> DEFINE cl == call[t]
<1>1. /\ pc[t] \in Trying \ {"audited", "entered", "failed"} /\ pc[t] \in {"prepared", "begun"}
      /\ FileInv
  BY DEF Trying, Unaudited, AgreeInv
<1>2. /\ Agrees(cl.before, Ledger, Selected)
      /\ cl.entry.event < nextEvent /\ cl.entry.event \notin EventIds(audit)
  BY <1>1 DEF AgreeInv, CallAgrees
<1>3. store' = [committed |-> cl.before, pending |-> [event |-> cl.entry.event, target |-> mem]]
  BY DEF PendingStore
<1>4. store' \in Store /\ cl.entry \in Entry /\ mem \in State
  BY <1>1, PendingTyped DEF TypeInv, TypeOK
<1>5. [event |-> cl.entry.event, target |-> mem] \in Pending
  BY <1>4 DEF Pending, Entry
<1> HIDE DEF cl
<1>6. store' # None /\ store'.pending # None /\ store'.pending.event = cl.entry.event
  BY <1>3, <1>4, <1>5, NoneAssumption
<1>7. Ledger' = Ledger /\ EventIds(audit)' = EventIds(audit)
  BY LedgerKept
<1>8. Selected' = cl.before
  BY <1>2, <1>3, <1>6, <1>7 DEF Selected
<1>9. FileInv'
  BY <1>1, <1>2, <1>6, <1>7, <1>8 DEF FileInv, Agrees
<1> QED
  BY <1>7, <1>8, <1>9 DEF cl

LEMMA BeginAgrees ==
    ASSUME TypeInv, RecoveryInv, AgreeInv, NEW t \in Caller, BeginPending(t)
    PROVE  AgreeInv'
<1>1. /\ pc[t] = "prepared" /\ pc[t] # "idle" /\ pc[t] \in Unaudited
      /\ pc[t] \in Trying \ {"audited"}
      /\ store' = PendingStore(t) /\ pc' = [pc EXCEPT ![t] = "begun"]
      /\ UNCHANGED <<mem, audit, call, nextEvent>>
  BY DEF BeginPending, Goto, Unaudited, Trying
<1>2. FileInv' /\ Ledger' = Ledger /\ Selected' = call[t].before
  BY <1>1, PendingWritten
<1>3. pc'[t] = "begun" /\ \A u \in Caller \ {t} : pc'[u] = "idle"
  BY <1>1, OthersStayIdle
<1>4. /\ Agrees(call[t].before, Ledger, Selected)
      /\ Transition(call[t].before, mem, call[t].case, call[t].entry)
      /\ call[t].entry.event < nextEvent /\ call[t].entry.event \notin EventIds(audit)
  BY <1>1 DEF AgreeInv, CallAgrees
<1>5. Agrees(call[t].before, Ledger', Selected')
  BY <1>2, <1>4, CoversItself DEF Agrees
<1>6. store' = PendingStore(t)'
  BY <1>1 DEF PendingStore
<1>7. EventIds(audit)' = EventIds(audit)
  BY <1>1 DEF EventIds
<1>8. CallAgrees(t)'
  BY <1>1, <1>3, <1>4, <1>5, <1>6, <1>7 DEF CallAgrees
<1> QED
  BY <1>2, <1>3, <1>8, OnlyAgrees

LEMMA BeginFailsAgrees ==
    ASSUME TypeInv, RecoveryInv, AgreeInv, NEW t \in Caller, NEW replaced \in BOOLEAN,
           BeginFails(t, replaced)
    PROVE  AgreeInv'
<1>1. /\ pc[t] \in {"entered", "prepared", "begun"} /\ pc[t] \in Unaudited
      /\ store' = IF replaced THEN PendingStore(t) ELSE store
      /\ Raise(t) /\ UNCHANGED <<audit, nextEvent>>
  BY DEF BeginFails, Unaudited
<1>2. FileInv' /\ (Selected' = Selected \/ Selected' = call[t].before)
  BY <1>1, PendingWritten, FileKept DEF AgreeInv
<1> QED
  BY <1>1, <1>2, RaiseAgrees

LEMMA AppendAgrees ==
    ASSUME TypeInv, RecoveryInv, AgreeInv, NEW t \in Caller, AppendAudit(t)
    PROVE  AgreeInv' /\ Ledger' = After(Ledger, call[t].entry)
           /\ Transition(call[t].before, mem, call[t].case, call[t].entry)
           /\ Faithful(call[t].before, Ledger)
<1> DEFINE e == call[t].entry
           before == call[t].before
           c0 == call[t].case
<1>1. /\ pc[t] = "begun" /\ pc[t] # "idle" /\ audit' = Append(audit, e)
      /\ pc' = [pc EXCEPT ![t] = "audited"]
      /\ UNCHANGED <<mem, store, call, nextEvent>>
  BY DEF AppendAudit, Goto
<1>2. /\ pc[t] \in Trying \ {"entered", "failed"} /\ pc[t] \in Trying \ {"audited"}
      /\ pc[t] \in Unaudited
  BY <1>1 DEF Trying, Unaudited
<1>3. e \in Entry /\ audit \in Seq(Entry) /\ c0 \in Case
  BY <1>2, TryingTyped DEF TypeInv, TypeOK
<1>4. /\ Agrees(before, Ledger, Selected) /\ Transition(before, mem, c0, e)
      /\ e.event < nextEvent /\ store = PendingStore(t) /\ FileInv
  BY <1>1, <1>2 DEF AgreeInv, CallAgrees
<1>5. store = [committed |-> before, pending |-> [event |-> e.event, target |-> mem]]
  BY <1>4 DEF PendingStore
<1>6. /\ store # None /\ store.pending # None /\ store.pending.event = e.event
      /\ store.pending.target = mem
  <2>1. store \in Store
    BY <1>1, <1>4, PendingTyped
  <2>2. [event |-> e.event, target |-> mem] \in Pending
    BY <1>3 DEF Pending, Entry, TypeInv, TypeOK
  <2> HIDE DEF e, before
  <2> QED
    BY <1>5, <2>1, <2>2, NoneAssumption
<1> HIDE DEF e, before, c0
<1>7. EventIds(audit') = EventIds(audit) \union {e.event}
  BY <1>1, <1>3, LedgerGrows
<1>8. Selected' = mem
  BY <1>1, <1>6, <1>7 DEF Selected
<1>9. Ledger' = After(Ledger, e)
  BY <1>1, <1>3, LedgerMoves
<1>10. Sound(Ledger') /\ Faithful(mem, Ledger')
  BY <1>3, <1>4, <1>9, LedgerTyped, TransitionAudited DEF FileInv, Agrees
<1>11. FileInv'
  BY <1>1, <1>4, <1>6, <1>7, <1>8, <1>10 DEF FileInv
<1>12. Agrees(mem', Ledger', Selected')
  BY <1>1, <1>8, <1>10, CoversItself DEF Agrees
<1>13. pc'[t] = "audited" /\ \A u \in Caller \ {t} : pc'[u] = "idle"
  BY <1>1, OthersStayIdle
<1>14. CallAgrees(t)'
  BY <1>12, <1>13 DEF CallAgrees, Unaudited
<1>15. AgreeInv'
  BY <1>11, <1>13, <1>14, OnlyAgrees
<1> QED
  BY <1>4, <1>9, <1>15 DEF e, before, c0, Agrees

(* An append that raises leaves the ledger as it was, but for the fault that *)
(* raises after the entry is committed.                                      *)
LEMMA AppendFailsAgrees ==
    ASSUME "append-committed" \notin Faults, TypeInv, RecoveryInv, AgreeInv, NEW t \in Caller,
           AppendFails(t)
    PROVE  AgreeInv'
<1>1. /\ pc[t] \in {"entered", "prepared", "begun"} /\ Raise(t)
      /\ UNCHANGED <<audit, store, nextEvent>>
  BY DEF AppendFails, Fault
<1>2. FileInv' /\ Selected' = Selected
  BY <1>1, FileKept DEF AgreeInv
<1> QED
  BY <1>1, <1>2, RaiseAgrees

LEMMA CommitAgrees ==
    ASSUME TypeInv, RecoveryInv, AgreeInv, NEW t \in Caller, Commit(t)
    PROVE  AgreeInv'
<1>1. /\ pc[t] = "audited" /\ pc[t] # "idle" /\ Leave(t)
      /\ store' = [committed |-> mem, pending |-> None]
      /\ UNCHANGED <<mem, audit, nextEvent>>
  BY DEF Commit
<1>2. Agrees(mem, Ledger, Selected) /\ FileInv /\ mem \in State
  BY <1>1 DEF AgreeInv, CallAgrees, TypeInv, TypeOK
<1>3. FileInv' /\ Ledger' = Ledger /\ Selected' = mem
  BY <1>1, <1>2, FileCommitted DEF Agrees
<1>4. Agrees(mem', Ledger', Selected')
  BY <1>1, <1>2, <1>3, CoversItself DEF Agrees
<1> QED
  BY <1>1, <1>3, <1>4, LeaveAgrees

LEMMA RollbackAgrees ==
    ASSUME TypeInv, RecoveryInv, AgreeInv, NEW t \in Caller, Rollback(t) \/ RollbackFails(t)
    PROVE  AgreeInv'
<1> DEFINE before == call[t].before
<1>1. /\ pc[t] = "failed" /\ pc[t] # "idle" /\ Leave(t) /\ UNCHANGED <<mem, audit, nextEvent>>
      /\ store' = [committed |-> before, pending |-> None] \/ UNCHANGED store
  BY DEF Rollback, RollbackFails
<1>2. pc[t] \in Trying /\ pc[t] \in Trying \ {"audited"}
  BY <1>1 DEF Trying
<1>3. Agrees(before, Ledger, Selected) /\ SameButResults(mem, before) /\ FileInv
  BY <1>1, <1>2 DEF AgreeInv, CallAgrees
<1>4. before \in State
  BY <1>2, TryingTyped
<1> HIDE DEF before
<1>5. Agrees(mem, Ledger, Selected) /\ Agrees(mem, Ledger, before)
  BY <1>3, SameAgrees DEF Agrees
<1>6. FileInv' /\ Ledger' = Ledger /\ (Selected' = Selected \/ Selected' = before)
  BY <1>1, <1>3, <1>4, FileKept, FileCommitted DEF Agrees
<1>7. Agrees(mem', Ledger', Selected')
  BY <1>1, <1>5, <1>6
<1> QED
  BY <1>1, <1>6, <1>7, LeaveAgrees

(***************************************************************************)
(* The steps of create_case, a crash and a restart.                        *)
(***************************************************************************)

LEMMA AppendIntakeAgrees ==
    ASSUME TypeInv, RecoveryInv, AgreeInv, NEW t \in Caller, AppendIntake(t)
    PROVE  /\ AgreeInv' /\ Ledger' = After(Ledger, IntakeEntry(t))
           /\ Ledger.status[call[t].case] \notin Reviewed
           /\ Len(call[t].made) \in Nat /\ Len(call[t].made) < Len(Intake)
           /\ Len(call[t].made) > 0 => Ledger.status[call[t].case] = Intake[Len(call[t].made)]
<1> DEFINE e == IntakeEntry(t)
           c0 == call[t].case
           made == call[t].made
<1>1. /\ pc[t] = "creating" /\ pc[t] # "idle" /\ Len(made) < Len(Intake)
      /\ audit' = Append(audit, e) /\ nextEvent' = nextEvent + 1
      /\ call' = [call EXCEPT ![t].made = Append(@, nextEvent)]
      /\ UNCHANGED <<mem, store, pc>>
  BY DEF AppendIntake
<1>2. /\ call[t] \in Creation /\ c0 \in Case /\ made \in Seq(Event)
      /\ e \in Entry /\ e.event = nextEvent
  BY <1>1, CreationTyped, IntakeEntryTyped
<1>3. /\ audit \in Seq(Entry) /\ nextEvent \in Nat /\ nextEvent \in Event
      /\ call \in [Caller -> Call \union Creation \union {None}]
  BY DEF TypeInv, TypeOK, Event
<1>4. e.case = c0 /\ e.to = Intake[Len(made) + 1]
  BY DEF IntakeEntry, NewEntry
<1>5. Len(Intake) = 4 /\ Len(made) \in Nat /\ Len(made) + 1 \in 1 .. 4
  <2>1. Len(Intake) = 4
    BY DEF Intake
  <2>2. Len(made) \in Nat
    BY <1>2
  <2>3. Len(made) < 4
    BY <1>1, <2>1
  <2> HIDE DEF made
  <2> QED
    BY <2>1, <2>2, <2>3
<1>6. e.to \in {"CREATED", "TRIAGED", "EVIDENCE_ASSEMBLED", "RECOMMENDED"}
  <2>1. \A k \in 1 .. 4 : k = 1 \/ k = 2 \/ k = 3 \/ k = 4
    OBVIOUS
  <2> QED
    BY <1>4, <1>5, <2>1 DEF Intake
<1>7. call'[t].case = c0 /\ call'[t].made = Append(made, nextEvent)
  <2>1. call'[t] = [call[t] EXCEPT !.made = Append(made, nextEvent)]
    BY <1>1, <1>3
  <2> QED
    BY <1>2, <2>1 DEF Creation
<1>8. Len(call'[t].made) = Len(made) + 1
  BY <1>2, <1>3, <1>7
<1>9. /\ Agrees(mem, Ledger, Selected) /\ mem.cases[c0] = None /\ FileInv
      /\ Len(made) > 0 => Ledger.status[c0] = Intake[Len(made)]
  BY <1>1 DEF AgreeInv, CallAgrees
<1> HIDE DEF e, c0, made
<1>10. Selected.cases[c0] = None
  BY <1>2, <1>9 DEF Agrees, Covers
<1>11. Ledger' = After(Ledger, e)
  BY <1>1, <1>2, <1>3, LedgerMoves
<1>12. /\ Sound(Ledger') /\ Faithful(mem, Ledger') /\ Faithful(Selected, Ledger')
       /\ Ledger'.status = [Ledger.status EXCEPT ![c0] = e.to]
  BY <1>2, <1>3, <1>4, <1>6, <1>9, <1>10, <1>11, LedgerTyped, IntakeAudited DEF Agrees, FileInv
<1>13. EventIds(audit') = EventIds(audit) \union {nextEvent}
  BY <1>1, <1>2, <1>3, LedgerGrows
<1>14. store # None /\ store.pending # None =>
           store.pending.event < nextEvent /\ store.pending.event \in Nat
  BY <1>9, EventsTyped DEF FileInv
<1>15. Selected' = Selected
  BY <1>1, <1>3, <1>13, <1>14 DEF Selected
<1>16. FileInv'
  <2>1. EventIds(audit) \subseteq Nat
    BY EventsTyped
  <2>2. \A k \in EventIds(audit) : k < nextEvent + 1
    BY <1>3, <1>9, <2>1 DEF FileInv
  <2>3. \A k \in EventIds(audit') : k < nextEvent'
    BY <1>1, <1>3, <1>13, <2>2
  <2>4. store # None /\ store.pending # None => store.pending.event < nextEvent + 1
    BY <1>3, <1>14
  <2> QED
    BY <1>1, <1>12, <1>15, <2>3, <2>4 DEF FileInv
<1>17. Agrees(mem', Ledger', Selected')
  BY <1>1, <1>9, <1>12, <1>15 DEF Agrees
<1>18. pc'[t] = "creating" /\ \A u \in Caller \ {t} : pc'[u] = "idle"
  BY <1>1, OthersIdle
<1>19. Ledger.status \in [Case -> CaseState]
  BY <1>3, LedgerTyped
<1>20. Ledger'.status[c0] = Intake[Len(made) + 1]
  BY <1>2, <1>4, <1>12, <1>19
<1>21. CallAgrees(t)'
  <2>1. /\ mem'.cases[call'[t].case] = None
        /\ Len(call'[t].made) <= Len(Intake)
        /\ Ledger'.status[call'[t].case] = Intake[Len(call'[t].made)]
    <3>1. mem'.cases[call'[t].case] = None
      BY <1>1, <1>7, <1>9
    <3>2. Len(call'[t].made) <= Len(Intake)
      BY <1>5, <1>8
    <3>3. Ledger'.status[call'[t].case] = Intake[Len(call'[t].made)]
      BY <1>7, <1>8, <1>20
    <3> QED
      BY <3>1, <3>2, <3>3
  <2> QED
    BY <1>17, <1>18, <2>1 DEF CallAgrees, Trying, Unaudited
<1>22. AgreeInv'
  BY <1>16, <1>18, <1>21, OnlyAgrees
<1>23. Ledger.status[c0] \notin Reviewed
  BY <1>2, <1>9 DEF Agrees, Faithful
<1> QED
  BY <1>1, <1>5, <1>9, <1>11, <1>22, <1>23 DEF e, c0, made

LEMMA AppendIntakeFailsAgrees ==
    ASSUME "append-committed" \notin Faults, TypeInv, RecoveryInv, AgreeInv, NEW t \in Caller,
           AppendIntakeFails(t)
    PROVE  AgreeInv'
<1>1. /\ pc[t] = "creating" /\ pc[t] # "idle" /\ Leave(t)
      /\ UNCHANGED <<mem, audit, store, nextEvent>>
  BY DEF AppendIntakeFails, Fault
<1>2. Agrees(mem, Ledger, Selected) /\ FileInv
  BY <1>1 DEF AgreeInv, CallAgrees
<1>3. FileInv' /\ Ledger' = Ledger /\ Selected' = Selected
  BY <1>1, <1>2, FileKept
<1>4. Agrees(mem', Ledger', Selected')
  BY <1>1, <1>2, <1>3
<1> QED
  BY <1>1, <1>3, <1>4, LeaveAgrees

LEMMA RegisterAgrees ==
    ASSUME TypeInv, RecoveryInv, AgreeInv, NEW t \in Caller, RegisterCase(t)
    PROVE  AgreeInv'
<1> DEFINE c0 == call[t].case
           ctx == NewContext(Range(call[t].made))
<1>1. /\ pc[t] = "creating" /\ pc[t] # "idle" /\ Len(call[t].made) = Len(Intake)
      /\ mem' = [mem EXCEPT !.cases[c0] = ctx]
      /\ pc' = [pc EXCEPT ![t] = "registered"]
      /\ UNCHANGED <<store, audit, call, nextEvent>>
  BY DEF RegisterCase, Goto
<1>2. c0 \in Case /\ mem \in State
  BY <1>1, CreationTyped DEF TypeInv, TypeOK
<1>3. /\ Agrees(mem, Ledger, Selected) /\ mem.cases[c0] = None /\ FileInv
      /\ Ledger.status[c0] = "RECOMMENDED"
  <2>1. Len(Intake) = 4 /\ Intake[4] = "RECOMMENDED"
    BY DEF Intake
  <2>2. CallAgrees(t) /\ FileInv
    BY DEF AgreeInv
  <2>3. Agrees(mem, Ledger, Selected) /\ mem.cases[c0] = None
    BY <1>1, <2>2 DEF CallAgrees
  <2>4. Len(call[t].made) > 0 => Ledger.status[c0] = Intake[Len(call[t].made)]
    BY <1>1, <2>2 DEF CallAgrees
  <2>5. Ledger.status[c0] = "RECOMMENDED"
    <3> HIDE DEF c0
    <3> QED
      BY <1>1, <2>1, <2>4
  <2> QED
    BY <2>2, <2>3, <2>5
<1>4. ctx.state = "RECOMMENDED" /\ ctx.review = None
  BY DEF NewContext
<1> HIDE DEF c0, ctx
<1>5. /\ mem'.cases = [mem.cases EXCEPT ![c0] = ctx]
      /\ mem'.reserved = mem.reserved /\ mem'.remaining = mem.remaining
      /\ mem.cases \in [Case -> Context \union {None}]
  BY <1>1, <1>2 DEF State
<1>6. mem'.cases[c0] = ctx /\ \A c \in Case \ {c0} : mem'.cases[c] = mem.cases[c]
  BY <1>2, <1>5
<1>7. FileInv' /\ Ledger' = Ledger /\ Selected' = Selected
  BY <1>1, <1>3, FileKept
<1>8. Selected.cases[c0] = None
  BY <1>2, <1>3 DEF Agrees, Covers
<1>9. Faithful(mem', Ledger)
  <2> SUFFICES ASSUME NEW c \in Case
               PROVE  /\ mem'.cases[c] # None => mem'.cases[c].state = Ledger.status[c]
                      /\ mem'.cases[c] # None /\ mem'.cases[c].review # None =>
                             mem'.cases[c].review.action = Ledger.approved[c]
                      /\ Ledger.status[c] \in Reviewed => mem'.cases[c] # None
                      /\ c \in Ledger.executed => mem'.reserved[c] = Ledger.approved[c]
    BY DEF Faithful
  <2>1. CASE c = c0
    BY <1>3, <1>4, <1>5, <1>6, <2>1 DEF Agrees, Faithful, Reviewed
  <2>2. CASE c # c0
    BY <1>3, <1>5, <1>6, <2>2 DEF Agrees, Faithful
  <2> QED
    BY <2>1, <2>2
<1>10. Covers(mem', Selected)
  BY <1>3, <1>5, <1>6, <1>8 DEF Agrees, Covers
<1>11. Agrees(mem', Ledger', Selected')
  BY <1>7, <1>9, <1>10 DEF Agrees
<1>12. pc'[t] = "registered" /\ \A u \in Caller \ {t} : pc'[u] = "idle"
  BY <1>1, OthersStayIdle
<1>13. CallAgrees(t)'
  BY <1>11, <1>12 DEF CallAgrees, Trying, Unaudited
<1> QED
  BY <1>7, <1>12, <1>13, OnlyAgrees

LEMMA PersistAgrees ==
    ASSUME TypeInv, RecoveryInv, AgreeInv, NEW t \in Caller,
           PersistCase(t) \/ \E replaced \in BOOLEAN : PersistCaseFails(t, replaced)
    PROVE  AgreeInv'
<1>1. /\ pc[t] = "registered" /\ pc[t] # "idle" /\ Leave(t) /\ UNCHANGED <<mem, audit, nextEvent>>
      /\ store' = [committed |-> mem, pending |-> None] \/ UNCHANGED store
  BY DEF PersistCase, PersistCaseFails
<1>2. Agrees(mem, Ledger, Selected) /\ FileInv /\ mem \in State
  BY <1>1 DEF AgreeInv, CallAgrees, TypeInv, TypeOK
<1>3. FileInv' /\ Ledger' = Ledger /\ (Selected' = Selected \/ Selected' = mem)
  BY <1>1, <1>2, FileKept, FileCommitted DEF Agrees
<1>4. Agrees(mem', Ledger', Selected')
  BY <1>1, <1>2, <1>3, CoversItself DEF Agrees
<1> QED
  BY <1>1, <1>3, <1>4, LeaveAgrees

LEMMA CrashAgrees == ASSUME AgreeInv, Crash PROVE AgreeInv'
<1>1. /\ up' = FALSE /\ \A t \in Caller : pc'[t] = "idle"
      /\ UNCHANGED <<store, audit, nextEvent>>
  BY DEF Crash
<1>2. FileInv'
  BY <1>1, FileKept DEF AgreeInv
<1>3. \A t \in Caller : CallAgrees(t)'
  BY <1>1 DEF CallAgrees, Trying, Unaudited
<1> QED
  BY <1>1, <1>2, <1>3 DEF AgreeInv

LEMMA RestartAgrees == ASSUME TypeInv, AgreeInv, Restart PROVE AgreeInv'
<1>1. ~up /\ mem' = Selected /\ UNCHANGED <<store, audit, pc, call, nextEvent>>
  BY DEF Restart
<1>2. \A t \in Caller : pc'[t] = "idle"
  BY <1>1 DEF TypeInv, CallInv
<1>3. FileInv' /\ Ledger' = Ledger /\ Selected' = Selected /\ Faithful(Selected, Ledger)
  BY <1>1, FileKept DEF AgreeInv, FileInv
<1>4. Agrees(mem', Ledger', Selected')
  BY <1>1, <1>3, CoversItself DEF Agrees
<1>5. \A t \in Caller : CallAgrees(t)'
  BY <1>2 DEF CallAgrees, Trying, Unaudited
<1> QED
  BY <1>3, <1>4, <1>5 DEF AgreeInv

LEMMA StutterAgrees ==
    ASSUME AgreeInv, UNCHANGED <<up, mem, store, audit, pc, call, nextEvent>>
    PROVE  AgreeInv'
<1>1. FileInv' /\ Ledger' = Ledger /\ Selected' = Selected /\ EventIds(audit)' = EventIds(audit)
  BY FileKept, LedgerKept DEF AgreeInv
<1>2. \A t \in Caller : CallAgrees(t)'
  BY <1>1 DEF AgreeInv, CallAgrees, PendingStore
<1> QED
  BY <1>1, <1>2 DEF AgreeInv

LEMMA NextAgrees ==
    ASSUME Alone, "commit" \notin Faults, "append-committed" \notin Faults,
           TypeInv, RecoveryInv, AgreeInv, [Next]_vars
    PROVE  AgreeInv'
<1>1. CASE UNCHANGED vars
  BY <1>1, StutterAgrees DEF vars
<1>2. ASSUME NEW t \in Caller, NEW c \in Case, NEW decision \in Decision,
             NEW action \in Action, NEW reserve \in BOOLEAN,
             SubmitReview(t, c, decision, action, reserve)
      PROVE  AgreeInv'
  <2>1. Enter(t, "review", c, decision, action, reserve) /\ "review" \in Operation \ {"create"}
    BY <1>2 DEF SubmitReview, Operation
  <2> QED
    BY <2>1, EnterAgrees
<1>3. ASSUME NEW t \in Caller, NEW c \in Case, DispatchExecution(t, c)
      PROVE  AgreeInv'
  <2> DEFINE review == mem.cases[c].review
  <2>1. /\ Enter(t, "dispatch", c, review.decision, review.action, mem.reserved[c] = None)
        /\ "dispatch" \in Operation \ {"create"}
        /\ mem.reserved[c] # None => mem.reserved[c] = review.action
    BY <1>3 DEF DispatchExecution, Dispatchable, Operation
  <2> QED
    BY <2>1, EnterAgrees
<1>4. ASSUME NEW t \in Caller, NEW c \in Case, DismissCase(t, c) \/ ResolveCase(t, c)
      PROVE  AgreeInv'
  <2>1. /\ \/ Enter(t, "dismiss", c, None, Abstain, FALSE)
           \/ Enter(t, "resolve", c, None, Abstain, FALSE)
        /\ {"dismiss", "resolve"} \subseteq Operation \ {"create"}
    BY <1>4 DEF DismissCase, ResolveCase, Operation
  <2> QED
    BY <2>1, EnterAgrees
<1>5. ASSUME NEW t \in Caller, NEW c \in Case, CreateCase(t, c)
      PROVE  AgreeInv'
  BY <1>5, CreateAgrees
<1>6. ASSUME NEW t \in Caller, NEW result \in mem.results, ReplayDispatch(t, result)
      PROVE  AgreeInv'
  BY <1>6, StutterAgrees DEF ReplayDispatch
<1>7. ASSUME NEW t \in Caller, NEW replaced \in BOOLEAN,
             BeginFails(t, replaced) \/ CommitFails(t, replaced) \/ PersistCaseFails(t, replaced)
      PROVE  AgreeInv'
  BY <1>7, BeginFailsAgrees, PersistAgrees DEF CommitFails, Fault
<1>8. ASSUME NEW t \in Caller,
             \/ Prepare(t) \/ BeginPending(t) \/ AppendAudit(t) \/ AppendFails(t)
             \/ Commit(t) \/ Rollback(t) \/ RollbackFails(t)
      PROVE  AgreeInv'
  BY <1>8, PrepareAgrees, BeginAgrees, AppendAgrees, AppendFailsAgrees, CommitAgrees,
     RollbackAgrees
<1>9. ASSUME NEW t \in Caller,
             AppendIntake(t) \/ AppendIntakeFails(t) \/ RegisterCase(t) \/ PersistCase(t)
      PROVE  AgreeInv'
  <2>1. CASE AppendIntake(t)
    BY <2>1, AppendIntakeAgrees
  <2>2. CASE AppendIntakeFails(t)
    BY <2>2, AppendIntakeFailsAgrees
  <2>3. CASE RegisterCase(t) \/ PersistCase(t)
    BY <2>3, RegisterAgrees, PersistAgrees
  <2> QED
    BY <1>9, <2>1, <2>2, <2>3
<1>10. CASE Crash
  BY <1>10, CrashAgrees
<1>11. CASE Restart
  BY <1>11, RestartAgrees
<1> QED
  BY <1>1, <1>2, <1>3, <1>4, <1>5, <1>6, <1>7, <1>8, <1>9, <1>10, <1>11 DEF Next

(***************************************************************************)
(* The ledger implements the authority of specialists.                     *)
(***************************************************************************)

LEMMA AuthoritySums ==
    ASSUME NEW w, NEW S
    PROVE  Authority!SumFunctionOnSet(w, S) = SumFunctionOnSet(w, S)
<1>1. Authority!SumFunctionOnSet(w, S) = (CHOOSE g : Sums(w, S, g))[S]
  BY DEF Authority!SumFunctionOnSet, Authority!FoldFunctionOnSet, Authority!MapThenFoldSet,
      Sums, Chosen
<1> QED
  BY <1>1, SumIsFold

(* What the executed cases take is reserved for them.                        *)
LEMMA TakenIsReserved ==
    ASSUME NEW s \in State, Balanced(s), NEW l, Faithful(s, l),
           l.approved \in [Case -> Action], l.executed \in SUBSET Case
    PROVE  SumFunctionOnSet([c \in Case |-> Cost[l.approved[c]]], l.executed) <= Capacity
<1> DEFINE w == [c \in Case |-> Cost[l.approved[c]]]
           v == [c \in Case |-> Held(s, c)]
<1>1. w \in [Case -> Nat]
  BY CostTyped
<1>2. v \in [Case -> Nat] /\ ReservedIn(s) \in Nat /\ s.remaining \in Nat
  BY HeldTyped
<1>3. \A c \in l.executed : w[c] <= v[c]
  <2> SUFFICES ASSUME NEW c \in l.executed
               PROVE  w[c] = v[c] /\ w[c] \in Nat
    OBVIOUS
  <2>1. c \in Case /\ s.reserved[c] = l.approved[c] /\ l.approved[c] \in Action
    BY DEF Faithful
  <2>2. s.reserved[c] # None
    BY <2>1, NoneAssumption
  <2>3. Held(s, c) = Cost[l.approved[c]]
    BY <2>1, <2>2 DEF Held
  <2>4. w[c] = v[c]
    BY <2>1, <2>3
  <2>5. w[c] \in Nat
    BY <1>1, <2>1
  <2> QED
    BY <2>4, <2>5
<1>4. IsFiniteSet(Case) /\ Capacity \in Nat
  BY WorkflowAssumption
<1>5. ReservedIn(s) = SumFunctionOnSet(v, Case)
  BY DEF ReservedIn, SumFunction
<1>6. s.remaining + ReservedIn(s) = Capacity
  BY DEF Balanced
<1> HIDE DEF w, v
<1>7. Case \in SUBSET Case
  OBVIOUS
<1>8. SumFunctionOnSet(w, l.executed) <= SumFunctionOnSet(v, l.executed)
  BY <1>1, <1>2, <1>3, <1>4, SumPointwise
<1>9. SumFunctionOnSet(v, l.executed) <= SumFunctionOnSet(v, Case)
  BY <1>2, <1>4, <1>7, SumPart
<1>10. /\ SumFunctionOnSet(w, l.executed) \in Nat /\ SumFunctionOnSet(v, l.executed) \in Nat
       /\ SumFunctionOnSet(v, Case) \in Nat
  BY <1>1, <1>2, <1>4, <1>7, SumAny
<1>11. SumFunctionOnSet(w, l.executed) <= Capacity
  BY <1>2, <1>4, <1>5, <1>6, <1>8, <1>9, <1>10
<1> QED
  BY <1>11 DEF w

(* What the authority knows of the service is its ledger.                    *)
LEMMA AuthorityMove ==
    ASSUME NEW c \in Case, NEW to,
           <<Ledger.status[c], to>> \in VALID_TRANSITIONS,
           Ledger'.status = [Ledger.status EXCEPT ![c] = to]
    PROVE  Authority!Move(c, to)
<1>1. Ledger.status = [d \in Case |-> AuditedState(d)]
  BY DEF Ledger
<1>2. Ledger'.status = [d \in Case |-> AuditedState(d)']
  BY DEF Ledger
<1> QED
  BY <1>1, <1>2 DEF Authority!Move, VALID_TRANSITIONS, Authority!VALID_TRANSITIONS

LEMMA AuthorityReviews ==
    ASSUME NEW c \in Case, Authority!Move(c, "HUMAN_REVIEWED"), NEW action \in Action,
           Ledger'.approved = [Ledger.approved EXCEPT ![c] = action],
           Ledger'.executed = Ledger.executed
    PROVE  Authority!AuthorityNext
<1>1. Ledger.approved = [d \in Case |-> AuditedApproval(d)] /\ Ledger.executed = AuditedExecutions
  BY DEF Ledger
<1>2. Ledger'.approved = [d \in Case |-> AuditedApproval(d)'] /\ Ledger'.executed = AuditedExecutions'
  BY DEF Ledger
<1>3. Authority!Review(c)
  BY <1>1, <1>2 DEF Authority!Review, Action
<1> QED
  BY <1>3 DEF Authority!AuthorityNext

LEMMA AuthorityMovesOn ==
    ASSUME NEW c \in Case, NEW to \in CaseState \ {"HUMAN_REVIEWED", "EXECUTED"},
           Authority!Move(c, to),
           Ledger'.approved = Ledger.approved, Ledger'.executed = Ledger.executed
    PROVE  Authority!AuthorityNext
<1>1. Ledger.approved = [d \in Case |-> AuditedApproval(d)] /\ Ledger.executed = AuditedExecutions
  BY DEF Ledger
<1>2. Ledger'.approved = [d \in Case |-> AuditedApproval(d)'] /\ Ledger'.executed = AuditedExecutions'
  BY DEF Ledger
<1>3. to \in Authority!CaseState \ {"HUMAN_REVIEWED", "EXECUTED"}
  BY DEF CaseState, Authority!CaseState
<1>4. Authority!MoveOn(c)
  BY <1>1, <1>2, <1>3 DEF Authority!MoveOn
<1> QED
  BY <1>4 DEF Authority!AuthorityNext

LEMMA AuthorityExecutes ==
    ASSUME NEW c \in Case, Authority!Move(c, "EXECUTED"), Ledger.approved[c] # Abstain,
           Ledger'.approved = Ledger.approved,
           Ledger'.executed = Ledger.executed \union {c},
           SumFunctionOnSet([d \in Case |-> Cost[Ledger.approved[d]]], Ledger'.executed) <= Capacity
    PROVE  Authority!AuthorityNext
<1>1. Ledger.approved = [d \in Case |-> AuditedApproval(d)] /\ Ledger.executed = AuditedExecutions
  BY DEF Ledger
<1>2. Ledger'.approved = [d \in Case |-> AuditedApproval(d)'] /\ Ledger'.executed = AuditedExecutions'
  BY DEF Ledger
<1>3. [d \in Case |-> AuditedApproval(d)][c] # Authority!Abstain
  BY <1>1 DEF Abstain, Authority!Abstain
<1>4. Authority!CapacityTaken(AuditedExecutions') =
          SumFunctionOnSet([d \in Case |-> Cost[Ledger.approved[d]]], Ledger'.executed)
  BY <1>1, <1>2, AuthoritySums DEF Authority!CapacityTaken
<1>5. Authority!CapacityTaken(AuditedExecutions') <= Capacity
  BY <1>4
<1>6. Authority!Execute(c)
  BY <1>1, <1>2, <1>3, <1>5 DEF Authority!Execute
<1> QED
  BY <1>6 DEF Authority!AuthorityNext

LEMMA AuthorityRestartsIntake ==
    ASSUME NEW c \in Case, NEW k \in 1 .. 4, Ledger.status[c] = Intake[k],
           Ledger'.status = [Ledger.status EXCEPT ![c] = "CREATED"],
           Ledger'.approved = Ledger.approved, Ledger'.executed = Ledger.executed
    PROVE  Authority!AuthorityNext
<1>1. /\ Ledger.status = [d \in Case |-> AuditedState(d)]
      /\ Ledger.approved = [d \in Case |-> AuditedApproval(d)]
      /\ Ledger.executed = AuditedExecutions
  BY DEF Ledger
<1>2. /\ Ledger'.status = [d \in Case |-> AuditedState(d)']
      /\ Ledger'.approved = [d \in Case |-> AuditedApproval(d)']
      /\ Ledger'.executed = AuditedExecutions'
  BY DEF Ledger
<1>3. k \in DOMAIN Authority!Intake /\ Authority!Intake[k] = Intake[k]
  BY DEF Authority!Intake, Intake
<1>4. Authority!IntakeRestarts(c)
  BY <1>1, <1>2, <1>3 DEF Authority!IntakeRestarts
<1> QED
  BY <1>4 DEF Authority!AuthorityNext

(* An audited transition is a review, an execution or the end of a case.     *)
LEMMA AppendImplements ==
    ASSUME TypeInv, TypeInv', BalanceInv', RecoveryInv, AgreeInv, NEW t \in Caller, AppendAudit(t)
    PROVE  Authority!AuthorityNext
<1> DEFINE e == call[t].entry
           before == call[t].before
           c0 == call[t].case
           l == Ledger
           new == Ledger'
<1>1. /\ new = After(l, e) /\ Transition(before, mem, c0, e) /\ Faithful(before, l) /\ AgreeInv'
  BY AppendAgrees
<1>2. /\ pc[t] \in Trying \ {"entered", "failed"} /\ pc[t] = "begun" /\ UNCHANGED mem
      /\ pc' = [pc EXCEPT ![t] = "audited"]
  BY DEF AppendAudit, Goto, Trying
<1>3. e \in Entry /\ c0 \in Case /\ e.action \in Action
  BY <1>2, TryingTyped DEF TypeInv, TypeOK, Entry
<1>4. pc'[t] = "audited"
  BY <1>2 DEF TypeInv, TypeOK
<1>5. Faithful(mem', new) /\ Balanced(mem') /\ mem' \in State
  BY <1>1, <1>4 DEF AgreeInv, CallAgrees, Agrees, BalanceInv, TypeInv, TypeOK
<1>6. /\ l.status \in [Case -> CaseState] /\ l.approved \in [Case -> Action]
      /\ l.executed \in SUBSET Case
  BY LedgerTyped DEF TypeInv, TypeOK
<1> HIDE DEF e, before, c0, l, new
<1>7. /\ e.case = c0 /\ before.cases[c0].state = l.status[c0]
      /\ <<l.status[c0], e.to>> \in VALID_TRANSITIONS /\ e.to \in Reviewed
  BY <1>1, <1>3 DEF Transition, Faithful
<1>8. new.status = [l.status EXCEPT ![c0] = e.to]
  BY <1>1, <1>7 DEF After
<1>9. Authority!Move(c0, e.to)
  BY <1>3, <1>7, <1>8, AuthorityMove DEF l, new
<1>10. CASE e.to = "HUMAN_REVIEWED"
  <2>1. new.approved = [l.approved EXCEPT ![c0] = e.action] /\ new.executed = l.executed
    BY <1>1, <1>7, <1>10 DEF After
  <2> QED
    BY <1>3, <1>9, <1>10, <2>1, AuthorityReviews DEF l, new
<1>11. CASE e.to = "EXECUTED"
  <2>1. new.approved = l.approved /\ new.executed = l.executed \union {c0}
    BY <1>1, <1>7, <1>11 DEF After
  <2>2. l.approved[c0] # Abstain
    <3>1. /\ mem.cases[c0].review.action # Abstain
          /\ mem.cases[c0].review # None /\ before.cases[c0] # None
          /\ mem.cases[c0].review = before.cases[c0].review
      BY <1>1, <1>11 DEF Transition
    <3>2. before.cases[c0].review.action = l.approved[c0]
      BY <1>1, <1>3, <3>1 DEF Faithful
    <3> QED
      BY <3>1, <3>2
  <2>3. SumFunctionOnSet([d \in Case |-> Cost[new.approved[d]]], new.executed) <= Capacity
    BY <1>3, <1>5, <1>6, <2>1, TakenIsReserved
  <2> QED
    BY <1>3, <1>9, <1>11, <2>1, <2>2, <2>3, AuthorityExecutes DEF l, new
<1>12. CASE e.to \in {"DISMISSED", "RESOLVED"}
  <2>1. new.approved = l.approved /\ new.executed = l.executed
    BY <1>1, <1>12 DEF After
  <2>2. e.to \in CaseState \ {"HUMAN_REVIEWED", "EXECUTED"}
    BY <1>12 DEF CaseState
  <2> QED
    BY <1>3, <1>9, <2>1, <2>2, AuthorityMovesOn DEF l, new
<1> QED
  BY <1>7, <1>10, <1>11, <1>12 DEF Reviewed

(* An audited step of an intake moves the case on, or is the first of an     *)
(* intake that starts over.                                                  *)
LEMMA IntakeImplements ==
    ASSUME TypeInv, RecoveryInv, AgreeInv, NEW t \in Caller, AppendIntake(t)
    PROVE  Authority!AuthorityNext
<1> DEFINE e == IntakeEntry(t)
           c0 == call[t].case
           n == Len(call[t].made)
           l == Ledger
           new == Ledger'
<1>1. /\ new = After(l, e) /\ l.status[c0] \notin Reviewed /\ n \in Nat /\ n < Len(Intake)
      /\ n > 0 => l.status[c0] = Intake[n]
  BY AppendIntakeAgrees
<1>2. pc[t] = "creating"
  BY DEF AppendIntake
<1>3. c0 \in Case /\ l.status \in [Case -> CaseState]
  BY <1>2, CreationTyped, LedgerTyped DEF TypeInv, TypeOK
<1>4. e.case = c0 /\ e.to = Intake[n + 1]
  BY DEF IntakeEntry, NewEntry
<1> HIDE DEF e, c0, n, l, new
<1>5. n = 0 \/ n = 1 \/ n = 2 \/ n = 3
  BY <1>1 DEF Intake
<1>6. /\ Intake[1] = "CREATED" /\ Intake[2] = "TRIAGED" /\ Intake[3] = "EVIDENCE_ASSEMBLED"
      /\ Intake[4] = "RECOMMENDED"
  BY DEF Intake
<1>7. e.to \in CaseState \ {"HUMAN_REVIEWED", "EXECUTED"}
  BY <1>4, <1>5, <1>6 DEF CaseState
<1>8. /\ new.status = [l.status EXCEPT ![c0] = e.to]
      /\ new.approved = l.approved /\ new.executed = l.executed
  BY <1>1, <1>4, <1>7 DEF After
<1>9. CASE n = 0 /\ l.status[c0] # "NONE"
  <2>1. \E k \in 1 .. 4 : l.status[c0] = Intake[k]
    <3>1. l.status[c0] \in {"CREATED", "TRIAGED", "EVIDENCE_ASSEMBLED", "RECOMMENDED"}
      BY <1>1, <1>3, <1>9 DEF CaseState, Reviewed
    <3> QED
      BY <1>6, <3>1
  <2>2. new.status = [l.status EXCEPT ![c0] = "CREATED"]
    BY <1>4, <1>6, <1>8, <1>9
  <2> QED
    BY <1>3, <1>8, <2>1, <2>2, AuthorityRestartsIntake DEF l, new
<1>10. CASE n > 0 \/ l.status[c0] = "NONE"
  <2>1. <<l.status[c0], e.to>> \in VALID_TRANSITIONS
    BY <1>1, <1>4, <1>5, <1>6, <1>10 DEF VALID_TRANSITIONS
  <2>2. Authority!Move(c0, e.to)
    BY <1>3, <1>8, <2>1, AuthorityMove DEF l, new
  <2> QED
    BY <1>3, <1>7, <1>8, <2>2, AuthorityMovesOn DEF l, new
<1> QED
  BY <1>1, <1>9, <1>10

(* No other step writes the ledger.                                          *)
LEMMA StepImplements ==
    ASSUME Alone, "commit" \notin Faults, "append-committed" \notin Faults,
           TypeInv, TypeInv', BalanceInv', RecoveryInv, AgreeInv, Next
    PROVE  Authority!AuthorityNext \/ UNCHANGED audit
<1>1. ASSUME NEW t \in Caller, NEW c \in Case,
             \/ \E decision \in Decision, action \in Action, reserve \in BOOLEAN :
                    SubmitReview(t, c, decision, action, reserve)
             \/ DispatchExecution(t, c) \/ DismissCase(t, c) \/ ResolveCase(t, c)
             \/ CreateCase(t, c)
      PROVE  UNCHANGED audit
  BY <1>1 DEF SubmitReview, DispatchExecution, DismissCase, ResolveCase, Enter, CreateCase
<1>2. ASSUME NEW t \in Caller,
             \/ \E result \in mem.results : ReplayDispatch(t, result)
             \/ Prepare(t) \/ BeginPending(t) \/ Commit(t) \/ Rollback(t) \/ RollbackFails(t)
             \/ RegisterCase(t) \/ PersistCase(t)
      PROVE  UNCHANGED audit
  BY <1>2 DEF ReplayDispatch, Prepare, BeginPending, Commit, Rollback, RollbackFails,
       RegisterCase, PersistCase
<1>3. ASSUME NEW t \in Caller, NEW replaced \in BOOLEAN,
             BeginFails(t, replaced) \/ CommitFails(t, replaced) \/ PersistCaseFails(t, replaced)
      PROVE  UNCHANGED audit
  BY <1>3 DEF BeginFails, CommitFails, PersistCaseFails
<1>4. ASSUME NEW t \in Caller, AppendFails(t) \/ AppendIntakeFails(t)
      PROVE  UNCHANGED audit
  BY <1>4 DEF AppendFails, AppendIntakeFails, Fault
<1>5. ASSUME NEW t \in Caller, AppendAudit(t) \/ AppendIntake(t)
      PROVE  Authority!AuthorityNext
  BY <1>5, AppendImplements, IntakeImplements
<1>6. CASE Crash \/ Restart
  BY <1>6 DEF Crash, Restart
<1> QED
  BY <1>1, <1>2, <1>3, <1>4, <1>5, <1>6 DEF Next

LEMMA InitImplements == Init => Authority!AuthorityInit
<1> SUFFICES ASSUME Init
             PROVE  Authority!AuthorityInit
  OBVIOUS
<1>1. /\ \A c \in Case : Ledger.status[c] \in {"NONE", "RECOMMENDED"}
      /\ \A c \in Case : Ledger.approved[c] = Abstain
      /\ Ledger.executed = {}
  BY SeedLedger DEF Init
<1>2. /\ Ledger.status = [c \in Case |-> AuditedState(c)]
      /\ Ledger.approved = [c \in Case |-> AuditedApproval(c)]
      /\ Ledger.executed = AuditedExecutions
  BY DEF Ledger
<1>3. [c \in Case |-> AuditedState(c)] \in [Case -> {"NONE", "RECOMMENDED"}]
  BY <1>1, <1>2
<1>4. [c \in Case |-> AuditedApproval(c)] = [c \in Case |-> Authority!Abstain]
  BY <1>1, <1>2 DEF Abstain, Authority!Abstain
<1> QED
  BY <1>1, <1>2, <1>3, <1>4 DEF Authority!AuthorityInit

(***************************************************************************)
(* The theorems.                                                           *)
(***************************************************************************)

Inv == TypeInv /\ BalanceInv /\ RecoveryInv /\ AgreeInv

LEMMA InvHolds ==
    ASSUME Alone, "commit" \notin Faults, "append-committed" \notin Faults
    PROVE  Spec => []Inv
<1>1. Init => Inv
  BY InitTyped, InitBalance, InitRecovery, InitAgrees DEF Inv
<1>2. Inv /\ [Next]_vars => Inv'
  BY NextTyped, NextBalance, NextRecovery, NextAgrees DEF Inv
<1> QED
  BY <1>1, <1>2, PTL DEF Spec

(* Between calls, and after every recovery, a case is in the state its last  *)
(* audit entry says, with the approval the ledger has for it, if writes that *)
(* fail fail before they are committed.                                      *)
THEOREM MemoryFollowsAudit ==
    ASSUME Alone, "commit" \notin Faults, "append-committed" \notin Faults
    PROVE  Spec => []StateMatchesAudit
<1>1. Inv => StateMatchesAudit
  <2> SUFFICES ASSUME Inv, Quiet, NEW c \in Case, mem.cases[c] # None
               PROVE  /\ mem.cases[c].state = AuditedState(c)
                      /\ mem.cases[c].review # None =>
                             mem.cases[c].review.action = AuditedApproval(c)
    BY DEF StateMatchesAudit
  <2>1. Faithful(mem, Ledger)
    BY DEF Inv, AgreeInv, Agrees, Quiet
  <2>2. Ledger.status[c] = AuditedState(c) /\ Ledger.approved[c] = AuditedApproval(c)
    BY DEF Ledger
  <2> QED
    BY <2>1, <2>2 DEF Faithful
<1> QED
  BY <1>1, InvHolds, PTL

(* Between calls a crash loses nothing: what a restart would take up has the *)
(* same reservations and free capacity, and no other version of a case.      *)
THEOREM CrashLosesNothing ==
    ASSUME Alone, "commit" \notin Faults, "append-committed" \notin Faults
    PROVE  Spec => []RestartReproduces
<1>1. Inv => RestartReproduces
  <2> SUFFICES ASSUME Inv, Quiet
               PROVE  Covers(mem, Selected)
    BY DEF RestartReproduces, Covers
  <2> QED
    BY DEF Inv, AgreeInv, Agrees, Quiet
<1> QED
  BY <1>1, InvHolds, PTL

(* The audited history is one that the authority of specialists allows: each *)
(* case follows its contract, and an action is executed at most once, only   *)
(* as approved, and within the capacity.                                     *)
THEOREM LedgerFollowsAuthority ==
    ASSUME Alone, "commit" \notin Faults, "append-committed" \notin Faults
    PROVE  Spec => ImplementsCaseAuthority
<1>1. Init => Authority!AuthorityInit
  BY InitImplements
<1>2. Inv /\ Inv' /\ [Next]_vars => [Authority!AuthorityNext]_(Authority!authorityVars)
  <2> SUFFICES ASSUME Inv, Inv', [Next]_vars
               PROVE  Authority!AuthorityNext \/ UNCHANGED Authority!authorityVars
    OBVIOUS
  <2>1. Authority!AuthorityNext \/ UNCHANGED audit
    BY StepImplements DEF Inv, vars
  <2>2. UNCHANGED audit => UNCHANGED Authority!authorityVars
    BY DEF Authority!authorityVars, AuditedState, AuditedApproval, AuditedExecutions,
        EntriesOf, ReviewsOf
  <2> QED
    BY <2>1, <2>2
<1> QED
  BY <1>1, <1>2, InvHolds, PTL DEF Spec, ImplementsCaseAuthority, Authority!AuthoritySpec

=============================================================================
