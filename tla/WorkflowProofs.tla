--------------------------- MODULE WorkflowProofs ---------------------------
(***************************************************************************)
(* The type of WorkflowService, for every value of the constants, and that *)
(* a restart of it never refuses its state file, whatever fails, as long   *)
(* as the calls that take no lock run alone.  (Without that it fails: one  *)
(* of them persists what another has prepared.)                            *)
(***************************************************************************)
EXTENDS WorkflowService, SequenceTheorems, TLAPS

(***************************************************************************)
(* The data the actions build has its type.                                *)
(***************************************************************************)

LEMMA IntakeTyped ==
    ASSUME NEW n \in 1 .. 4
    PROVE  Intake[n] \in CaseState /\ Before(n) \in CaseState /\ Len(Intake) = 4
<1>1. n = 1 \/ n = 2 \/ n = 3 \/ n = 4
  OBVIOUS
<1>2. /\ Intake[1] \in CaseState /\ Intake[2] \in CaseState
      /\ Intake[3] \in CaseState /\ Intake[4] \in CaseState /\ Len(Intake) = 4
  BY DEF Intake, CaseState
<1>3. "NONE" \in CaseState
  BY DEF CaseState
<1> QED
  BY <1>1, <1>2, <1>3 DEF Before

LEMMA CostTyped ==
    /\ Abstain \in Action
    /\ \A a \in Action : Cost[a] \in Nat
BY WorkflowAssumption DEF Action, Abstain

LEMMA NewEntryTyped ==
    ASSUME NEW e \in Event, NEW c \in Case, NEW from \in CaseState, NEW to \in CaseState,
           NEW review \in Review \union {None}
    PROVE  NewEntry(e, c, from, to, review) \in Entry
<1>1. CASE review = None
  BY <1>1, CostTyped DEF NewEntry, Entry
<1>2. CASE review # None
  <2>1. review.decision \in Decision /\ review.action \in Action
    BY <1>2 DEF Review
  <2> QED
    BY <1>2, <2>1 DEF NewEntry, Entry
<1> QED
  BY <1>1, <1>2

LEMMA NewContextTyped ==
    ASSUME NEW events \in SUBSET Event
    PROVE  NewContext(events) \in Context
<1>1. "RECOMMENDED" \in CaseState
  BY DEF CaseState
<1> QED
  BY <1>1 DEF NewContext, Context

LEMMA EmptyTyped == EmptyState \in State
BY WorkflowAssumption DEF EmptyState, State

LEMMA SeedTyped == SeedAudit \in Seq(Entry) /\ SeedState \in State /\ Len(SeedAudit) \in Nat
<1>1. Known \in Seq(Case) /\ Len(Known) \in Nat
  BY WorkflowAssumption
<1>2. \A k \in 1 .. 4 * Len(Known) : SeedEntry(k) \in Entry
  <2> SUFFICES ASSUME NEW k \in 1 .. 4 * Len(Known)
               PROVE  SeedEntry(k) \in Entry
    OBVIOUS
  <2> DEFINE n == ((k - 1) % 4) + 1
             j == (k + 3) \div 4
  <2>1. n \in 1 .. 4
    BY <1>1
  <2>2. j \in 1 .. Len(Known)
    BY <1>1
  <2>3. Known[j] \in Case
    BY <1>1, <2>2, ElementOfSeq
  <2>4. k \in Event
    BY <1>1 DEF Event
  <2>5. SeedEntry(k) = NewEntry(k, Known[j], Before(n), Intake[n], None)
    BY DEF SeedEntry
  <2> HIDE DEF n, j
  <2> QED
    BY <2>1, <2>3, <2>4, <2>5, IntakeTyped, NewEntryTyped
<1>3. SeedAudit \in Seq(Entry) /\ Len(SeedAudit) = 4 * Len(Known)
      /\ DOMAIN SeedAudit = 1 .. 4 * Len(Known)
  BY <1>1, <1>2, IsASeq DEF SeedAudit
<1>4. \A c \in Case : {k \in DOMAIN SeedAudit : SeedAudit[k].case = c} \in SUBSET Event
  BY <1>1, <1>3 DEF Event
<1>5. SeedState \in State
  BY <1>4, NewContextTyped, EmptyTyped DEF SeedState, State, EmptyState
<1> QED
  BY <1>1, <1>3, <1>5


(***************************************************************************)
(* The type invariant.  A call that is under way works on a case that      *)
(* exists, now and in the state it may restore; none is under way while    *)
(* the service is down.                                                    *)
(***************************************************************************)

CallInv ==
    /\ ~up => \A t \in Caller : pc[t] = "idle"
    /\ \A t \in Caller : pc[t] \in Trying =>
           /\ call[t].before.cases[call[t].case] \in Context
           /\ mem.cases[call[t].case] \in Context

TypeInv == TypeOK /\ CallInv

LEMMA InitTyped == Init => TypeInv
<1> SUFFICES ASSUME Init
             PROVE  TypeInv
  OBVIOUS
<1>1. store \in Store \union {None}
  BY SeedTyped DEF Init, Store
<1>2. nextEvent \in Event
  BY SeedTyped DEF Init, Event
<1>3. 0 \in 0 .. MaxFaults
  BY WorkflowAssumption
<1>4. lock = None /\ \A t \in Caller : lock # t
  BY NoneAssumption DEF Init
<1>5. pc \in [Caller -> Phase] /\ \A t \in Caller : pc[t] = "idle" /\ call[t] = None
  BY DEF Init, Phase
<1>6. \A t \in Caller : pc[t] \notin Trying \union {"creating", "registered"}
  BY <1>5 DEF Trying
<1>7. TypeOK
  BY <1>1, <1>2, <1>3, <1>4, <1>5, <1>6, SeedTyped DEF Init, TypeOK
<1>8. CallInv
  BY <1>6 DEF Init, CallInv
<1> QED
  BY <1>7, <1>8 DEF TypeInv

LEMMA MemTyped ==
    ASSUME TypeOK, NEW c \in Case
    PROVE  /\ mem.cases \in [Case -> Context \union {None}]
           /\ mem.reserved \in [Case -> Action \union {None}]
           /\ mem.remaining \in Nat
           /\ mem.results \in SUBSET Result
           /\ Available(c) \in Nat
<1>1. mem \in State
  BY DEF TypeOK
<1>2. /\ mem.cases \in [Case -> Context \union {None}]
      /\ mem.reserved \in [Case -> Action \union {None}]
      /\ mem.remaining \in Nat
      /\ mem.results \in SUBSET Result
  BY <1>1 DEF State
<1>3. CASE mem.reserved[c] = None
  BY <1>2, <1>3 DEF Available, Held
<1>4. CASE mem.reserved[c] # None
  <2>1. Cost[mem.reserved[c]] \in Nat
    BY <1>2, <1>4, CostTyped
  <2> QED
    BY <1>2, <1>4, <2>1 DEF Available, Held
<1> QED
  BY <1>2, <1>3, <1>4

(* A call in its try block. *)
LEMMA TryingTyped ==
    ASSUME TypeInv, NEW t \in Caller, pc[t] \in Trying
    PROVE  /\ call[t] \in Call
           /\ call[t].case \in Case
           /\ call[t].op \in Operation \ {"create"}
           /\ call[t].before \in State
           /\ call[t].before.cases[call[t].case] \in Context
           /\ mem.cases[call[t].case] \in Context
<1>1. call[t] \in Call
  BY DEF TypeInv, TypeOK
<1> QED
  BY <1>1 DEF TypeInv, CallInv, Call

LEMMA RestoredTyped ==
    ASSUME TypeInv, NEW t \in Caller, pc[t] \in Trying
    PROVE  /\ Restored(t) \in State
           /\ Restored(t).cases =
                  [mem.cases EXCEPT ![call[t].case] = call[t].before.cases[call[t].case]]
           /\ \A c \in Case : mem.cases[c] \in Context => Restored(t).cases[c] \in Context
<1> DEFINE before == call[t].before
           c0 == call[t].case
<1>1. c0 \in Case /\ before \in State /\ before.cases[c0] \in Context
  BY TryingTyped
<1>2. mem \in State
  BY DEF TypeInv, TypeOK
<1>3. Restored(t) = [mem EXCEPT !.cases[c0] = before.cases[c0],
                                !.reserved = before.reserved,
                                !.remaining = before.remaining]
  BY DEF Restored
<1> HIDE DEF before, c0
<1>4. /\ Restored(t).cases = [mem.cases EXCEPT ![c0] = before.cases[c0]]
      /\ Restored(t).reserved = before.reserved
      /\ Restored(t).remaining = before.remaining
      /\ Restored(t).results = mem.results
      /\ Restored(t) = [cases |-> Restored(t).cases, reserved |-> Restored(t).reserved,
                        remaining |-> Restored(t).remaining, results |-> Restored(t).results]
  BY <1>2, <1>3 DEF State
<1>5. mem.cases \in [Case -> Context \union {None}] /\ mem.results \in SUBSET Result
  BY <1>2 DEF State
<1>6. before.reserved \in [Case -> Action \union {None}] /\ before.remaining \in Nat
  BY <1>1 DEF State
<1>7. Restored(t).cases \in [Case -> Context \union {None}]
  BY <1>1, <1>4, <1>5
<1>8. Restored(t) \in State
  BY <1>4, <1>5, <1>6, <1>7 DEF State
<1>9. \A c \in Case : mem.cases[c] \in Context => Restored(t).cases[c] \in Context
  BY <1>1, <1>4, <1>5
<1> QED
  BY <1>4, <1>8, <1>9 DEF before, c0

(* The transition that Prepare makes when the state machine accepts it. *)
LEMMA MovedTyped ==
    ASSUME TypeInv, NEW t \in Caller, pc[t] \in Trying,
           Accepts(call[t].op, mem.cases[call[t].case])
    PROVE  /\ Moved(call[t], mem.cases[call[t].case]) \in Context
           /\ Moved(call[t], mem.cases[call[t].case]).events =
                  mem.cases[call[t].case].events \union {nextEvent}
           /\ NewEntry(nextEvent, call[t].case, mem.cases[call[t].case].state,
                       Target[call[t].op], Moved(call[t], mem.cases[call[t].case]).review)
                  \in Entry
           /\ NewEntry(nextEvent, call[t].case, mem.cases[call[t].case].state,
                       Target[call[t].op], Moved(call[t], mem.cases[call[t].case]).review).event
                  = nextEvent
<1> DEFINE cl == call[t]
           ctx == mem.cases[call[t].case]
           version == IF cl.op \in Locked THEN ctx.version + 1 ELSE ctx.version
           review == IF cl.op # "review" THEN ctx.review
                     ELSE [decision |-> cl.decision, action |-> cl.action,
                           key |-> nextEvent, version |-> version]
<1>1. cl \in Call /\ cl.case \in Case /\ cl.op \in Operation \ {"create"} /\ ctx \in Context
  BY TryingTyped
<1>2. nextEvent \in Event
  BY DEF TypeInv, TypeOK
<1>3. /\ ctx.state \in CaseState /\ ctx.version \in Nat /\ ctx.events \in SUBSET Event
      /\ ctx.review \in Review \union {None}
      /\ (ctx.state = "RECOMMENDED") = (ctx.review = None)
  BY <1>1 DEF Context
<1>4. ctx.state \in Source[cl.op]
  BY DEF Accepts
<1>5. version \in Nat
  BY <1>3
<1>6. cl.op = "review" => cl.decision \in Decision
  BY <1>1 DEF TypeInv, TypeOK, Call
<1>7. cl.action \in Action
  BY <1>1 DEF Call
<1>8. Moved(cl, ctx) = [state |-> Target[cl.op], version |-> version,
                        events |-> ctx.events \union {nextEvent}, review |-> review]
  BY DEF Moved
<1> HIDE DEF cl, ctx, version
<1>9. review \in Review
  <2>1. CASE cl.op = "review"
    BY <1>2, <1>5, <1>6, <1>7, <2>1 DEF Review
  <2>2. CASE cl.op # "review"
    <3>1. cl.op \in {"dispatch", "dismiss", "resolve"}
      BY <1>1, <2>2 DEF Operation
    <3>2. ctx.state # "RECOMMENDED"
      BY <1>4, <3>1 DEF Source
    <3> QED
      BY <1>3, <2>2, <3>2
  <2> QED
    BY <2>1, <2>2
<1>10. Target[cl.op] \in CaseState \ {"RECOMMENDED"}
  BY <1>1 DEF Operation, Target, CaseState
<1>11. review # None
  BY <1>9, NoneAssumption
<1> HIDE DEF review
<1>12. Moved(cl, ctx) \in Context
  BY <1>2, <1>3, <1>5, <1>8, <1>9, <1>10, <1>11 DEF Context
<1>13. Moved(cl, ctx).events = ctx.events \union {nextEvent} /\ Moved(cl, ctx).review = review
  BY <1>8
<1>14. NewEntry(nextEvent, cl.case, ctx.state, Target[cl.op], review) \in Entry
  BY <1>1, <1>2, <1>3, <1>9, <1>10, NewEntryTyped
<1>15. NewEntry(nextEvent, cl.case, ctx.state, Target[cl.op], review).event = nextEvent
  BY DEF NewEntry
<1> QED
  BY <1>12, <1>13, <1>14, <1>15 DEF cl, ctx

LEMMA PreparedTyped ==
    ASSUME TypeInv, NEW t \in Caller, pc[t] \in Trying,
           Accepts(call[t].op, mem.cases[call[t].case]),
           call[t].reserve => Cost[call[t].action] <= Available(call[t].case)
    PROVE  /\ Prepared(call[t], mem.cases[call[t].case]) \in State
           /\ Prepared(call[t], mem.cases[call[t].case]).cases =
                  [mem.cases EXCEPT ![call[t].case] =
                      Moved(call[t], mem.cases[call[t].case])]
<1> DEFINE cl == call[t]
           ctx == mem.cases[call[t].case]
           reserved == [mem.reserved EXCEPT ![cl.case] =
                           IF ~cl.reserve THEN @
                           ELSE IF cl.decision = "APPROVED" THEN cl.action ELSE None]
           remaining == IF cl.reserve THEN Available(cl.case) - Cost[cl.action]
                        ELSE mem.remaining
<1>1. cl \in Call /\ cl.case \in Case /\ cl.op \in Operation \ {"create"} /\ ctx \in Context
  BY TryingTyped
<1>2. cl.action \in Action /\ Cost[cl.action] \in Nat
  BY <1>1, CostTyped DEF Call
<1>3. /\ mem.cases \in [Case -> Context \union {None}]
      /\ mem.reserved \in [Case -> Action \union {None}]
      /\ mem.remaining \in Nat
      /\ mem.results \in SUBSET Result
      /\ Available(cl.case) \in Nat
  BY <1>1, MemTyped DEF TypeInv
<1>4. Prepared(cl, ctx) = [cases |-> [mem.cases EXCEPT ![cl.case] = Moved(cl, ctx)],
                           reserved |-> reserved, remaining |-> remaining,
                           results |-> Results(cl, ctx)]
  BY DEF Prepared
<1>5. Moved(cl, ctx) \in Context
  BY MovedTyped
<1>6. remaining \in Nat
  BY <1>2, <1>3
<1>7. reserved \in [Case -> Action \union {None}]
  BY <1>2, <1>3
<1>8. Results(cl, ctx) \in SUBSET Result
  <2>1. CASE cl.op = "dispatch"
    <3>1. ctx.state = "HUMAN_REVIEWED"
      BY <2>1 DEF Accepts, Source
    <3>2. ctx.review \in Review
      BY <1>1, <3>1 DEF Context
    <3>3. ctx.review.key \in Event /\ nextEvent \in Event
      BY <3>2 DEF Review, TypeInv, TypeOK
    <3> QED
      BY <1>3, <2>1, <3>3 DEF Results, Result
  <2>2. CASE cl.op # "dispatch"
    BY <1>3, <2>2 DEF Results
  <2> QED
    BY <2>1, <2>2
<1> HIDE DEF cl, ctx, reserved, remaining
<1>9. [mem.cases EXCEPT ![cl.case] = Moved(cl, ctx)] \in [Case -> Context \union {None}]
  BY <1>1, <1>3, <1>5
<1>10. Prepared(cl, ctx) \in State
  BY <1>4, <1>6, <1>7, <1>8, <1>9 DEF State
<1>11. Prepared(cl, ctx).cases = [mem.cases EXCEPT ![cl.case] = Moved(cl, ctx)]
  BY <1>4
<1> QED
  BY <1>10, <1>11 DEF cl, ctx

(***************************************************************************)
(* Each action preserves the type invariant.  Its parts about the data and *)
(* about the calls are kept apart.                                         *)
(***************************************************************************)

DataOK ==
    /\ up \in BOOLEAN
    /\ mem \in State
    /\ store \in Store \union {None}
    /\ audit \in Seq(Entry)
    /\ stale \in BOOLEAN
    /\ nextEvent \in Event
    /\ returned \subseteq Event
    /\ faults \in 0 .. MaxFaults

CallOK(t) ==
    /\ pc[t] = "idle" => call[t] = None /\ lock # t
    /\ pc[t] \in Trying => call[t] \in Call
    /\ pc[t] \in Trying \ {"entered", "failed"} => call[t].entry \in Entry
    /\ pc[t] \in {"creating", "registered"} => call[t] \in Creation

CallsOK ==
    /\ lock \in Caller \union {None}
    /\ pc \in [Caller -> Phase]
    /\ call \in [Caller -> Call \union Creation \union {None}]
    /\ \A t \in Caller : CallOK(t)

LEMMA TypeParts ==
    /\ TypeOK <=> DataOK /\ CallsOK
    /\ TypeOK' <=> DataOK' /\ CallsOK'
BY DEF TypeOK, DataOK, CallsOK, CallOK

(* One caller's step, which loses no case, keeps the other calls going. *)
LEMMA CallInvKept ==
    ASSUME TypeInv, NEW t \in Caller, up, up' = up,
           \A u \in Caller \ {t} : pc'[u] = pc[u] /\ call'[u] = call[u],
           \A c \in Case : mem.cases[c] \in Context => mem'.cases[c] \in Context,
           pc'[t] \in Trying =>
               /\ call'[t].before.cases[call'[t].case] \in Context
               /\ mem'.cases[call'[t].case] \in Context
    PROVE  CallInv'
<1> SUFFICES ASSUME NEW u \in Caller, pc'[u] \in Trying
             PROVE  /\ call'[u].before.cases[call'[u].case] \in Context
                    /\ mem'.cases[call'[u].case] \in Context
  BY DEF CallInv
<1>1. CASE u = t
  BY <1>1
<1>2. CASE u # t
  <2>1. pc[u] \in Trying /\ call'[u] = call[u]
    BY <1>2
  <2> QED
    BY <2>1, TryingTyped
<1> QED
  BY <1>1, <1>2

LEMMA UpDuringCalls ==
    ASSUME TypeInv, NEW t \in Caller, pc[t] # "idle"
    PROVE  up = TRUE
BY DEF TypeInv, TypeOK, CallInv

(* A call's step to another phase. *)
LEMMA GotoKeepsCalls ==
    ASSUME CallsOK, NEW t \in Caller, NEW phase \in Phase, Goto(t, phase),
           NEW cl \in Call \union Creation \union {None}, call' = [call EXCEPT ![t] = cl],
           lock' \in Caller \union {None},
           \A u \in Caller \ {t} : pc[u] = "idle" => lock' # u,
           phase = "idle" => cl = None /\ lock' # t,
           phase \in Trying => cl \in Call,
           phase \in Trying \ {"entered", "failed"} => cl.entry \in Entry,
           phase \in {"creating", "registered"} => cl \in Creation
    PROVE  /\ CallsOK'
           /\ pc'[t] = phase /\ call'[t] = cl
           /\ \A u \in Caller \ {t} : pc'[u] = pc[u] /\ call'[u] = call[u]
<1>1. /\ pc'[t] = phase /\ call'[t] = cl
      /\ \A u \in Caller \ {t} : pc'[u] = pc[u] /\ call'[u] = call[u]
      /\ pc' \in [Caller -> Phase]
      /\ call' \in [Caller -> Call \union Creation \union {None}]
  BY DEF Goto, CallsOK
<1>2. CallOK(t)'
  BY <1>1 DEF CallOK
<1>3. \A u \in Caller \ {t} : CallOK(u)'
  BY <1>1 DEF CallOK, CallsOK
<1> QED
  BY <1>1, <1>2, <1>3 DEF CallsOK

LEMMA LeaveKeepsCalls ==
    ASSUME TypeInv, NEW t \in Caller, Leave(t)
    PROVE  /\ CallsOK'
           /\ pc'[t] = "idle"
           /\ \A u \in Caller \ {t} : pc'[u] = pc[u] /\ call'[u] = call[u]
<1>1. CallsOK /\ \A u \in Caller \ {t} : pc[u] = "idle" => lock # u
  BY TypeParts DEF TypeInv, CallsOK, CallOK
<1>2. lock' \in Caller \union {None} /\ lock' # t
      /\ \A u \in Caller \ {t} : pc[u] = "idle" => lock' # u
  BY <1>1, NoneAssumption DEF Leave, CallsOK
<1>3. "idle" \in Phase /\ "idle" \notin Trying
  BY DEF Phase, Trying
<1> QED
  BY <1>1, <1>2, <1>3, GotoKeepsCalls DEF Leave

(* A call that ends, having lost no case. *)
LEMMA LeaveTyped ==
    ASSUME TypeInv, NEW t \in Caller, pc[t] # "idle", Leave(t), UNCHANGED up, DataOK',
           \A c \in Case : mem.cases[c] \in Context => mem'.cases[c] \in Context
    PROVE  TypeInv'
<1>1. up = TRUE
  BY UpDuringCalls
<1>2. "idle" \notin Trying
  BY DEF Trying
<1>3. CallsOK' /\ CallInv'
  BY <1>1, <1>2, LeaveKeepsCalls, CallInvKept
<1> QED
  BY <1>3, TypeParts DEF TypeInv

(* A step of the try block that keeps the call's arguments and loses no case. *)
LEMMA TryTyped ==
    ASSUME TypeInv, NEW t \in Caller, pc[t] \in Trying, NEW phase \in Trying \ {"entered"},
           Goto(t, phase), UNCHANGED <<up, lock>>, DataOK',
           NEW entry \in Entry \union {None}, call' = [call EXCEPT ![t].entry = entry],
           phase # "failed" => entry \in Entry,
           \A c \in Case : mem.cases[c] \in Context => mem'.cases[c] \in Context
    PROVE  TypeInv'
<1> DEFINE cl == [call[t] EXCEPT !.entry = entry]
<1>1. call[t] \in Call
  BY TryingTyped
<1>2. /\ cl \in Call /\ cl.entry = entry /\ cl.case = call[t].case
      /\ cl.before = call[t].before
  BY <1>1 DEF Call
<1>3. CallsOK /\ \A u \in Caller \ {t} : pc[u] = "idle" => lock # u
  BY TypeParts DEF TypeInv, CallsOK, CallOK
<1>4. call' = [call EXCEPT ![t] = cl]
  BY <1>3 DEF CallsOK
<1>5. phase \in Phase /\ phase # "idle" /\ phase \notin {"creating", "registered"}
  BY DEF Phase, Trying
<1>6. pc[t] # "idle"
  BY DEF Trying
<1> HIDE DEF cl
<1>7. /\ CallsOK'
      /\ pc'[t] = phase /\ call'[t] = cl
      /\ \A u \in Caller \ {t} : pc'[u] = pc[u] /\ call'[u] = call[u]
  <2>1. lock' \in Caller \union {None} /\ \A u \in Caller \ {t} : pc[u] = "idle" => lock' # u
    BY <1>3 DEF CallsOK
  <2>2. cl \in Call \union Creation \union {None}
    BY <1>2
  <2>3. phase \in Trying \ {"entered", "failed"} => cl.entry \in Entry
    BY <1>2
  <2> QED
    BY <1>2, <1>3, <1>4, <1>5, <2>1, <2>2, <2>3, GotoKeepsCalls
<1>8. CallInv'
  <2>1. /\ call'[t].before.cases[call'[t].case] \in Context
        /\ mem'.cases[call'[t].case] \in Context
    BY <1>2, <1>7, TryingTyped
  <2>2. up = TRUE
    BY <1>6, UpDuringCalls
  <2> QED
    BY <1>7, <2>1, <2>2, CallInvKept
<1> QED
  BY <1>7, <1>8, TypeParts DEF TypeInv

LEMMA EnterTyped ==
    ASSUME TypeInv, NEW t \in Caller, NEW c \in Case, NEW op \in Operation \ {"create"},
           NEW decision \in Decision \union {None}, NEW action \in Action,
           NEW reserve \in BOOLEAN, op = "review" => decision \in Decision,
           Enter(t, op, c, decision, action, reserve)
    PROVE  TypeInv'
<1> DEFINE cl == [op |-> op, case |-> c, decision |-> decision, action |-> action,
                  reserve |-> reserve, before |-> mem, entry |-> None]
<1>1. /\ up /\ pc[t] = "idle" /\ mem.cases[c] # None
      /\ op \in Locked => lock = None
      /\ lock' = IF op \in Locked THEN t ELSE lock
      /\ call' = [call EXCEPT ![t] = cl]
      /\ Goto(t, "entered")
      /\ UNCHANGED <<up, mem, store, audit, stale, nextEvent, returned, faults>>
  BY DEF Enter
<1>2. mem \in State /\ mem.cases[c] \in Context
  BY <1>1, MemTyped DEF TypeInv, TypeOK
<1>3. cl \in Call /\ cl.case = c /\ cl.before = mem
  BY <1>2 DEF Call
<1> HIDE DEF cl
<1>4. CallsOK /\ DataOK /\ \A u \in Caller \ {t} : pc[u] = "idle" => lock # u
  BY TypeParts DEF TypeInv, CallsOK, CallOK
<1>5. DataOK'
  BY <1>1, <1>4 DEF DataOK
<1>6. lock' \in Caller \union {None} /\ \A u \in Caller \ {t} : pc[u] = "idle" => lock' # u
  BY <1>1, <1>4 DEF CallsOK
<1>7. "entered" \in Phase /\ "entered" \in Trying
  BY DEF Phase, Trying
<1>8. cl \in Call \union Creation \union {None}
  BY <1>3
<1>9. /\ CallsOK' /\ call'[t] = cl
      /\ \A u \in Caller \ {t} : pc'[u] = pc[u] /\ call'[u] = call[u]
  <2>1. "entered" # "idle" /\ "entered" \notin {"creating", "registered"}
        /\ "entered" \notin Trying \ {"entered", "failed"}
    OBVIOUS
  <2>2. Goto(t, "entered") /\ call' = [call EXCEPT ![t] = cl]
    BY <1>1
  <2> QED
    BY <1>3, <1>4, <1>6, <1>7, <1>8, <2>1, <2>2, GotoKeepsCalls
<1>10. CallInv'
  <2>1. mem' = mem /\ up = TRUE /\ up' = up
    BY <1>1, <1>4 DEF DataOK
  <2>2. /\ call'[t].before.cases[call'[t].case] \in Context
        /\ mem'.cases[call'[t].case] \in Context
    BY <1>2, <1>3, <1>9, <2>1
  <2> QED
    BY <1>9, <2>1, <2>2, CallInvKept
<1> QED
  BY <1>5, <1>9, <1>10, TypeParts DEF TypeInv

LEMMA SubmitReviewTyped ==
    ASSUME TypeInv, NEW t \in Caller, NEW c \in Case, NEW decision \in Decision,
           NEW action \in Action, NEW reserve \in BOOLEAN,
           SubmitReview(t, c, decision, action, reserve)
    PROVE  TypeInv'
<1>1. Enter(t, "review", c, decision, action, reserve)
  BY DEF SubmitReview
<1>2. "review" \in Operation \ {"create"}
  BY DEF Operation
<1> QED
  BY <1>1, <1>2, EnterTyped

LEMMA DispatchTyped ==
    ASSUME TypeInv, NEW t \in Caller, NEW c \in Case, DispatchExecution(t, c)
    PROVE  TypeInv'
<1>1. Enter(t, "dispatch", c, mem.cases[c].review.decision, mem.cases[c].review.action,
            mem.reserved[c] = None)
  BY DEF DispatchExecution
<1>2. mem.cases[c] # None /\ mem.cases[c].review # None
  BY DEF DispatchExecution, Dispatchable
<1>3. mem.cases[c] \in Context
  BY <1>2, MemTyped DEF TypeInv
<1>4. mem.cases[c].review \in Review
  BY <1>2, <1>3 DEF Context
<1>5. mem.cases[c].review.decision \in Decision /\ mem.cases[c].review.action \in Action
  BY <1>4 DEF Review
<1>6. "dispatch" \in Operation \ {"create"} /\ "dispatch" # "review"
  BY DEF Operation
<1>7. (mem.reserved[c] = None) \in BOOLEAN
  OBVIOUS
<1> QED
  BY <1>1, <1>5, <1>6, <1>7, EnterTyped

LEMMA DismissOrResolveTyped ==
    ASSUME TypeInv, NEW t \in Caller, NEW c \in Case,
           DismissCase(t, c) \/ ResolveCase(t, c)
    PROVE  TypeInv'
<1>1. Abstain \in Action
  BY CostTyped
<1>2. {"dismiss", "resolve"} \subseteq Operation \ {"create", "review"}
  BY DEF Operation
<1>3. CASE DismissCase(t, c)
  BY <1>1, <1>2, <1>3, EnterTyped DEF DismissCase
<1>4. CASE ResolveCase(t, c)
  BY <1>1, <1>2, <1>4, EnterTyped DEF ResolveCase
<1> QED
  BY <1>3, <1>4

LEMMA ReplayTyped ==
    ASSUME TypeInv, NEW t \in Caller, NEW result \in mem.results, ReplayDispatch(t, result)
    PROVE  TypeInv'
<1>1. mem.results \in SUBSET Result
  BY DEF TypeInv, TypeOK, State
<1>2. result.event \in Event
  BY <1>1 DEF Result
<1>3. returned' \subseteq Event
  BY <1>2 DEF ReplayDispatch, TypeInv, TypeOK
<1>4. TypeOK'
  BY <1>3 DEF ReplayDispatch, TypeInv, TypeOK
<1> QED
  BY <1>4 DEF ReplayDispatch, TypeInv, CallInv

LEMMA RaiseTyped ==
    ASSUME TypeInv, NEW t \in Caller, pc[t] \in Trying, Raise(t), UNCHANGED up,
           store' \in Store \union {None}, audit' \in Seq(Entry), stale' \in BOOLEAN,
           nextEvent' \in Event, returned' \subseteq Event, faults' \in 0 .. MaxFaults
    PROVE  TypeInv'
<1>1. mem' = Restored(t) /\ Goto(t, "failed") /\ UNCHANGED <<lock, call>>
  BY DEF Raise
<1>2. DataOK'
  BY <1>1, RestoredTyped DEF DataOK, TypeInv, TypeOK
<1>3. call[t] \in Call /\ call \in [Caller -> Call \union Creation \union {None}]
  BY TryingTyped DEF TypeInv, TypeOK
<1> DEFINE entry == call[t].entry
<1>4. entry \in Entry \union {None}
  BY <1>3 DEF Call
<1>5. call' = [call EXCEPT ![t].entry = entry]
  <2>1. [call[t] EXCEPT !.entry = entry] = call[t]
    BY <1>3 DEF Call
  <2> QED
    BY <1>1, <1>3, <2>1
<1> HIDE DEF entry
<1>6. "failed" \in Trying \ {"entered"}
  BY DEF Trying
<1> QED
  BY <1>1, <1>2, <1>4, <1>5, <1>6, RestoredTyped, TryTyped

LEMMA PrepareTyped ==
    ASSUME TypeInv, NEW t \in Caller, Prepare(t)
    PROVE  TypeInv'
<1> DEFINE cl == call[t]
           ctx == mem.cases[call[t].case]
           fits == cl.reserve => Cost[cl.action] <= Available(cl.case)
<1>1. /\ pc[t] = "entered" /\ pc[t] \in Trying
      /\ UNCHANGED <<up, store, audit, stale, returned, faults>>
  BY DEF Prepare, Trying
<1>2. DataOK
  BY TypeParts DEF TypeInv
<1>3. CASE Accepts(cl.op, ctx) /\ fits
  <2> DEFINE entry == NewEntry(nextEvent, cl.case, ctx.state, Target[cl.op],
                               Moved(cl, ctx).review)
  <2>1. /\ mem' = Prepared(cl, ctx) /\ nextEvent' = nextEvent + 1
        /\ call' = [call EXCEPT ![t].entry = entry]
        /\ Goto(t, "prepared") /\ UNCHANGED lock
    BY <1>3 DEF Prepare
  <2>2. Prepared(cl, ctx) \in State
        /\ Prepared(cl, ctx).cases = [mem.cases EXCEPT ![cl.case] = Moved(cl, ctx)]
    BY <1>1, <1>3, PreparedTyped
  <2>3. entry \in Entry /\ Moved(cl, ctx) \in Context
    BY <1>1, <1>3, MovedTyped
  <2>4. cl.case \in Case
    BY <1>1, TryingTyped
  <2>5. nextEvent' \in Event
    BY <1>2, <2>1 DEF DataOK, Event
  <2>6. DataOK'
    BY <1>1, <1>2, <2>1, <2>2, <2>5 DEF DataOK
  <2>7. \A c \in Case : mem.cases[c] \in Context => mem'.cases[c] \in Context
    <3> SUFFICES ASSUME NEW c \in Case, mem.cases[c] \in Context
                 PROVE  mem'.cases[c] \in Context
      OBVIOUS
    <3>1. mem.cases \in [Case -> Context \union {None}]
      BY MemTyped DEF TypeInv
    <3> QED
      BY <2>1, <2>2, <2>3, <3>1
  <2>8. "prepared" \in Trying \ {"entered"} /\ up' = up
    BY <1>1 DEF Trying
  <2> HIDE DEF entry
  <2> QED
    BY <1>1, <2>1, <2>3, <2>6, <2>7, <2>8, TryTyped
<1>4. CASE ~(Accepts(cl.op, ctx) /\ fits)
  <2>1. Raise(t) /\ UNCHANGED nextEvent
    BY <1>4 DEF Prepare
  <2> QED
    BY <1>1, <1>2, <2>1, RaiseTyped DEF DataOK
<1> QED
  BY <1>3, <1>4

LEMMA PendingTyped ==
    ASSUME TypeInv, NEW t \in Caller, pc[t] \in {"prepared", "begun"}
    PROVE  PendingStore(t) \in Store
<1>1. call[t].entry \in Entry /\ mem \in State
  BY DEF TypeInv, TypeOK, Trying
<1>2. call[t].before \in State /\ call[t].entry.event \in Event
  BY <1>1, TryingTyped DEF Trying, Entry
<1> QED
  BY <1>1, <1>2 DEF PendingStore, Store, Pending

(* A step of the try block that changes nothing of the call but its phase. *)
LEMMA StepTyped ==
    ASSUME TypeInv, NEW t \in Caller, pc[t] \in Trying, NEW phase \in {"begun", "audited"},
           pc[t] \notin {"entered", "failed"}, Goto(t, phase),
           UNCHANGED <<up, mem, lock, call>>, DataOK'
    PROVE  TypeInv'
<1> DEFINE entry == call[t].entry
<1>1. entry \in Entry /\ call[t] \in Call
      /\ call \in [Caller -> Call \union Creation \union {None}]
  BY DEF TypeInv, TypeOK
<1>2. call' = [call EXCEPT ![t].entry = entry]
  <2>1. [call[t] EXCEPT !.entry = entry] = call[t]
    BY <1>1 DEF Call
  <2> QED
    BY <1>1, <2>1
<1> HIDE DEF entry
<1>3. phase \in Trying \ {"entered"}
  BY DEF Trying
<1> QED
  BY <1>1, <1>2, <1>3, TryTyped

LEMMA BeginTyped ==
    ASSUME TypeInv, NEW t \in Caller, BeginPending(t)
    PROVE  TypeInv'
<1>1. pc[t] = "prepared" /\ pc[t] \in Trying /\ Goto(t, "begun") /\ store' = PendingStore(t)
      /\ UNCHANGED <<up, mem, audit, stale, lock, call, nextEvent, returned, faults>>
  BY DEF BeginPending, Trying
<1>2. DataOK'
  BY <1>1, PendingTyped, TypeParts DEF TypeInv, DataOK
<1> QED
  BY <1>1, <1>2, StepTyped

LEMMA FaultTyped ==
    ASSUME TypeInv, NEW kind, Fault(kind)
    PROVE  faults' \in 0 .. MaxFaults
BY WorkflowAssumption DEF Fault, TypeInv, TypeOK

LEMMA BeginFailsTyped ==
    ASSUME TypeInv, NEW t \in Caller, NEW replaced \in BOOLEAN, BeginFails(t, replaced)
    PROVE  TypeInv'
<1>1. pc[t] = "prepared" /\ pc[t] \in Trying /\ Raise(t)
      /\ UNCHANGED <<up, audit, stale, nextEvent, returned>>
  BY DEF BeginFails, Trying
<1>2. faults' \in 0 .. MaxFaults
  BY FaultTyped DEF BeginFails
<1>3. store' \in Store \union {None}
  BY <1>1, PendingTyped DEF BeginFails, TypeInv, TypeOK
<1> QED
  BY <1>1, <1>2, <1>3, RaiseTyped DEF TypeInv, TypeOK

LEMMA AppendAuditTyped ==
    ASSUME TypeInv, NEW t \in Caller, AppendAudit(t)
    PROVE  TypeInv'
<1>1. pc[t] = "begun" /\ pc[t] \in Trying /\ pc[t] \in Trying \ {"entered", "failed"}
      /\ Goto(t, "audited") /\ audit' = Append(audit, call[t].entry)
      /\ UNCHANGED <<up, mem, store, stale, lock, call, nextEvent, returned, faults>>
  BY DEF AppendAudit, Trying
<1>2. call[t].entry \in Entry /\ audit \in Seq(Entry)
  BY <1>1 DEF TypeInv, TypeOK
<1>3. audit' \in Seq(Entry)
  BY <1>1, <1>2
<1>4. DataOK'
  BY <1>1, <1>3, TypeParts DEF TypeInv, DataOK
<1> QED
  BY <1>1, <1>4, StepTyped

LEMMA AppendFailsTyped ==
    ASSUME TypeInv, NEW t \in Caller, AppendFails(t)
    PROVE  TypeInv'
<1>1. pc[t] = "begun" /\ pc[t] \in Trying /\ pc[t] \in Trying \ {"entered", "failed"}
      /\ Raise(t) /\ UNCHANGED <<up, store, nextEvent, returned>>
  BY DEF AppendFails, Trying
<1>2. call[t].entry \in Entry /\ audit \in Seq(Entry)
  BY <1>1 DEF TypeInv, TypeOK
<1>3. audit' \in Seq(Entry)
  BY <1>2 DEF AppendFails
<1>4. stale' \in BOOLEAN /\ faults' \in 0 .. MaxFaults
  BY FaultTyped DEF AppendFails, AppendRaises, TypeInv, TypeOK
<1> QED
  BY <1>1, <1>3, <1>4, RaiseTyped DEF TypeInv, TypeOK

LEMMA CommitTyped ==
    ASSUME TypeInv, NEW t \in Caller, Commit(t)
    PROVE  TypeInv'
<1>1. pc[t] = "audited" /\ pc[t] # "idle" /\ pc[t] \in Trying \ {"entered", "failed"}
      /\ Leave(t) /\ UNCHANGED <<up, mem, audit, stale, nextEvent, faults>>
      /\ store' = [committed |-> mem, pending |-> None]
      /\ returned' = returned \union {call[t].entry.event}
  BY DEF Commit, Trying
<1>2. DataOK /\ call[t].entry \in Entry
  BY <1>1, TypeParts DEF TypeInv, TypeOK
<1>3. call[t].entry.event \in Event /\ store' \in Store
  BY <1>1, <1>2 DEF Entry, Store, DataOK
<1>4. DataOK'
  BY <1>1, <1>2, <1>3 DEF DataOK
<1> QED
  BY <1>1, <1>4, LeaveTyped

LEMMA CommitFailsTyped ==
    ASSUME TypeInv, NEW t \in Caller, NEW replaced \in BOOLEAN, CommitFails(t, replaced)
    PROVE  TypeInv'
<1>1. pc[t] = "audited" /\ pc[t] # "idle" /\ pc[t] \in Trying
      /\ Leave(t) /\ UNCHANGED <<up, audit, stale, nextEvent, returned>>
      /\ mem' = Restored(t)
  BY DEF CommitFails, Trying
<1>2. DataOK
  BY TypeParts DEF TypeInv
<1>3. faults' \in 0 .. MaxFaults
  BY FaultTyped DEF CommitFails
<1>4. store' \in Store \union {None}
  BY <1>2 DEF CommitFails, Store, DataOK
<1>5. mem' \in State /\ \A c \in Case : mem.cases[c] \in Context => mem'.cases[c] \in Context
  BY <1>1, RestoredTyped
<1>6. DataOK'
  BY <1>1, <1>2, <1>3, <1>4, <1>5 DEF DataOK
<1> QED
  BY <1>1, <1>5, <1>6, LeaveTyped

LEMMA RollbackTyped ==
    ASSUME TypeInv, NEW t \in Caller, Rollback(t) \/ RollbackFails(t)
    PROVE  TypeInv'
<1>1. pc[t] = "failed" /\ pc[t] # "idle" /\ pc[t] \in Trying
      /\ Leave(t) /\ UNCHANGED <<up, mem, audit, stale, nextEvent, returned>>
  BY DEF Rollback, RollbackFails, Trying
<1>2. DataOK
  BY TypeParts DEF TypeInv
<1>3. store' \in Store \union {None}
  BY <1>1, <1>2, TryingTyped DEF Rollback, RollbackFails, Store, DataOK
<1>4. faults' \in 0 .. MaxFaults
  BY <1>2, FaultTyped DEF Rollback, RollbackFails, DataOK
<1>5. DataOK'
  BY <1>1, <1>2, <1>3, <1>4 DEF DataOK
<1> QED
  BY <1>1, <1>5, LeaveTyped

LEMMA CreationTyped ==
    ASSUME TypeInv, NEW t \in Caller, pc[t] \in {"creating", "registered"}
    PROVE  /\ call[t] \in Creation /\ call[t].case \in Case /\ call[t].made \in Seq(Event)
           /\ pc[t] # "idle"
BY DEF TypeInv, TypeOK, Creation

(* A step of create_case that leaves the lock alone and loses no case. *)
LEMMA CreateStepTyped ==
    ASSUME TypeInv, NEW t \in Caller, up, NEW phase \in {"creating", "registered"},
           Goto(t, phase), NEW cl \in Creation, call' = [call EXCEPT ![t] = cl],
           UNCHANGED <<up, lock>>, DataOK',
           \A c \in Case : mem.cases[c] \in Context => mem'.cases[c] \in Context
    PROVE  TypeInv'
<1>1. CallsOK /\ \A u \in Caller \ {t} : pc[u] = "idle" => lock' # u
  BY TypeParts DEF TypeInv, CallsOK, CallOK
<1>2. phase \in Phase /\ phase # "idle" /\ phase \notin Trying
  BY DEF Phase, Trying
<1>3. lock' \in Caller \union {None}
  BY <1>1 DEF CallsOK
<1>4. /\ CallsOK' /\ pc'[t] = phase
      /\ \A u \in Caller \ {t} : pc'[u] = pc[u] /\ call'[u] = call[u]
  BY <1>1, <1>2, <1>3, GotoKeepsCalls
<1>5. CallInv'
  BY <1>2, <1>4, CallInvKept
<1> QED
  BY <1>4, <1>5, TypeParts DEF TypeInv

LEMMA CreateCaseTyped ==
    ASSUME TypeInv, NEW t \in Caller, NEW c \in Case, CreateCase(t, c)
    PROVE  TypeInv'
<1> DEFINE cl == [op |-> "create", case |-> c, made |-> <<>>]
<1>1. /\ up /\ Goto(t, "creating") /\ call' = [call EXCEPT ![t] = cl]
      /\ UNCHANGED <<up, mem, store, audit, stale, lock, nextEvent, returned, faults>>
  BY DEF CreateCase
<1>2. cl \in Creation
  BY DEF Creation
<1>3. DataOK'
  BY <1>1, TypeParts DEF TypeInv, DataOK
<1> HIDE DEF cl
<1> QED
  BY <1>1, <1>2, <1>3, CreateStepTyped

LEMMA IntakeEntryTyped ==
    ASSUME TypeInv, NEW t \in Caller, pc[t] = "creating", Len(call[t].made) < Len(Intake)
    PROVE  IntakeEntry(t) \in Entry /\ IntakeEntry(t).event = nextEvent
<1> DEFINE n == Len(call[t].made) + 1
<1>1. call[t].case \in Case /\ call[t].made \in Seq(Event)
  BY CreationTyped
<1>2. Len(Intake) = 4
  BY IntakeTyped
<1>3. n \in 1 .. 4
  BY <1>1, <1>2
<1>4. nextEvent \in Event
  BY DEF TypeInv, TypeOK
<1>5. IntakeEntry(t) = NewEntry(nextEvent, call[t].case, Before(n), Intake[n], None)
  BY DEF IntakeEntry
<1> HIDE DEF n
<1>6. NewEntry(nextEvent, call[t].case, Before(n), Intake[n], None) \in Entry
  BY <1>1, <1>3, <1>4, IntakeTyped, NewEntryTyped
<1>7. NewEntry(nextEvent, call[t].case, Before(n), Intake[n], None).event = nextEvent
  BY DEF NewEntry
<1> QED
  BY <1>5, <1>6, <1>7

LEMMA AppendIntakeTyped ==
    ASSUME TypeInv, NEW t \in Caller, AppendIntake(t)
    PROVE  TypeInv'
<1> DEFINE cl == [call[t] EXCEPT !.made = Append(@, nextEvent)]
<1>1. /\ pc[t] = "creating" /\ Len(call[t].made) < Len(Intake)
      /\ audit' = Append(audit, IntakeEntry(t))
      /\ call' = [call EXCEPT ![t].made = Append(@, nextEvent)]
      /\ nextEvent' = nextEvent + 1
      /\ UNCHANGED <<up, mem, store, stale, lock, pc, returned, faults>>
  BY DEF AppendIntake
<1>2. DataOK /\ CallsOK
  BY TypeParts DEF TypeInv
<1>3. call[t] \in Creation /\ call[t].made \in Seq(Event) /\ nextEvent \in Event
  BY <1>1, <1>2, CreationTyped DEF DataOK
<1>4. cl \in Creation
  <2>1. Append(call[t].made, nextEvent) \in Seq(Event)
    BY <1>3
  <2> QED
    BY <1>3, <2>1 DEF Creation
<1>5. call' = [call EXCEPT ![t] = cl] /\ Goto(t, "creating")
  BY <1>1, <1>2 DEF CallsOK, Goto
<1>6. DataOK'
  <2>1. audit' \in Seq(Entry) /\ nextEvent' \in Event
    BY <1>1, <1>2, <1>3, IntakeEntryTyped DEF DataOK, Event
  <2> QED
    BY <1>1, <1>2, <2>1 DEF DataOK
<1>7. up = TRUE
  BY <1>1, UpDuringCalls
<1> HIDE DEF cl
<1> QED
  BY <1>1, <1>4, <1>5, <1>6, <1>7, CreateStepTyped

LEMMA AppendIntakeFailsTyped ==
    ASSUME TypeInv, NEW t \in Caller, AppendIntakeFails(t)
    PROVE  TypeInv'
<1>1. /\ pc[t] = "creating" /\ pc[t] # "idle" /\ Len(call[t].made) < Len(Intake)
      /\ Leave(t) /\ UNCHANGED <<up, mem, store, returned>>
  BY DEF AppendIntakeFails
<1>2. DataOK
  BY TypeParts DEF TypeInv
<1>3. audit' \in Seq(Entry) /\ nextEvent' \in Event
  BY <1>1, <1>2, IntakeEntryTyped DEF AppendIntakeFails, DataOK, Event
<1>4. stale' \in BOOLEAN /\ faults' \in 0 .. MaxFaults
  BY <1>2, FaultTyped DEF AppendIntakeFails, AppendRaises, DataOK
<1>5. DataOK'
  BY <1>1, <1>2, <1>3, <1>4 DEF DataOK
<1> QED
  BY <1>1, <1>5, LeaveTyped

LEMMA RegisterCaseTyped ==
    ASSUME TypeInv, NEW t \in Caller, RegisterCase(t)
    PROVE  TypeInv'
<1> DEFINE ctx == NewContext(Range(call[t].made))
           c0 == call[t].case
<1>1. /\ pc[t] = "creating" /\ mem' = [mem EXCEPT !.cases[c0] = ctx]
      /\ Goto(t, "registered")
      /\ UNCHANGED <<up, store, audit, stale, lock, call, nextEvent, returned, faults>>
  BY DEF RegisterCase
<1>2. call[t] \in Creation /\ c0 \in Case /\ call[t].made \in Seq(Event)
  BY <1>1, CreationTyped
<1>3. Range(call[t].made) \in SUBSET Event
  BY <1>2 DEF Range
<1>4. ctx \in Context
  BY <1>3, NewContextTyped
<1>5. DataOK /\ CallsOK
  BY TypeParts DEF TypeInv
<1> HIDE DEF ctx, c0
<1>6. /\ mem'.cases = [mem.cases EXCEPT ![c0] = ctx] /\ mem' \in State
      /\ mem.cases \in [Case -> Context \union {None}]
  BY <1>1, <1>2, <1>4, <1>5 DEF DataOK, State
<1>7. \A c \in Case : mem.cases[c] \in Context => mem'.cases[c] \in Context
  BY <1>2, <1>4, <1>6
<1>8. DataOK'
  BY <1>1, <1>5, <1>6 DEF DataOK
<1>9. up = TRUE /\ call' = [call EXCEPT ![t] = call[t]]
  BY <1>1, <1>5, UpDuringCalls DEF CallsOK
<1> QED
  BY <1>1, <1>2, <1>7, <1>8, <1>9, CreateStepTyped

LEMMA PersistCaseTyped ==
    ASSUME TypeInv, NEW t \in Caller,
           PersistCase(t) \/ \E replaced \in BOOLEAN : PersistCaseFails(t, replaced)
    PROVE  TypeInv'
<1>1. /\ pc[t] # "idle" /\ Leave(t)
      /\ UNCHANGED <<up, mem, audit, stale, nextEvent, returned>>
  BY DEF PersistCase, PersistCaseFails
<1>2. DataOK
  BY TypeParts DEF TypeInv
<1>3. store' \in Store \union {None}
  BY <1>2 DEF PersistCase, PersistCaseFails, Store, DataOK
<1>4. faults' \in 0 .. MaxFaults
  BY <1>2, FaultTyped DEF PersistCase, PersistCaseFails, DataOK
<1>5. DataOK'
  BY <1>1, <1>2, <1>3, <1>4 DEF DataOK
<1> QED
  BY <1>1, <1>5, LeaveTyped

LEMMA CrashTyped == TypeInv /\ Crash => TypeInv'
<1> SUFFICES ASSUME TypeInv, Crash
             PROVE  TypeInv'
  OBVIOUS
<1>1. /\ up' = FALSE /\ mem' = EmptyState /\ lock' = None
      /\ pc' = [t \in Caller |-> "idle"] /\ call' = [t \in Caller |-> None]
      /\ UNCHANGED <<store, audit, stale, nextEvent, returned>>
  BY DEF Crash
<1>2. faults' \in 0 .. MaxFaults
  BY FaultTyped DEF Crash
<1>3. DataOK'
  BY <1>1, <1>2, EmptyTyped, TypeParts DEF TypeInv, DataOK
<1>4. "idle" \in Phase \ (Trying \union {"creating", "registered"})
  BY DEF Phase, Trying
<1>5. CallsOK'
  <2>1. \A t \in Caller : CallOK(t)'
    BY <1>1, <1>4, NoneAssumption DEF CallOK
  <2> QED
    BY <1>1, <1>4, <2>1 DEF CallsOK
<1>6. CallInv'
  BY <1>1, <1>4 DEF CallInv
<1> QED
  BY <1>3, <1>5, <1>6, TypeParts DEF TypeInv

LEMMA SelectedTyped == TypeOK => Selected \in State
<1> SUFFICES ASSUME TypeOK, store # None
             PROVE  Selected \in State
  BY EmptyTyped DEF Selected
<1>1. store \in Store
  BY DEF TypeOK
<1>2. store.committed \in State /\ store.pending \in Pending \union {None}
  BY <1>1 DEF Store
<1>3. store.pending # None => store.pending.target \in State
  BY <1>2 DEF Pending
<1> QED
  BY <1>2, <1>3 DEF Selected

LEMMA RestartTyped == TypeInv /\ Restart => TypeInv'
<1> SUFFICES ASSUME TypeInv, Restart
             PROVE  TypeInv'
  OBVIOUS
<1>1. /\ ~up /\ up' = TRUE /\ mem' = Selected /\ stale' = FALSE
      /\ UNCHANGED <<store, audit, lock, pc, call, nextEvent, returned, faults>>
  BY DEF Restart
<1>2. TypeOK'
  BY <1>1, SelectedTyped DEF TypeInv, TypeOK
<1>3. \A t \in Caller : pc'[t] \notin Trying
  BY <1>1 DEF TypeInv, CallInv, Trying
<1> QED
  BY <1>1, <1>2, <1>3 DEF TypeInv, CallInv

LEMMA StutterTyped == TypeInv /\ UNCHANGED vars => TypeInv'
BY DEF TypeInv, TypeOK, CallInv, vars

LEMMA NextTyped == TypeInv /\ [Next]_vars => TypeInv'
<1> SUFFICES ASSUME TypeInv, Next
             PROVE  TypeInv'
  BY StutterTyped
<1>1. ASSUME NEW t \in Caller, NEW c \in Case, NEW decision \in Decision,
             NEW action \in Action, NEW reserve \in BOOLEAN,
             SubmitReview(t, c, decision, action, reserve)
      PROVE  TypeInv'
  BY <1>1, SubmitReviewTyped
<1>2. ASSUME NEW t \in Caller, NEW c \in Case,
             \/ DispatchExecution(t, c) \/ DismissCase(t, c)
             \/ ResolveCase(t, c) \/ CreateCase(t, c)
      PROVE  TypeInv'
  BY <1>2, DispatchTyped, DismissOrResolveTyped, CreateCaseTyped
<1>3. ASSUME NEW t \in Caller, NEW result \in mem.results, ReplayDispatch(t, result)
      PROVE  TypeInv'
  BY <1>3, ReplayTyped
<1>4. ASSUME NEW t \in Caller, NEW replaced \in BOOLEAN,
             BeginFails(t, replaced) \/ CommitFails(t, replaced) \/ PersistCaseFails(t, replaced)
      PROVE  TypeInv'
  BY <1>4, BeginFailsTyped, CommitFailsTyped, PersistCaseTyped
<1>5. ASSUME NEW t \in Caller,
             \/ Prepare(t) \/ BeginPending(t) \/ AppendAudit(t) \/ AppendFails(t)
             \/ Commit(t) \/ Rollback(t) \/ RollbackFails(t)
      PROVE  TypeInv'
  BY <1>5, PrepareTyped, BeginTyped, AppendAuditTyped, AppendFailsTyped, CommitTyped,
     RollbackTyped
<1>6. ASSUME NEW t \in Caller,
             AppendIntake(t) \/ AppendIntakeFails(t) \/ RegisterCase(t) \/ PersistCase(t)
      PROVE  TypeInv'
  BY <1>6, AppendIntakeTyped, AppendIntakeFailsTyped, RegisterCaseTyped, PersistCaseTyped
<1>7. CASE Crash
  BY <1>7, CrashTyped
<1>8. CASE Restart
  BY <1>8, RestartTyped
<1> QED
  BY <1>1, <1>2, <1>3, <1>4, <1>5, <1>6, <1>7, <1>8 DEF Next

(* Every variable keeps its type, a call its arguments, and only a call      *)
(* holds the service's lock, whoever calls and whatever fails.               *)
THEOREM TypeCorrect == Spec => []TypeOK
<1>1. Init => TypeInv
  BY InitTyped
<1>2. TypeInv /\ [Next]_vars => TypeInv'
  BY NextTyped
<1>3. TypeInv => TypeOK
  BY DEF TypeInv
<1> QED
  BY <1>1, <1>2, <1>3, PTL DEF Spec

(***************************************************************************)
(* The state file is one that a restart accepts.                           *)
(***************************************************************************)

(* A state that refers to no event outside ids. *)
Within(state, ids) ==
    \A c \in Case : state.cases[c] \in Context => state.cases[c].events \subseteq ids

(* The same, but for event e of case c0. *)
WithinBut(state, ids, c0, e) ==
    \A c \in Case : state.cases[c] \in Context =>
        state.cases[c].events \subseteq ids \union (IF c = c0 THEN {e} ELSE {})

(* The committed state is covered by the ledger, the pending one but for the *)
(* event it waits for.                                                       *)
StoreWithin(file, ids) ==
    file # None =>
        /\ Within(file.committed, ids)
        /\ file.pending # None =>
               Within(file.pending.target, ids \union {file.pending.event})

(* Phases with a transition in memory that is not audited. *)
Unaudited == {"prepared", "begun"}

(* What a caller holds and may write to the state file. *)
CallWithin(t, ids) ==
    /\ pc[t] # "idle" /\ call[t].op \in Locked => lock = t
    /\ pc[t] \in Trying => Within(call[t].before, ids)
    /\ pc[t] \in Unaudited => WithinBut(mem, ids, call[t].case, call[t].entry.event)
    /\ pc[t] \in {"creating", "registered"} => Range(call[t].made) \subseteq ids

(* The inductive invariant: at most one call runs, and memory, its snapshot  *)
(* and the state file are covered by the ledger but for its own event.       *)
RecoveryInv ==
    /\ \A t, u \in Caller : pc[t] # "idle" /\ pc[u] # "idle" => t = u
    /\ \A t \in Caller : CallWithin(t, EventIds(audit))
    /\ (\A t \in Caller : pc[t] \notin Unaudited) => Within(mem, EventIds(audit))
    /\ StoreWithin(store, EventIds(audit))

(***************************************************************************)
(* What the ledger covers it goes on covering.                             *)
(***************************************************************************)

LEMMA WithinGrows ==
    ASSUME NEW small, NEW large, small \subseteq large
    PROVE  /\ \A state : Within(state, small) => Within(state, large)
           /\ \A state, c0, e : WithinBut(state, small, c0, e) => WithinBut(state, large, c0, e)
           /\ \A file : StoreWithin(file, small) => StoreWithin(file, large)
<1>1. \A one, two : one \subseteq two =>
          \A state : Within(state, one) => Within(state, two)
  BY DEF Within
<1>2. \A state : Within(state, small) => Within(state, large)
  BY <1>1
<1>3. \A state, c0, e : WithinBut(state, small, c0, e) => WithinBut(state, large, c0, e)
  BY DEF WithinBut
<1>4. ASSUME NEW file, StoreWithin(file, small)
      PROVE  StoreWithin(file, large)
  <2>1. ASSUME file # None, file.pending # None
        PROVE  Within(file.pending.target, large \union {file.pending.event})
    <3>1. small \union {file.pending.event} \subseteq large \union {file.pending.event}
      OBVIOUS
    <3> QED
      BY <1>1, <1>4, <2>1, <3>1 DEF StoreWithin
  <2> QED
    BY <1>2, <1>4, <2>1 DEF StoreWithin
<1> QED
  BY <1>2, <1>3, <1>4

LEMMA ButIsWithin ==
    ASSUME NEW state, NEW ids, NEW c0, NEW e, WithinBut(state, ids, c0, e)
    PROVE  Within(state, ids \union {e})
BY DEF Within, WithinBut

LEMMA LedgerGrows ==
    ASSUME audit \in Seq(Entry), NEW entry \in Entry, audit' = Append(audit, entry)
    PROVE  EventIds(audit') = EventIds(audit) \union {entry.event}
<1>1. Len(audit) \in Nat /\ DOMAIN audit = 1 .. Len(audit)
  OBVIOUS
<1>2. /\ DOMAIN audit' = 1 .. Len(audit) + 1
      /\ audit'[Len(audit) + 1] = entry
      /\ \A k \in DOMAIN audit : audit'[k] = audit[k]
  BY <1>1
<1>3. entry.event \in EventIds(audit')
  BY <1>1, <1>2 DEF EventIds
<1>4. EventIds(audit) \subseteq EventIds(audit')
  BY <1>1, <1>2 DEF EventIds
<1>5. \A k \in DOMAIN audit' : k = Len(audit) + 1 \/ k \in DOMAIN audit
  BY <1>1, <1>2
<1>6. EventIds(audit') \subseteq EventIds(audit) \union {entry.event}
  BY <1>2, <1>5 DEF EventIds
<1> QED
  BY <1>3, <1>4, <1>6

(* For a state of the service, coverage is what a restart asks for. *)
LEMMA WithinIsRecoverable ==
    ASSUME NEW state \in State, Within(state, EventIds(audit))
    PROVE  Recoverable(state)
BY DEF Within, Recoverable, State

LEMMA SelectedWithin ==
    ASSUME StoreWithin(store, EventIds(audit))
    PROVE  Within(Selected, EventIds(audit))
<1>1. CASE store = None
  BY <1>1, NoneAssumption DEF Selected, EmptyState, Within
<1>2. CASE store # None /\ store.pending # None /\ store.pending.event \in EventIds(audit)
  <2>1. EventIds(audit) \union {store.pending.event} = EventIds(audit)
    BY <1>2
  <2> QED
    BY <1>2, <2>1 DEF Selected, StoreWithin
<1>3. CASE store # None
           /\ ~(store.pending # None /\ store.pending.event \in EventIds(audit))
  BY <1>3 DEF Selected, StoreWithin
<1> QED
  BY <1>1, <1>2, <1>3

(***************************************************************************)
(* The steps of a call, while no other runs.                               *)
(***************************************************************************)

LEMMA InitRecovery == Init => RecoveryInv
<1> SUFFICES ASSUME Init
             PROVE  RecoveryInv
  OBVIOUS
<1>1. \A t \in Caller : pc[t] = "idle" /\ pc[t] \notin Trying
                        /\ pc[t] \notin Unaudited /\ pc[t] \notin {"creating", "registered"}
  BY DEF Init, Trying, Unaudited
<1>2. \A k \in DOMAIN SeedAudit : SeedAudit[k].event = k
  BY DEF SeedAudit, SeedEntry, NewEntry
<1>3. \A c \in Case : {k \in DOMAIN SeedAudit : SeedAudit[k].case = c} \subseteq EventIds(SeedAudit)
  BY <1>2 DEF EventIds
<1>4. ASSUME NEW c \in Case, SeedState.cases[c] \in Context
      PROVE  SeedState.cases[c].events \subseteq EventIds(SeedAudit)
  <2> DEFINE seen == {k \in DOMAIN SeedAudit : SeedAudit[k].case = c}
  <2>1. SeedState.cases[c] = IF \E k \in DOMAIN SeedAudit : SeedAudit[k].case = c
                             THEN NewContext(seen) ELSE None
    BY DEF SeedState, EmptyState
  <2>2. SeedState.cases[c] = NewContext(seen)
    BY <1>4, <2>1, NoneAssumption
  <2>3. SeedState.cases[c].events = seen
    BY <2>2 DEF NewContext
  <2> QED
    BY <1>3, <2>3
<1>5. Within(SeedState, EventIds(SeedAudit))
  BY <1>4 DEF Within
<1>6. audit = SeedAudit /\ mem = SeedState
      /\ store = IF Known = <<>> THEN None ELSE [committed |-> SeedState, pending |-> None]
  BY DEF Init
<1>7. StoreWithin(store, EventIds(audit))
  BY <1>5, <1>6 DEF StoreWithin
<1> QED
  BY <1>1, <1>5, <1>6, <1>7 DEF RecoveryInv, CallWithin

(* Under Alone, a call begins only when every other caller is idle.          *)
LEMMA BeginsAlone ==
    ASSUME Alone, TypeInv, RecoveryInv, NEW t \in Caller, NEW op, pc[t] = "idle",
           Admitted(t, op), op \in Locked => lock = None
    PROVE  \A u \in Caller : pc[u] = "idle"
<1> SUFFICES ASSUME NEW u \in Caller, pc[u] # "idle"
             PROVE  FALSE
  OBVIOUS
<1>1. op \in Locked /\ call[u].op \in Locked
  BY DEF Admitted
<1>2. lock = None /\ lock = u
  BY <1>1 DEF RecoveryInv, CallWithin
<1> QED
  BY <1>2, NoneAssumption

LEMMA OthersIdle ==
    ASSUME RecoveryInv, NEW t \in Caller, pc[t] # "idle"
    PROVE  \A u \in Caller \ {t} : pc[u] = "idle"
BY DEF RecoveryInv

(* The invariant after a step of the only caller there is.                   *)
LEMMA OnlyCaller ==
    ASSUME TypeInv', NEW t \in Caller,
           \A u \in Caller \ {t} : pc[u] = "idle" /\ pc'[u] = pc[u],
           StoreWithin(store', EventIds(audit')),
           pc'[t] # "idle" /\ call'[t].op \in Locked => lock' = t,
           pc'[t] \in Trying => Within(call'[t].before, EventIds(audit')),
           pc'[t] \in {"creating", "registered"} => Range(call'[t].made) \subseteq EventIds(audit'),
           IF pc'[t] \in Unaudited
           THEN WithinBut(mem', EventIds(audit'), call'[t].case, call'[t].entry.event)
           ELSE Within(mem', EventIds(audit'))
    PROVE  RecoveryInv'
<1>1. \A u \in Caller \ {t} : pc'[u] = "idle"
  OBVIOUS
<1>2. "idle" \notin Trying \union Unaudited \union {"creating", "registered"}
  BY DEF Trying, Unaudited
<1>3. \A u \in Caller \ {t} : CallWithin(u, EventIds(audit))'
  BY <1>1, <1>2 DEF CallWithin
<1>4. CallWithin(t, EventIds(audit))'
  BY DEF CallWithin
<1>5. (\A u \in Caller : pc'[u] \notin Unaudited) => Within(mem', EventIds(audit'))
  OBVIOUS
<1>6. \A u, v \in Caller : pc'[u] # "idle" /\ pc'[v] # "idle" => u = v
  BY <1>1
<1>7. \A u \in Caller : CallWithin(u, EventIds(audit))'
  BY <1>3, <1>4
<1> QED
  BY <1>5, <1>6, <1>7 DEF RecoveryInv

LEMMA EnterRecovery ==
    ASSUME Alone, TypeInv, TypeInv', RecoveryInv, NEW t \in Caller, NEW c \in Case,
           NEW op \in Operation \ {"create"}, NEW decision, NEW action, NEW reserve,
           Enter(t, op, c, decision, action, reserve)
    PROVE  RecoveryInv'
<1>1. /\ pc[t] = "idle" /\ Admitted(t, op)
      /\ op \in Locked => lock = None
      /\ lock' = IF op \in Locked THEN t ELSE lock
      /\ call' = [call EXCEPT ![t] =
                     [op |-> op, case |-> c, decision |-> decision, action |-> action,
                      reserve |-> reserve, before |-> mem, entry |-> None]]
      /\ pc' = [pc EXCEPT ![t] = "entered"]
      /\ UNCHANGED <<mem, store, audit>>
  BY DEF Enter, Goto
<1>2. /\ pc \in [Caller -> Phase]
      /\ call \in [Caller -> Call \union Creation \union {None}]
  BY DEF TypeInv, TypeOK
<1>3. \A u \in Caller : pc[u] = "idle"
  BY <1>1, BeginsAlone
<1>4. Within(mem, EventIds(audit)) /\ StoreWithin(store, EventIds(audit))
  BY <1>3 DEF RecoveryInv, Unaudited
<1>5. pc'[t] = "entered" /\ call'[t].op = op /\ call'[t].before = mem
  BY <1>1, <1>2
<1>6. \A u \in Caller \ {t} : pc'[u] = pc[u]
  BY <1>1, <1>2
<1>7. "entered" \notin Unaudited \union {"creating", "registered"}
  BY DEF Unaudited
<1> QED
  BY <1>1, <1>3, <1>4, <1>5, <1>6, <1>7, OnlyCaller

LEMMA CreateRecovery ==
    ASSUME Alone, TypeInv, TypeInv', RecoveryInv, NEW t \in Caller, NEW c \in Case,
           CreateCase(t, c)
    PROVE  RecoveryInv'
<1>1. /\ pc[t] = "idle" /\ Admitted(t, "create")
      /\ call' = [call EXCEPT ![t] = [op |-> "create", case |-> c, made |-> <<>>]]
      /\ pc' = [pc EXCEPT ![t] = "creating"]
      /\ UNCHANGED <<mem, store, audit>>
  BY DEF CreateCase, Goto
<1>2. /\ pc \in [Caller -> Phase]
      /\ call \in [Caller -> Call \union Creation \union {None}]
  BY DEF TypeInv, TypeOK
<1>3. \A u \in Caller : pc[u] = "idle"
  BY <1>1, BeginsAlone DEF Locked
<1>4. Within(mem, EventIds(audit)) /\ StoreWithin(store, EventIds(audit))
  BY <1>3 DEF RecoveryInv, Unaudited
<1>5. pc'[t] = "creating" /\ call'[t].op = "create" /\ call'[t].made = <<>>
      /\ \A u \in Caller \ {t} : pc'[u] = pc[u]
  BY <1>1, <1>2
<1>6. Range(call'[t].made) = {}
  BY <1>5 DEF Range
<1>7. "creating" \notin Unaudited \union Trying /\ "create" \notin Locked
  BY DEF Unaudited, Trying, Locked
<1> QED
  BY <1>1, <1>3, <1>4, <1>5, <1>6, <1>7, OnlyCaller

(* What memory goes back to is covered, whatever the call prepared.          *)
LEMMA RestoredWithin ==
    ASSUME TypeInv, RecoveryInv, NEW t \in Caller, pc[t] \in Trying
    PROVE  Within(Restored(t), EventIds(audit))
<1> DEFINE before == call[t].before
           c0 == call[t].case
<1>1. Restored(t).cases = [mem.cases EXCEPT ![c0] = before.cases[c0]]
  BY RestoredTyped
<1>2. c0 \in Case /\ mem.cases \in [Case -> Context \union {None}]
  BY TryingTyped, MemTyped DEF TypeInv
<1>3. Within(before, EventIds(audit))
  BY DEF RecoveryInv, CallWithin
<1>4. ASSUME NEW c \in Case, c # c0, mem.cases[c] \in Context
      PROVE  mem.cases[c].events \subseteq EventIds(audit)
  <2>1. CASE pc[t] \in Unaudited
    <3>1. WithinBut(mem, EventIds(audit), c0, call[t].entry.event)
      BY <2>1 DEF RecoveryInv, CallWithin
    <3> QED
      BY <1>4, <3>1 DEF WithinBut
  <2>2. CASE pc[t] \notin Unaudited
    <3>1. \A u \in Caller : pc[u] \notin Unaudited
      BY <2>2, OthersIdle DEF Trying, Unaudited
    <3> QED
      BY <1>4, <3>1 DEF RecoveryInv, Within
  <2> QED
    BY <2>1, <2>2
<1> HIDE DEF before, c0
<1>5. ASSUME NEW c \in Case, Restored(t).cases[c] \in Context
      PROVE  Restored(t).cases[c].events \subseteq EventIds(audit)
  <2>1. CASE c = c0
    BY <1>1, <1>2, <1>3, <1>5, <2>1 DEF Within
  <2>2. CASE c # c0
    BY <1>1, <1>2, <1>4, <1>5, <2>2
  <2> QED
    BY <2>1, <2>2
<1> QED
  BY <1>5 DEF Within

(* A call of the try block that raises.                                      *)
LEMMA RaiseRecovery ==
    ASSUME TypeInv, TypeInv', RecoveryInv, NEW t \in Caller, pc[t] \in Trying, Raise(t),
           EventIds(audit) \subseteq EventIds(audit'), StoreWithin(store', EventIds(audit'))
    PROVE  RecoveryInv'
<1>1. mem' = Restored(t) /\ pc' = [pc EXCEPT ![t] = "failed"] /\ UNCHANGED <<lock, call>>
  BY DEF Raise, Goto
<1>2. pc[t] # "idle" /\ "failed" \notin Unaudited \union {"creating", "registered"}
  BY DEF Trying, Unaudited
<1>3. \A u \in Caller \ {t} : pc[u] = "idle"
  BY <1>2, OthersIdle
<1>4. pc'[t] = "failed" /\ \A u \in Caller \ {t} : pc'[u] = pc[u]
  BY <1>1 DEF TypeInv, TypeOK
<1>5. Within(mem', EventIds(audit')) /\ Within(call'[t].before, EventIds(audit'))
  <2>1. Within(mem', EventIds(audit)) /\ Within(call'[t].before, EventIds(audit))
    BY <1>1, RestoredWithin DEF RecoveryInv, CallWithin
  <2> QED
    BY <2>1, WithinGrows
<1>6. call'[t].op \in Locked => lock' = t
  BY <1>1, <1>2 DEF RecoveryInv, CallWithin
<1> QED
  BY <1>2, <1>3, <1>4, <1>5, <1>6, OnlyCaller

(* A call that ends.                                                         *)
LEMMA LeaveRecovery ==
    ASSUME TypeInv, TypeInv', RecoveryInv, NEW t \in Caller, pc[t] # "idle", Leave(t),
           Within(mem', EventIds(audit')), StoreWithin(store', EventIds(audit'))
    PROVE  RecoveryInv'
<1>1. pc'[t] = "idle" /\ \A u \in Caller \ {t} : pc'[u] = pc[u]
  BY DEF Leave, Goto, TypeInv, TypeOK
<1>2. \A u \in Caller \ {t} : pc[u] = "idle"
  BY OthersIdle
<1>3. "idle" \notin Trying \union Unaudited \union {"creating", "registered"}
  BY DEF Trying, Unaudited
<1> QED
  BY <1>1, <1>2, <1>3, OnlyCaller

LEMMA PrepareRecovery ==
    ASSUME TypeInv, TypeInv', RecoveryInv, NEW t \in Caller, Prepare(t)
    PROVE  RecoveryInv'
<1> DEFINE cl == call[t]
           ctx == mem.cases[call[t].case]
           fits == cl.reserve => Cost[cl.action] <= Available(cl.case)
<1>1. /\ pc[t] = "entered" /\ pc[t] \in Trying /\ pc[t] # "idle" /\ pc[t] \notin Unaudited
      /\ UNCHANGED <<store, audit>>
  BY DEF Prepare, Trying, Unaudited
<1>2. StoreWithin(store', EventIds(audit')) /\ EventIds(audit) = EventIds(audit')
  BY <1>1 DEF RecoveryInv
<1>3. \A u \in Caller \ {t} : pc[u] = "idle"
  BY <1>1, OthersIdle
<1>4. CASE Accepts(cl.op, ctx) /\ fits
  <2> DEFINE entry == NewEntry(nextEvent, cl.case, ctx.state, Target[cl.op],
                               Moved(cl, ctx).review)
             ids == EventIds(audit')
  <2>1. /\ mem' = Prepared(cl, ctx) /\ UNCHANGED lock
        /\ call' = [call EXCEPT ![t].entry = entry]
        /\ pc' = [pc EXCEPT ![t] = "prepared"]
    BY <1>4 DEF Prepare, Goto
  <2>2. Prepared(cl, ctx).cases = [mem.cases EXCEPT ![cl.case] = Moved(cl, ctx)]
    BY <1>1, <1>4, PreparedTyped
  <2>3. entry.event = nextEvent /\ Moved(cl, ctx).events = ctx.events \union {nextEvent}
    BY <1>1, <1>4, MovedTyped
  <2>4. cl \in Call /\ cl.case \in Case /\ ctx \in Context
    BY <1>1, TryingTyped
  <2>5. Within(mem, ids) /\ mem.cases \in [Case -> Context \union {None}]
    <3>1. \A u \in Caller : pc[u] \notin Unaudited
      BY <1>1, <1>3 DEF Unaudited
    <3> QED
      BY <1>2, <2>4, <3>1, MemTyped DEF RecoveryInv, TypeInv
  <2>6. /\ pc'[t] = "prepared" /\ \A u \in Caller \ {t} : pc'[u] = pc[u]
        /\ call'[t] = [cl EXCEPT !.entry = entry]
    BY <2>1 DEF TypeInv, TypeOK
  <2>7. /\ call'[t].op = cl.op /\ call'[t].before = cl.before /\ call'[t].case = cl.case
        /\ call'[t].entry.event = nextEvent
    <3>1. \A e : [cl EXCEPT !.entry = e].entry = e /\ [cl EXCEPT !.entry = e].op = cl.op
                 /\ [cl EXCEPT !.entry = e].before = cl.before
                 /\ [cl EXCEPT !.entry = e].case = cl.case
      BY <2>4 DEF Call
    <3> HIDE DEF entry, cl
    <3> QED
      BY <2>3, <2>6, <3>1
  <2>8. Within(call'[t].before, ids) /\ (call'[t].op \in Locked => lock' = t)
    BY <1>1, <1>2, <2>1, <2>7 DEF RecoveryInv, CallWithin
  <2>9. WithinBut(mem', ids, call'[t].case, call'[t].entry.event)
    <3> SUFFICES ASSUME NEW c \in Case, mem'.cases[c] \in Context
                 PROVE  mem'.cases[c].events
                            \subseteq ids \union (IF c = cl.case THEN {nextEvent} ELSE {})
      BY <2>7 DEF WithinBut
    <3>1. mem'.cases[c] = IF c = cl.case THEN Moved(cl, ctx) ELSE mem.cases[c]
      BY <2>1, <2>2, <2>5
    <3>2. CASE c = cl.case
      BY <2>3, <2>4, <2>5, <3>1, <3>2 DEF Within
    <3>3. CASE c # cl.case
      BY <2>5, <3>1, <3>3 DEF Within
    <3> QED
      BY <3>2, <3>3
  <2>10. "prepared" \in Unaudited /\ "prepared" \notin {"creating", "registered"}
    BY DEF Unaudited
  <2> HIDE DEF entry, cl, ctx
  <2> QED
    BY <1>2, <1>3, <2>6, <2>8, <2>9, <2>10, OnlyCaller
<1>5. CASE ~(Accepts(cl.op, ctx) /\ fits)
  <2>1. Raise(t)
    BY <1>5 DEF Prepare
  <2> QED
    BY <1>1, <1>2, <2>1, RaiseRecovery
<1> QED
  BY <1>4, <1>5

(* The pending target is covered but for the event it names.                 *)
LEMMA PendingWithin ==
    ASSUME RecoveryInv, NEW t \in Caller, pc[t] = "prepared"
    PROVE  StoreWithin(PendingStore(t), EventIds(audit))
<1>1. pc[t] \in Trying /\ pc[t] \in Unaudited
  BY DEF Trying, Unaudited
<1>2. /\ Within(call[t].before, EventIds(audit))
      /\ WithinBut(mem, EventIds(audit), call[t].case, call[t].entry.event)
  BY <1>1 DEF RecoveryInv, CallWithin
<1>3. Within(mem, EventIds(audit) \union {call[t].entry.event})
  BY <1>2, ButIsWithin
<1> QED
  BY <1>2, <1>3 DEF StoreWithin, PendingStore

LEMMA BeginRecovery ==
    ASSUME TypeInv, TypeInv', RecoveryInv, NEW t \in Caller, BeginPending(t)
    PROVE  RecoveryInv'
<1>1. /\ pc[t] = "prepared" /\ pc[t] # "idle" /\ store' = PendingStore(t)
      /\ pc' = [pc EXCEPT ![t] = "begun"] /\ UNCHANGED <<mem, audit, lock, call>>
  BY DEF BeginPending, Goto
<1>2. pc'[t] = "begun" /\ \A u \in Caller \ {t} : pc'[u] = pc[u]
  BY <1>1 DEF TypeInv, TypeOK
<1>3. \A u \in Caller \ {t} : pc[u] = "idle"
  BY <1>1, OthersIdle
<1>4. StoreWithin(store', EventIds(audit'))
  BY <1>1, PendingWithin
<1>5. "prepared" \in Trying /\ {"prepared", "begun"} = Unaudited
      /\ "begun" \notin {"creating", "registered"}
  BY DEF Trying, Unaudited
<1>6. CallWithin(t, EventIds(audit))
  BY DEF RecoveryInv
<1>7. /\ Within(call'[t].before, EventIds(audit'))
      /\ WithinBut(mem', EventIds(audit'), call'[t].case, call'[t].entry.event)
      /\ call'[t].op \in Locked => lock' = t
  BY <1>1, <1>5, <1>6 DEF CallWithin
<1>8. pc'[t] \in Unaudited
  BY <1>2, <1>5
<1> QED
  BY <1>2, <1>3, <1>4, <1>5, <1>7, <1>8, OnlyCaller

LEMMA BeginFailsRecovery ==
    ASSUME TypeInv, TypeInv', RecoveryInv, NEW t \in Caller, NEW replaced \in BOOLEAN,
           BeginFails(t, replaced)
    PROVE  RecoveryInv'
<1>1. pc[t] = "prepared" /\ pc[t] \in Trying /\ Raise(t) /\ UNCHANGED audit
      /\ store' = IF replaced THEN PendingStore(t) ELSE store
  BY DEF BeginFails, Trying
<1>2. StoreWithin(store', EventIds(audit'))
  BY <1>1, PendingWithin DEF RecoveryInv
<1> QED
  BY <1>1, <1>2, RaiseRecovery

LEMMA AppendRecovery ==
    ASSUME TypeInv, TypeInv', RecoveryInv, NEW t \in Caller, AppendAudit(t)
    PROVE  RecoveryInv'
<1> DEFINE entry == call[t].entry
<1>1. /\ pc[t] = "begun" /\ pc[t] # "idle" /\ audit' = Append(audit, entry)
      /\ pc' = [pc EXCEPT ![t] = "audited"] /\ UNCHANGED <<mem, store, lock, call>>
  BY DEF AppendAudit, Goto
<1>2. pc'[t] = "audited" /\ \A u \in Caller \ {t} : pc'[u] = pc[u]
  BY <1>1 DEF TypeInv, TypeOK
<1>3. \A u \in Caller \ {t} : pc[u] = "idle"
  BY <1>1, OthersIdle
<1>4. "begun" \in Trying /\ "begun" \in Unaudited /\ "begun" \notin {"entered", "failed"}
      /\ "audited" \notin Unaudited \union {"creating", "registered"}
  BY DEF Trying, Unaudited
<1>5. audit \in Seq(Entry) /\ entry \in Entry
  BY <1>1, <1>4 DEF TypeInv, TypeOK
<1>6. EventIds(audit) \union {entry.event} \subseteq EventIds(audit')
  BY <1>1, <1>5, LedgerGrows
<1>7. StoreWithin(store', EventIds(audit')) /\ Within(call'[t].before, EventIds(audit'))
  <2>1. StoreWithin(store, EventIds(audit)) /\ Within(call[t].before, EventIds(audit))
    BY <1>1, <1>4 DEF RecoveryInv, CallWithin
  <2> QED
    BY <1>1, <1>6, <2>1, WithinGrows
<1>8. Within(mem', EventIds(audit'))
  <2>1. WithinBut(mem, EventIds(audit), call[t].case, entry.event)
    BY <1>1, <1>4 DEF RecoveryInv, CallWithin
  <2>2. Within(mem, EventIds(audit) \union {entry.event})
    BY <2>1, ButIsWithin
  <2> QED
    BY <1>1, <1>6, <2>2, WithinGrows
<1>9. call'[t].op \in Locked => lock' = t
  BY <1>1 DEF RecoveryInv, CallWithin
<1> HIDE DEF entry
<1> QED
  BY <1>2, <1>3, <1>4, <1>7, <1>8, <1>9, OnlyCaller

LEMMA AppendFailsRecovery ==
    ASSUME TypeInv, TypeInv', RecoveryInv, NEW t \in Caller, AppendFails(t)
    PROVE  RecoveryInv'
<1>1. pc[t] = "begun" /\ pc[t] \in Trying /\ pc[t] \in Trying \ {"entered", "failed"}
      /\ Raise(t) /\ UNCHANGED store
      /\ (audit' = audit \/ audit' = Append(audit, call[t].entry))
  BY DEF AppendFails, Trying
<1>2. call[t].entry \in Entry /\ audit \in Seq(Entry)
  BY <1>1 DEF TypeInv, TypeOK
<1>3. EventIds(audit) \subseteq EventIds(audit')
  BY <1>1, <1>2, LedgerGrows
<1>4. StoreWithin(store', EventIds(audit'))
  <2>1. StoreWithin(store, EventIds(audit))
    BY DEF RecoveryInv
  <2> QED
    BY <1>1, <1>3, <2>1, WithinGrows
<1> QED
  BY <1>1, <1>3, <1>4, RaiseRecovery

(* A call past its append, or of create_case, holds nothing unaudited.       *)
LEMMA MemoryAudited ==
    ASSUME RecoveryInv, NEW t \in Caller, pc[t] \notin Unaudited \union {"idle"}
    PROVE  Within(mem, EventIds(audit))
<1>1. \A u \in Caller : pc[u] \notin Unaudited
  BY OthersIdle DEF Unaudited
<1> QED
  BY <1>1 DEF RecoveryInv

LEMMA CommittedWithin ==
    ASSUME NEW state, NEW ids, Within(state, ids)
    PROVE  StoreWithin([committed |-> state, pending |-> None], ids)
BY DEF StoreWithin

LEMMA CommitRecovery ==
    ASSUME TypeInv, TypeInv', RecoveryInv, NEW t \in Caller, Commit(t)
    PROVE  RecoveryInv'
<1>1. pc[t] = "audited" /\ pc[t] # "idle" /\ Leave(t) /\ UNCHANGED <<mem, audit>>
      /\ store' = [committed |-> mem, pending |-> None]
  BY DEF Commit
<1>2. Within(mem, EventIds(audit))
  BY <1>1, MemoryAudited DEF Unaudited
<1>3. StoreWithin(store', EventIds(audit')) /\ Within(mem', EventIds(audit'))
  BY <1>1, <1>2, CommittedWithin
<1> QED
  BY <1>1, <1>3, LeaveRecovery

LEMMA CommitFailsRecovery ==
    ASSUME TypeInv, TypeInv', RecoveryInv, NEW t \in Caller, NEW replaced \in BOOLEAN,
           CommitFails(t, replaced)
    PROVE  RecoveryInv'
<1>1. pc[t] = "audited" /\ pc[t] # "idle" /\ pc[t] \in Trying /\ Leave(t)
      /\ mem' = Restored(t) /\ UNCHANGED audit
      /\ store' = IF replaced THEN [committed |-> mem, pending |-> None] ELSE store
  BY DEF CommitFails, Trying
<1>2. Within(mem, EventIds(audit)) /\ StoreWithin(store, EventIds(audit))
  BY <1>1, MemoryAudited DEF Unaudited, RecoveryInv
<1>3. StoreWithin(store', EventIds(audit')) /\ Within(mem', EventIds(audit'))
  BY <1>1, <1>2, CommittedWithin, RestoredWithin
<1> QED
  BY <1>1, <1>3, LeaveRecovery

LEMMA RollbackRecovery ==
    ASSUME TypeInv, TypeInv', RecoveryInv, NEW t \in Caller, Rollback(t) \/ RollbackFails(t)
    PROVE  RecoveryInv'
<1>1. pc[t] = "failed" /\ pc[t] # "idle" /\ pc[t] \in Trying /\ Leave(t)
      /\ UNCHANGED <<mem, audit>>
      /\ (store' = store \/ store' = [committed |-> call[t].before, pending |-> None])
  BY DEF Rollback, RollbackFails, Trying
<1>2. /\ Within(mem, EventIds(audit)) /\ StoreWithin(store, EventIds(audit))
      /\ Within(call[t].before, EventIds(audit))
  BY <1>1, MemoryAudited DEF Unaudited, RecoveryInv, CallWithin
<1>3. StoreWithin(store', EventIds(audit')) /\ Within(mem', EventIds(audit'))
  BY <1>1, <1>2, CommittedWithin
<1> QED
  BY <1>1, <1>3, LeaveRecovery

LEMMA AppendIntakeRecovery ==
    ASSUME TypeInv, TypeInv', RecoveryInv, NEW t \in Caller, AppendIntake(t)
    PROVE  RecoveryInv'
<1> DEFINE made == Append(call[t].made, nextEvent)
<1>1. /\ pc[t] = "creating" /\ pc[t] # "idle" /\ Len(call[t].made) < Len(Intake)
      /\ audit' = Append(audit, IntakeEntry(t))
      /\ call' = [call EXCEPT ![t].made = made]
      /\ UNCHANGED <<mem, store, pc>>
  BY DEF AppendIntake
<1>2. call[t] \in Creation /\ call[t].made \in Seq(Event) /\ nextEvent \in Event
  BY <1>1, CreationTyped DEF TypeInv, TypeOK
<1>3. IntakeEntry(t) \in Entry /\ IntakeEntry(t).event = nextEvent /\ audit \in Seq(Entry)
  BY <1>1, IntakeEntryTyped DEF TypeInv, TypeOK
<1>4. EventIds(audit) \union {nextEvent} \subseteq EventIds(audit')
  BY <1>1, <1>3, LedgerGrows
<1>5. \A u \in Caller \ {t} : pc[u] = "idle"
  BY <1>1, OthersIdle
<1>6. "creating" \notin Unaudited \union Trying
  BY DEF Unaudited, Trying
<1>7. StoreWithin(store', EventIds(audit')) /\ Within(mem', EventIds(audit'))
  <2>1. Within(mem, EventIds(audit)) /\ StoreWithin(store, EventIds(audit))
    BY <1>1, <1>6, MemoryAudited DEF RecoveryInv
  <2> QED
    BY <1>1, <1>4, <2>1, WithinGrows
<1>8. call'[t].made = made /\ call'[t].op = "create"
  BY <1>1, <1>2 DEF TypeInv, TypeOK, Creation
<1>9. Range(made) \subseteq EventIds(audit')
  <2>1. Range(made) = Range(call[t].made) \union {nextEvent}
    <3>1. /\ Len(call[t].made) \in Nat
          /\ DOMAIN call[t].made = 1 .. Len(call[t].made)
          /\ DOMAIN made = 1 .. Len(call[t].made) + 1
          /\ made[Len(call[t].made) + 1] = nextEvent
          /\ \A k \in DOMAIN call[t].made : made[k] = call[t].made[k]
      BY <1>2
    <3> HIDE DEF made
    <3> QED
      BY <3>1 DEF Range
  <2>2. Range(call[t].made) \subseteq EventIds(audit)
    BY <1>1 DEF RecoveryInv, CallWithin
  <2> HIDE DEF made
  <2> QED
    BY <1>4, <2>1, <2>2
<1>10. "create" \notin Locked /\ pc'[t] = "creating"
  BY <1>1 DEF Locked
<1> HIDE DEF made
<1> QED
  BY <1>1, <1>5, <1>6, <1>7, <1>8, <1>9, <1>10, OnlyCaller

LEMMA AppendIntakeFailsRecovery ==
    ASSUME TypeInv, TypeInv', RecoveryInv, NEW t \in Caller, AppendIntakeFails(t)
    PROVE  RecoveryInv'
<1>1. /\ pc[t] = "creating" /\ pc[t] # "idle" /\ Len(call[t].made) < Len(Intake)
      /\ Leave(t) /\ UNCHANGED <<mem, store>>
      /\ (audit' = audit \/ audit' = Append(audit, IntakeEntry(t)))
  BY DEF AppendIntakeFails
<1>2. EventIds(audit) \subseteq EventIds(audit')
  BY <1>1, IntakeEntryTyped, LedgerGrows DEF TypeInv, TypeOK
<1>3. Within(mem, EventIds(audit)) /\ StoreWithin(store, EventIds(audit))
  BY <1>1, MemoryAudited DEF RecoveryInv, Unaudited
<1>4. StoreWithin(store', EventIds(audit')) /\ Within(mem', EventIds(audit'))
  BY <1>1, <1>2, <1>3, WithinGrows
<1> QED
  BY <1>1, <1>4, LeaveRecovery

LEMMA RegisterRecovery ==
    ASSUME TypeInv, TypeInv', RecoveryInv, NEW t \in Caller, RegisterCase(t)
    PROVE  RecoveryInv'
<1> DEFINE ctx == NewContext(Range(call[t].made))
           c0 == call[t].case
<1>1. /\ pc[t] = "creating" /\ pc[t] # "idle" /\ mem' = [mem EXCEPT !.cases[c0] = ctx]
      /\ pc' = [pc EXCEPT ![t] = "registered"] /\ UNCHANGED <<store, audit, call>>
  BY DEF RegisterCase, Goto
<1>2. pc'[t] = "registered" /\ \A u \in Caller \ {t} : pc'[u] = pc[u]
  BY <1>1 DEF TypeInv, TypeOK
<1>3. \A u \in Caller \ {t} : pc[u] = "idle"
  BY <1>1, OthersIdle
<1>4. Within(mem, EventIds(audit)) /\ StoreWithin(store', EventIds(audit'))
  BY <1>1, MemoryAudited DEF RecoveryInv, Unaudited
<1>5. Range(call[t].made) \subseteq EventIds(audit)
  BY <1>1 DEF RecoveryInv, CallWithin
<1>6. ctx.events = Range(call[t].made)
  BY DEF NewContext
<1>7. mem'.cases = [mem.cases EXCEPT ![c0] = ctx]
      /\ mem.cases \in [Case -> Context \union {None}]
  BY <1>1 DEF TypeInv, TypeOK, State
<1> HIDE DEF ctx, c0
<1>8. Within(mem', EventIds(audit'))
  BY <1>1, <1>4, <1>5, <1>6, <1>7 DEF Within
<1>9. call[t].op = "create" /\ "create" \notin Locked
      /\ "registered" \notin Unaudited \union Trying
  BY <1>1, CreationTyped DEF Creation, Locked, Unaudited, Trying
<1> QED
  BY <1>1, <1>2, <1>3, <1>4, <1>5, <1>8, <1>9, OnlyCaller

LEMMA PersistRecovery ==
    ASSUME TypeInv, TypeInv', RecoveryInv, NEW t \in Caller,
           PersistCase(t) \/ \E replaced \in BOOLEAN : PersistCaseFails(t, replaced)
    PROVE  RecoveryInv'
<1>1. /\ pc[t] = "registered" /\ pc[t] # "idle" /\ Leave(t) /\ UNCHANGED <<mem, audit>>
      /\ (store' = store \/ store' = [committed |-> mem, pending |-> None])
  BY DEF PersistCase, PersistCaseFails
<1>2. Within(mem, EventIds(audit)) /\ StoreWithin(store, EventIds(audit))
  BY <1>1, MemoryAudited DEF RecoveryInv, Unaudited
<1>3. StoreWithin(store', EventIds(audit')) /\ Within(mem', EventIds(audit'))
  BY <1>1, <1>2, CommittedWithin
<1> QED
  BY <1>1, <1>3, LeaveRecovery

(***************************************************************************)
(* Crash and restart, and every step.                                      *)
(***************************************************************************)

LEMMA CrashRecovery ==
    ASSUME RecoveryInv, Crash
    PROVE  RecoveryInv'
<1>1. /\ mem' = EmptyState /\ pc' = [t \in Caller |-> "idle"] /\ UNCHANGED <<store, audit>>
  BY DEF Crash
<1>2. "idle" \notin Trying \union Unaudited \union {"creating", "registered"}
  BY DEF Trying, Unaudited
<1>3. Within(mem', EventIds(audit'))
  BY <1>1, NoneAssumption DEF Within, EmptyState
<1>4. StoreWithin(store', EventIds(audit'))
  BY <1>1 DEF RecoveryInv
<1>5. \A t \in Caller : pc'[t] = "idle" /\ CallWithin(t, EventIds(audit))'
  BY <1>1, <1>2 DEF CallWithin
<1> QED
  BY <1>3, <1>4, <1>5 DEF RecoveryInv

LEMMA RestartRecovery ==
    ASSUME TypeInv, RecoveryInv, Restart
    PROVE  RecoveryInv'
<1>1. ~up /\ mem' = Selected /\ UNCHANGED <<store, audit, lock, pc, call>>
  BY DEF Restart
<1>2. \A t \in Caller : pc'[t] = "idle" /\ pc'[t] \notin Trying
                        /\ pc'[t] \notin Unaudited /\ pc'[t] \notin {"creating", "registered"}
  BY <1>1 DEF TypeInv, CallInv, Trying, Unaudited
<1>3. StoreWithin(store', EventIds(audit')) /\ Within(mem', EventIds(audit'))
  BY <1>1, SelectedWithin DEF RecoveryInv
<1>4. \A t \in Caller : CallWithin(t, EventIds(audit))'
  BY <1>2 DEF CallWithin
<1> QED
  BY <1>2, <1>3, <1>4 DEF RecoveryInv

LEMMA StutterRecovery ==
    ASSUME RecoveryInv, UNCHANGED <<mem, store, audit, lock, pc, call>>
    PROVE  RecoveryInv'
BY DEF RecoveryInv, CallWithin, Unaudited

LEMMA NextRecovery ==
    ASSUME Alone, TypeInv, TypeInv', RecoveryInv, [Next]_vars
    PROVE  RecoveryInv'
<1>1. CASE UNCHANGED vars
  BY <1>1, StutterRecovery DEF vars
<1>2. ASSUME NEW t \in Caller, NEW c \in Case,
             \/ \E decision \in Decision, action \in Action, reserve \in BOOLEAN :
                    SubmitReview(t, c, decision, action, reserve)
             \/ DispatchExecution(t, c) \/ DismissCase(t, c) \/ ResolveCase(t, c)
      PROVE  RecoveryInv'
  <2>1. \E op \in Operation \ {"create"} : \E decision, action, reserve :
            Enter(t, op, c, decision, action, reserve)
    <3>1. {"review", "dispatch", "dismiss", "resolve"} \subseteq Operation \ {"create"}
      BY DEF Operation
    <3> QED
      BY <1>2, <3>1 DEF SubmitReview, DispatchExecution, DismissCase, ResolveCase
  <2> QED
    BY <2>1, EnterRecovery
<1>3. ASSUME NEW t \in Caller, NEW c \in Case, CreateCase(t, c)
      PROVE  RecoveryInv'
  BY <1>3, CreateRecovery
<1>4. ASSUME NEW t \in Caller, NEW result \in mem.results, ReplayDispatch(t, result)
      PROVE  RecoveryInv'
  BY <1>4, StutterRecovery DEF ReplayDispatch
<1>5. ASSUME NEW t \in Caller, NEW replaced \in BOOLEAN,
             BeginFails(t, replaced) \/ CommitFails(t, replaced) \/ PersistCaseFails(t, replaced)
      PROVE  RecoveryInv'
  BY <1>5, BeginFailsRecovery, CommitFailsRecovery, PersistRecovery
<1>6. ASSUME NEW t \in Caller,
             \/ Prepare(t) \/ BeginPending(t) \/ AppendAudit(t) \/ AppendFails(t)
             \/ Commit(t) \/ Rollback(t) \/ RollbackFails(t)
      PROVE  RecoveryInv'
  BY <1>6, PrepareRecovery, BeginRecovery, AppendRecovery, AppendFailsRecovery,
     CommitRecovery, RollbackRecovery
<1>7. ASSUME NEW t \in Caller,
             AppendIntake(t) \/ AppendIntakeFails(t) \/ RegisterCase(t) \/ PersistCase(t)
      PROVE  RecoveryInv'
  BY <1>7, AppendIntakeRecovery, AppendIntakeFailsRecovery, RegisterRecovery, PersistRecovery
<1>8. CASE Crash
  BY <1>8, CrashRecovery
<1>9. CASE Restart
  BY <1>9, RestartRecovery
<1> QED
  BY <1>1, <1>2, <1>3, <1>4, <1>5, <1>6, <1>7, <1>8, <1>9 DEF Next

(* "Neither state nor audit transition is committed" without the other: at   *)
(* every moment, whatever call, crash or failed write came before, the state *)
(* file is one that a restart accepts.                                       *)
THEOREM RestartNeverRefused ==
    ASSUME Alone
    PROVE  Spec => []RecoveryNeverRefuses
<1>1. Init => TypeInv /\ RecoveryInv
  BY InitTyped, InitRecovery
<1>2. TypeInv /\ RecoveryInv /\ [Next]_vars => TypeInv' /\ RecoveryInv'
  BY NextTyped, NextRecovery
<1>3. TypeInv /\ RecoveryInv => RecoveryNeverRefuses
  <2> SUFFICES ASSUME TypeInv, RecoveryInv
               PROVE  RecoveryNeverRefuses
    OBVIOUS
  <2>1. Selected \in State /\ Within(Selected, EventIds(audit))
    BY SelectedTyped, SelectedWithin DEF TypeInv, RecoveryInv
  <2> QED
    BY <2>1, WithinIsRecoverable DEF RecoveryNeverRefuses
<1> QED
  BY <1>1, <1>2, <1>3, PTL DEF Spec

=============================================================================
