------------------------- MODULE DemoJourneyProofs -------------------------
(***************************************************************************)
(* What holds of the demo journey for any runs, sessions, limits and       *)
(* bounds: its type; that the worker's memory agrees with the tables; and  *)
(* what it promises its visitors.  Capacity is respected and no accepted   *)
(* event is lost, while a transaction that cannot begin is not the only    *)
(* one to fail; and the document a run shows agrees with its journal,      *)
(* fills up in order and takes nothing back, while no commit is taken for  *)
(* a failure either.                                                       *)
(***************************************************************************)
EXTENDS DemoJourney, FiniteSetTheorems, TLAPS

(***************************************************************************)
(* Stages and rows                                                         *)
(***************************************************************************)

LEMMA Places ==
    /\ Place = 1..11
    /\ Work \subseteq Place /\ Review \subseteq Place
    /\ Publication \in Place /\ Ingestion \in Place /\ Agent \in Work /\ 1 \in Place
    /\ Publication \notin Work \cup Review /\ Ingestion \notin Work \cup Review
    /\ Publication # Ingestion
<1>1. Len(STAGES) = 11
  BY DEF STAGES
<1> QED
  BY <1>1 DEF Place, Work, Review, Publication, Ingestion, Agent

LEMMA AllTyped ==
    ASSUME NEW ps, NEW status
    PROVE  DOMAIN All(ps, status) = ps /\ \A p \in ps : All(ps, status)[p] = status
BY DEF All

LEMMA MarkedTyped ==
    ASSUME NEW stage \in [Place -> StageStatus], NEW ps \in SUBSET Place,
           NEW status \in StageStatus
    PROVE  /\ Marked(stage, All(ps, status)) \in [Place -> StageStatus]
           /\ \A p \in Place : Marked(stage, All(ps, status))[p] =
                IF p \in ps THEN status ELSE stage[p]
BY AllTyped DEF Marked

LEMMA MarkedKeeps ==
    ASSUME NEW stage \in [Place -> StageStatus], NEW ps \in SUBSET Place,
           NEW status \in StageStatus, NEW p \in Place \ ps
    PROVE  Marked(stage, All(ps, status))[p] = stage[p]
BY DEF Marked, All

LEMMA JournaledTyped ==
    ASSUME NEW j \in JournalOf, NEW ps \in SUBSET Place, NEW status \in StageStatus
    PROVE  Journaled(j, All(ps, status)) \in JournalOf
BY AllTyped DEF Journaled, JournalOf

LEMMA DocumentTyped ==
    ASSUME NEW stage \in [Place -> StageStatus], NEW at \in Place
    PROVE  /\ FailedStages(stage, at) \in [Place -> StageStatus]
           /\ RetriedStages(stage) \in [Place -> StageStatus]
           /\ UnblockedStages(stage) \in [Place -> StageStatus]
BY DEF FailedStages, RetriedStages, UnblockedStages, StageStatus

LEMMA NewTyped == NewStages \in [Place -> StageStatus] /\ NoEntries \in JournalOf /\ Unsent \in OutboxRow
BY DemoAssumption, Places DEF NewStages, NoEntries, Unsent, StageStatus, JournalOf, OutboxRow

LEMMA RowTyped ==
    ASSUME TypeOK, NEW r \in Run, Exists(r)
    PROVE  /\ run[r] \in RunRow /\ run[r].owner \in Session /\ run[r].version \in Nat
           /\ Status(r) = run[r].status /\ Status(r) \in RunStatus
           /\ run[r].stage \in [Place -> StageStatus]
<1>1. run[r] \in RunRow
  BY DEF TypeOK, Exists
<1> QED
  BY <1>1 DEF RunRow, Status

LEMMA NoRow == ASSUME NEW r, ~Exists(r)
               PROVE  Status(r) = None /\ ~Active(r) /\ Status(r) \notin RunStatus
BY NoneAssumption DEF Status, Active, RunStatus

\* What Write leaves of the tables run and journal.
LEMMA Written ==
    ASSUME TypeOK, NEW r \in Run, Exists(r), NEW status \in RunStatus,
           NEW stage \in [Place -> StageStatus], NEW ps \in SUBSET Place,
           NEW mark \in StageStatus, Write(r, status, stage, All(ps, mark))
    PROVE  /\ run' \in [Run -> RunRow \cup {None}]
           /\ journal' \in [Run -> JournalOf]
           /\ Exists(r)' /\ Status(r)' = status /\ run'[r].stage = stage
           /\ run'[r].owner = run[r].owner
           /\ \A q \in Run \ {r} : run'[q] = run[q]
<1>1. run[r] \in RunRow /\ run \in [Run -> RunRow \cup {None}] /\ journal \in [Run -> JournalOf]
  BY RowTyped DEF TypeOK
<1> DEFINE case == CaseAfter(run[r].case, All(ps, mark))
<1>a. case \in CaseRow
  BY <1>1 DEF RunRow, CaseRow, CaseAfter
<1> HIDE DEF case
<1>2. run' = [run EXCEPT ![r] = [@ EXCEPT !.status = status, !.stage = stage, !.case = case]]
  BY DEF Write, case
<1>3. [run[r] EXCEPT !.status = status, !.stage = stage, !.case = case] \in RunRow
  BY <1>1, <1>a DEF RunRow
<1>4. run'[r] = [run[r] EXCEPT !.status = status, !.stage = stage, !.case = case]
  BY <1>1, <1>2
<1>5. run'[r] # None
  BY <1>3, <1>4, NoneAssumption
<1>6. run'[r].status = status /\ run'[r].stage = stage /\ run'[r].owner = run[r].owner
  BY <1>1, <1>4 DEF RunRow
<1>7. journal' \in [Run -> JournalOf]
  BY <1>1, JournaledTyped DEF Write
<1> QED
  BY <1>1, <1>2, <1>3, <1>4, <1>5, <1>6, <1>7 DEF Exists, Status

\* While a stage of the work is left, FirstUndone finds one.
LEMMA FirstUndoneFound ==
    ASSUME NEW stage, stage[Agent] \notin Done
    PROVE  FirstUndone(stage) \in Work
<1> DEFINE Is(p) == stage[p] \notin Done /\ \A q \in Work : q < p => stage[q] \in Done
<1>1. \E p \in Work : Is(p)
  BY DEF Work, Agent
<1> HIDE DEF Is
<1>2. FirstUndone(stage) = CHOOSE p \in Work : Is(p)
  BY DEF FirstUndone, Is
<1> QED
  BY <1>1, <1>2

(***************************************************************************)
(* The invariant.  What the worker remembers stays true because no other   *)
(* step touches an active run: visitors retry failed runs, reviewers       *)
(* decide and retention removes those that are neither waiting nor         *)
(* processing, and the worker is one.                                      *)
(***************************************************************************)

\* An accepted run's publication is on record, and a run that left WAITING was
\* accepted or has failed; an active or failed run has a stage left to do.  A run
\* that failed before it was accepted was sent, unless the database refused even
\* to begin to send it.
RunOk(r) ==
    /\ r \in inbox => Exists(r) /\ outbox[r].published
    /\ Exists(r) =>
         /\ run[r].stage[Publication] = "completed" => outbox[r].published
         /\ Status(r) \notin {"WAITING", "FAILED"} => r \in inbox
         /\ Status(r) \in {"WAITING", "PROCESSING", "FAILED"} =>
              run[r].stage[Agent] \notin Done
         /\ "begin" \notin Blips /\ Status(r) = "FAILED" /\ r \notin inbox =>
              outbox[r].attempts > 0

RunInv == \A r \in Run : RunOk(r)

Publishes == worker.pc \in {"send", "sent"} \/ (worker.pc = "failed" /\ worker.at = Publication)
Processes == worker.pc \in {"stage", "operate"} \/ (worker.pc = "failed" /\ worker.at # Publication)

Publishable(r) == Status(r) = "WAITING" /\ outbox[r].attempts < MaxAttempts
Processable(r) == Status(r) = "PROCESSING"

TodoInv ==
    /\ worker.pc = "publish" \/ Publishes => \A r \in worker.todo : Publishable(r)
    /\ worker.pc = "process" \/ Processes => \A r \in worker.todo : Processable(r)

CurInv ==
    /\ Publishes => /\ worker.cur \in Run \ worker.todo /\ Status(worker.cur) = "WAITING"
                    /\ worker.at = Publication
                    /\ "begin" \notin Blips => outbox[worker.cur].attempts > 0
    /\ Processes => worker.cur \in Run \ worker.todo
    /\ worker.pc \in {"stage", "operate"} => Processable(worker.cur)
    /\ worker.pc = "operate" => worker.at \in Work
    /\ worker.pc = "failed" /\ worker.at # Publication =>
         /\ worker.at \in Work
         /\ Exists(worker.cur) => Status(worker.cur) \notin {"WAITING", "FAILED"}
         /\ ~Exists(worker.cur) => worker.cur \in deleted
         /\ worker.at # Agent => Processable(worker.cur)

PollInv ==
    /\ worker.next <= Len(topic)
    /\ worker.pc = "ingest" => worker.next <= worker.upto /\ worker.upto <= Len(topic)

AdmitInv ==
    admitted # None =>
      /\ admitted.kind = "submit" => ~Exists(admitted.run) /\ admitted.run \notin deleted
      /\ admitted.kind = "retry" => /\ admitted.run \in Owned(admitted.session)
                                    /\ retries < MaxRetries

WorkerInv == TodoInv /\ CurInv /\ PollInv

IInv == TypeOK /\ RunInv /\ WorkerInv /\ AdmitInv

(***************************************************************************)
(* What a step does to the runs, apart from the invariant: it takes no     *)
(* slot, except for the run of the request that was admitted, and forgets  *)
(* no run and no accepted event without a receipt.                         *)
(***************************************************************************)

NoNewSlot(q) ==
    /\ Exists(q)' => Exists(q) /\ run'[q].owner = run[q].owner
    /\ "begin" \notin Blips => (Counted(q)' => Counted(q))

Effect(entering) ==
    /\ \A q \in Run \ entering : NoNewSlot(q)
    /\ \A q \in Run : Exists(q) \/ q \in deleted => Exists(q)' \/ q \in deleted'
    /\ inbox \cup deleted \subseteq inbox' \cup deleted'

EntersSlot ==
    /\ admitted # None /\ admitted.run \in Run /\ admitted' = None
    /\ Effect({admitted.run})
    /\ run'[admitted.run].owner = admitted.session

LEMMA InitIInv == Init => IInv
<1> SUFFICES ASSUME Init
             PROVE  IInv
  OBVIOUS
<1>1. worker \in Worker /\ worker.pc = "connect"
  BY Places DEF Init, Worker, Pc
<1>2. TypeOK
  BY <1>1, NewTyped, DemoAssumption DEF Init, TypeOK
<1>3. RunInv
  BY DEF Init, RunInv, RunOk, Exists
<1>4. WorkerInv
  BY <1>1 DEF Init, WorkerInv, TodoInv, CurInv, PollInv, Publishes, Processes
<1> QED
  BY <1>2, <1>3, <1>4 DEF Init, IInv, AdmitInv

LEMMA WorkerTyped ==
    ASSUME TypeOK
    PROVE  /\ worker.pc \in Pc /\ worker.todo \in SUBSET Run /\ worker.cur \in Run \cup {None}
           /\ worker.at \in Place /\ worker.next \in Nat /\ worker.upto \in Nat
           /\ worker = [pc |-> worker.pc, todo |-> worker.todo, cur |-> worker.cur,
                        at |-> worker.at, next |-> worker.next, upto |-> worker.upto]
BY DEF TypeOK, Worker

\* Tables that do not change keep what is said of them.
LEMMA TablesKept ==
    ASSUME IInv, UNCHANGED tables
    PROVE  /\ RunInv'
           /\ \A r : Exists(r)' = Exists(r) /\ Status(r)' = Status(r)
           /\ \A s : Owned(s)' = Owned(s)
           /\ Effect({})
<1>1. run' = run /\ outbox' = outbox /\ inbox' = inbox /\ deleted' = deleted
  BY DEF tables
<1>2. /\ \A r : Exists(r)' = Exists(r) /\ Status(r)' = Status(r)
      /\ \A s : Owned(s)' = Owned(s)
  BY <1>1 DEF Exists, Status, Owned
<1>3. RunInv'
  BY <1>1, Zenon DEF IInv, RunInv, RunOk, Exists, Status
<1>4. \A q : Counted(q)' = Counted(q)
  BY <1>1 DEF Counted, Active, Status, Exists
<1>5. Effect({})
  BY <1>1, <1>2, <1>4 DEF Effect, NoNewSlot
<1> QED
  BY <1>2, <1>3, <1>5, Zenon

\* Requests are admitted, refused, and copies arrive, with the worker at rest.
LEMMA RestingStep ==
    ASSUME IInv, UNCHANGED <<tables, worker>>, topic' \in Seq(Run), Len(topic) <= Len(topic'),
           offset' = offset, flying' \in [Run -> Nat],
           admitted' \in Request \cup {None}, retries' \in 0..MaxRetries, crashes' \in 0..MaxCrashes,
           AdmitInv'
    PROVE  IInv' /\ Effect({})
<1>1. TypeOK'
  <2>1. offset' \in 0..Len(topic')
    BY DEF IInv, TypeOK
  <2> QED
    BY <2>1 DEF IInv, TypeOK, tables
<1>2. WorkerInv'
  <2>1. TodoInv'
    BY TablesKept DEF IInv, WorkerInv, TodoInv, Publishes, Processes, Publishable, Processable, tables, Status
  <2>2. CurInv'
    BY TablesKept DEF IInv, WorkerInv, CurInv, Publishes, Processes, Processable, tables, Status, Exists
  <2>3. PollInv'
    <3>1. worker.next \in Nat /\ worker.upto \in Nat /\ Len(topic) \in Nat /\ Len(topic') \in Nat
      BY WorkerTyped DEF IInv, TypeOK
    <3> QED
      BY <3>1 DEF IInv, WorkerInv, PollInv
  <2> QED
    BY <2>1, <2>2, <2>3 DEF WorkerInv
<1> QED
  BY <1>1, <1>2, TablesKept DEF IInv

LEMMA RequestSteps ==
    ASSUME IInv, \/ \E s \in Session, r \in Run : AdmitSubmission(s, r) \/ AdmitRetry(s, r)
                 \/ Refuse
                 \/ \E r \in Run : Arrive(r)
    PROVE  IInv' /\ Effect({})
<1> USE DEF kafka, budget
<1>1. ASSUME NEW s \in Session, NEW r \in Run, AdmitSubmission(s, r)
      PROVE  IInv' /\ Effect({})
  <2>1. admitted' \in Request /\ admitted'.kind = "submit" /\ admitted'.run = r
    BY <1>1 DEF AdmitSubmission, Request
  <2>2. AdmitInv'
    BY <1>1, <2>1 DEF AdmitSubmission, AdmitInv, tables, Exists
  <2> QED
    BY <1>1, <2>1, <2>2, RestingStep DEF AdmitSubmission, IInv, TypeOK
<1>2. ASSUME NEW s \in Session, NEW r \in Run, AdmitRetry(s, r)
      PROVE  IInv' /\ Effect({})
  <2>1. /\ admitted' \in Request /\ admitted'.kind = "retry" /\ admitted'.run = r
        /\ admitted'.session = s
    BY <1>2 DEF AdmitRetry, Request
  <2>2. AdmitInv'
    BY <1>2, <2>1 DEF AdmitRetry, AdmitInv, tables, Owned, Exists
  <2> QED
    BY <1>2, <2>1, <2>2, RestingStep DEF AdmitRetry, IInv, TypeOK
<1>3. CASE Refuse
  <2>1. AdmitInv'
    BY <1>3 DEF Refuse, AdmitInv
  <2> QED
    BY <1>3, <2>1, RestingStep DEF Refuse, IInv, TypeOK
<1>4. ASSUME NEW r \in Run, Arrive(r)
      PROVE  IInv' /\ Effect({})
  <2>1. flying' \in [Run -> Nat]
    BY <1>4 DEF Arrive, IInv, TypeOK
  <2>2. topic' \in Seq(Run) /\ Len(topic') = Len(topic) + 1 /\ Len(topic) \in Nat
    BY <1>4 DEF Arrive, IInv, TypeOK
  <2>3. AdmitInv'
    <3>1. UNCHANGED <<tables, deleted, admitted, retries>>
      BY <1>4 DEF Arrive, tables
    <3>2. /\ \A q : Exists(q)' = Exists(q)
          /\ \A s : Owned(s)' = Owned(s)
      BY <3>1, TablesKept
    <3> QED
      BY <3>1, <3>2 DEF IInv, AdmitInv
  <2> QED
    BY <1>4, <2>1, <2>2, <2>3, RestingStep DEF Arrive, IInv, TypeOK
<1> QED
  BY <1>1, <1>2, <1>3, <1>4

(***************************************************************************)
(* Steps of the worker that leave the tables alone                         *)
(***************************************************************************)

LEMMA GotoTyped ==
    ASSUME TypeOK, NEW pc \in Pc, Goto(pc)
    PROVE  /\ worker' \in Worker
           /\ worker'.pc = pc /\ worker'.todo = worker.todo /\ worker'.cur = None
           /\ worker'.at = 1 /\ worker'.next = worker.next /\ worker'.upto = worker.upto
<1>1. 1 \in Place
  BY Places
<1> QED
  BY <1>1, WorkerTyped DEF Goto, Worker, TypeOK

LEMMA MemoryStep ==
    ASSUME IInv, UNCHANGED <<tables, admitted, retries>>, worker' \in Worker,
           topic' \in Seq(Run), offset' \in 0..Len(topic'), flying' \in [Run -> Nat],
           crashes' \in 0..MaxCrashes, WorkerInv'
    PROVE  IInv' /\ Effect({})
<1>1. TypeOK'
  BY DEF IInv, TypeOK, tables
<1>2. AdmitInv'
  <2>1. UNCHANGED <<deleted, admitted, retries>>
    BY DEF tables
  <2>2. /\ \A q : Exists(q)' = Exists(q)
        /\ \A s : Owned(s)' = Owned(s)
    BY TablesKept
  <2> QED
    BY <2>1, <2>2 DEF IInv, AdmitInv
<1> QED
  BY <1>1, <1>2, TablesKept DEF IInv

LEMMA ConnectStep == ASSUME IInv, Connect PROVE IInv' /\ Effect({})
<1>1. /\ worker' \in Worker /\ worker'.pc = "pending"
      /\ worker'.next = offset
  <2>1. offset \in Nat
    BY DEF IInv, TypeOK
  <2> QED
    BY <2>1, WorkerTyped DEF Connect, IInv, TypeOK, Worker, Pc
<1>2. UNCHANGED <<tables, kafka, topic, flying, offset, admitted, retries, crashes>>
  BY DEF Connect, kafka, budget
<1>3. TodoInv' /\ CurInv'
  BY <1>1 DEF TodoInv, CurInv, Publishes, Processes
<1>4. PollInv'
  BY <1>1, <1>2 DEF PollInv, IInv, TypeOK
<1> QED
  BY <1>1, <1>2, <1>3, <1>4, MemoryStep DEF WorkerInv, IInv, TypeOK

LEMMA PendingAre ==
    ASSUME IInv
    PROVE  Pending \in SUBSET Run /\ \A r \in Pending : Publishable(r)
<1> SUFFICES ASSUME NEW r \in Pending
             PROVE  Publishable(r)
  BY DEF Pending
<1>1. r \in Run /\ Status(r) # None /\ Status(r) # "FAILED" /\ ~outbox[r].published
      /\ outbox[r].attempts < MaxAttempts
  BY DEF Pending
<1>2. Exists(r)
  BY <1>1, NoRow
<1>3. r \notin inbox
  BY <1>1 DEF IInv, RunInv, RunOk
<1> QED
  BY <1>1, <1>2, <1>3 DEF IInv, RunInv, RunOk, Publishable

LEMMA TakePendingStep == ASSUME IInv, TakePending PROVE IInv' /\ Effect({})
<1>1. /\ worker' \in Worker /\ worker'.pc = "publish" /\ worker'.todo = Pending
      /\ worker'.next = worker.next
  BY WorkerTyped, PendingAre DEF TakePending, IInv, TypeOK, Worker, Pc
<1>2. UNCHANGED <<tables, kafka, topic, flying, offset, admitted, retries, crashes, outbox>>
  BY DEF TakePending, kafka, budget, tables
<1>3. \A r \in worker'.todo : Publishable(r)'
  BY <1>1, <1>2, PendingAre, TablesKept DEF Publishable
<1>4. TodoInv' /\ CurInv'
  BY <1>1, <1>3 DEF TodoInv, CurInv, Publishes, Processes
<1>5. PollInv'
  BY <1>1, <1>2 DEF PollInv, IInv, WorkerInv
<1> QED
  BY <1>1, <1>2, <1>4, <1>5, MemoryStep DEF WorkerInv, IInv, TypeOK

\* The message is sent, or its answer is missing.
LEMMA SendSteps == ASSUME IInv, SendAcked \/ SendInDoubt PROVE IInv' /\ Effect({})
<1>1. /\ worker' \in Worker /\ worker.pc = "send" /\ worker'.pc \in {"sent", "failed"}
      /\ worker'.todo = worker.todo /\ worker'.cur = worker.cur /\ worker'.at = worker.at
      /\ worker'.next = worker.next
  BY WorkerTyped DEF SendAcked, SendInDoubt, IInv, TypeOK, Worker, Pc
<1>2. UNCHANGED <<tables, offset, admitted, retries, crashes, outbox>>
  BY DEF SendAcked, SendInDoubt, budget, tables
<1>3. worker.cur \in Run \ worker.todo /\ Status(worker.cur) = "WAITING" /\ Publishes
  BY <1>1 DEF IInv, WorkerInv, CurInv, Publishes
<1>4. /\ topic' \in Seq(Run) /\ Len(topic) \in Nat /\ Len(topic') \in Nat
      /\ Len(topic') >= Len(topic) /\ flying' \in [Run -> Nat]
  <2>1. topic \in Seq(Run) /\ flying \in [Run -> Nat]
    BY DEF IInv, TypeOK
  <2>2. CASE SendAcked
    BY <1>3, <2>1, <2>2 DEF SendAcked
  <2>3. CASE SendInDoubt
    BY <1>3, <2>1, <2>3 DEF SendInDoubt
  <2> QED
    BY <2>2, <2>3
<1>5. offset' \in 0..Len(topic')
  BY <1>2, <1>4 DEF IInv, TypeOK
<1>6. \A r : Publishable(r)' = Publishable(r) /\ Status(r)' = Status(r)
  BY <1>2, TablesKept DEF Publishable
<1>7. worker.at = Publication /\ Publishes' /\ ~Processes' /\ worker'.pc # "process"
  BY <1>1, <1>3 DEF CurInv, IInv, WorkerInv, Publishes, Processes
<1>8. TodoInv' /\ CurInv' /\ PollInv'
  <2>1. TodoInv'
    BY <1>1, <1>3, <1>6, <1>7 DEF TodoInv, IInv, WorkerInv
  <2>2. CurInv'
    BY <1>1, <1>2, <1>3, <1>6, <1>7 DEF CurInv, Processes, IInv, WorkerInv
  <2>3. PollInv'
    BY <1>1, <1>4, WorkerTyped DEF PollInv, IInv, WorkerInv
  <2> QED
    BY <2>1, <2>2, <2>3
<1> QED
  BY <1>1, <1>2, <1>4, <1>5, <1>8, MemoryStep DEF WorkerInv, IInv, TypeOK

LEMMA PollStep == ASSUME IInv, Poll PROVE IInv' /\ Effect({})
<1>1. /\ worker' \in Worker /\ worker'.pc \in {"ingest", "resumable"}
      /\ worker'.next = worker.next
      /\ worker'.pc = "ingest" => worker'.next <= worker'.upto /\ worker'.upto <= Len(topic)
  <2>1. Len(topic) \in Nat /\ worker.next \in Nat
    BY WorkerTyped DEF IInv, TypeOK
  <2>2. CASE worker.next < Len(topic)
    <3>1. PICK n \in (worker.next + 1)..Len(topic) :
            worker' = [worker EXCEPT !.pc = "ingest", !.upto = n]
      BY <2>2 DEF Poll
    <3>2. n \in Nat /\ worker.next <= n /\ n <= Len(topic)
      BY <2>1
    <3> QED
      BY <3>1, <3>2, WorkerTyped DEF IInv, TypeOK, Worker, Pc
  <2>3. CASE ~(worker.next < Len(topic))
    BY <2>3, GotoTyped DEF Poll, IInv, Pc
  <2> QED
    BY <2>2, <2>3
<1>2. UNCHANGED <<tables, kafka, topic, flying, offset, admitted, retries, crashes>>
  BY DEF Poll, kafka, budget
<1>3. WorkerInv'
  BY <1>1, <1>2 DEF TodoInv, CurInv, PollInv, Publishes, Processes, IInv, WorkerInv
<1> QED
  BY <1>1, <1>2, <1>3, MemoryStep DEF IInv, TypeOK

LEMMA QuarantineStep == ASSUME IInv, Quarantine PROVE IInv' /\ Effect({})
<1>1. /\ worker' \in Worker /\ worker'.pc = "ingest" /\ worker'.upto = worker.upto
      /\ worker'.next = worker.next + 1
      /\ worker.next < worker.upto /\ worker.upto <= Len(topic)
  <2>1. worker.pc = "ingest" /\ worker.next < worker.upto /\ worker.upto <= Len(topic)
    BY DEF Quarantine, IInv, WorkerInv, PollInv
  <2> QED
    <3>1. worker' = [worker EXCEPT !.next = worker.next + 1] /\ worker.next + 1 \in Nat
      BY WorkerTyped DEF Quarantine, IInv
    <3>2. worker' \in Worker /\ worker'.pc = worker.pc /\ worker'.upto = worker.upto
          /\ worker'.next = worker.next + 1
      BY <3>1, WorkerTyped DEF IInv, Worker
    <3> QED
      BY <2>1, <3>2
<1>2. UNCHANGED <<tables, kafka, topic, flying, offset, admitted, retries, crashes>>
  BY DEF Quarantine, kafka, budget
<1>3. Len(topic) \in Nat /\ worker.next \in Nat /\ worker.upto \in Nat
  BY WorkerTyped DEF IInv, TypeOK
<1>4. PollInv'
  BY <1>1, <1>2, <1>3 DEF PollInv
<1>5. WorkerInv'
  BY <1>1, <1>4 DEF TodoInv, CurInv, Publishes, Processes, WorkerInv
<1> QED
  BY <1>1, <1>2, <1>5, MemoryStep DEF IInv, TypeOK

LEMMA CommitOffsetsStep == ASSUME IInv, CommitOffsets PROVE IInv' /\ Effect({})
<1>1. /\ worker' \in Worker /\ worker'.pc = "resumable" /\ worker'.next = worker.next
  BY GotoTyped DEF CommitOffsets, IInv, Pc
<1>2. UNCHANGED <<tables, topic, flying, admitted, retries, crashes>> /\ offset' = worker.upto
  BY DEF CommitOffsets, budget
<1>3. offset' \in 0..Len(topic') /\ Len(topic) \in Nat
  BY <1>2, WorkerTyped DEF CommitOffsets, IInv, TypeOK, WorkerInv, PollInv
<1>4. WorkerInv'
  BY <1>1, <1>2 DEF TodoInv, CurInv, PollInv, Publishes, Processes, IInv, WorkerInv
<1> QED
  BY <1>1, <1>2, <1>3, <1>4, MemoryStep DEF IInv, TypeOK

LEMMA TakeResumableStep == ASSUME IInv, TakeResumable PROVE IInv' /\ Effect({})
<1>1. /\ worker' \in Worker /\ worker'.pc = "process" /\ worker'.todo = Resumable
      /\ worker'.next = worker.next
  BY WorkerTyped DEF TakeResumable, Resumable, IInv, TypeOK, Worker, Pc
<1>2. UNCHANGED <<tables, kafka, topic, flying, offset, admitted, retries, crashes>>
  BY DEF TakeResumable, kafka, budget
<1>3. \A r \in worker'.todo : Processable(r)'
  BY <1>1, <1>2, TablesKept DEF Processable, Resumable
<1>4. TodoInv' /\ CurInv'
  BY <1>1, <1>3 DEF TodoInv, CurInv, Publishes, Processes
<1>5. PollInv'
  BY <1>1, <1>2 DEF PollInv, IInv, WorkerInv
<1> QED
  BY <1>1, <1>2, <1>4, <1>5, MemoryStep DEF WorkerInv, IInv, TypeOK

LEMMA BeginRunStep == ASSUME IInv, NEW r \in Run, BeginRun(r) PROVE IInv' /\ Effect({})
<1>1. /\ worker' \in Worker /\ worker'.pc = "stage" /\ worker'.todo = worker.todo \ {r}
      /\ worker'.cur = r /\ worker'.next = worker.next
      /\ worker.pc = "process" /\ r \in worker.todo
  BY WorkerTyped DEF BeginRun, IInv, TypeOK, Worker, Pc
<1>2. UNCHANGED <<tables, kafka, topic, flying, offset, admitted, retries, crashes>>
  BY DEF BeginRun, kafka, budget
<1>3. \A q \in worker.todo : Processable(q)'
  BY <1>1, <1>2, TablesKept DEF Processable, TodoInv, IInv, WorkerInv
<1>4. TodoInv' /\ CurInv'
  BY <1>1, <1>3 DEF TodoInv, CurInv, Publishes, Processes
<1>5. PollInv'
  BY <1>1, <1>2 DEF PollInv, IInv, WorkerInv
<1> QED
  BY <1>1, <1>2, <1>4, <1>5, MemoryStep DEF WorkerInv, IInv, TypeOK

LEMMA EndPassStep == ASSUME IInv, EndPass PROVE IInv' /\ Effect({})
<1>1. /\ worker' \in Worker /\ worker'.pc = "pending" /\ worker'.next = worker.next
  BY GotoTyped DEF EndPass, IInv, Pc
<1>2. UNCHANGED <<tables, kafka, topic, flying, offset, admitted, retries, crashes>>
  BY DEF EndPass, kafka, budget
<1>3. WorkerInv'
  BY <1>1, <1>2 DEF TodoInv, CurInv, PollInv, Publishes, Processes, IInv, WorkerInv
<1> QED
  BY <1>1, <1>2, <1>3, MemoryStep DEF IInv, TypeOK

LEMMA CrashStep == ASSUME IInv, Crash PROVE IInv' /\ Effect({})
<1>1. /\ worker' \in Worker /\ worker'.pc = "connect" /\ worker'.next = 0
  BY Places DEF Crash, Worker, Pc
<1>2. UNCHANGED <<tables, topic, offset, admitted, retries>> /\ crashes' \in 0..MaxCrashes
  BY DemoAssumption DEF Crash, IInv, TypeOK
<1>3. flying' \in [Run -> Nat]
  <2>1. flying \in [Run -> Nat]
    BY DEF IInv, TypeOK
  <2>2. worker.pc = "send" => worker.cur \in Run
    BY DEF IInv, WorkerInv, CurInv, Publishes
  <2> QED
    BY <2>1, <2>2 DEF Crash
<1>4. WorkerInv'
  BY <1>1, <1>2 DEF TodoInv, CurInv, PollInv, Publishes, Processes, IInv, TypeOK, WorkerInv
<1> QED
  BY <1>1, <1>2, <1>3, <1>4, MemoryStep DEF IInv, TypeOK

LEMMA StepFailsStep == ASSUME IInv, StepFails PROVE IInv' /\ Effect({})
<1>1. UNCHANGED <<tables, kafka, topic, flying, offset, admitted, retries, crashes>>
  BY DEF StepFails, kafka, budget
<1>2. \A r : /\ Publishable(r)' = Publishable(r) /\ Processable(r)' = Processable(r)
             /\ Status(r)' = Status(r) /\ Exists(r)' = Exists(r)
  BY <1>1, TablesKept DEF Publishable, Processable, tables
<1>3. \/ /\ worker.pc = "operate"
         /\ worker' = [worker EXCEPT !.pc = "failed"]
      \/ /\ worker.pc = "publish" /\ "begin" \in Blips
         /\ \E r \in worker.todo :
              worker' = [worker EXCEPT !.pc = "failed", !.todo = @ \ {r},
                                       !.cur = r, !.at = Publication]
      \/ /\ worker.pc = "stage"
         /\ \E p \in Work : worker' = [worker EXCEPT !.pc = "failed", !.at = p]
  BY DEF StepFails
<1>4. CASE /\ worker.pc = "publish" /\ "begin" \in Blips
           /\ \E r \in worker.todo :
                worker' = [worker EXCEPT !.pc = "failed", !.todo = @ \ {r},
                                         !.cur = r, !.at = Publication]
  <2>1. PICK r \in worker.todo :
          worker' = [worker EXCEPT !.pc = "failed", !.todo = @ \ {r},
                                   !.cur = r, !.at = Publication]
    BY <1>4
  <2>2. /\ worker' \in Worker /\ worker'.pc = "failed" /\ worker'.todo = worker.todo \ {r}
        /\ worker'.cur = r /\ worker'.at = Publication /\ worker'.next = worker.next
        /\ r \in Run
    BY <2>1, WorkerTyped, Places DEF IInv, TypeOK, Worker, Pc
  <2>3. \A q \in worker.todo : Publishable(q)
    BY <1>4 DEF IInv, WorkerInv, TodoInv
  <2>4. TodoInv'
    BY <1>2, <2>2, <2>3 DEF TodoInv, Publishes, Processes
  <2>5. CurInv'
    BY <1>2, <1>4, <2>2, <2>3 DEF CurInv, Publishes, Processes, Publishable
  <2>6. PollInv'
    BY <1>1, <2>2 DEF PollInv, IInv, WorkerInv
  <2> QED
    BY <1>1, <2>2, <2>4, <2>5, <2>6, MemoryStep DEF WorkerInv, IInv, TypeOK
<1>5. ASSUME worker.pc \in {"stage", "operate"}, NEW p \in Work,
             worker' = [worker EXCEPT !.pc = "failed", !.at = p]
      PROVE  IInv' /\ Effect({})
  <2>1. /\ worker' \in Worker /\ worker'.pc = "failed" /\ worker'.todo = worker.todo
        /\ worker'.cur = worker.cur /\ worker'.at = p /\ worker'.next = worker.next
        /\ p # Publication
    BY <1>5, WorkerTyped, Places DEF IInv, TypeOK, Worker, Pc
  <2>2. /\ worker.cur \in Run \ worker.todo /\ Processable(worker.cur)
        /\ \A q \in worker.todo : Processable(q)
    BY <1>5 DEF IInv, WorkerInv, TodoInv, CurInv, Processes
  <2>3. Status(worker.cur) = "PROCESSING" /\ Exists(worker.cur)
    BY <2>2, NoRow DEF Processable, RunStatus
  <2>4. TodoInv'
    BY <1>2, <2>1, <2>2 DEF TodoInv, Publishes, Processes
  <2>5. CurInv'
    BY <1>2, <2>1, <2>2, <2>3 DEF CurInv, Publishes, Processes
  <2>6. PollInv'
    BY <1>1, <2>1 DEF PollInv, IInv, WorkerInv
  <2> QED
    BY <1>1, <2>1, <2>4, <2>5, <2>6, MemoryStep DEF WorkerInv, IInv, TypeOK
<1>6. CASE /\ worker.pc = "operate"
           /\ worker' = [worker EXCEPT !.pc = "failed"]
  <2>1. worker.at \in Work
    BY <1>6 DEF IInv, WorkerInv, CurInv
  <2>2. worker' = [worker EXCEPT !.pc = "failed", !.at = worker.at]
    BY <1>6, WorkerTyped DEF IInv
  <2> QED
    BY <1>5, <1>6, <2>1, <2>2
<1> QED
  BY <1>3, <1>4, <1>5, <1>6

(***************************************************************************)
(* Steps of visitors, reviewers and retention                              *)
(***************************************************************************)

\* They leave alone the runs the worker remembers, or remove them for good.
LEMMA VisitorKeepsWorker ==
    ASSUME IInv, UNCHANGED <<worker, topic>>,
           \A r \in Run : Active(r) => Status(r)' = Status(r) /\ outbox'[r] = outbox[r],
           \A r \in Run : Exists(r) /\ Status(r) \notin {"WAITING", "FAILED"} /\ Exists(r)' =>
             Status(r)' \notin {"WAITING", "FAILED"},
           \A r \in Run : Exists(r) /\ ~Exists(r)' => r \in deleted',
           \A r \in Run : ~Exists(r) /\ r \in deleted => ~Exists(r)' /\ r \in deleted'
    PROVE  WorkerInv'
<1>1. \A r \in Run : Status(r) = "WAITING" => Active(r)
  BY DEF Active
<1>2. \A r \in Run : Processable(r) => Active(r) /\ Processable(r)'
  BY DEF Active, Processable
<1>3. \A r \in Run : Publishable(r) => Publishable(r)'
  BY <1>1 DEF Publishable
<1>4. worker.todo \subseteq Run
  BY WorkerTyped DEF IInv
<1>5. TodoInv'
  BY <1>2, <1>3, <1>4 DEF TodoInv, Publishes, Processes, IInv, WorkerInv
<1>6. CurInv'
  <2>1. Publishes => /\ worker.cur \in Run \ worker.todo /\ Status(worker.cur)' = "WAITING"
                     /\ worker.at = Publication
                     /\ "begin" \notin Blips => outbox'[worker.cur].attempts > 0
    BY <1>1 DEF IInv, WorkerInv, CurInv
  <2>2. /\ Processes => worker.cur \in Run \ worker.todo
        /\ worker.pc \in {"stage", "operate"} => Processable(worker.cur)'
        /\ worker.pc = "operate" => worker.at \in Work
    BY <1>2 DEF IInv, WorkerInv, CurInv, Processes
  <2>3. ASSUME worker.pc = "failed", worker.at # Publication
        PROVE  /\ worker.at \in Work
               /\ Exists(worker.cur)' => Status(worker.cur)' \notin {"WAITING", "FAILED"}
               /\ ~Exists(worker.cur)' => worker.cur \in deleted'
               /\ worker.at # Agent => Processable(worker.cur)'
    <3>1. /\ worker.cur \in Run /\ worker.at \in Work
          /\ Exists(worker.cur) => Status(worker.cur) \notin {"WAITING", "FAILED"}
          /\ ~Exists(worker.cur) => worker.cur \in deleted
          /\ worker.at # Agent => Processable(worker.cur)
      BY <2>3 DEF IInv, WorkerInv, CurInv, Processes
    <3> QED
      BY <3>1, <1>2
  <2> QED
    BY <2>1, <2>2, <2>3 DEF CurInv, Publishes, Processes
<1>7. PollInv'
  BY DEF PollInv, IInv, WorkerInv
<1> QED
  BY <1>5, <1>6, <1>7 DEF WorkerInv

\* A row that does not change, and whose run's outbox and inbox rows do not.
LEMMA RunOkKept ==
    ASSUME IInv, NEW r \in Run, run'[r] = run[r],
           outbox'[r] = outbox[r], r \in inbox' <=> r \in inbox
    PROVE  RunOk(r)' /\ NoNewSlot(r) /\ Exists(r)' = Exists(r) /\ Status(r)' = Status(r)
<1>1. Exists(r)' = Exists(r) /\ Status(r)' = Status(r)
  BY DEF Exists, Status
<1>2. Counted(r)' => Counted(r)
  BY <1>1 DEF Counted, Active
<1> QED
  BY <1>1, <1>2 DEF RunOk, IInv, RunInv, NoNewSlot

LEMMA CreateRunStep == ASSUME IInv, CreateRun PROVE IInv' /\ EntersSlot
<1> SUFFICES ASSUME NEW r, r = admitted.run
             PROVE  IInv' /\ EntersSlot
  OBVIOUS
<1> DEFINE row == [owner |-> admitted.session, status |-> "WAITING",
                   stage |-> NewStages, version |-> 0, case |-> "none"]
<1>1. admitted \in Request /\ r \in Run /\ admitted.session \in Session
  BY NoneAssumption DEF CreateRun, IInv, TypeOK, Request
<1>2. ~Exists(r) /\ r \notin deleted /\ r \notin inbox
  BY <1>1 DEF CreateRun, IInv, AdmitInv, RunInv, RunOk
<1>3. row \in RunRow /\ row # None /\ row.status = "WAITING" /\ row.stage = NewStages
  BY <1>1, NewTyped, NoneAssumption DEF RunRow, RunStatus, CaseRow
<1>4. run' = [run EXCEPT ![r] = row] /\ run \in [Run -> RunRow \cup {None}]
  BY DEF CreateRun, IInv, TypeOK
<1>5. outbox' = [outbox EXCEPT ![r] = Unsent] /\ outbox \in [Run -> OutboxRow]
  BY DEF CreateRun, IInv, TypeOK
<1>6. UNCHANGED <<inbox, deleted, kafka, worker, retries, crashes>> /\ admitted' = None
  BY DEF CreateRun, budget
<1>7. /\ Exists(r)' /\ Status(r)' = "WAITING" /\ run'[r].stage = NewStages
      /\ outbox'[r] = Unsent
      /\ \A q \in Run \ {r} : /\ run'[q] = run[q] /\ outbox'[q] = outbox[q]
                              /\ Exists(q)' = Exists(q) /\ Status(q)' = Status(q)
  <2>1. run'[r] = row /\ outbox'[r] = Unsent
    BY <1>1, <1>4, <1>5
  <2>2. \A q \in Run \ {r} : run'[q] = run[q] /\ outbox'[q] = outbox[q]
    BY <1>4, <1>5
  <2> HIDE DEF row
  <2>3. \A q \in Run \ {r} : Exists(q)' = Exists(q) /\ Status(q)' = Status(q)
    BY <2>2 DEF Exists, Status
  <2>4. Exists(r)' /\ Status(r)' = "WAITING"
    BY <2>1, <1>3 DEF Exists, Status
  <2> QED
    BY <1>3, <2>1, <2>2, <2>3, <2>4
<1>8. TypeOK'
  <2>1. run' \in [Run -> RunRow \cup {None}] /\ outbox' \in [Run -> OutboxRow]
    BY <1>1, <1>3, <1>4, <1>5, NewTyped
  <2>2. journal' \in [Run -> JournalOf]
    <3>1. Journaled(NoEntries, All({1}, "completed")) \in JournalOf
      BY NewTyped, Places, JournaledTyped DEF StageStatus
    <3> QED
      BY <1>1, <3>1 DEF CreateRun, IInv, TypeOK
  <2> QED
    BY <1>6, <2>1, <2>2 DEF IInv, TypeOK, kafka
<1>9. RunInv'
  <2>1. /\ NewStages[Publication] = "waiting" /\ NewStages[Agent] = "waiting"
        /\ "waiting" \notin Done
    BY Places DEF NewStages, Publication, Agent, Done
  <2>2. RunOk(r)'
    BY <1>2, <1>6, <1>7, <2>1 DEF RunOk
  <2>3. \A q \in Run \ {r} : RunOk(q)'
    BY <1>6, <1>7, RunOkKept
  <2> QED
    BY <2>2, <2>3 DEF RunInv
<1>10. ~Active(r)
  BY <1>2, NoRow
<1>11. WorkerInv'
  <2>1. UNCHANGED <<worker, topic>>
    BY <1>6 DEF kafka
  <2>2. \A q \in Run : Active(q) => Status(q)' = Status(q) /\ outbox'[q] = outbox[q]
    BY <1>7, <1>10
  <2>3. \A q \in Run : Exists(q) => Exists(q)' /\ Status(q)' = Status(q)
    BY <1>2, <1>7
  <2>4. \A q \in Run : ~Exists(q) /\ q \in deleted => ~Exists(q)' /\ q \in deleted'
    BY <1>2, <1>6, <1>7
  <2> QED
    BY <2>1, <2>2, <2>3, <2>4, VisitorKeepsWorker
<1>12. EntersSlot
  <2>1. \A q \in Run \ {r} : NoNewSlot(q)
    BY <1>6, <1>7, RunOkKept
  <2>2. run'[r].owner = admitted.session
    BY <1>1, <1>4
  <2>3. Effect({r})
    BY <1>6, <1>7, <2>1 DEF Effect
  <2> QED
    BY <1>1, <1>6, <2>2, <2>3 DEF EntersSlot, CreateRun
<1> QED
  BY <1>6, <1>8, <1>9, <1>11, <1>12 DEF IInv, AdmitInv

LEMMA RetryRunStep == ASSUME IInv, RetryRun PROVE IInv' /\ EntersSlot
<1> SUFFICES ASSUME NEW r, r = admitted.run
             PROVE  IInv' /\ EntersSlot
  OBVIOUS
<1> DEFINE status == IF r \in inbox THEN "PROCESSING" ELSE "WAITING"
           stage == RetriedStages(run[r].stage)
<1>1. admitted \in Request /\ r \in Run
  BY NoneAssumption DEF RetryRun, IInv, TypeOK, Request
<1>2. Status(r) = "FAILED" /\ Exists(r)
  BY NoRow DEF RetryRun, RunStatus
<1>3. TypeOK /\ run[r].stage \in [Place -> StageStatus] /\ run[r].status = "FAILED"
  BY <1>1, <1>2, RowTyped DEF IInv
<1>4. stage \in [Place -> StageStatus]
  BY <1>3, DocumentTyped, Places
<1>5. Write(r, status, stage, All({}, "waiting"))
  BY DEF RetryRun
<1>6. /\ run' \in [Run -> RunRow \cup {None}] /\ journal' \in [Run -> JournalOf]
      /\ Exists(r)' /\ Status(r)' = status /\ run'[r].stage = stage
      /\ run'[r].owner = run[r].owner
      /\ \A q \in Run \ {r} : run'[q] = run[q]
  <2>1. status \in RunStatus /\ "waiting" \in StageStatus /\ {} \in SUBSET Place
    BY DEF RunStatus, StageStatus
  <2> HIDE DEF status, stage
  <2> QED
    BY <1>1, <1>2, <1>3, <1>4, <1>5, <2>1, Written
<1>7. /\ outbox' \in [Run -> OutboxRow] /\ outbox'[r].published = outbox[r].published
      /\ \A q \in Run \ {r} : outbox'[q] = outbox[q]
  <2>1. outbox \in [Run -> OutboxRow] /\ outbox[r] \in OutboxRow
    BY <1>1, <1>3 DEF TypeOK
  <2>2. [outbox[r] EXCEPT !.attempts = 0] \in OutboxRow
        /\ [outbox[r] EXCEPT !.attempts = 0].published = outbox[r].published
    BY <2>1, DemoAssumption DEF OutboxRow
  <2>3. outbox' = outbox \/ outbox' = [outbox EXCEPT ![r] = [@ EXCEPT !.attempts = 0]]
    BY DEF RetryRun
  <2> QED
    BY <1>1, <2>1, <2>2, <2>3
<1>8. UNCHANGED <<inbox, deleted, kafka, worker, crashes>> /\ admitted' = None
      /\ retries' = retries + 1
  BY DEF RetryRun
<1>9. retries' \in 0..MaxRetries
  BY <1>1, <1>3, <1>8, DemoAssumption, NoneAssumption DEF IInv, TypeOK, AdmitInv, RetryRun
<1>10. TypeOK'
  BY <1>3, <1>6, <1>7, <1>8, <1>9, NoneAssumption DEF TypeOK, kafka
<1>11. \A q \in Run \ {r} : Exists(q)' = Exists(q) /\ Status(q)' = Status(q)
  BY <1>6 DEF Exists, Status
<1>12. RunInv'
  <2>1. /\ stage[Publication] = "completed" => run[r].stage[Publication] = "completed"
        /\ stage[Agent] \in Done => run[r].stage[Agent] \in Done
    BY Places DEF RetriedStages, Done, Agent, Work, Publication
  <2>2. status # "FAILED" /\ (status # "WAITING" => r \in inbox)
    OBVIOUS
  <2> HIDE DEF status, stage
  <2>3. \A q \in Run \ {r} : RunOk(q)'
    BY <1>6, <1>7, <1>8, RunOkKept
  <2>4. /\ r \in inbox' => Exists(r)' /\ outbox'[r].published
        /\ run'[r].stage[Publication] = "completed" => outbox'[r].published
        /\ Status(r)' \notin {"WAITING", "FAILED"} => r \in inbox'
        /\ run'[r].stage[Agent] \notin Done
        /\ Status(r)' # "FAILED"
    BY <1>1, <1>2, <1>6, <1>7, <1>8, <2>1, <2>2 DEF IInv, RunInv, RunOk
  <2> QED
    BY <2>3, <2>4 DEF RunInv, RunOk
<1>13. WorkerInv'
  <2>1. UNCHANGED <<worker, topic>>
    BY <1>8 DEF kafka
  <2>2. ~Active(r)
    BY <1>2 DEF Active
  <2>3. \A q \in Run : Active(q) => Status(q)' = Status(q) /\ outbox'[q] = outbox[q]
    BY <2>2, <1>7, <1>11
  <2>4. \A q \in Run : Exists(q)' = Exists(q)
    <3>1. Exists(r)' = Exists(r)
      BY <1>2, <1>6
    <3> QED
      BY <3>1, <1>11
  <2>5. \A q \in Run : Exists(q) /\ Status(q) \notin {"WAITING", "FAILED"} =>
          Status(q)' \notin {"WAITING", "FAILED"}
    BY <1>2, <1>11
  <2> QED
    BY <1>8, <2>1, <2>3, <2>4, <2>5, VisitorKeepsWorker
<1>14. EntersSlot
  <2>1. \A q \in Run \ {r} : NoNewSlot(q)
    BY <1>6, <1>7, <1>8, RunOkKept
  <2>2. admitted # None /\ run[r].owner = admitted.session
    BY DEF RetryRun, IInv, AdmitInv, Owned
  <2>3. Effect({r})
    BY <1>6, <1>8, <1>11, <2>1 DEF Effect
  <2> QED
    BY <1>1, <1>6, <1>8, <2>2, <2>3 DEF EntersSlot
<1> QED
  BY <1>8, <1>10, <1>12, <1>13, <1>14 DEF IInv, AdmitInv

\* Requests hold the same rows as before.
LEMMA AdmitKept ==
    ASSUME IInv, UNCHANGED <<admitted, retries, deleted>>,
           \A r \in Run : /\ Exists(r)' = Exists(r)
                          /\ Exists(r) => run'[r].owner = run[r].owner
    PROVE  AdmitInv'
<1>1. admitted # None => admitted.run \in Run
  BY DEF IInv, TypeOK, Request
<1> QED
  BY <1>1 DEF AdmitInv, IInv, Owned

LEMMA DecideStep == ASSUME IInv, NEW r \in Run, Decide(r) PROVE IInv' /\ Effect({})
<1> DEFINE entries == All(Review, "completed")
           stage == Marked(run[r].stage, entries)
           row == [run[r] EXCEPT !.status = "COMPLETED", !.version = @ + 1, !.stage = stage]
<1>1. Status(r) = "AWAITING_REVIEW" /\ Exists(r) /\ TypeOK
  BY NoRow DEF Decide, RunStatus, IInv
<1>2. run[r] \in RunRow /\ run[r].stage \in [Place -> StageStatus]
  BY <1>1, RowTyped
<1>3. /\ stage \in [Place -> StageStatus]
      /\ stage[Publication] = run[r].stage[Publication]
  <2>1. Review \in SUBSET Place /\ "completed" \in StageStatus /\ Publication \in Place \ Review
    BY Places DEF StageStatus
  <2> QED
    BY <1>2, <2>1, MarkedTyped
<1>4. row \in RunRow /\ row.status = "COMPLETED" /\ row.stage = stage /\ row.owner = run[r].owner
  <2> HIDE DEF stage
  <2>1. run[r].version + 1 \in Nat /\ run[r].owner \in Session
    BY <1>2 DEF RunRow
  <2> QED
    BY <1>2, <1>3, <2>1 DEF RunRow, RunStatus
<1>5. run' = [run EXCEPT ![r] = row]
  BY DEF Decide
<1>6. UNCHANGED <<outbox, inbox, deleted, kafka, worker, admitted, budget>>
  BY DEF Decide
<1> HIDE DEF row, stage
<1>7. run \in [Run -> RunRow \cup {None}] /\ journal \in [Run -> JournalOf]
  BY <1>1 DEF TypeOK
<1>8. journal' \in [Run -> JournalOf]
  <2>1. Journaled(journal[r], entries) \in JournalOf
    BY <1>7, Places, JournaledTyped DEF StageStatus
  <2> QED
    BY <1>7, <2>1 DEF Decide
<1>9. run' \in [Run -> RunRow \cup {None}] /\ run'[r] = row /\ \A q \in Run \ {r} : run'[q] = run[q]
  BY <1>4, <1>5, <1>7
<1>10. TypeOK'
  BY <1>1, <1>6, <1>8, <1>9 DEF TypeOK, kafka, budget
<1>11. Exists(r)' /\ Status(r)' = "COMPLETED"
  BY <1>4, <1>9, NoneAssumption DEF Exists, Status
<1>12. \A q \in Run \ {r} : RunOk(q)' /\ Exists(q)' = Exists(q) /\ Status(q)' = Status(q)
  BY <1>6, <1>9, RunOkKept
<1>13. RunInv'
  <2>1. RunOk(r)
    BY DEF IInv, RunInv
  <2>2. RunOk(r)'
    BY <1>1, <1>3, <1>4, <1>6, <1>9, <1>11, <2>1 DEF RunOk
  <2> QED
    BY <1>12, <2>2 DEF RunInv
<1>14. WorkerInv'
  <2>1. ~Active(r) /\ UNCHANGED <<worker, topic, outbox, deleted>>
    BY <1>1, <1>6 DEF Active, kafka
  <2>2. \A q \in Run : Active(q) => Status(q)' = Status(q) /\ outbox'[q] = outbox[q]
    BY <1>12, <2>1
  <2>3. \A q \in Run : Exists(q)' = Exists(q)
    <3>1. Exists(r)' = Exists(r)
      BY <1>1, <1>11
    <3> QED
      BY <1>12, <3>1
  <2>4. \A q \in Run : Status(q) \notin {"WAITING", "FAILED"} => Status(q)' \notin {"WAITING", "FAILED"}
    BY <1>11, <1>12
  <2> QED
    BY <2>1, <2>2, <2>3, <2>4, VisitorKeepsWorker
<1>15. AdmitInv'
  <2>1. UNCHANGED <<admitted, retries, deleted>>
    BY <1>6 DEF budget
  <2>2. \A q \in Run : /\ Exists(q)' = Exists(q)
                       /\ Exists(q) => run'[q].owner = run[q].owner
    <3>1. Exists(r)' = Exists(r) /\ run'[r].owner = run[r].owner
      BY <1>1, <1>4, <1>9, <1>11
    <3> QED
      BY <1>9, <1>12, <3>1
  <2> QED
    BY <2>1, <2>2, AdmitKept
<1>16. Effect({})
  <2>1. NoNewSlot(r)
    BY <1>1, <1>4, <1>9, <1>11 DEF NoNewSlot, Counted, Active
  <2>2. \A q \in Run \ {r} : NoNewSlot(q)
    BY <1>6, <1>9, RunOkKept
  <2> QED
    BY <1>6, <1>11, <1>12, <2>1, <2>2 DEF Effect
<1> QED
  BY <1>10, <1>13, <1>14, <1>15, <1>16 DEF IInv

LEMMA CleanupStep ==
    ASSUME IInv, NEW idle \in SUBSET Run, NEW old \in SUBSET Run, Cleanup(idle, old)
    PROVE  IInv' /\ Effect({})
<1> DEFINE entries == All(Review, "blocked")
           stage(r) == Marked(run[r].stage, entries)
           expired(r) == [run[r] EXCEPT !.status = "EXPIRED", !.stage = stage(r)]
<1>1. TypeOK
  BY DEF IInv
<1>2. ASSUME NEW r \in idle
      PROVE  /\ Exists(r) /\ Status(r) = "AWAITING_REVIEW"
             /\ expired(r) \in RunRow /\ expired(r).status = "EXPIRED"
             /\ expired(r).stage[Publication] = run[r].stage[Publication]
             /\ expired(r).owner = run[r].owner
             /\ Journaled(journal[r], entries) \in JournalOf
  <2>1. Exists(r) /\ Status(r) = "AWAITING_REVIEW"
    BY <1>2, NoRow DEF Cleanup, RunStatus
  <2>2. run[r] \in RunRow /\ run[r].stage \in [Place -> StageStatus]
    BY <1>1, <2>1, RowTyped
  <2>3. Review \in SUBSET Place /\ "blocked" \in StageStatus /\ Publication \in Place \ Review
    BY Places DEF StageStatus
  <2>4. /\ stage(r) \in [Place -> StageStatus]
        /\ stage(r)[Publication] = run[r].stage[Publication]
    <3> DEFINE old_ == run[r].stage
               new == Marked(old_, All(Review, "blocked"))
    <3>1. old_ \in [Place -> StageStatus]
      BY <2>2
    <3> HIDE DEF old_
    <3>2. new \in [Place -> StageStatus] /\ new[Publication] = old_[Publication]
      BY <2>3, <3>1, MarkedTyped
    <3> QED
      BY <3>2 DEF old_
  <2>5. Journaled(journal[r], entries) \in JournalOf
    BY <1>1, <2>3, JournaledTyped DEF TypeOK
  <2> HIDE DEF stage
  <2>6. expired(r) \in RunRow /\ expired(r).status = "EXPIRED" /\ expired(r).stage = stage(r)
        /\ expired(r).owner = run[r].owner
    BY <2>2, <2>4 DEF RunRow, RunStatus
  <2> QED
    BY <2>1, <2>4, <2>5, <2>6
<1>3. \A r \in old : Status(r) \in {"COMPLETED", "FAILED", "EXPIRED"}
  BY DEF Cleanup
<1>4. /\ run' = [r \in Run |-> IF r \in old THEN None
                               ELSE IF r \in idle THEN expired(r) ELSE run[r]]
      /\ outbox' = [r \in Run |-> IF r \in old THEN Unsent ELSE outbox[r]]
      /\ inbox' = inbox \ old /\ deleted' = deleted \cup old
      /\ journal' = [r \in Run |-> IF r \in old THEN NoEntries
                                   ELSE IF r \in idle THEN Journaled(journal[r], entries)
                                   ELSE journal[r]]
      /\ UNCHANGED <<kafka, worker, admitted, budget>> /\ admitted = None
  BY DEF Cleanup
<1> HIDE DEF stage, expired, entries
<1>5. TypeOK'
  <2>1. run' \in [Run -> RunRow \cup {None}] /\ outbox' \in [Run -> OutboxRow]
    BY <1>1, <1>2, <1>4, NewTyped DEF TypeOK
  <2>2. journal' \in [Run -> JournalOf]
    BY <1>1, <1>2, <1>4, NewTyped DEF TypeOK
  <2> QED
    BY <1>1, <1>4, <2>1, <2>2 DEF TypeOK, kafka, budget
<1>6. ASSUME NEW r \in old
      PROVE  ~Exists(r)' /\ r \in deleted' /\ r \notin inbox'
  BY <1>4 DEF Exists
<1>7. ASSUME NEW r \in idle \ old
      PROVE  /\ Exists(r)' /\ Status(r)' = "EXPIRED"
             /\ run'[r].stage[Publication] = run[r].stage[Publication]
             /\ run'[r].owner = run[r].owner
             /\ outbox'[r] = outbox[r] /\ (r \in inbox' <=> r \in inbox)
  <2>1. run'[r] = expired(r) /\ outbox'[r] = outbox[r] /\ (r \in inbox' <=> r \in inbox)
    BY <1>4
  <2> QED
    BY <1>2, <2>1, NoneAssumption DEF Exists, Status
<1>8. ASSUME NEW r \in Run \ (idle \cup old)
      PROVE  /\ run'[r] = run[r] /\ outbox'[r] = outbox[r] /\ (r \in inbox' <=> r \in inbox)
             /\ RunOk(r)' /\ NoNewSlot(r)
             /\ Exists(r)' = Exists(r) /\ Status(r)' = Status(r)
  <2>1. run'[r] = run[r] /\ outbox'[r] = outbox[r] /\ (r \in inbox' <=> r \in inbox)
    BY <1>4
  <2> QED
    BY <2>1, RunOkKept
<1>9. RunInv'
  <2>1. ASSUME NEW r \in old PROVE RunOk(r)'
    BY <1>6 DEF RunOk
  <2>2. ASSUME NEW r \in idle \ old PROVE RunOk(r)'
    <3>1. RunOk(r)
      BY DEF IInv, RunInv
    <3> QED
      BY <1>2, <1>7, <3>1 DEF RunOk
  <2> QED
    BY <1>8, <2>1, <2>2 DEF RunInv
<1>10. WorkerInv'
  <2>1. UNCHANGED <<worker, topic>>
    BY <1>4 DEF kafka
  <2>2. \A r \in Run : Active(r) => r \notin idle \cup old
    BY <1>2, <1>3 DEF Active
  <2>3. \A r \in Run : Active(r) => Status(r)' = Status(r) /\ outbox'[r] = outbox[r]
    BY <1>8, <2>2
  <2>4. \A r \in Run : Exists(r) /\ ~Exists(r)' => r \in deleted'
    BY <1>6, <1>7, <1>8
  <2>5. \A r \in Run : Status(r) \notin {"WAITING", "FAILED"} /\ Exists(r)' =>
          Status(r)' \notin {"WAITING", "FAILED"}
    BY <1>6, <1>7, <1>8
  <2>6. \A r \in Run : ~Exists(r) /\ r \in deleted => ~Exists(r)' /\ r \in deleted'
    <3>1. deleted \subseteq deleted'
      BY <1>4
    <3> QED
      BY <1>2, <1>6, <1>8, <3>1
  <2> QED
    BY <2>1, <2>3, <2>4, <2>5, <2>6, VisitorKeepsWorker
<1>11. Effect({})
  <2>1. ASSUME NEW r \in old PROVE NoNewSlot(r)
    <3>1. ~Exists(r)' /\ Status(r)' = None
      BY <1>6 DEF Status
    <3> QED
      BY <3>1, NoneAssumption DEF NoNewSlot, Counted, Active, RunStatus
  <2>2. ASSUME NEW r \in idle \ old PROVE NoNewSlot(r)
    BY <1>2, <1>7 DEF NoNewSlot, Counted, Active
  <2>3. \A r \in Run : NoNewSlot(r)
    BY <1>8, <2>1, <2>2
  <2> QED
    BY <1>4, <1>6, <1>7, <1>8, <2>3 DEF Effect
<1> QED
  BY <1>4, <1>5, <1>9, <1>10, <1>11 DEF IInv, AdmitInv

(***************************************************************************)
(* Transactions of the worker                                              *)
(***************************************************************************)

\* A transaction of the worker writes one row.
LEMMA WriteStep ==
    ASSUME IInv, NEW r \in Run, Exists(r), NEW status \in RunStatus,
           NEW stage \in [Place -> StageStatus], NEW ps \in SUBSET Place,
           NEW mark \in StageStatus, Write(r, status, stage, All(ps, mark)),
           outbox' \in [Run -> OutboxRow], \A q \in Run \ {r} : outbox'[q] = outbox[q],
           inbox' = inbox \/ inbox' = inbox \cup {r},
           UNCHANGED <<deleted, kafka, admitted, budget>>, worker' \in Worker
    PROVE  /\ TypeOK' /\ AdmitInv'
           /\ Exists(r)' /\ Status(r)' = status /\ run'[r].stage = stage
           /\ \A q \in Run \ {r} : RunOk(q)' /\ Exists(q)' = Exists(q) /\ Status(q)' = Status(q)
           /\ \A q \in Run : Exists(q)' = Exists(q)
           /\ RunOk(r)' => RunInv'
           /\ ("begin" \notin Blips => (Counted(r)' => Counted(r))) => Effect({})
<1>1. TypeOK
  BY DEF IInv
<1>2. /\ run' \in [Run -> RunRow \cup {None}]
      /\ journal' \in [Run -> JournalOf]
      /\ Exists(r)' /\ Status(r)' = status /\ run'[r].stage = stage
      /\ run'[r].owner = run[r].owner
      /\ \A q \in Run \ {r} : run'[q] = run[q]
  BY <1>1, Written
<1>3. TypeOK'
  BY <1>1, <1>2 DEF TypeOK, kafka, budget
<1>4. \A q \in Run \ {r} : RunOk(q)' /\ Exists(q)' = Exists(q) /\ Status(q)' = Status(q)
  <2>1. \A q \in Run \ {r} : q \in inbox' <=> q \in inbox
    OBVIOUS
  <2> QED
    BY <1>2, <2>1, RunOkKept
<1>5. \A q \in Run : Exists(q)' = Exists(q)
  <2>1. Exists(r)' = Exists(r)
    BY <1>2 DEF Exists
  <2> QED
    BY <1>4, <2>1
<1>6. AdmitInv'
  <2>1. \A q \in Run : Exists(q)' = Exists(q) /\ run'[q].owner = run[q].owner
    BY <1>2, <1>5
  <2>2. UNCHANGED <<admitted, retries, deleted>>
    BY DEF budget
  <2> QED
    BY <2>1, <2>2, AdmitKept
<1>7. ASSUME "begin" \notin Blips => (Counted(r)' => Counted(r))
      PROVE  Effect({})
  <2>1. NoNewSlot(r)
    BY <1>2, <1>7 DEF NoNewSlot
  <2>2. \A q \in Run \ {r} : NoNewSlot(q)
    <3>1. \A q \in Run \ {r} : q \in inbox' <=> q \in inbox
      OBVIOUS
    <3> QED
      BY <1>2, <3>1, RunOkKept
  <2> QED
    BY <1>5, <2>1, <2>2 DEF Effect
<1> QED
  BY <1>2, <1>3, <1>4, <1>5, <1>6, <1>7 DEF RunInv

LEMMA PublishingStep == ASSUME IInv, NEW r \in Run, Publishing(r) PROVE IInv' /\ Effect({})
<1> DEFINE ps == {Publication}
           stage == Marked(run[r].stage, All(ps, "processing"))
<1>1. /\ worker.pc = "publish" /\ r \in worker.todo
      /\ Write(r, run[r].status, stage, All(ps, "processing"))
      /\ outbox' = [outbox EXCEPT ![r].attempts = @ + 1]
      /\ worker' = [worker EXCEPT !.pc = "send", !.todo = @ \ {r}, !.cur = r, !.at = Publication]
      /\ UNCHANGED <<inbox, deleted, kafka, admitted, budget>>
  BY DEF Publishing
<1>2. /\ \A q \in worker.todo : Publishable(q)
      /\ Status(r) = "WAITING" /\ outbox[r].attempts < MaxAttempts
  BY <1>1 DEF IInv, WorkerInv, TodoInv, Publishable
<1>3. TypeOK /\ Exists(r) /\ run[r].status = "WAITING" /\ run[r].stage \in [Place -> StageStatus]
  <2>1. TypeOK /\ Exists(r)
    BY <1>2, NoRow DEF IInv, RunStatus
  <2> QED
    BY <1>2, <2>1, RowTyped
<1>4. ps \in SUBSET Place /\ "processing" \in StageStatus /\ "WAITING" \in RunStatus
  BY Places DEF StageStatus, RunStatus
<1>5. /\ stage \in [Place -> StageStatus] /\ stage[Publication] = "processing"
      /\ stage[Agent] = run[r].stage[Agent]
  <2>1. Agent \in Place /\ Publication \in Place /\ Agent \notin ps /\ Publication \in ps
    BY Places
  <2> HIDE DEF ps
  <2> QED
    BY <1>3, <1>4, <2>1, MarkedTyped
<1>6. /\ outbox' \in [Run -> OutboxRow]
      /\ outbox'[r].attempts > 0 /\ outbox'[r].published = outbox[r].published
      /\ \A q \in Run \ {r} : outbox'[q] = outbox[q]
  <2>1. outbox \in [Run -> OutboxRow] /\ outbox[r] \in OutboxRow
    BY <1>3 DEF TypeOK
  <2>2. outbox[r].attempts \in Nat /\ outbox[r].attempts + 1 \in 0..MaxAttempts
    BY <1>2, <2>1, DemoAssumption DEF OutboxRow
  <2>3. outbox' = [outbox EXCEPT ![r] = [@ EXCEPT !.attempts = outbox[r].attempts + 1]]
    BY <1>1
  <2>4. /\ [outbox[r] EXCEPT !.attempts = outbox[r].attempts + 1] \in OutboxRow
        /\ outbox'[r] = [outbox[r] EXCEPT !.attempts = outbox[r].attempts + 1]
    BY <2>1, <2>2, <2>3 DEF OutboxRow
  <2>5. outbox'[r].attempts = outbox[r].attempts + 1 /\ outbox'[r].published = outbox[r].published
    BY <2>1, <2>4 DEF OutboxRow
  <2> QED
    BY <2>1, <2>2, <2>3, <2>4, <2>5
<1>7. /\ worker' \in Worker /\ worker'.pc = "send" /\ worker'.todo = worker.todo \ {r}
      /\ worker'.cur = r /\ worker'.at = Publication /\ worker'.next = worker.next
  BY <1>1, <1>3, WorkerTyped, Places DEF Worker, Pc
<1> HIDE DEF stage, ps
<1>8. /\ TypeOK' /\ AdmitInv' /\ Exists(r)' /\ Status(r)' = "WAITING" /\ run'[r].stage = stage
      /\ \A q \in Run \ {r} : Status(q)' = Status(q)
      /\ RunOk(r)' => RunInv'
      /\ ("begin" \notin Blips => (Counted(r)' => Counted(r))) => Effect({})
  <2>1. Write(r, "WAITING", stage, All(ps, "processing"))
    BY <1>1, <1>3
  <2>2. UNCHANGED <<deleted, kafka, admitted, budget>> /\ inbox' = inbox
    BY <1>1
  <2> QED
    BY <1>3, <1>4, <1>5, <1>6, <1>7, <2>1, <2>2, WriteStep
<1>9. RunInv'
  <2>1. RunOk(r)
    BY DEF IInv, RunInv
  <2>2. RunOk(r)'
    BY <1>1, <1>2, <1>3, <1>5, <1>6, <1>8, <2>1 DEF RunOk
  <2> QED
    BY <1>8, <2>2
<1>10. TodoInv'
  <2>1. \A q \in worker.todo \ {r} : Publishable(q)'
    BY <1>2, <1>3, <1>6, <1>8, WorkerTyped DEF Publishable
  <2> QED
    BY <1>7, <2>1 DEF TodoInv, Processes
<1>11. CurInv'
  BY <1>6, <1>7, <1>8 DEF CurInv, Publishes, Processes
<1>12. PollInv'
  BY <1>1, <1>7 DEF PollInv, IInv, WorkerInv, kafka
<1>13. Effect({})
  <2>1. Counted(r)
    BY <1>2 DEF Counted, Active
  <2> QED
    BY <1>8, <2>1
<1> QED
  BY <1>8, <1>9, <1>10, <1>11, <1>12, <1>13 DEF IInv, WorkerInv

\* A publication is recorded, and its answer may be lost.
LEMMA RecordStep ==
    ASSUME IInv, worker.pc = "sent", RecordPublication(worker.cur),
           UNCHANGED <<inbox, deleted, kafka, admitted, budget>>,
           worker' \in Worker, worker'.todo = worker.todo, worker'.next = worker.next,
           \/ worker'.pc = "publish"
           \/ worker'.pc = "failed" /\ worker'.cur = worker.cur /\ worker'.at = worker.at
    PROVE  IInv' /\ Effect({})
<1> SUFFICES ASSUME NEW r, r = worker.cur
             PROVE  IInv' /\ Effect({})
  OBVIOUS
<1> DEFINE ps == {Publication}
           stage == Marked(run[r].stage, All(ps, "completed"))
<1>1. /\ Write(r, run[r].status, stage, All(ps, "completed"))
      /\ outbox' = [outbox EXCEPT ![r].published = TRUE]
  BY DEF RecordPublication
<1>2. /\ r \in Run \ worker.todo /\ Status(r) = "WAITING" /\ worker.at = Publication
      /\ "begin" \notin Blips => outbox[r].attempts > 0
      /\ \A q \in worker.todo : Publishable(q)
  BY DEF IInv, WorkerInv, CurInv, TodoInv, Publishes
<1>3. TypeOK /\ Exists(r) /\ run[r].status = "WAITING" /\ run[r].stage \in [Place -> StageStatus]
  <2>1. TypeOK /\ Exists(r)
    BY <1>2, NoRow DEF IInv, RunStatus
  <2> QED
    BY <1>2, <2>1, RowTyped
<1>4. ps \in SUBSET Place /\ "completed" \in StageStatus /\ "WAITING" \in RunStatus
  BY Places DEF StageStatus, RunStatus
<1>5. /\ stage \in [Place -> StageStatus]
      /\ stage[Agent] = run[r].stage[Agent]
  <2>1. Agent \in Place /\ Agent \notin ps
    BY Places
  <2> HIDE DEF ps
  <2> QED
    BY <1>3, <1>4, <2>1, MarkedTyped
<1>6. /\ outbox' \in [Run -> OutboxRow]
      /\ outbox'[r].attempts = outbox[r].attempts /\ outbox'[r].published = TRUE
      /\ \A q \in Run \ {r} : outbox'[q] = outbox[q]
  <2>1. outbox \in [Run -> OutboxRow] /\ outbox[r] \in OutboxRow
    BY <1>2, <1>3 DEF TypeOK
  <2>2. outbox' = [outbox EXCEPT ![r] = [@ EXCEPT !.published = TRUE]]
    BY <1>1
  <2>3. /\ [outbox[r] EXCEPT !.published = TRUE] \in OutboxRow
        /\ outbox'[r] = [outbox[r] EXCEPT !.published = TRUE]
    BY <1>2, <2>1, <2>2 DEF OutboxRow
  <2>4. outbox'[r].attempts = outbox[r].attempts /\ outbox'[r].published = TRUE
    BY <2>1, <2>3 DEF OutboxRow
  <2> QED
    BY <1>2, <2>1, <2>2, <2>3, <2>4
<1> HIDE DEF stage, ps
<1>7. /\ TypeOK' /\ AdmitInv' /\ Exists(r)' /\ Status(r)' = "WAITING" /\ run'[r].stage = stage
      /\ \A q \in Run \ {r} : Status(q)' = Status(q)
      /\ RunOk(r)' => RunInv'
      /\ ("begin" \notin Blips => (Counted(r)' => Counted(r))) => Effect({})
  <2>1. Write(r, "WAITING", stage, All(ps, "completed"))
    BY <1>1, <1>3
  <2> QED
    BY <1>2, <1>3, <1>4, <1>5, <1>6, <2>1, WriteStep
<1>8. RunInv'
  <2>1. RunOk(r)
    BY <1>2 DEF IInv, RunInv
  <2>2. RunOk(r)'
    BY <1>2, <1>3, <1>5, <1>6, <1>7, <2>1 DEF RunOk
  <2> QED
    BY <1>7, <2>2
<1>9. TodoInv'
  <2>1. \A q \in worker.todo : Publishable(q)'
    BY <1>2, <1>3, <1>6, <1>7, WorkerTyped DEF Publishable
  <2> QED
    BY <1>2, <2>1 DEF TodoInv, Processes
<1>10. CurInv'
  BY <1>2, <1>6, <1>7 DEF CurInv, Publishes, Processes
<1>11. PollInv'
  BY DEF PollInv, IInv, WorkerInv, kafka
<1>12. Effect({})
  <2>1. Counted(r)
    BY <1>2 DEF Counted, Active
  <2> QED
    BY <1>7, <2>1
<1> QED
  BY <1>7, <1>8, <1>9, <1>10, <1>11, <1>12 DEF IInv, WorkerInv

LEMMA PublishedSteps == ASSUME IInv, Published \/ PublishedInDoubt PROVE IInv' /\ Effect({})
<1>1. CASE Published
  <2>1. /\ worker' \in Worker /\ worker'.pc = "publish" /\ worker'.todo = worker.todo
        /\ worker'.next = worker.next
    BY <1>1, GotoTyped DEF Published, IInv, Pc
  <2> QED
    BY <1>1, <2>1, RecordStep DEF Published
<1>2. CASE PublishedInDoubt
  <2>1. /\ worker' \in Worker /\ worker'.pc = "failed" /\ worker'.todo = worker.todo
        /\ worker'.cur = worker.cur /\ worker'.at = worker.at /\ worker'.next = worker.next
    BY <1>2, WorkerTyped DEF PublishedInDoubt, IInv, Worker, Pc
  <2>2. CASE RecordPublication(worker.cur)
    BY <1>2, <2>1, <2>2, RecordStep DEF PublishedInDoubt
  <2>3. CASE UNCHANGED <<run, journal, outbox>>
    <3>1. UNCHANGED <<tables, topic, flying, offset, admitted, retries, crashes>>
      BY <1>2, <2>3 DEF PublishedInDoubt, tables, kafka, budget
    <3>2. worker.pc = "sent" /\ \A q : Publishable(q)' = Publishable(q) /\ Status(q)' = Status(q)
      BY <1>2, <3>1, TablesKept DEF PublishedInDoubt, Publishable, tables
    <3>3. worker.at = Publication /\ worker.cur \in Run \ worker.todo
          /\ Status(worker.cur) = "WAITING"
          /\ ("begin" \notin Blips => outbox[worker.cur].attempts > 0)
          /\ \A q \in worker.todo : Publishable(q)
      BY <3>2 DEF IInv, WorkerInv, CurInv, TodoInv, Publishes
    <3>4. TodoInv'
      BY <2>1, <3>2, <3>3 DEF TodoInv, Processes
    <3>5. CurInv'
      BY <2>1, <2>3, <3>2, <3>3 DEF CurInv, Processes
    <3>6. PollInv'
      BY <2>1, <3>1 DEF PollInv, IInv, WorkerInv
    <3> QED
      BY <2>1, <3>1, <3>4, <3>5, <3>6, MemoryStep DEF IInv, WorkerInv, TypeOK
  <2> QED
    BY <1>2, <2>2, <2>3 DEF PublishedInDoubt
<1> QED
  BY <1>1, <1>2

LEMMA FailStep == ASSUME IInv, Fail PROVE IInv' /\ Effect({})
<1> SUFFICES ASSUME NEW r, r = worker.cur, NEW at, at = worker.at
             PROVE  IInv' /\ Effect({})
  OBVIOUS
<1>1. /\ worker.pc = "failed" /\ r \in Run \ worker.todo /\ at \in Place /\ TypeOK
      /\ at = Publication => \A q \in worker.todo : Publishable(q)
      /\ at # Publication => \A q \in worker.todo : Processable(q)
      /\ at = Publication => Status(r) = "WAITING"
      /\ at # Publication => at \in Work /\ (at # Agent => Processable(r))
      /\ at = Publication /\ "begin" \notin Blips => outbox[r].attempts > 0
      /\ at # Publication /\ Exists(r) => Status(r) \notin {"WAITING", "FAILED"}
      /\ UNCHANGED <<outbox, inbox, deleted, kafka, admitted, budget>>
  BY WorkerTyped DEF Fail, IInv, WorkerInv, CurInv, TodoInv, Publishes, Processes
<1>2. ASSUME ~Exists(r)
      PROVE  IInv' /\ Effect({})
  <2>1. UNCHANGED <<tables, topic, flying, offset, admitted, retries, crashes>> /\ Goto("connect")
    BY <1>1, <1>2 DEF Fail, tables, kafka, budget
  <2>2. worker' \in Worker /\ worker'.pc = "connect" /\ worker'.next = worker.next
    BY <1>1, <2>1, GotoTyped DEF Pc
  <2>3. WorkerInv'
    BY <2>1, <2>2 DEF TodoInv, CurInv, PollInv, Publishes, Processes, IInv, WorkerInv
  <2> QED
    BY <2>1, <2>2, <2>3, MemoryStep DEF IInv, TypeOK
<1>3. ASSUME Exists(r)
      PROVE  IInv' /\ Effect({})
  <2> DEFINE stage == FailedStages(run[r].stage, at)
             ps == {at}
  <2>1. /\ Write(r, "FAILED", stage, All(ps, "failed"))
        /\ Goto(IF at = Publication THEN "publish" ELSE "process")
    BY <1>3 DEF Fail
  <2>2. /\ worker' \in Worker /\ worker'.todo = worker.todo /\ worker'.next = worker.next
        /\ worker'.pc = IF at = Publication THEN "publish" ELSE "process"
    BY <1>1, <2>1, GotoTyped DEF Pc
  <2>3. run[r].stage \in [Place -> StageStatus] /\ outbox \in [Run -> OutboxRow]
    BY <1>1, <1>3, RowTyped DEF TypeOK
  <2>4. /\ stage \in [Place -> StageStatus]
        /\ stage[Publication] = "completed" => run[r].stage[Publication] = "completed"
    BY <1>1, <2>3, DocumentTyped, Places DEF FailedStages
  <2>5. stage[Agent] \notin Done
    <3>1. Agent \in Place /\ "failed" \notin Done /\ "blocked" \notin Done
      BY Places DEF Done
    <3>2. at # Agent => run[r].stage[Agent] \notin Done
      BY <1>1, <1>3, Places DEF IInv, RunInv, RunOk, Processable
    <3> QED
      BY <3>1, <3>2 DEF FailedStages
  <2>6. ps \in SUBSET Place /\ "failed" \in StageStatus /\ "FAILED" \in RunStatus
    BY <1>1 DEF StageStatus, RunStatus
  <2> HIDE DEF stage, ps
  <2>7. /\ TypeOK' /\ AdmitInv' /\ Exists(r)' /\ Status(r)' = "FAILED" /\ run'[r].stage = stage
        /\ \A q \in Run \ {r} : Status(q)' = Status(q)
        /\ RunOk(r)' => RunInv'
        /\ ("begin" \notin Blips => (Counted(r)' => Counted(r))) => Effect({})
    BY <1>1, <1>3, <2>1, <2>2, <2>3, <2>4, <2>6, WriteStep
  <2>8. RunInv'
    <3>1. RunOk(r)
      BY <1>1 DEF IInv, RunInv
    <3>2. "begin" \notin Blips /\ r \notin inbox => outbox[r].attempts > 0
      BY <1>1, <1>3, <3>1 DEF RunOk
    <3>3. RunOk(r)'
      BY <1>1, <1>3, <2>4, <2>5, <2>7, <3>1, <3>2 DEF RunOk
    <3> QED
      BY <2>7, <3>3
  <2>9. TodoInv'
    <3>1. \A q \in worker.todo : Publishable(q)' = Publishable(q) /\ Processable(q)' = Processable(q)
      BY <1>1, <2>7, WorkerTyped DEF Publishable, Processable
    <3> QED
      BY <1>1, <2>2, <3>1 DEF TodoInv, Publishes, Processes
  <2>10. CurInv' /\ PollInv'
    BY <1>1, <2>2 DEF CurInv, Publishes, Processes, PollInv, IInv, WorkerInv, kafka
  <2>11. Effect({})
    <3>1. ASSUME Counted(r)'
          PROVE  Counted(r)
      <4>1. r \notin inbox
        BY <1>1, <2>7, <3>1 DEF Counted, Active
      <4>2. Status(r) \in {"WAITING", "FAILED"}
        BY <1>1, <1>3, <4>1 DEF IInv, RunInv, RunOk
      <4>3. Status(r) = "WAITING"
        BY <1>1, <1>3, <4>2
      <4> QED
        BY <4>3 DEF Counted, Active
    <3> QED
      BY <2>7, <3>1
  <2> QED
    BY <2>7, <2>8, <2>9, <2>10, <2>11 DEF IInv, WorkerInv
<1> QED
  BY <1>2, <1>3

LEMMA ReceiveStep == ASSUME IInv, Receive PROVE IInv' /\ Effect({})
<1> SUFFICES ASSUME NEW r, r = Polled
             PROVE  IInv' /\ Effect({})
  OBVIOUS
<1> DEFINE known == r \in inbox
           proved == run[r].stage[Publication] # "completed"
           ps == (IF proved THEN {Publication} ELSE {}) \cup (IF known THEN {} ELSE {Ingestion})
           before == IF proved THEN UnblockedStages(run[r].stage) ELSE run[r].stage
           stage == Marked(before, All(ps, "completed"))
           status == IF known THEN run[r].status ELSE "PROCESSING"
<1>1. /\ worker.pc = "ingest" /\ worker.next < worker.upto /\ Exists(r)
      /\ Write(r, status, stage, All(ps, "completed"))
      /\ outbox' = IF proved THEN [outbox EXCEPT ![r].published = TRUE] ELSE outbox
      /\ inbox' = inbox \cup {r}
      /\ worker' = [worker EXCEPT !.next = @ + 1]
      /\ UNCHANGED <<deleted, kafka, admitted, budget>>
  BY DEF Receive, Ingest
<1>2. TypeOK /\ worker.next \in Nat /\ worker.upto \in Nat /\ Len(topic) \in Nat
      /\ worker.upto <= Len(topic)
  BY <1>1, WorkerTyped DEF IInv, WorkerInv, PollInv, TypeOK
<1>3. r \in Run
  BY <1>1, <1>2 DEF TypeOK, Polled
<1>4. run[r].stage \in [Place -> StageStatus] /\ run[r].status = Status(r) /\ Status(r) \in RunStatus
  BY <1>1, <1>2, <1>3, RowTyped
<1>5. RunOk(r)
  BY <1>3 DEF IInv, RunInv
<1>6. ps \in SUBSET Place /\ "completed" \in StageStatus /\ status \in RunStatus
  BY <1>4, Places DEF StageStatus, RunStatus
<1>7. before \in [Place -> StageStatus] /\ (run[r].stage[Agent] \notin Done => before[Agent] \notin Done)
  <2>1. Agent \in Place /\ "waiting" \notin Done
    BY Places DEF Done
  <2> QED
    BY <1>4, <2>1, DocumentTyped, Places DEF UnblockedStages
<1>8. stage \in [Place -> StageStatus] /\ stage[Agent] = before[Agent]
  <2>1. Agent \in Place \ ps
    BY Places
  <2> HIDE DEF ps, before
  <2> QED
    BY <1>6, <1>7, <2>1, MarkedTyped, MarkedKeeps
<1>9. /\ outbox' \in [Run -> OutboxRow] /\ outbox'[r].published
      /\ \A q \in Run \ {r} : outbox'[q] = outbox[q]
  <2>1. outbox \in [Run -> OutboxRow] /\ outbox[r] \in OutboxRow
    BY <1>2, <1>3 DEF TypeOK
  <2>2. CASE proved
    <3>1. outbox' = [outbox EXCEPT ![r] = [@ EXCEPT !.published = TRUE]]
      BY <1>1, <2>2
    <3>2. /\ [outbox[r] EXCEPT !.published = TRUE] \in OutboxRow
          /\ [outbox[r] EXCEPT !.published = TRUE].published = TRUE
      BY <2>1 DEF OutboxRow
    <3> QED
      BY <1>3, <2>1, <3>1, <3>2
  <2>3. CASE ~proved
    BY <1>1, <1>5, <2>1, <2>3 DEF RunOk
  <2> QED
    BY <2>2, <2>3
<1>10. /\ worker' \in Worker /\ worker'.pc = "ingest" /\ worker'.next = worker.next + 1
       /\ worker'.upto = worker.upto
  <2>1. worker' = [worker EXCEPT !.next = worker.next + 1] /\ worker.next + 1 \in Nat
    BY <1>1, <1>2
  <2> QED
    BY <1>1, <1>2, <2>1, WorkerTyped DEF Worker
<1>11. /\ known => status = Status(r)
       /\ ~known => status = "PROCESSING" /\ Status(r) \in {"WAITING", "FAILED"}
  BY <1>1, <1>4, <1>5 DEF RunOk
<1>12. status \in {"WAITING", "PROCESSING", "FAILED"} => run[r].stage[Agent] \notin Done
  BY <1>1, <1>4, <1>5 DEF RunOk, RunStatus
<1> HIDE DEF stage, ps, status, before
<1>13. /\ TypeOK' /\ AdmitInv' /\ Exists(r)' /\ Status(r)' = status /\ run'[r].stage = stage
       /\ RunOk(r)' => RunInv'
       /\ ("begin" \notin Blips => (Counted(r)' => Counted(r))) => Effect({})
  BY <1>1, <1>2, <1>3, <1>6, <1>8, <1>9, <1>10, WriteStep
<1>14. RunInv'
  BY <1>1, <1>7, <1>8, <1>9, <1>12, <1>13 DEF RunOk
<1>15. WorkerInv'
  <2>1. PollInv'
    BY <1>1, <1>2, <1>10 DEF PollInv, kafka
  <2> QED
    BY <1>10, <2>1 DEF WorkerInv, TodoInv, CurInv, Publishes, Processes
<1>16. Effect({})
  <2>1. ASSUME "begin" \notin Blips, Counted(r)'
        PROVE  Counted(r)
    <3>1. known => Status(r)' = Status(r)
      BY <1>13, <1>11
    <3>2. r \in inbox' /\ Active(r)'
      BY <1>1, <2>1 DEF Counted
    <3>3. known => Active(r)
      BY <3>1, <3>2 DEF Active
    <3>4. ~known => Active(r) \/ (Status(r) = "FAILED" /\ outbox[r].attempts > 0)
      BY <1>1, <1>5, <1>11, <2>1 DEF RunOk, Active
    <3> QED
      BY <3>3, <3>4 DEF Counted
  <2> QED
    BY <1>13, <2>1
<1> QED
  BY <1>13, <1>14, <1>15, <1>16 DEF IInv

LEMMA StartStageStep == ASSUME IInv, StartStage PROVE IInv' /\ Effect({})
<1> SUFFICES ASSUME NEW r, r = worker.cur, NEW p, p = FirstUndone(run[r].stage)
             PROVE  IInv' /\ Effect({})
  OBVIOUS
<1> DEFINE ps == {p}
           stage == Marked(run[r].stage, All(ps, "processing"))
<1>1. /\ worker.pc = "stage"
      /\ Write(r, run[r].status, stage, All(ps, "processing"))
      /\ worker' = [worker EXCEPT !.pc = "operate", !.at = p]
      /\ UNCHANGED <<outbox, inbox, deleted, kafka, admitted, budget>>
  BY DEF StartStage
<1>2. /\ TypeOK /\ r \in Run \ worker.todo /\ Status(r) = "PROCESSING"
      /\ \A q \in worker.todo : Processable(q)
  BY <1>1 DEF IInv, WorkerInv, CurInv, TodoInv, Processes, Processable
<1>3. /\ Exists(r) /\ run[r].status = "PROCESSING" /\ run[r].stage \in [Place -> StageStatus]
      /\ outbox \in [Run -> OutboxRow]
  <2>1. Exists(r)
    BY <1>2, NoRow DEF RunStatus
  <2> QED
    BY <1>2, <2>1, RowTyped DEF TypeOK
<1>4. RunOk(r) /\ run[r].stage[Agent] \notin Done
  BY <1>2, <1>3 DEF IInv, RunInv, RunOk
<1>5. p \in Work /\ ps \in SUBSET Place /\ Publication \notin ps
  BY <1>4, FirstUndoneFound, Places
<1>6. "processing" \in StageStatus /\ "processing" \notin Done /\ "PROCESSING" \in RunStatus
  BY DEF StageStatus, RunStatus, Done
<1>7. /\ stage \in [Place -> StageStatus] /\ stage[Agent] \notin Done
      /\ stage[Publication] = run[r].stage[Publication]
  <2>1. Agent \in Place /\ Publication \in Place
    BY Places
  <2> HIDE DEF ps
  <2> QED
    BY <1>3, <1>4, <1>5, <1>6, <2>1, MarkedTyped
<1>8. /\ worker' \in Worker /\ worker'.pc = "operate" /\ worker'.at = p
      /\ worker'.cur = r /\ worker'.todo = worker.todo /\ worker'.next = worker.next
  BY <1>1, <1>2, <1>5, WorkerTyped, Places DEF Worker, Pc
<1> HIDE DEF stage, ps
<1>9. /\ TypeOK' /\ AdmitInv' /\ Exists(r)' /\ Status(r)' = "PROCESSING" /\ run'[r].stage = stage
      /\ \A q \in Run \ {r} : Status(q)' = Status(q)
      /\ RunOk(r)' => RunInv'
      /\ ("begin" \notin Blips => (Counted(r)' => Counted(r))) => Effect({})
  <2>1. Write(r, "PROCESSING", stage, All(ps, "processing"))
    BY <1>1, <1>3
  <2>2. UNCHANGED <<outbox, inbox, deleted, kafka, admitted, budget>> /\ worker' \in Worker
    BY <1>1, <1>8
  <2>3. stage \in [Place -> StageStatus] /\ ps \in SUBSET Place /\ r \in Run
    BY <1>2, <1>5, <1>7
  <2> QED
    BY <1>3, <1>6, <2>1, <2>2, <2>3, WriteStep
<1>10. RunInv'
  BY <1>1, <1>2, <1>3, <1>4, <1>7, <1>9 DEF RunOk
<1>11. TodoInv'
  <2>1. \A q \in worker.todo : Processable(q)'
    BY <1>2, <1>9, WorkerTyped DEF Processable
  <2> QED
    BY <1>8, <2>1 DEF TodoInv, Publishes
<1>12. CurInv' /\ PollInv'
  BY <1>1, <1>2, <1>5, <1>8, <1>9
     DEF CurInv, Publishes, Processes, Processable, PollInv, IInv, WorkerInv, kafka
<1>13. Effect({})
  <2>1. Counted(r)
    BY <1>2 DEF Counted, Active
  <2> QED
    BY <1>9, <2>1
<1> QED
  BY <1>9, <1>10, <1>11, <1>12, <1>13 DEF IInv, WorkerInv

LEMMA FinishStageStep == ASSUME IInv, FinishStage PROVE IInv' /\ Effect({})
<1> SUFFICES ASSUME NEW r, r = worker.cur, NEW at, at = worker.at
             PROVE  IInv' /\ Effect({})
  OBVIOUS
<1> DEFINE ps == {at}
           status == IF at = Agent THEN "AWAITING_REVIEW" ELSE run[r].status
<1>1. PICK outcome \in (IF at = Agent THEN Done ELSE {"completed"}) :
        Write(r, status, Marked(run[r].stage, All(ps, outcome)), All(ps, outcome))
  BY DEF FinishStage
<1> DEFINE stage == Marked(run[r].stage, All(ps, outcome))
<1>2. /\ worker.pc = "operate" /\ TypeOK /\ r \in Run \ worker.todo /\ Status(r) = "PROCESSING"
      /\ at \in Work
      /\ \A q \in worker.todo : Processable(q)
      /\ UNCHANGED <<outbox, inbox, deleted, kafka, admitted, budget>>
  BY DEF FinishStage, IInv, WorkerInv, CurInv, TodoInv, Processes, Processable
<1>3. /\ Exists(r) /\ run[r].status = "PROCESSING" /\ run[r].stage \in [Place -> StageStatus]
      /\ outbox \in [Run -> OutboxRow]
  <2>1. Exists(r)
    BY <1>2, NoRow DEF RunStatus
  <2> QED
    BY <1>2, <2>1, RowTyped DEF TypeOK
<1>4. RunOk(r) /\ run[r].stage[Agent] \notin Done /\ r \in inbox
  BY <1>2, <1>3 DEF IInv, RunInv, RunOk
<1>5. /\ ps \in SUBSET Place /\ Publication \notin ps /\ (at # Agent => Agent \notin ps)
      /\ outcome \in StageStatus /\ status \in RunStatus
      /\ status = IF at = Agent THEN "AWAITING_REVIEW" ELSE "PROCESSING"
  BY <1>2, <1>3, Places DEF StageStatus, RunStatus, Done
<1>6. /\ stage \in [Place -> StageStatus] /\ (at # Agent => stage[Agent] \notin Done)
      /\ stage[Publication] = run[r].stage[Publication]
  <2>1. Agent \in Place /\ Publication \in Place
    BY Places
  <2> HIDE DEF ps
  <2> QED
    BY <1>3, <1>4, <1>5, <2>1, MarkedTyped, MarkedKeeps
<1>7. /\ worker' \in Worker /\ worker'.todo = worker.todo /\ worker'.next = worker.next
      /\ \/ at = Agent /\ worker'.pc = "process"
         \/ at # Agent /\ worker'.pc = "stage" /\ worker'.cur = r
         \/ worker'.pc = "failed" /\ worker'.cur = r /\ worker'.at = at
  <2>1. CASE at = Agent /\ Goto("process")
    BY <1>2, <2>1, GotoTyped DEF Pc
  <2>2. CASE at # Agent /\ worker' = [worker EXCEPT !.pc = "stage", !.at = 1]
    BY <1>2, <2>2, WorkerTyped, Places DEF Worker, Pc
  <2>3. CASE worker' = [worker EXCEPT !.pc = "failed"]
    BY <1>2, <2>3, WorkerTyped DEF Worker, Pc
  <2> QED
    BY <2>1, <2>2, <2>3 DEF FinishStage
<1> HIDE DEF stage, ps, status
<1>8. /\ TypeOK' /\ AdmitInv' /\ Exists(r)' /\ Status(r)' = status /\ run'[r].stage = stage
      /\ \A q \in Run \ {r} : Status(q)' = Status(q)
      /\ RunOk(r)' => RunInv'
      /\ ("begin" \notin Blips => (Counted(r)' => Counted(r))) => Effect({})
  <2>1. Write(r, status, stage, All(ps, outcome))
    BY <1>1 DEF stage
  <2>2. stage \in [Place -> StageStatus] /\ worker' \in Worker
    BY <1>6, <1>7
  <2> QED
    BY <1>2, <1>3, <1>5, <2>1, <2>2, WriteStep
<1>9. RunInv'
  <2>1. RunOk(r)'
    BY <1>2, <1>3, <1>4, <1>5, <1>6, <1>8 DEF RunOk
  <2> QED
    BY <1>8, <2>1
<1>10. TodoInv'
  <2>1. \A q \in worker.todo : Processable(q)'
    BY <1>2, <1>8, WorkerTyped DEF Processable
  <2>2. ~Publishes' /\ worker'.pc # "publish"
    BY <1>2, <1>7, Places DEF Publishes
  <2> QED
    BY <1>7, <2>1, <2>2 DEF TodoInv
<1>11. CurInv'
  BY <1>2, <1>5, <1>7, <1>8, Places DEF CurInv, Publishes, Processes, Processable
<1>12. PollInv'
  BY <1>2, <1>7 DEF PollInv, IInv, WorkerInv, kafka
<1>13. Effect({})
  <2>1. Counted(r)
    BY <1>2 DEF Counted, Active
  <2> QED
    BY <1>8, <2>1
<1> QED
  BY <1>8, <1>9, <1>10, <1>11, <1>12, <1>13 DEF IInv, WorkerInv

LEMMA NextIInv == IInv /\ [Next]_vars => IInv'
<1> SUFFICES ASSUME IInv, [Next]_vars
             PROVE  IInv'
  OBVIOUS
<1>1. CASE WorkerStep
  BY <1>1, ConnectStep, TakePendingStep, PublishingStep, SendSteps, PublishedSteps, FailStep,
     PollStep, ReceiveStep, QuarantineStep, CommitOffsetsStep, TakeResumableStep, BeginRunStep,
     EndPassStep, StartStageStep, FinishStageStep, StepFailsStep DEF WorkerStep
<1>2. CASE VisitorStep
  BY <1>2, RequestSteps, CreateRunStep, RetryRunStep, DecideStep DEF VisitorStep
<1>3. CASE \E r \in Run : Arrive(r)
  BY <1>3, RequestSteps
<1>4. CASE \E idle, old \in SUBSET Run : Cleanup(idle, old)
  BY <1>4, CleanupStep
<1>5. CASE Crash
  BY <1>5, CrashStep
<1>6. CASE UNCHANGED vars
  <2>1. UNCHANGED <<tables, worker, kafka, topic, offset, flying, admitted, retries, crashes, deleted>>
    BY <1>6 DEF vars, kafka, budget, tables
  <2>2. AdmitInv'
    BY <2>1, TablesKept DEF IInv, AdmitInv
  <2> QED
    BY <2>1, <2>2, RestingStep DEF IInv, TypeOK
<1> QED
  BY <1>1, <1>2, <1>3, <1>4, <1>5, <1>6 DEF Next

\* The invariant of every behaviour.
THEOREM Inductive == Spec => []IInv
<1>1. Init => IInv
  BY InitIInv
<1>2. IInv /\ [Next]_vars => IInv'
  BY NextIInv
<1> QED
  BY <1>1, <1>2, PTL DEF Spec

\* The tables, the consumer's position and the worker's memory keep their types; in
\* particular the outbox never exceeds its attempts (DemoStore.pending) and no
\* offset is committed beyond the partition (DemoJourneyWorker.loop).
THEOREM TypeCorrect == Spec => []TypeOK
<1>1. IInv => TypeOK
  BY DEF IInv
<1> QED
  BY <1>1, Inductive, PTL

(***************************************************************************)
(* Every step is one of three kinds                                        *)
(***************************************************************************)

Releasing == Effect({}) /\ (admitted' = admitted \/ admitted' = None)

Admitting ==
    /\ UNCHANGED tables
    /\ \E s \in Session, r \in Run : AdmitSubmission(s, r) \/ AdmitRetry(s, r)

LEMMA StepKinds == ASSUME IInv, [Next]_vars PROVE Releasing \/ Admitting \/ EntersSlot
<1>1. CASE WorkerStep
  <2>1. Effect({})
    BY <1>1, ConnectStep, TakePendingStep, PublishingStep, SendSteps, PublishedSteps, FailStep,
       PollStep, ReceiveStep, QuarantineStep, CommitOffsetsStep, TakeResumableStep, BeginRunStep,
       EndPassStep, StartStageStep, FinishStageStep, StepFailsStep DEF WorkerStep
  <2>2. admitted' = admitted
    BY <1>1 DEF WorkerStep, Connect, TakePending, Publishing, SendAcked, SendInDoubt, Published,
       PublishedInDoubt, Fail, Poll, Receive, Quarantine, CommitOffsets, TakeResumable, BeginRun,
       EndPass, StartStage, FinishStage, StepFails
  <2> QED
    BY <2>1, <2>2 DEF Releasing
<1>2. CASE \E s \in Session, r \in Run : AdmitSubmission(s, r) \/ AdmitRetry(s, r)
  BY <1>2 DEF Admitting, AdmitSubmission, AdmitRetry
<1>3. CASE CreateRun \/ RetryRun
  BY <1>3, CreateRunStep, RetryRunStep
<1>4. CASE Refuse
  BY <1>4, RequestSteps DEF Refuse, Releasing
<1>5. CASE \E r \in Run : Decide(r)
  BY <1>5, DecideStep DEF Decide, Releasing
<1>6. CASE \E r \in Run : Arrive(r)
  BY <1>6, RequestSteps DEF Arrive, Releasing
<1>7. CASE \E idle, old \in SUBSET Run : Cleanup(idle, old)
  BY <1>7, CleanupStep DEF Cleanup, Releasing
<1>8. CASE Crash
  BY <1>8, CrashStep DEF Crash, Releasing
<1>9. CASE UNCHANGED vars
  BY <1>9, TablesKept DEF vars, Releasing
<1> QED
  BY <1>1, <1>2, <1>3, <1>4, <1>5, <1>6, <1>7, <1>8, <1>9 DEF Next, VisitorStep

(***************************************************************************)
(* Capacity                                                                *)
(***************************************************************************)

LEMMA CardinalityLess ==
    ASSUME NEW S, NEW T \in SUBSET Run, S \subseteq T
    PROVE  /\ Cardinality(S) \in Nat /\ Cardinality(T) \in Nat
           /\ Cardinality(S) <= Cardinality(T)
<1>1. IsFiniteSet(T)
  BY DemoAssumption, FS_Subset
<1>2. IsFiniteSet(S) /\ Cardinality(S) <= Cardinality(T)
  BY <1>1, FS_Subset
<1> QED
  BY <1>1, <1>2, FS_CardinalityType

LEMMA CardinalityWith ==
    ASSUME NEW S, NEW T \in SUBSET Run, NEW x \in Run, S \subseteq T \cup {x},
           NEW n \in Nat, Cardinality(T) < n
    PROVE  Cardinality(S) <= n
<1>1. IsFiniteSet(T)
  BY DemoAssumption, FS_Subset
<1>2. Cardinality(T \cup {x}) <= Cardinality(T) + 1
  <2>1. Cardinality(T \cup {x}) = IF x \in T THEN Cardinality(T) ELSE Cardinality(T) + 1
    BY <1>1, FS_AddElement
  <2>2. Cardinality(T) \in Nat
    BY <1>1, FS_CardinalityType
  <2> QED
    BY <2>1, <2>2
<1>3. T \cup {x} \in SUBSET Run
  OBVIOUS
<1>4. /\ Cardinality(S) <= Cardinality(T \cup {x})
      /\ Cardinality(S) \in Nat /\ Cardinality(T \cup {x}) \in Nat /\ Cardinality(T) \in Nat
  BY <1>1, <1>3, CardinalityLess, FS_CardinalityType
<1> QED
  BY <1>2, <1>4

CountedRuns == {r \in Run : Counted(r)}
CountedOf(s) == CountedRuns \cap Owned(s)

\* The runs that hold a slot are within the limits, with one free for the request
\* that was admitted: nobody takes it while the request holds the capacity lock.
SlotsInv ==
    /\ Cardinality(CountedRuns) <= GlobalConcurrent
    /\ \A s \in Session : Cardinality(CountedOf(s)) <= Concurrent

AdmittedInv ==
    admitted # None =>
      /\ Cardinality(CountedRuns \ {admitted.run}) < GlobalConcurrent
      /\ Cardinality(CountedOf(admitted.session) \ {admitted.run}) < Concurrent

LEMMA CountedExist == \A r : Counted(r) => Exists(r)
BY NoRow DEF Counted, RunStatus

\* A step that takes no slot leaves the counted runs of each session a subset.
LEMMA CountedShrink ==
    ASSUME "begin" \notin Blips, NEW entering, Effect(entering)
    PROVE  /\ CountedRuns' \subseteq CountedRuns \cup entering
           /\ \A s : CountedOf(s)' \subseteq CountedOf(s) \cup entering
<1>1. ASSUME NEW r \in Run \ entering, Counted(r)'
      PROVE  /\ Counted(r) /\ Exists(r)
             /\ \A s : r \in Owned(s)' => r \in Owned(s)
  <2>1. Counted(r) /\ Exists(r)
    BY <1>1, CountedExist DEF Effect, NoNewSlot
  <2>2. Exists(r)' => run'[r].owner = run[r].owner
    BY <1>1 DEF Effect, NoNewSlot
  <2> QED
    BY <2>1, <2>2 DEF Owned
<1> QED
  BY <1>1 DEF CountedRuns, CountedOf

LEMMA ReleasingKeepsSlots ==
    ASSUME "begin" \notin Blips, IInv, SlotsInv, AdmittedInv, Releasing
    PROVE  SlotsInv' /\ AdmittedInv'
<1>1. CountedRuns' \subseteq CountedRuns /\ \A s : CountedOf(s)' \subseteq CountedOf(s)
  BY CountedShrink DEF Releasing
<1>2. CountedRuns \in SUBSET Run /\ \A s : CountedOf(s) \in SUBSET Run
  BY DEF CountedRuns, CountedOf
<1>3. GlobalConcurrent \in Nat /\ Concurrent \in Nat
  BY DemoAssumption
<1>4. Cardinality(CountedRuns') <= GlobalConcurrent
  <2>1. /\ Cardinality(CountedRuns') <= Cardinality(CountedRuns)
        /\ Cardinality(CountedRuns') \in Nat /\ Cardinality(CountedRuns) \in Nat
    BY <1>1, <1>2, CardinalityLess
  <2> QED
    BY <1>3, <2>1 DEF SlotsInv
<1>5. ASSUME NEW s \in Session
      PROVE  Cardinality(CountedOf(s)') <= Concurrent
  <2>1. /\ Cardinality(CountedOf(s)') <= Cardinality(CountedOf(s))
        /\ Cardinality(CountedOf(s)') \in Nat /\ Cardinality(CountedOf(s)) \in Nat
    BY <1>1, <1>2, CardinalityLess
  <2> QED
    BY <1>3, <2>1 DEF SlotsInv
<1>6. ASSUME admitted' # None
      PROVE  AdmittedInv'
  <2> SUFFICES ASSUME NEW r, r = admitted.run, NEW s, s = admitted.session
               PROVE  AdmittedInv'
    OBVIOUS
  <2>1. admitted' = admitted /\ admitted'.run = r /\ admitted'.session = s
    BY <1>6 DEF Releasing
  <2>2. /\ Cardinality(CountedRuns \ {r}) < GlobalConcurrent
        /\ Cardinality(CountedOf(s) \ {r}) < Concurrent
    BY <1>6, <2>1 DEF AdmittedInv
  <2>3. /\ CountedRuns \ {r} \in SUBSET Run /\ CountedOf(s) \ {r} \in SUBSET Run
        /\ CountedRuns' \ {r} \subseteq CountedRuns \ {r}
        /\ CountedOf(s)' \ {r} \subseteq CountedOf(s) \ {r}
    BY <1>1, <1>2
  <2>4. /\ Cardinality(CountedRuns' \ {r}) <= Cardinality(CountedRuns \ {r})
        /\ Cardinality(CountedRuns' \ {r}) \in Nat /\ Cardinality(CountedRuns \ {r}) \in Nat
    BY <2>3, CardinalityLess
  <2>5. /\ Cardinality(CountedOf(s)' \ {r}) <= Cardinality(CountedOf(s) \ {r})
        /\ Cardinality(CountedOf(s)' \ {r}) \in Nat /\ Cardinality(CountedOf(s) \ {r}) \in Nat
    BY <2>3, CardinalityLess
  <2>6. /\ Cardinality(CountedRuns' \ {r}) < GlobalConcurrent
        /\ Cardinality(CountedOf(s)' \ {r}) < Concurrent
    BY <1>3, <2>2, <2>4, <2>5
  <2>7. CountedOf(admitted.session)' = CountedOf(s)'
    BY <2>1 DEF CountedOf, Owned
  <2> QED
    BY <2>1, <2>6, <2>7 DEF AdmittedInv
<1> QED
  BY <1>4, <1>5, <1>6 DEF SlotsInv, AdmittedInv

LEMMA EnteringKeepsSlots ==
    ASSUME "begin" \notin Blips, IInv, SlotsInv, AdmittedInv, EntersSlot
    PROVE  SlotsInv' /\ AdmittedInv'
<1> SUFFICES ASSUME NEW r, r = admitted.run, NEW s, s = admitted.session
             PROVE  SlotsInv' /\ AdmittedInv'
  OBVIOUS
<1>1. /\ r \in Run /\ Effect({r}) /\ run'[r].owner = s /\ admitted' = None
      /\ Cardinality(CountedRuns \ {r}) < GlobalConcurrent
      /\ Cardinality(CountedOf(s) \ {r}) < Concurrent
  BY DEF EntersSlot, AdmittedInv
<1>2. CountedRuns' \subseteq CountedRuns \cup {r} /\ \A t : CountedOf(t)' \subseteq CountedOf(t) \cup {r}
  BY <1>1, CountedShrink
<1>3. CountedRuns \in SUBSET Run /\ \A t : CountedOf(t) \in SUBSET Run
  BY DEF CountedRuns, CountedOf
<1>4. GlobalConcurrent \in Nat /\ Concurrent \in Nat
  BY DemoAssumption
<1>5. Cardinality(CountedRuns') <= GlobalConcurrent
  <2>1. CountedRuns' \subseteq (CountedRuns \ {r}) \cup {r} /\ CountedRuns \ {r} \in SUBSET Run
    BY <1>2, <1>3
  <2> QED
    BY <1>1, <1>4, <2>1, CardinalityWith
<1>6. Cardinality(CountedOf(s)') <= Concurrent
  <2>1. CountedOf(s)' \subseteq (CountedOf(s) \ {r}) \cup {r} /\ CountedOf(s) \ {r} \in SUBSET Run
    BY <1>2, <1>3
  <2> QED
    BY <1>1, <1>4, <2>1, CardinalityWith
<1>7. ASSUME NEW t \in Session, t # s
      PROVE  Cardinality(CountedOf(t)') <= Concurrent
  <2>1. r \notin CountedOf(t)'
    BY <1>1, <1>7 DEF CountedOf, Owned
  <2>2. CountedOf(t)' \subseteq CountedOf(t)
    BY <1>2, <2>1
  <2>3. /\ Cardinality(CountedOf(t)') <= Cardinality(CountedOf(t))
        /\ Cardinality(CountedOf(t)') \in Nat /\ Cardinality(CountedOf(t)) \in Nat
    BY <1>3, <2>2, CardinalityLess
  <2> QED
    BY <1>4, <2>3 DEF SlotsInv
<1> QED
  BY <1>1, <1>5, <1>6, <1>7 DEF SlotsInv, AdmittedInv

LEMMA AdmittingKeepsSlots ==
    ASSUME "begin" \notin Blips, IInv, SlotsInv, AdmittedInv, Admitting
    PROVE  SlotsInv' /\ AdmittedInv'
<1>1. PICK s \in Session, r \in Run : AdmitSubmission(s, r) \/ AdmitRetry(s, r)
  BY DEF Admitting
<1>2. admitted' # None => admitted'.run = r /\ admitted'.session = s
  BY <1>1 DEF AdmitSubmission, AdmitRetry
<1>3. CountedRuns' = CountedRuns /\ \A t : CountedOf(t)' = CountedOf(t)
  <2>1. UNCHANGED <<run, outbox, inbox>>
    BY DEF Admitting, tables
  <2> QED
    BY <2>1 DEF CountedRuns, CountedOf, Counted, Active, Status, Exists, Owned
<1>4. PICK retrying \in {{}, {r}} : HasSlot(s, retrying)
  BY <1>1 DEF AdmitSubmission, AdmitRetry
<1>5. /\ Cardinality({q \in Run \ retrying : Counted(q)}) < GlobalConcurrent
      /\ Cardinality({q \in Run \ retrying : Counted(q)} \cap Owned(s)) < Concurrent
  BY <1>4 DEF HasSlot
<1>6. /\ CountedRuns \ {r} \subseteq {q \in Run \ retrying : Counted(q)}
      /\ CountedOf(s) \ {r} \subseteq {q \in Run \ retrying : Counted(q)} \cap Owned(s)
      /\ {q \in Run \ retrying : Counted(q)} \in SUBSET Run
      /\ {q \in Run \ retrying : Counted(q)} \cap Owned(s) \in SUBSET Run
  BY DEF CountedRuns, CountedOf
<1>7. GlobalConcurrent \in Nat /\ Concurrent \in Nat
  BY DemoAssumption
<1>8. Cardinality(CountedRuns \ {r}) < GlobalConcurrent
  BY <1>5, <1>6, <1>7, CardinalityLess
<1>9. Cardinality(CountedOf(s) \ {r}) < Concurrent
  BY <1>5, <1>6, <1>7, CardinalityLess
<1>10. AdmittedInv'
  <2>1. admitted' # None => CountedOf(admitted.session)' = CountedOf(s)
    BY <1>2, <1>3 DEF CountedOf, Owned
  <2> QED
    BY <1>2, <1>3, <1>8, <1>9, <2>1 DEF AdmittedInv
<1> QED
  BY <1>3, <1>10 DEF SlotsInv

LEMMA InitSlots == Init => SlotsInv /\ AdmittedInv
<1> SUFFICES ASSUME Init
             PROVE  SlotsInv /\ AdmittedInv
  OBVIOUS
<1>1. CountedRuns = {}
  BY CountedExist DEF CountedRuns, Init, Exists
<1>2. \A s : CountedOf(s) = {}
  BY <1>1 DEF CountedOf
<1>3. Cardinality({}) = 0 /\ GlobalConcurrent \in Nat /\ Concurrent \in Nat
  BY FS_EmptySet, DemoAssumption
<1>4. SlotsInv
  BY <1>1, <1>2, <1>3 DEF SlotsInv
<1> QED
  BY <1>4 DEF AdmittedInv, Init

LEMMA SlotsRespected == IInv /\ SlotsInv => CapacityRespected
<1> SUFFICES ASSUME IInv, SlotsInv
             PROVE  CapacityRespected
  OBVIOUS
<1> DEFINE active == {r \in Run : Active(r)}
<1>1. active \subseteq CountedRuns /\ CountedRuns \in SUBSET Run
  BY DEF CountedRuns, Counted
<1>2. GlobalConcurrent \in Nat /\ Concurrent \in Nat
  BY DemoAssumption
<1> HIDE DEF active
<1>3. Cardinality(active) <= GlobalConcurrent
  BY <1>1, <1>2, CardinalityLess DEF SlotsInv
<1>4. ASSUME NEW s \in Session
      PROVE  Cardinality(active \cap Owned(s)) <= Concurrent
  <2>1. active \cap Owned(s) \subseteq CountedOf(s) /\ CountedOf(s) \in SUBSET Run
    BY <1>1 DEF CountedOf
  <2> QED
    BY <1>2, <2>1, CardinalityLess DEF SlotsInv
<1> QED
  BY <1>3, <1>4 DEF CapacityRespected, active

\* No interleaving of submissions, retries, failures and late deliveries makes more
\* runs active than the limits: a failed run whose event may still arrive keeps
\* its slot (DemoPublicAccess.capacity, DemoStore.ingest).
THEOREM Capacity ==
    ASSUME "begin" \notin Blips
    PROVE  Spec => []CapacityRespected
<1> DEFINE Inv == SlotsInv /\ AdmittedInv
<1>1. Init => Inv
  BY InitSlots
<1>2. IInv /\ Inv /\ [Next]_vars => Inv'
  BY StepKinds, ReleasingKeepsSlots, EnteringKeepsSlots, AdmittingKeepsSlots
<1>3. IInv /\ Inv => CapacityRespected
  BY SlotsRespected
<1> HIDE DEF Inv
<1> QED
  BY <1>1, <1>2, <1>3, Inductive, PTL DEF Spec

(***************************************************************************)
(* Offsets                                                                 *)
(***************************************************************************)

Known(r) == Exists(r) \/ r \in deleted
Accounted(n) == \A i \in 1..n : topic[i] \in inbox \cup deleted

\* Every copy that was sent is of a run that is kept or has a receipt, and the
\* consumer has passed only events that are accounted for.
SentInv ==
    /\ \A i \in 1..Len(topic) : Known(topic[i])
    /\ \A r \in Run : flying[r] > 0 => Known(r)

OffsetInv == Accounted(offset) /\ Accounted(worker.next)

\* A step keeps what is known of runs and events, whatever it does to the topic.
LEMMA KnownKept ==
    ASSUME IInv, [Next]_vars
    PROVE  /\ \A r \in Run : Known(r) => Known(r)'
           /\ inbox \cup deleted \subseteq inbox' \cup deleted'
<1>1. Effect({}) \/ Effect({admitted.run})
  BY StepKinds, TablesKept DEF Releasing, Admitting, EntersSlot
<1> QED
  BY <1>1 DEF Effect, Known

\* What each step does to the topic, the copies in flight and the positions.
LEMMA KafkaSteps ==
    ASSUME IInv, SentInv, [Next]_vars
    PROVE  /\ topic' = topic \/ \E r \in Run : Known(r) /\ topic' = Append(topic, r)
           /\ \A r \in Run : flying'[r] > 0 => flying[r] > 0 \/ Known(r)
           /\ \/ offset' = offset
              \/ CommitOffsets
           /\ \/ worker'.next = worker.next \/ worker'.next = 0
              \/ Connect
              \/ worker'.next = worker.next + 1 /\ topic' = topic
                 /\ worker.next \in Nat /\ worker.next < Len(topic)
                 /\ (Polled \in inbox' \/ ~Exists(Polled) \/ "begin" \in Blips)
<1>1. /\ topic \in Seq(Run) /\ flying \in [Run -> Nat] /\ worker \in Worker
      /\ worker.next \in Nat /\ worker.upto \in Nat /\ Len(topic) \in Nat
  BY WorkerTyped DEF IInv, TypeOK
<1>2. ASSUME UNCHANGED <<kafka, worker>>
      PROVE  UNCHANGED <<topic, flying, offset, worker>>
  BY <1>2 DEF kafka
<1>3. ASSUME UNCHANGED kafka, worker'.next = worker.next
      PROVE  UNCHANGED <<topic, flying, offset>> /\ worker'.next = worker.next
  BY <1>3 DEF kafka
<1>4. worker.pc = "send" => worker.cur \in Run /\ Known(worker.cur)
  <2>1. worker.pc = "send" => worker.cur \in Run /\ Status(worker.cur) = "WAITING"
    BY DEF IInv, WorkerInv, CurInv, Publishes
  <2> QED
    BY <2>1, NoRow DEF Known, RunStatus
<1>5. CASE VisitorStep \/ (\E idle, old \in SUBSET Run : Cleanup(idle, old)) \/ UNCHANGED vars
  <2>1. UNCHANGED <<kafka, worker>>
    BY <1>5 DEF VisitorStep, AdmitSubmission, AdmitRetry, CreateRun, RetryRun, Refuse, Decide,
       Cleanup, vars
  <2> QED
    BY <1>2, <2>1
<1>6. CASE Connect
  BY <1>6 DEF Connect, kafka
<1>7. CASE TakePending \/ (\E r \in Run : Publishing(r)) \/ Published \/ PublishedInDoubt
           \/ Fail \/ Poll \/ TakeResumable \/ (\E r \in Run : BeginRun(r)) \/ EndPass
           \/ StartStage \/ FinishStage \/ StepFails
  <2>1. UNCHANGED kafka
    BY <1>7 DEF TakePending, Publishing, Published, PublishedInDoubt, Fail, Poll, TakeResumable,
       BeginRun, EndPass, StartStage, FinishStage, StepFails
  <2>2. worker'.next = worker.next
    <3>1. CASE TakePending \/ (\E r \in Run : Publishing(r)) \/ PublishedInDoubt
               \/ TakeResumable \/ (\E r \in Run : BeginRun(r)) \/ StartStage
      BY <1>1, <3>1 DEF TakePending, Publishing, PublishedInDoubt, TakeResumable, BeginRun,
         StartStage, Worker
    <3>2. CASE Published \/ Fail \/ EndPass
      <4>1. \E pc \in Pc : Goto(pc)
        BY <3>2 DEF Published, Fail, EndPass, Pc
      <4> QED
        BY <1>1, <4>1 DEF Goto, Worker
    <3>3. CASE Poll
      BY <1>1, <3>3 DEF Poll, Goto, Worker
    <3>4. CASE FinishStage
      BY <1>1, <3>4 DEF FinishStage, Goto, Worker
    <3>5. CASE StepFails
      BY <1>1, <3>5 DEF StepFails, Worker
    <3> QED
      BY <1>7, <3>1, <3>2, <3>3, <3>4, <3>5
  <2> QED
    BY <1>3, <2>1, <2>2
<1>8. CASE SendAcked
  <2>1. topic' = Append(topic, worker.cur) /\ worker'.next = worker.next
        /\ UNCHANGED <<flying, offset>> /\ worker.pc = "send"
    BY <1>1, <1>8 DEF SendAcked
  <2> QED
    BY <1>4, <2>1
<1>9. CASE SendInDoubt \/ Crash
  <2>1. /\ flying' = flying \/ (worker.pc = "send" /\ flying' = [flying EXCEPT ![worker.cur] = @ + 1])
        /\ UNCHANGED <<topic, offset>> /\ (worker'.next = worker.next \/ worker'.next = 0)
    <3>1. CASE SendInDoubt
      BY <1>1, <3>1 DEF SendInDoubt, Worker
    <3>2. CASE Crash
      BY <3>2 DEF Crash
    <3> QED
      BY <1>9, <3>1, <3>2
  <2>2. \A r \in Run : flying'[r] > 0 => flying[r] > 0 \/ Known(r)
    BY <1>1, <1>4, <2>1
  <2> QED
    BY <2>1, <2>2
<1>10. CASE \E r \in Run : Arrive(r)
  <2>1. PICK r \in Run : Arrive(r)
    BY <1>10
  <2>2. flying[r] > 0 /\ topic' = Append(topic, r) /\ UNCHANGED <<offset, worker>>
        /\ flying' = [flying EXCEPT ![r] = @ - 1]
    BY <2>1 DEF Arrive
  <2>3. Known(r)
    BY <2>2 DEF SentInv
  <2>4. \A q \in Run : flying'[q] > 0 => flying[q] > 0
    BY <1>1, <2>2
  <2> QED
    BY <2>2, <2>3, <2>4
<1>11. CASE Receive \/ Quarantine
  <2>1. /\ worker.pc = "ingest" /\ worker.next < worker.upto /\ worker.upto <= Len(topic)
    BY <1>11 DEF Receive, Quarantine, IInv, WorkerInv, PollInv
  <2>2. worker' = [worker EXCEPT !.next = @ + 1] /\ UNCHANGED kafka
    BY <1>11 DEF Receive, Quarantine
  <2>3. Polled \in inbox' \/ ~Exists(Polled) \/ "begin" \in Blips
    BY <1>11 DEF Receive, Ingest, Quarantine
  <2>4. worker'.next = worker.next + 1
    BY <1>1, <2>2
  <2> QED
    BY <1>1, <2>1, <2>2, <2>3, <2>4 DEF kafka
<1>12. CASE CommitOffsets
  <2>1. worker'.next = worker.next
    BY <1>1, <1>12 DEF CommitOffsets, Goto
  <2> QED
    BY <1>12, <2>1 DEF CommitOffsets
<1> QED
  BY <1>5, <1>6, <1>7, <1>8, <1>9, <1>10, <1>11, <1>12 DEF Next, WorkerStep

LEMMA NextSent == ASSUME IInv, SentInv, [Next]_vars PROVE SentInv'
<1>1. topic \in Seq(Run) /\ Len(topic) \in Nat
  BY DEF IInv, TypeOK
<1>2. \A i \in 1..Len(topic) : topic[i] \in Run /\ Known(topic[i])
  BY <1>1 DEF SentInv
<1>3. \A r \in Run : Known(r) => Known(r)'
  BY KnownKept
<1>4. \A i \in 1..Len(topic') : topic'[i] \in Run /\ Known(topic'[i])
  <2>1. CASE topic' = topic
    BY <1>2, <2>1
  <2>2. CASE \E r \in Run : Known(r) /\ topic' = Append(topic, r)
    BY <1>1, <1>2, <2>2
  <2> QED
    BY <2>1, <2>2, KafkaSteps
<1>5. \A r \in Run : flying'[r] > 0 => Known(r)'
  BY <1>3, KafkaSteps DEF SentInv
<1>6. \A i \in 1..Len(topic') : Known(topic[i])'
  <2> SUFFICES ASSUME NEW i \in 1..Len(topic'), NEW r, r = topic'[i]
               PROVE  Known(topic[i])'
    OBVIOUS
  <2>1. r \in Run /\ Known(r)'
    BY <1>3, <1>4
  <2> QED
    BY <2>1 DEF Known, Exists
<1> QED
  BY <1>5, <1>6 DEF SentInv

LEMMA NextOffset ==
    ASSUME "begin" \notin Blips, IInv, SentInv, OffsetInv, [Next]_vars
    PROVE  OffsetInv'
<1>1. /\ topic \in Seq(Run) /\ Len(topic) \in Nat /\ offset \in 0..Len(topic)
      /\ worker.next \in Nat /\ worker.next <= Len(topic)
  BY WorkerTyped DEF IInv, TypeOK, WorkerInv, PollInv
<1>2. inbox \cup deleted \subseteq inbox' \cup deleted'
  BY KnownKept
<1>3. \A i \in 1..Len(topic) : topic'[i] = topic[i]
  BY <1>1, KafkaSteps
<1>4. ASSUME NEW n \in 0..Len(topic), Accounted(n)
      PROVE  \A i \in 1..n : topic'[i] \in inbox' \cup deleted'
  BY <1>1, <1>2, <1>3, <1>4 DEF Accounted
<1>5. Accounted(offset)'
  <2>1. CASE offset' = offset
    BY <1>1, <1>4, <2>1 DEF OffsetInv, Accounted
  <2>2. CASE CommitOffsets
    BY <1>1, <1>4, <2>2 DEF OffsetInv, Accounted, CommitOffsets
  <2> QED
    BY <2>1, <2>2, KafkaSteps
<1>6. Accounted(worker.next)'
  <2>1. CASE worker'.next = worker.next
    BY <1>1, <1>4, <2>1 DEF OffsetInv, Accounted
  <2>2. CASE worker'.next = 0
    BY <2>2 DEF Accounted
  <2>3. CASE Connect
    <3>1. worker'.next = offset
      BY <2>3, WorkerTyped DEF Connect, IInv
    <3> QED
      BY <1>1, <1>4, <3>1 DEF OffsetInv, Accounted
  <2>4. CASE /\ worker'.next = worker.next + 1 /\ worker.next < Len(topic)
             /\ (Polled \in inbox' \/ ~Exists(Polled))
    <3>1. Polled \in inbox' \cup deleted'
      <4>1. Known(Polled)
        BY <1>1, <2>4 DEF SentInv, Polled
      <4> QED
        BY <1>2, <2>4, <4>1 DEF Known
    <3>2. topic'[worker.next + 1] \in inbox' \cup deleted'
      BY <1>1, <1>3, <2>4, <3>1 DEF Polled
    <3>3. \A i \in 1..worker.next : topic'[i] \in inbox' \cup deleted'
      BY <1>1, <1>4 DEF OffsetInv
    <3> QED
      BY <1>1, <2>4, <3>2, <3>3 DEF Accounted
  <2> QED
    BY <2>1, <2>2, <2>3, <2>4, KafkaSteps
<1> QED
  BY <1>5, <1>6 DEF OffsetInv

\* No offset is committed past an event that is neither in the inbox nor of a deleted
\* run, whatever crashes, reconnections and late copies come between a poll and
\* its commit (DemoJourneyWorker.loop).
THEOREM Offsets ==
    ASSUME "begin" \notin Blips
    PROVE  Spec => []OffsetsAccounted
<1> DEFINE Inv == SentInv /\ OffsetInv
<1>1. Init => Inv
  BY DEF Init, SentInv, OffsetInv, Accounted
<1>2. IInv /\ Inv /\ [Next]_vars => Inv'
  BY NextSent, NextOffset
<1>3. Inv => OffsetsAccounted
  BY DEF OffsetInv, Accounted, OffsetsAccounted
<1> HIDE DEF Inv
<1> QED
  BY <1>1, <1>2, <1>3, Inductive, PTL DEF Spec

(***************************************************************************)
(* What the document shows.  A row agrees with its journal and its case,   *)
(* its stages are done in order, and its status says how far they are.     *)
(* Only the worker undoes a stage, that of a publication; so this needs    *)
(* that it believes a stage has failed only when it has: `Blips' is empty. *)
(***************************************************************************)

DocOk(r) ==
    Exists(r) =>
      /\ Verified(r)
      /\ \A p, q \in Place : p < q /\ run[r].stage[q] \in Done => run[r].stage[p] \in Done
      /\ run[r].stage[1] \in Done
      /\ run[r].stage[Publication] # "abstained"
      /\ run[r].stage[Ingestion] \in Done <=> r \in inbox
      /\ run[r].case # "none" => run[r].stage[CaseStage] \in Done
      /\ Status(r) = "WAITING" => r \notin inbox
      /\ Status(r) = "AWAITING_REVIEW" => run[r].stage[Agent] \in Done
      /\ Status(r) # "COMPLETED" => \A p \in Review : run[r].stage[p] \notin Done

\* A run the worker processes stays as it is, so a stage it runs, or takes for
\* failed, is the first one that is not done.
DocWorker ==
    /\ worker.pc = "operate" =>
         \A q \in Place : q < worker.at => run[worker.cur].stage[q] \in Done
    /\ worker.pc = "operate" \/ (worker.pc = "failed" /\ worker.at # Publication) =>
         /\ Status(worker.cur) = "PROCESSING"
         /\ run[worker.cur].stage[worker.at] \notin Done

DocInv == (\A r \in Run : DocOk(r)) /\ DocWorker

\* What NeverUndone says of one run.
Stays(r) ==
    Exists(r) /\ Exists(r)' =>
      /\ \A p \in Place \ {Publication} : run[r].stage[p] \in Done =>
           run'[r].stage[p] = run[r].stage[p]
      /\ Active(r)' => Status(r) \in {"WAITING", "PROCESSING", "FAILED"}
      /\ Status(r) \in {"COMPLETED", "EXPIRED"} => run'[r] = run[r]

\* The places of a transaction take its mark, and were not done before; elsewhere
\* only stages that are not done change; and what is done follows what was.
Proper(r, stage, ps, mark) ==
    /\ \A p \in ps : stage[p] = mark
    /\ \A p \in Place \ ps : \/ stage[p] = run[r].stage[p]
                             \/ stage[p] \notin Done /\ run[r].stage[p] \notin Done
    /\ \A p \in ps \ {Publication} : run[r].stage[p] \notin Done
    /\ Publication \in ps => mark # "abstained" /\ (mark \in Done \/ r \notin inbox)
    /\ mark \in Done =>
         \A p \in ps, q \in Place : q < p => q \in ps \/ run[r].stage[q] \in Done

LEMMA Numbers ==
    /\ Publication = 2 /\ Ingestion = 3 /\ CaseStage = 8 /\ Agent = 9 /\ Review = {10, 11}
    /\ Place = 1..11 /\ Work = 4..9
    /\ Done = {"completed", "abstained"}
    /\ {"waiting", "processing", "failed", "blocked"} \cap Done = {}
    /\ Done \subseteq StageStatus /\ StageStatus \ Done = {"waiting", "processing", "failed", "blocked"}
BY Places DEF Publication, Ingestion, CaseStage, Agent, Review, Work, Done, StageStatus

LEMMA RowStays ==
    ASSUME TypeOK, DocInv, NEW r \in Run, Exists(r), Exists(r)',
           NEW ps \in SUBSET Place, NEW mark \in StageStatus,
           Proper(r, run'[r].stage, ps, mark),
           run'[r].case = CaseAfter(run[r].case, All(ps, mark)),
           journal'[r] = Journaled(journal[r], All(ps, mark)),
           run'[r].stage[Ingestion] \in Done <=> r \in inbox',
           Status(r)' = "WAITING" => r \notin inbox',
           Status(r)' = "AWAITING_REVIEW" => run'[r].stage[Agent] \in Done,
           Status(r)' # "COMPLETED" =>
             Status(r) # "COMPLETED" /\ (mark \in Done => ps \cap Review = {})
    PROVE  DocOk(r)' /\ \A p \in Place \ {Publication} : run[r].stage[p] \in Done =>
                           run'[r].stage[p] = run[r].stage[p]
<1> DEFINE old == run[r].stage
           new == run'[r].stage
<1>1. DocOk(r)
  BY DEF DocInv
<1>2. /\ \A p \in ps : new[p] = mark
      /\ \A p \in Place \ ps : new[p] = old[p] \/ (new[p] \notin Done /\ old[p] \notin Done)
      /\ \A p \in ps \ {Publication} : old[p] \notin Done
  BY DEF Proper
<1>3. /\ \A p \in Place \ ps : new[p] \in Done <=> old[p] \in Done
      /\ \A p \in Place \ ps : old[p] \in Done => new[p] = old[p]
  BY <1>2
<1>4. /\ \A p \in Place : old[p] \in Done => p \in journal[r].committed
      /\ \A p \in Place : journal[r].latest[p] \in Done => old[p] = journal[r].latest[p]
      /\ run[r].case # "other" /\ (run[r].case # "none" => old[CaseStage] \in Done)
  BY <1>1 DEF DocOk, Verified
<1>5. \A p, q \in Place : p < q /\ old[q] \in Done => old[p] \in Done
  BY <1>1 DEF DocOk
<1>6. /\ \A p \in Place : new[p] \in Done => p \in journal'[r].committed
      /\ \A p \in Place : journal'[r].latest[p] \in Done => new[p] = journal'[r].latest[p]
  <2>1. /\ journal'[r].latest = [p \in Place |-> IF p \in ps THEN mark ELSE journal[r].latest[p]]
        /\ journal'[r].committed =
             journal[r].committed \cup {p \in ps : mark \in Done}
    <3>1. DOMAIN All(ps, mark) = ps /\ \A p \in ps : All(ps, mark)[p] = mark
      BY AllTyped
    <3> QED
      BY <3>1 DEF Journaled
  <2> QED
    BY <1>2, <1>3, <1>4, <2>1
<1>7. run'[r].case # "other" /\ (run'[r].case # "none" => new[CaseStage] \in Done)
  <2>1. CASE CaseStage \in ps
    <3>1. run[r].case = "none"
      BY <1>2, <1>4, <2>1, Numbers
    <3>2. All(ps, mark)[CaseStage] = mark /\ DOMAIN All(ps, mark) = ps
      BY <2>1, AllTyped
    <3>3. run'[r].case = IF mark = "completed" THEN "shown" ELSE "none"
      BY <2>1, <3>1, <3>2 DEF CaseAfter
    <3> QED
      BY <1>2, <2>1, <3>3, Numbers
  <2>2. CASE CaseStage \notin ps
    <3>1. run'[r].case = run[r].case
      BY <2>2, AllTyped DEF CaseAfter
    <3> QED
      BY <1>3, <1>4, <2>2, <3>1, Numbers
  <2> QED
    BY <2>1, <2>2
<1>8. ASSUME NEW p \in Place, NEW q \in Place, p < q, new[q] \in Done
      PROVE  new[p] \in Done
  <2>1. CASE mark \in Done
    <3>1. p \in ps \/ old[p] \in Done
      <4>1. CASE q \in ps
        BY <1>8, <2>1, <4>1 DEF Proper
      <4>2. CASE q \notin ps
        BY <1>3, <1>5, <1>8, <4>2
      <4> QED
        BY <4>1, <4>2
    <3> QED
      BY <1>2, <1>3, <2>1, <3>1
  <2>2. CASE mark \notin Done
    <3>1. q \notin ps /\ old[q] \in Done /\ old[p] \in Done
      BY <1>2, <1>3, <1>5, <1>8, <2>2
    <3>2. p \notin ps
      <4>1. CASE p = Publication
        <5>1. q >= 3
          BY <1>8, <4>1, Numbers
        <5>2. old[Ingestion] \in Done
          BY <1>5, <3>1, <5>1, Numbers
        <5> QED
          BY <1>1, <2>2, <4>1, <5>2 DEF DocOk, Proper
      <4>2. CASE p # Publication
        BY <1>2, <3>1, <4>2
      <4> QED
        BY <4>1, <4>2
    <3> QED
      BY <1>3, <3>1, <3>2
  <2> QED
    BY <2>1, <2>2
<1>9. new[1] \in Done
  BY <1>1, <1>2, <1>3, Numbers DEF DocOk
<1>10. new[Publication] # "abstained"
  <2>1. CASE Publication \in ps
    BY <1>2, <2>1 DEF Proper
  <2>2. CASE Publication \notin ps
    BY <1>1, <1>2, <2>2, Numbers DEF DocOk
  <2> QED
    BY <2>1, <2>2
<1>11. Status(r)' # "COMPLETED" => \A p \in Review : new[p] \notin Done
  BY <1>1, <1>2, <1>3, Numbers DEF DocOk
<1>12. \A p \in Place \ {Publication} : old[p] \in Done => new[p] = old[p]
  BY <1>2, <1>3
<1> HIDE DEF new
<1>13. DocOk(r)'
  BY <1>6, <1>7, <1>8, <1>9, <1>10, <1>11 DEF DocOk, Verified, new
<1> QED
  BY <1>12, <1>13 DEF new

\* A row that does not change, and whose run stays accepted or not.
LEMMA DocKept ==
    ASSUME DocInv, NEW r \in Run, run'[r] = run[r], journal'[r] = journal[r],
           r \in inbox' <=> r \in inbox
    PROVE  DocOk(r)' /\ Stays(r)
<1>1. DocOk(r)
  BY DEF DocInv
<1>2. Exists(r)' = Exists(r) /\ Status(r)' = Status(r)
  BY DEF Exists, Status
<1>3. DocOk(r)'
  BY <1>1, <1>2 DEF DocOk, Verified
<1> QED
  BY <1>2, <1>3 DEF Stays, Active

LEMMA SameRow ==
    ASSUME NEW row \in RunRow
    PROVE  [row EXCEPT !.status = row.status, !.stage = row.stage, !.case = row.case] = row
BY DEF RunRow

\* A transaction that writes one row.
LEMMA DocWrite ==
    ASSUME IInv, DocInv, NEW r \in Run, Exists(r), NEW status \in RunStatus,
           NEW stage \in [Place -> StageStatus], NEW ps \in SUBSET Place,
           NEW mark \in StageStatus, Write(r, status, stage, All(ps, mark)),
           inbox' = inbox \/ inbox' = inbox \cup {r},
           Proper(r, stage, ps, mark),
           stage[Ingestion] \in Done <=> r \in inbox',
           status = "WAITING" => r \notin inbox',
           status = "AWAITING_REVIEW" => stage[Agent] \in Done,
           status # "COMPLETED" => Status(r) # "COMPLETED" /\ (mark \in Done => ps \cap Review = {}),
           status \in {"WAITING", "PROCESSING"} => Status(r) \in {"WAITING", "PROCESSING", "FAILED"},
           Status(r) \in {"COMPLETED", "EXPIRED"} =>
             status = Status(r) /\ stage = run[r].stage /\ ps = {}
    PROVE  /\ \A q \in Run : DocOk(q)' /\ Stays(q)
           /\ Exists(r)' /\ Status(r)' = status /\ run'[r].stage = stage
           /\ \A q \in Run \ {r} : run'[q] = run[q]
<1>1. TypeOK /\ run[r] \in RunRow /\ run[r].status = Status(r)
      /\ run \in [Run -> RunRow \cup {None}] /\ journal \in [Run -> JournalOf]
  BY RowTyped DEF IInv, TypeOK
<1>2. /\ Exists(r)' /\ Status(r)' = status /\ run'[r].stage = stage
      /\ \A q \in Run \ {r} : run'[q] = run[q]
  BY <1>1, Written
<1> DEFINE case == CaseAfter(run[r].case, All(ps, mark))
<1>3. /\ run'[r] = [run[r] EXCEPT !.status = status, !.stage = stage, !.case = case]
      /\ journal'[r] = Journaled(journal[r], All(ps, mark))
      /\ \A q \in Run \ {r} : journal'[q] = journal[q]
  BY <1>1 DEF Write
<1>4. run'[r].case = case
  <2> HIDE DEF case
  <2> QED
    BY <1>1, <1>3 DEF RunRow
<1>5. Status(r) \in {"COMPLETED", "EXPIRED"} => run'[r] = run[r]
  <2> SUFFICES ASSUME Status(r) \in {"COMPLETED", "EXPIRED"} PROVE run'[r] = run[r]
    OBVIOUS
  <2>1. case = run[r].case
    BY AllTyped DEF CaseAfter
  <2>2. status = run[r].status /\ stage = run[r].stage
    BY <1>1
  <2> HIDE DEF case
  <2>3. run'[r] = [run[r] EXCEPT !.status = run[r].status, !.stage = run[r].stage,
                                 !.case = run[r].case]
    BY <1>3, <2>1, <2>2
  <2> QED
    BY <1>1, <2>3, SameRow
<1> HIDE DEF case
<1>6. DocOk(r)' /\ \A p \in Place \ {Publication} : run[r].stage[p] \in Done =>
                      run'[r].stage[p] = run[r].stage[p]
  BY <1>1, <1>2, <1>3, <1>4, RowStays DEF case
<1>7. Stays(r)
  BY <1>2, <1>5, <1>6 DEF Stays, Active
<1>8. \A q \in Run \ {r} : DocOk(q)' /\ Stays(q)
  BY <1>2, <1>3, DocKept
<1> QED
  BY <1>2, <1>6, <1>7, <1>8

LEMMA MarkedRow ==
    ASSUME NEW r, run[r].stage \in [Place -> StageStatus], NEW ps \in SUBSET Place,
           NEW mark \in StageStatus
    PROVE  /\ Marked(run[r].stage, All(ps, mark)) \in [Place -> StageStatus]
           /\ \A p \in Place : Marked(run[r].stage, All(ps, mark))[p] =
                IF p \in ps THEN mark ELSE run[r].stage[p]
BY AllTyped DEF Marked

Keeps == DocInv' /\ \A q \in Run : Stays(q)

LEMMA TablesStay ==
    ASSUME DocInv, UNCHANGED tables, DocWorker'
    PROVE  Keeps
<1>1. run' = run /\ journal' = journal /\ inbox' = inbox
  BY DEF tables
<1>2. \A q \in Run : DocOk(q)' /\ Stays(q)
  BY <1>1, DocKept
<1> QED
  BY <1>2 DEF Keeps, DocInv

\* The run being processed does not change while the worker does not act.
LEMMA WorkerStays ==
    ASSUME IInv, DocInv, worker' = worker,
           \A q \in Run : Status(q) = "PROCESSING" => run'[q] = run[q]
    PROVE  DocWorker'
<1> SUFFICES ASSUME worker.pc = "operate" \/ (worker.pc = "failed" /\ worker.at # Publication)
             PROVE  DocWorker'
  BY DEF DocWorker
<1>1. worker.cur \in Run /\ Status(worker.cur) = "PROCESSING"
  BY DEF IInv, WorkerInv, CurInv, Processes, DocInv, DocWorker
<1>2. run'[worker.cur] = run[worker.cur]
  BY <1>1
<1>3. Status(worker.cur)' = Status(worker.cur)
  BY <1>2 DEF Status, Exists
<1> QED
  BY <1>2, <1>3 DEF DocInv, DocWorker

LEMMA RequestsStay ==
    ASSUME IInv, DocInv,
           \/ \E s \in Session, r \in Run : AdmitSubmission(s, r) \/ AdmitRetry(s, r)
           \/ Refuse \/ \E r \in Run : Arrive(r)
    PROVE  Keeps
<1>1. UNCHANGED <<tables, worker>>
  BY DEF AdmitSubmission, AdmitRetry, Refuse, Arrive
<1>2. DocWorker'
  BY <1>1, WorkerStays DEF tables
<1> QED
  BY <1>1, <1>2, TablesStay

\* Steps of the worker that write no row.
LEMMA MemoryStays ==
    ASSUME Blips = {}, IInv, DocInv,
           \/ Connect \/ TakePending \/ SendAcked \/ SendInDoubt \/ Poll \/ Quarantine
           \/ CommitOffsets \/ TakeResumable \/ (\E r \in Run : BeginRun(r)) \/ EndPass
           \/ StepFails \/ Crash
    PROVE  Keeps
<1>1. UNCHANGED tables /\ worker \in Worker
  BY DEF Connect, TakePending, SendAcked, SendInDoubt, Poll, Quarantine, CommitOffsets,
         TakeResumable, BeginRun, EndPass, StepFails, Crash, IInv, TypeOK
<1>2. ASSUME worker'.pc \notin {"operate", "failed"} PROVE Keeps
  BY <1>1, <1>2, TablesStay DEF DocWorker
<1>3. CASE Connect \/ TakePending \/ SendAcked
  BY <1>1, <1>2, <1>3 DEF Connect, TakePending, SendAcked, Worker
<1>4. CASE SendInDoubt
  <2>1. worker'.pc = "failed" /\ worker'.at = Publication
    BY <1>1, <1>4 DEF SendInDoubt, Worker, IInv, WorkerInv, CurInv, Publishes
  <2> QED
    BY <1>1, <2>1, TablesStay DEF DocWorker
<1>5. CASE Poll
  BY <1>1, <1>2, <1>5 DEF Poll, Goto, Worker
<1>6. CASE Quarantine
  BY <1>1, <1>2, <1>6 DEF Quarantine, Worker
<1>7. CASE CommitOffsets \/ TakeResumable \/ (\E r \in Run : BeginRun(r)) \/ EndPass \/ Crash
  <2>1. CASE CommitOffsets \/ EndPass
    BY <1>1, <1>2, <2>1 DEF CommitOffsets, EndPass, Goto, Worker
  <2>2. CASE TakeResumable
    BY <1>1, <1>2, <2>2 DEF TakeResumable, Worker
  <2>3. CASE \E r \in Run : BeginRun(r)
    BY <1>1, <1>2, <2>3 DEF BeginRun, Worker
  <2>4. CASE Crash
    BY <1>1, <1>2, <2>4 DEF Crash
  <2> QED
    BY <1>7, <2>1, <2>2, <2>3, <2>4
<1>8. CASE StepFails
  <2>1. worker.pc = "operate" /\ worker' = [worker EXCEPT !.pc = "failed"]
    BY <1>8 DEF StepFails
  <2>2. worker'.pc = "failed" /\ worker'.cur = worker.cur /\ worker'.at = worker.at
    BY <1>1, <2>1 DEF Worker
  <2>3. run' = run
    BY <1>1 DEF tables
  <2>4. DocWorker'
    BY <2>1, <2>2, <2>3 DEF DocInv, DocWorker, Status, Exists
  <2> QED
    BY <1>1, <2>4, TablesStay
<1> QED
  BY <1>3, <1>4, <1>5, <1>6, <1>7, <1>8

LEMMA PublishingStays == ASSUME IInv, DocInv, NEW r \in Run, Publishing(r) PROVE Keeps
<1> DEFINE ps == {Publication}
           stage == Marked(run[r].stage, All(ps, "processing"))
<1>1. Status(r) = "WAITING" /\ worker \in Worker
  BY DEF Publishing, IInv, TypeOK, WorkerInv, TodoInv, Publishable
<1>2. TypeOK /\ Exists(r) /\ run[r].status = "WAITING" /\ run[r].stage \in [Place -> StageStatus]
  BY <1>1, NoRow, RowTyped DEF IInv, RunStatus
<1>3. DocOk(r) /\ r \notin inbox /\ run[r].stage[Ingestion] \notin Done
  BY <1>1, <1>2 DEF DocInv, DocOk
<1>4. ps \in SUBSET Place /\ "processing" \in StageStatus \ Done /\ "WAITING" \in RunStatus
  BY Numbers DEF RunStatus, StageStatus
<1>5. /\ stage \in [Place -> StageStatus]
      /\ \A p \in Place : stage[p] = IF p \in ps THEN "processing" ELSE run[r].stage[p]
  <2> HIDE DEF ps
  <2> QED
    BY <1>2, <1>4, MarkedRow
<1>6. Write(r, "WAITING", stage, All(ps, "processing")) /\ inbox' = inbox
  BY <1>2 DEF Publishing
<1> HIDE DEF stage
<1>7. Proper(r, stage, ps, "processing")
  BY <1>3, <1>4, <1>5, Numbers DEF Proper
<1>8. stage[Ingestion] \notin Done
  BY <1>3, <1>5, Numbers
<1> HIDE DEF ps
<1>9. \A q \in Run : DocOk(q)' /\ Stays(q)
  <2>1. /\ "WAITING" \in RunStatus /\ "processing" \in StageStatus
        /\ "WAITING" \notin {"AWAITING_REVIEW", "COMPLETED", "EXPIRED"}
        /\ "processing" \notin Done
    BY <1>4
  <2>2. /\ stage[Ingestion] \in Done <=> r \in inbox'
        /\ r \notin inbox'
    BY <1>3, <1>6, <1>8
  <2> QED
    BY <1>1, <1>2, <1>4, <1>5, <1>6, <1>7, <2>1, <2>2, DocWrite
<1>10. worker'.pc = "send"
  BY <1>1 DEF Publishing, Worker
<1> QED
  BY <1>9, <1>10 DEF Keeps, DocInv, DocWorker

LEMMA RecordStays ==
    ASSUME IInv, DocInv, worker.pc = "sent", RecordPublication(worker.cur),
           UNCHANGED <<inbox, deleted, kafka, admitted, budget>>,
           worker'.pc = "publish" \/ (worker'.pc = "failed" /\ worker'.at = worker.at)
    PROVE  Keeps
<1> SUFFICES ASSUME NEW r, r = worker.cur
             PROVE  Keeps
  OBVIOUS
<1> DEFINE ps == {Publication}
           stage == Marked(run[r].stage, All(ps, "completed"))
<1>1. r \in Run /\ Status(r) = "WAITING" /\ worker.at = Publication
  BY DEF IInv, WorkerInv, CurInv, Publishes
<1>2. TypeOK /\ Exists(r) /\ run[r].status = "WAITING" /\ run[r].stage \in [Place -> StageStatus]
  BY <1>1, NoRow, RowTyped DEF IInv, RunStatus
<1>3. DocOk(r) /\ r \notin inbox /\ run[r].stage[Ingestion] \notin Done /\ run[r].stage[1] \in Done
  BY <1>1, <1>2 DEF DocInv, DocOk
<1>4. ps \in SUBSET Place /\ "completed" \in StageStatus /\ "completed" \in Done
      /\ "WAITING" \in RunStatus
      /\ ps \cap Review = {}
  BY Numbers DEF RunStatus, StageStatus
<1>5. /\ stage \in [Place -> StageStatus]
      /\ \A p \in Place : stage[p] = IF p \in ps THEN "completed" ELSE run[r].stage[p]
  <2> HIDE DEF ps
  <2> QED
    BY <1>2, <1>4, MarkedRow
<1>6. Write(r, "WAITING", stage, All(ps, "completed")) /\ inbox' = inbox
  BY <1>2 DEF RecordPublication
<1> HIDE DEF stage
<1>7. Proper(r, stage, ps, "completed")
  BY <1>3, <1>4, <1>5, Numbers DEF Proper
<1>8. stage[Ingestion] \notin Done
  BY <1>3, <1>5, Numbers
<1> HIDE DEF ps
<1>9. \A q \in Run : DocOk(q)' /\ Stays(q)
  <2>1. "WAITING" \notin {"AWAITING_REVIEW", "COMPLETED", "EXPIRED"}
    OBVIOUS
  <2>2. /\ stage[Ingestion] \in Done <=> r \in inbox'
        /\ r \notin inbox'
    BY <1>3, <1>6, <1>8
  <2> QED
    BY <1>1, <1>2, <1>4, <1>5, <1>6, <1>7, <2>1, <2>2, DocWrite
<1> QED
  BY <1>1, <1>9 DEF Keeps, DocInv, DocWorker

LEMMA PublishedStays == ASSUME IInv, DocInv, Published \/ PublishedInDoubt PROVE Keeps
<1>1. worker.pc = "sent" /\ worker \in Worker /\ worker.at = Publication
  BY DEF Published, PublishedInDoubt, IInv, TypeOK, WorkerInv, CurInv, Publishes
<1>2. CASE Published
  BY <1>1, <1>2, RecordStays DEF Published, Goto, Worker
<1>3. CASE PublishedInDoubt
  <2>1. worker'.pc = "failed" /\ worker'.at = worker.at
    BY <1>1, <1>3 DEF PublishedInDoubt, Worker
  <2>2. CASE RecordPublication(worker.cur)
    BY <1>1, <1>3, <2>1, <2>2, RecordStays DEF PublishedInDoubt
  <2>3. CASE UNCHANGED <<run, journal, outbox>>
    BY <1>1, <1>3, <2>1, <2>3, TablesStay DEF PublishedInDoubt, DocWorker, tables
  <2> QED
    BY <1>3, <2>2, <2>3 DEF PublishedInDoubt
<1> QED
  BY <1>2, <1>3

LEMMA FailStays == ASSUME IInv, DocInv, Fail PROVE Keeps
<1> SUFFICES ASSUME NEW r, r = worker.cur, NEW at, at = worker.at
             PROVE  Keeps
  OBVIOUS
<1> DEFINE ps == {at}
           stage == FailedStages(run[r].stage, at)
<1>1. /\ worker.pc = "failed" /\ r \in Run /\ at \in Place /\ TypeOK /\ inbox' = inbox
      /\ at = Publication => Status(r) = "WAITING"
      /\ at # Publication => at \in Work /\ Status(r) = "PROCESSING" /\ run[r].stage[at] \notin Done
  BY WorkerTyped
     DEF Fail, IInv, WorkerInv, CurInv, Publishes, Processes, DocInv, DocWorker
<1>2. /\ Exists(r) /\ run[r].stage \in [Place -> StageStatus] /\ run[r].status = Status(r)
  BY <1>1, NoRow, RowTyped DEF RunStatus
<1>3. /\ Write(r, "FAILED", stage, All(ps, "failed"))
      /\ Goto(IF at = Publication THEN "publish" ELSE "process")
  BY <1>2 DEF Fail
<1>4. DocOk(r) /\ (at = Publication => r \notin inbox)
      /\ (run[r].stage[Ingestion] \in Done <=> r \in inbox)
  BY <1>1, <1>2 DEF DocInv, DocOk
<1>5. ps \in SUBSET Place /\ "failed" \in StageStatus /\ "failed" \notin Done /\ "FAILED" \in RunStatus
  BY <1>1, Numbers DEF RunStatus, StageStatus
<1>6. /\ stage \in [Place -> StageStatus] /\ stage[at] = "failed"
      /\ \A p \in Place \ {at} : \/ stage[p] = run[r].stage[p]
                                 \/ stage[p] = "blocked" /\ run[r].stage[p] = "waiting"
  BY <1>1, <1>2, DocumentTyped DEF FailedStages
<1> HIDE DEF stage
<1>7. Proper(r, stage, ps, "failed")
  BY <1>1, <1>4, <1>5, <1>6, Numbers DEF Proper
<1>8. stage[Ingestion] \in Done <=> r \in inbox'
  BY <1>1, <1>4, <1>6, Numbers
<1> HIDE DEF ps
<1>9. \A q \in Run : DocOk(q)' /\ Stays(q)
  <2>1. "FAILED" \notin {"WAITING", "PROCESSING", "AWAITING_REVIEW"}
        /\ Status(r) \notin {"COMPLETED", "EXPIRED"}
    BY <1>1
  <2> QED
    BY <1>1, <1>2, <1>3, <1>5, <1>6, <1>7, <1>8, <2>1, DocWrite
<1>10. worker'.pc \in {"publish", "process"}
  BY <1>1, <1>3 DEF TypeOK, Worker, Goto
<1> QED
  BY <1>9, <1>10 DEF Keeps, DocInv, DocWorker

LEMMA ReceiveStays == ASSUME IInv, DocInv, Receive PROVE Keeps
<1> SUFFICES ASSUME NEW r, r = Polled
             PROVE  Keeps
  OBVIOUS
<1> DEFINE known == r \in inbox
           proved == run[r].stage[Publication] # "completed"
           ps == (IF proved THEN {Publication} ELSE {}) \cup (IF known THEN {} ELSE {Ingestion})
           before == IF proved THEN UnblockedStages(run[r].stage) ELSE run[r].stage
           stage == Marked(before, All(ps, "completed"))
           status == IF known THEN run[r].status ELSE "PROCESSING"
<1>1. /\ worker.pc = "ingest" /\ worker.next < worker.upto /\ Exists(r)
      /\ Write(r, status, stage, All(ps, "completed"))
      /\ inbox' = inbox \cup {r}
      /\ worker' = [worker EXCEPT !.next = @ + 1]
  BY DEF Receive, Ingest
<1>2. TypeOK /\ worker.next \in Nat /\ worker.upto \in Nat /\ worker.upto <= Len(topic)
  BY <1>1, WorkerTyped DEF IInv, WorkerInv, PollInv
<1>3. r \in Run
  <2>1. topic \in Seq(Run) /\ Len(topic) \in Nat
    BY <1>2 DEF TypeOK
  <2> QED
    BY <1>1, <1>2, <2>1 DEF Polled
<1>4. run[r].stage \in [Place -> StageStatus] /\ run[r].status = Status(r) /\ Status(r) \in RunStatus
  BY <1>1, <1>2, <1>3, RowTyped
<1>5. DocOk(r) /\ RunOk(r)
  BY <1>3 DEF DocInv, IInv, RunInv
<1>6. /\ known <=> run[r].stage[Ingestion] \in Done
      /\ known => run[r].stage[Publication] \in Done
      /\ run[r].stage[1] \in Done /\ run[r].stage[Publication] # "abstained"
      /\ known => Status(r) # "WAITING"
      /\ Status(r) \notin {"WAITING", "FAILED"} => known
  BY <1>1, <1>5, Numbers DEF DocOk, RunOk
<1>7. known => ~proved
  BY <1>6, Numbers
<1>8. /\ ps \in SUBSET Place /\ ps \cap Review = {} /\ ps \subseteq {Publication, Ingestion}
      /\ known => ps = {}
      /\ ~known => Ingestion \in ps
      /\ Publication \in ps \/ run[r].stage[Publication] \in Done
      /\ "completed" \in StageStatus /\ "completed" \in Done /\ status \in RunStatus
  BY <1>4, <1>7, Numbers DEF RunStatus
<1>9. /\ before \in [Place -> StageStatus]
      /\ known => before = run[r].stage
      /\ \A p \in Place : \/ before[p] = run[r].stage[p]
                          \/ before[p] = "waiting" /\ run[r].stage[p] = "blocked"
  BY <1>4, <1>7, DocumentTyped, Places DEF UnblockedStages
<1> HIDE DEF ps, before
<1>10. /\ stage \in [Place -> StageStatus]
       /\ \A p \in Place : stage[p] = IF p \in ps THEN "completed" ELSE before[p]
  BY <1>8, <1>9, MarkedTyped
<1>11. known => stage = run[r].stage
  BY <1>4, <1>8, <1>9, <1>10
<1> HIDE DEF stage
<1>12. Proper(r, stage, ps, "completed")
  <2>1. \A p \in ps : stage[p] = "completed"
    BY <1>8, <1>10
  <2>2. \A p \in Place \ ps : \/ stage[p] = run[r].stage[p]
                              \/ stage[p] \notin Done /\ run[r].stage[p] \notin Done
    BY <1>9, <1>10, Numbers
  <2>3. \A p \in ps \ {Publication} : run[r].stage[p] \notin Done
    BY <1>6, <1>8
  <2>4. \A p \in ps, q \in Place : q < p => q \in ps \/ run[r].stage[q] \in Done
    BY <1>6, <1>8, Numbers
  <2> QED
    BY <1>8, <2>1, <2>2, <2>3, <2>4 DEF Proper
<1>13. stage[Ingestion] \in Done <=> r \in inbox'
  BY <1>1, <1>6, <1>8, <1>10, <1>11, Numbers
<1>14. /\ status # "WAITING"
       /\ status = "AWAITING_REVIEW" => stage[Agent] \in Done
       /\ status # "COMPLETED" => Status(r) # "COMPLETED"
       /\ status \in {"WAITING", "PROCESSING"} => Status(r) \in {"WAITING", "PROCESSING", "FAILED"}
       /\ Status(r) \in {"COMPLETED", "EXPIRED"} =>
            status = Status(r) /\ stage = run[r].stage /\ ps = {}
  BY <1>1, <1>4, <1>5, <1>6, <1>8, <1>11 DEF DocOk
<1> HIDE DEF status
<1>15. \A q \in Run : DocOk(q)' /\ Stays(q)
  BY <1>1, <1>3, <1>8, <1>10, <1>12, <1>13, <1>14, DocWrite
<1>16. worker'.pc = "ingest"
  BY <1>1, <1>2 DEF TypeOK, Worker
<1> QED
  BY <1>15, <1>16 DEF Keeps, DocInv, DocWorker

LEMMA FirstUndoneIs ==
    ASSUME NEW stage, stage[Agent] \notin Done
    PROVE  /\ FirstUndone(stage) \in Work /\ stage[FirstUndone(stage)] \notin Done
           /\ \A q \in Work : q < FirstUndone(stage) => stage[q] \in Done
<1> DEFINE Is(p) == stage[p] \notin Done /\ \A q \in Work : q < p => stage[q] \in Done
<1>1. \E p \in Work : Is(p)
  BY DEF Work, Agent
<1> HIDE DEF Is
<1>2. FirstUndone(stage) = CHOOSE p \in Work : Is(p)
  BY DEF FirstUndone, Is
<1>3. FirstUndone(stage) \in Work /\ Is(FirstUndone(stage))
  BY <1>1, <1>2
<1> QED
  BY <1>3 DEF Is

LEMMA StartStays == ASSUME IInv, DocInv, StartStage PROVE Keeps
<1> SUFFICES ASSUME NEW r, r = worker.cur, NEW p, p = FirstUndone(run[r].stage)
             PROVE  Keeps
  OBVIOUS
<1> DEFINE ps == {p}
           stage == Marked(run[r].stage, All(ps, "processing"))
<1>1. /\ worker.pc = "stage"
      /\ Write(r, run[r].status, stage, All(ps, "processing"))
      /\ worker' = [worker EXCEPT !.pc = "operate", !.at = p]
      /\ inbox' = inbox
  BY DEF StartStage
<1>2. /\ TypeOK /\ r \in Run /\ Status(r) = "PROCESSING"
  BY <1>1 DEF IInv, WorkerInv, CurInv, Processes, Processable
<1>3. Exists(r) /\ run[r].status = "PROCESSING" /\ run[r].stage \in [Place -> StageStatus]
  BY <1>2, NoRow, RowTyped DEF RunStatus
<1>4. /\ DocOk(r) /\ run[r].stage[Agent] \notin Done /\ r \in inbox
  BY <1>2, <1>3 DEF DocInv, IInv, RunInv, RunOk
<1>5. /\ p \in Work /\ p \in Place /\ p # Publication /\ p # Ingestion /\ run[r].stage[p] \notin Done
      /\ \A q \in Work : q < p => run[r].stage[q] \in Done
  BY <1>4, FirstUndoneIs, Places
<1>6. \A q \in Place : q < p => run[r].stage[q] \in Done
  <2>1. run[r].stage[1] \in Done /\ run[r].stage[2] \in Done /\ run[r].stage[3] \in Done
    BY <1>3, <1>4, Numbers DEF DocOk
  <2> QED
    BY <1>5, <2>1, Numbers
<1>7. ps \in SUBSET Place /\ "processing" \in StageStatus /\ "processing" \notin Done
      /\ "PROCESSING" \in RunStatus
  BY <1>5, Numbers DEF RunStatus
<1>8. /\ stage \in [Place -> StageStatus]
      /\ \A q \in Place : stage[q] = IF q \in ps THEN "processing" ELSE run[r].stage[q]
  <2> HIDE DEF ps
  <2> QED
    BY <1>3, <1>7, MarkedRow
<1> HIDE DEF stage
<1>9. Proper(r, stage, ps, "processing")
  BY <1>5, <1>7, <1>8, Numbers DEF Proper
<1>10. stage[Ingestion] \in Done <=> r \in inbox'
  <2>1. run[r].stage[Ingestion] \in Done
    BY <1>3, <1>4 DEF DocOk
  <2>2. Ingestion \in Place /\ Ingestion \notin ps
    BY <1>5, Places
  <2>3. stage[Ingestion] = run[r].stage[Ingestion]
    BY <1>8, <2>2
  <2> QED
    BY <1>1, <1>4, <2>1, <2>3
<1>11. stage[p] \notin Done /\ \A q \in Place : q < p => stage[q] \in Done
  BY <1>5, <1>6, <1>7, <1>8, Numbers
<1> HIDE DEF ps
<1>12. (\A q \in Run : DocOk(q)' /\ Stays(q)) /\ Status(r)' = "PROCESSING" /\ run'[r].stage = stage
  <2>1. "PROCESSING" \notin {"WAITING", "AWAITING_REVIEW", "COMPLETED", "EXPIRED"}
        /\ Write(r, "PROCESSING", stage, All(ps, "processing"))
    BY <1>1, <1>3
  <2> QED
    BY <1>1, <1>2, <1>3, <1>7, <1>8, <1>9, <1>10, <2>1, DocWrite
<1>13. worker'.pc = "operate" /\ worker'.cur = r /\ worker'.at = p
  BY <1>1, <1>2 DEF TypeOK, Worker
<1> QED
  BY <1>11, <1>12, <1>13 DEF Keeps, DocInv, DocWorker

LEMMA FinishStays == ASSUME Blips = {}, IInv, DocInv, FinishStage PROVE Keeps
<1> SUFFICES ASSUME NEW r, r = worker.cur, NEW at, at = worker.at
             PROVE  Keeps
  OBVIOUS
<1> DEFINE ps == {at}
           status == IF at = Agent THEN "AWAITING_REVIEW" ELSE run[r].status
<1>1. PICK outcome \in (IF at = Agent THEN Done ELSE {"completed"}) :
        Write(r, status, Marked(run[r].stage, All(ps, outcome)), All(ps, outcome))
  BY DEF FinishStage
<1> DEFINE stage == Marked(run[r].stage, All(ps, outcome))
<1>2. /\ worker.pc = "operate" /\ TypeOK /\ r \in Run /\ Status(r) = "PROCESSING" /\ at \in Work
      /\ inbox' = inbox
      /\ run[r].stage[at] \notin Done
      /\ \A q \in Place : q < at => run[r].stage[q] \in Done
  BY DEF FinishStage, IInv, WorkerInv, CurInv, Processes, Processable, DocInv, DocWorker
<1>3. Exists(r) /\ run[r].status = "PROCESSING" /\ run[r].stage \in [Place -> StageStatus]
  BY <1>2, NoRow, RowTyped DEF RunStatus
<1>4. DocOk(r) /\ r \in inbox
  BY <1>2, <1>3 DEF DocInv, IInv, RunInv, RunOk
<1>5. /\ ps \in SUBSET Place /\ ps \cap Review = {} /\ Publication \notin ps
      /\ outcome \in StageStatus /\ outcome \in Done /\ status \in RunStatus
      /\ status = IF at = Agent THEN "AWAITING_REVIEW" ELSE "PROCESSING"
  BY <1>2, <1>3, Numbers DEF RunStatus
<1>6. /\ stage \in [Place -> StageStatus]
      /\ \A q \in Place : stage[q] = IF q \in ps THEN outcome ELSE run[r].stage[q]
  <2> HIDE DEF ps
  <2> QED
    BY <1>3, <1>5, MarkedRow
<1>7. Write(r, status, stage, All(ps, outcome))
  BY <1>1
<1> HIDE DEF stage, status
<1>8. Proper(r, stage, ps, outcome)
  BY <1>2, <1>5, <1>6, Numbers DEF Proper
<1>9. stage[Ingestion] \in Done <=> r \in inbox'
  <2>1. run[r].stage[Ingestion] \in Done
    BY <1>3, <1>4 DEF DocOk
  <2>2. Ingestion \in Place /\ Ingestion \notin ps
    BY <1>2, Places
  <2>3. stage[Ingestion] = run[r].stage[Ingestion]
    BY <1>6, <2>2
  <2> QED
    BY <1>2, <1>4, <2>1, <2>3
<1>10. status = "AWAITING_REVIEW" => stage[Agent] \in Done
  BY <1>5, <1>6, Numbers
<1> HIDE DEF ps
<1>11. \A q \in Run : DocOk(q)' /\ Stays(q)
  <2>1. status \notin {"WAITING", "COMPLETED"}
        /\ Status(r) \notin {"COMPLETED", "EXPIRED"}
        /\ Status(r) \in {"WAITING", "PROCESSING", "FAILED"}
    BY <1>2, <1>5
  <2> QED
    BY <1>2, <1>3, <1>5, <1>6, <1>7, <1>8, <1>9, <1>10, <2>1, DocWrite
<1>12. worker'.pc \in {"process", "stage"}
  BY <1>2 DEF FinishStage, Goto, TypeOK, Worker
<1> QED
  BY <1>11, <1>12 DEF Keeps, DocInv, DocWorker

LEMMA CreateStays == ASSUME IInv, DocInv, CreateRun PROVE Keeps
<1> SUFFICES ASSUME NEW r, r = admitted.run
             PROVE  Keeps
  OBVIOUS
<1> DEFINE row == [owner |-> admitted.session, status |-> "WAITING",
                   stage |-> NewStages, version |-> 0, case |-> "none"]
<1>1. admitted \in Request /\ r \in Run /\ admitted.session \in Session
  BY NoneAssumption DEF CreateRun, IInv, TypeOK, Request
<1>2. ~Exists(r) /\ r \notin inbox
  BY <1>1 DEF CreateRun, IInv, AdmitInv, RunInv, RunOk
<1>3. /\ run \in [Run -> RunRow \cup {None}] /\ journal \in [Run -> JournalOf]
      /\ run' = [run EXCEPT ![r] = row]
      /\ journal' = [journal EXCEPT ![r] = Journaled(NoEntries, All({1}, "completed"))]
      /\ worker' = worker /\ inbox' = inbox
  BY DEF CreateRun, IInv, TypeOK
<1>4. /\ run'[r] = row /\ journal'[r] = Journaled(NoEntries, All({1}, "completed"))
      /\ \A q \in Run \ {r} : run'[q] = run[q] /\ journal'[q] = journal[q]
  BY <1>1, <1>3
<1>5. /\ run'[r].stage = NewStages /\ run'[r].status = "WAITING" /\ run'[r].case = "none"
      /\ run'[r] # None
  <2>1. row \in RunRow
    BY <1>1, NewTyped DEF RunRow, RunStatus, CaseRow
  <2> QED
    BY <1>4, <2>1, NoneAssumption
<1> HIDE DEF row
<1>6. Exists(r)' /\ Status(r)' = "WAITING"
  BY <1>5 DEF Exists, Status
<1>7. /\ \A p \in Place : NewStages[p] = IF p = 1 THEN "completed" ELSE "waiting"
      /\ \A p \in Place : NewStages[p] \in Done <=> p = 1
  BY Numbers DEF NewStages
<1>8. Verified(r)'
  <2>1. /\ DOMAIN All({1}, "completed") = {1} /\ All({1}, "completed")[1] = "completed"
        /\ NoEntries.latest = [p \in Place |-> None] /\ NoEntries.committed = {}
    BY AllTyped DEF NoEntries
  <2>2. /\ journal'[r].latest = [p \in Place |-> IF p \in {1} THEN "completed" ELSE None]
        /\ journal'[r].committed = {1}
    <3> DEFINE entries == All({1}, "completed")
    <3>1. /\ journal'[r].latest =
               [p \in Place |-> IF p \in DOMAIN entries THEN entries[p] ELSE NoEntries.latest[p]]
          /\ journal'[r].committed =
               NoEntries.committed \cup {p \in DOMAIN entries : entries[p] \in Done}
      BY <1>4 DEF Journaled
    <3> HIDE DEF entries
    <3>2. DOMAIN entries = {1} /\ entries[1] = "completed" /\ "completed" \in Done
      BY <2>1, Numbers DEF entries
    <3> QED
      BY <2>1, <3>1, <3>2
  <2>3. None \notin Done
    BY NoneAssumption, Numbers
  <2> QED
    BY <1>5, <1>7, <2>2, <2>3 DEF Verified
<1>9. DocOk(r)'
  BY <1>2, <1>3, <1>5, <1>6, <1>7, <1>8, Numbers DEF DocOk
<1>10. \A q \in Run : DocOk(q)' /\ Stays(q)
  <2>1. \A q \in Run \ {r} : DocOk(q)' /\ Stays(q)
    BY <1>3, <1>4, DocKept
  <2> QED
    BY <1>2, <1>9, <2>1 DEF Stays
<1>11. DocWorker'
  <2>1. \A q \in Run : Status(q) = "PROCESSING" => run'[q] = run[q]
    BY <1>2, <1>4, NoRow DEF RunStatus
  <2> QED
    BY <1>3, <2>1, WorkerStays
<1> QED
  BY <1>10, <1>11 DEF Keeps, DocInv

LEMMA RetryStays == ASSUME IInv, DocInv, RetryRun PROVE Keeps
<1> SUFFICES ASSUME NEW r, r = admitted.run
             PROVE  Keeps
  OBVIOUS
<1> DEFINE status == IF r \in inbox THEN "PROCESSING" ELSE "WAITING"
           stage == RetriedStages(run[r].stage)
           ps == {}
<1>1. admitted \in Request /\ r \in Run /\ TypeOK
  BY NoneAssumption DEF RetryRun, IInv, TypeOK, Request
<1>2. Status(r) = "FAILED" /\ Exists(r)
  BY NoRow DEF RetryRun, RunStatus
<1>3. run[r].stage \in [Place -> StageStatus] /\ DocOk(r)
  BY <1>1, <1>2, RowTyped DEF DocInv
<1>4. /\ stage \in [Place -> StageStatus]
      /\ \A p \in Place : \/ stage[p] = run[r].stage[p]
                          \/ stage[p] = "waiting" /\ run[r].stage[p] \in {"failed", "blocked"}
  BY <1>3, DocumentTyped, Places DEF RetriedStages
<1>5. Write(r, status, stage, All(ps, "waiting")) /\ inbox' = inbox /\ worker' = worker
  BY DEF RetryRun
<1>6. /\ status \in RunStatus /\ "waiting" \in StageStatus /\ "waiting" \notin Done
      /\ ps \in SUBSET Place
      /\ status \notin {"AWAITING_REVIEW", "COMPLETED"}
      /\ status = "WAITING" => r \notin inbox'
  BY <1>5, Numbers DEF RunStatus
<1> HIDE DEF stage, status
<1>7. Proper(r, stage, ps, "waiting")
  BY <1>4, <1>6, Numbers DEF Proper
<1>8. stage[Ingestion] \in Done <=> r \in inbox'
  BY <1>2, <1>3, <1>4, <1>5, Numbers DEF DocOk
<1> HIDE DEF ps
<1>9. (\A q \in Run : DocOk(q)' /\ Stays(q)) /\ \A q \in Run \ {r} : run'[q] = run[q]
  BY <1>1, <1>2, <1>4, <1>5, <1>6, <1>7, <1>8, DocWrite
<1>10. DocWorker'
  BY <1>2, <1>5, <1>9, WorkerStays
<1> QED
  BY <1>9, <1>10 DEF Keeps, DocInv

\* A decision or the retention marks the stages of the review.
LEMMA ReviewStays ==
    ASSUME IInv, DocInv, NEW r \in Run, Status(r) = "AWAITING_REVIEW", Exists(r), Exists(r)',
           NEW mark \in {"completed", "blocked"},
           run'[r].stage = Marked(run[r].stage, All(Review, mark)),
           run'[r].case = run[r].case,
           journal'[r] = Journaled(journal[r], All(Review, mark)),
           r \in inbox' <=> r \in inbox,
           Status(r)' = IF mark = "completed" THEN "COMPLETED" ELSE "EXPIRED"
    PROVE  DocOk(r)' /\ Stays(r)
<1>1. TypeOK /\ run[r].stage \in [Place -> StageStatus] /\ DocOk(r)
  BY RowTyped DEF IInv, DocInv
<1>2. Review \in SUBSET Place /\ mark \in StageStatus /\ mark # "abstained"
      /\ (mark \in Done <=> mark = "completed")
      /\ Publication \notin Review /\ CaseStage \notin Review
  BY Numbers
<1>3. \A p \in Place : run'[r].stage[p] = IF p \in Review THEN mark ELSE run[r].stage[p]
  BY <1>1, <1>2, MarkedRow
<1>4. \A q \in Place : q \notin Review => run[r].stage[q] \in Done
  BY <1>1, Numbers DEF DocOk
<1>5. \A q \in Review : run[r].stage[q] \notin Done
  BY <1>1 DEF DocOk
<1>6. Proper(r, run'[r].stage, Review, mark)
  BY <1>2, <1>3, <1>4, <1>5 DEF Proper
<1>7. run'[r].case = CaseAfter(run[r].case, All(Review, mark))
  BY <1>2, AllTyped DEF CaseAfter
<1>8. run'[r].stage[Ingestion] \in Done <=> r \in inbox'
  BY <1>1, <1>3, Numbers DEF DocOk
<1>9. /\ Status(r)' \notin {"WAITING", "PROCESSING", "AWAITING_REVIEW"}
      /\ Status(r)' # "COMPLETED" => mark \notin Done
  BY <1>2
<1>10. DocOk(r)' /\ \A p \in Place \ {Publication} : run[r].stage[p] \in Done =>
                        run'[r].stage[p] = run[r].stage[p]
  BY <1>1, <1>2, <1>6, <1>7, <1>8, <1>9, RowStays
<1> QED
  BY <1>9, <1>10 DEF Stays, Active

LEMMA DecideStays == ASSUME IInv, DocInv, NEW r \in Run, Decide(r) PROVE Keeps
<1> DEFINE stage == Marked(run[r].stage, All(Review, "completed"))
           row == [run[r] EXCEPT !.status = "COMPLETED", !.version = @ + 1, !.stage = stage]
<1>1. Status(r) = "AWAITING_REVIEW" /\ Exists(r) /\ TypeOK
  BY NoRow DEF Decide, RunStatus, IInv
<1>2. run[r] \in RunRow /\ run[r].stage \in [Place -> StageStatus]
      /\ run \in [Run -> RunRow \cup {None}] /\ journal \in [Run -> JournalOf]
  BY <1>1, RowTyped DEF TypeOK
<1>3. /\ run'[r] = row /\ journal'[r] = Journaled(journal[r], All(Review, "completed"))
      /\ \A q \in Run \ {r} : run'[q] = run[q] /\ journal'[q] = journal[q]
      /\ inbox' = inbox /\ worker' = worker
  BY <1>2 DEF Decide
<1>4. stage \in [Place -> StageStatus]
  <2>1. Review \in SUBSET Place /\ "completed" \in StageStatus
    BY Numbers
  <2> QED
    BY <1>2, <2>1, MarkedRow
<1> HIDE DEF stage
<1>5. /\ row \in RunRow /\ row.status = "COMPLETED" /\ row.stage = stage
      /\ row.case = run[r].case
  <2>1. run[r].version + 1 \in Nat
    BY <1>2 DEF RunRow
  <2> QED
    BY <1>2, <1>4, <2>1 DEF RunRow, RunStatus
<1> HIDE DEF row
<1>6. Exists(r)' /\ Status(r)' = "COMPLETED"
  BY <1>3, <1>5, NoneAssumption DEF Exists, Status
<1>7. DocOk(r)' /\ Stays(r)
  BY <1>1, <1>3, <1>5, <1>6, ReviewStays DEF stage
<1>8. \A q \in Run \ {r} : DocOk(q)' /\ Stays(q)
  BY <1>3, DocKept
<1>9. DocWorker'
  BY <1>1, <1>3, WorkerStays
<1> QED
  BY <1>7, <1>8, <1>9 DEF Keeps, DocInv

LEMMA CleanupStays ==
    ASSUME IInv, DocInv, NEW idle \in SUBSET Run, NEW old \in SUBSET Run, Cleanup(idle, old)
    PROVE  Keeps
<1> DEFINE entries == All(Review, "blocked")
           stage(r) == Marked(run[r].stage, entries)
           expired(r) == [run[r] EXCEPT !.status = "EXPIRED", !.stage = stage(r)]
<1>1. TypeOK
  BY DEF IInv
<1>2. ASSUME NEW r \in idle
      PROVE  /\ Exists(r) /\ Status(r) = "AWAITING_REVIEW"
             /\ expired(r) \in RunRow /\ expired(r).status = "EXPIRED"
             /\ expired(r).stage = stage(r) /\ expired(r).case = run[r].case
  <2>1. Exists(r) /\ Status(r) = "AWAITING_REVIEW"
    BY <1>2, NoRow DEF Cleanup, RunStatus
  <2>2. run[r] \in RunRow /\ run[r].stage \in [Place -> StageStatus]
    BY <1>1, <2>1, RowTyped
  <2>3. stage(r) \in [Place -> StageStatus]
    <3>1. Review \in SUBSET Place /\ "blocked" \in StageStatus
      BY Numbers
    <3> QED
      BY <2>2, <3>1, MarkedRow
  <2> HIDE DEF stage
  <2> QED
    BY <2>1, <2>2, <2>3 DEF RunRow, RunStatus
<1>3. \A r \in old : Status(r) \in {"COMPLETED", "FAILED", "EXPIRED"}
  BY DEF Cleanup
<1>4. /\ run' = [r \in Run |-> IF r \in old THEN None
                               ELSE IF r \in idle THEN expired(r) ELSE run[r]]
      /\ inbox' = inbox \ old
      /\ journal' = [r \in Run |-> IF r \in old THEN NoEntries
                                   ELSE IF r \in idle THEN Journaled(journal[r], entries)
                                   ELSE journal[r]]
      /\ worker' = worker
  BY DEF Cleanup
<1> HIDE DEF stage, expired, entries
<1>5. ASSUME NEW r \in old PROVE DocOk(r)' /\ Stays(r)
  <2>1. ~Exists(r)'
    BY <1>4, <1>5 DEF Exists
  <2> QED
    BY <2>1 DEF DocOk, Stays
<1>6. ASSUME NEW r \in idle \ old PROVE DocOk(r)' /\ Stays(r)
  <2>1. run'[r] = expired(r) /\ journal'[r] = Journaled(journal[r], entries)
        /\ (r \in inbox' <=> r \in inbox)
    BY <1>4, <1>6
  <2>2. Exists(r)' /\ Status(r)' = "EXPIRED" /\ Exists(r) /\ Status(r) = "AWAITING_REVIEW"
        /\ run'[r].stage = stage(r) /\ run'[r].case = run[r].case
    BY <1>2, <1>6, <2>1, NoneAssumption DEF Exists, Status
  <2> QED
    BY <2>1, <2>2, ReviewStays DEF stage, entries
<1>7. ASSUME NEW r \in Run \ (idle \cup old) PROVE DocOk(r)' /\ Stays(r) /\ run'[r] = run[r]
  <2>1. run'[r] = run[r] /\ journal'[r] = journal[r] /\ (r \in inbox' <=> r \in inbox)
    BY <1>4, <1>7
  <2> QED
    BY <2>1, DocKept
<1>8. DocWorker'
  <2>1. \A q \in Run : Status(q) = "PROCESSING" => run'[q] = run[q]
    BY <1>2, <1>3, <1>7
  <2> QED
    BY <1>4, <2>1, WorkerStays
<1> QED
  BY <1>5, <1>6, <1>7, <1>8 DEF Keeps, DocInv

LEMMA InitDoc == Init => DocInv
BY DEF Init, DocInv, DocOk, DocWorker, Exists

LEMMA NextDoc == ASSUME Blips = {}, IInv, DocInv, [Next]_vars PROVE Keeps
<1>1. CASE WorkerStep
  BY <1>1, MemoryStays, PublishingStays, PublishedStays, FailStays, ReceiveStays, StartStays,
     FinishStays DEF WorkerStep
<1>2. CASE VisitorStep
  BY <1>2, RequestsStay, CreateStays, RetryStays, DecideStays DEF VisitorStep
<1>3. CASE \E r \in Run : Arrive(r)
  BY <1>3, RequestsStay
<1>4. CASE \E idle, old \in SUBSET Run : Cleanup(idle, old)
  BY <1>4, CleanupStays
<1>5. CASE Crash
  BY <1>5, MemoryStays
<1>6. CASE UNCHANGED vars
  <2>1. UNCHANGED tables /\ worker' = worker /\ run' = run
    BY <1>6 DEF vars, tables
  <2> QED
    BY <2>1, TablesStay, WorkerStays
<1> QED
  BY <1>1, <1>2, <1>3, <1>4, <1>5, <1>6 DEF Next

\* The rows of the demo, their journal and the worker's memory agree in every
\* behaviour in which it takes nothing for failed that was finished.
THEOREM Documents ==
    ASSUME Blips = {}
    PROVE  Spec => []DocInv
<1>1. IInv /\ DocInv /\ [Next]_vars => DocInv'
  BY NextDoc DEF Keeps
<1> QED
  BY <1>1, InitDoc, Inductive, PTL DEF Spec

\* Whatever crashed, was retried, delivered twice or expired on the way, the run
\* shown agrees with its journal and its case (DemoStore.verify), when the worker
\* never takes a stage for failed that was finished.
THEOREM Journal ==
    ASSUME Blips = {}
    PROVE  Spec => []JournalAccounts
<1>1. DocInv => JournalAccounts
  BY DEF DocInv, DocOk, JournalAccounts
<1> QED
  BY <1>1, Documents, PTL

\* A stage is done only when every stage before it is, for any number of runs
\* that are published, resumed and retried side by side (DemoJourneyWorker.process).
THEOREM Stages ==
    ASSUME Blips = {}
    PROVE  Spec => []StagesInOrder
<1>1. DocInv => StagesInOrder
  BY DEF DocInv, DocOk, StagesInOrder
<1> QED
  BY <1>1, Documents, PTL

\* What a run has reached stays, apart from a publication that is made again, and
\* only a failed run becomes active (DemoStore.retry, DemoJourneyWorker.publish).
THEOREM Progress ==
    ASSUME Blips = {}
    PROVE  Spec => NeverUndone
<1>1. IInv /\ DocInv /\ [Next]_vars =>
        [\A r \in Run : Exists(r) /\ Exists(r)' =>
           /\ \A p \in Place \ {Publication} : run[r].stage[p] \in Done =>
                run'[r].stage[p] = run[r].stage[p]
           /\ Active(r)' => Status(r) \in {"WAITING", "PROCESSING", "FAILED"}
           /\ Status(r) \in {"COMPLETED", "EXPIRED"} => run'[r] = run[r]]_vars
  BY NextDoc DEF Keeps, Stays
<1> QED
  BY <1>1, Documents, Inductive, PTL DEF Spec, NeverUndone

=============================================================================
