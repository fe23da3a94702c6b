---------------------------- MODULE DemoJourney ----------------------------
(***************************************************************************)
(* The demo journey of the Java control plane: DemoStore (the PostgreSQL   *)
(* tables), DemoJourneyWorker (outbox -> Kafka -> inbox -> stages) and     *)
(* DemoPublicAccess (capacity, retries and retention of visitors' runs).   *)
(*                                                                         *)
(* An action is one transaction of DemoStore, one call to Kafka, or one    *)
(* step between them that reads what a later step uses.  Every transaction *)
(* locks its run's row, so it is one step; what the worker remembers       *)
(* between two of them is in `worker' and is lost in a crash.              *)
(*                                                                         *)
(* Left out: the content of evidence and hashes; the request quotas, which *)
(* only refuse; replays of a submission or a decision already made, which  *)
(* change nothing; which decision the reviewer takes; and time: whatever   *)
(* waits for hours may happen whenever its other conditions hold.          *)
(***************************************************************************)
EXTENDS Naturals, Sequences, FiniteSets

CONSTANTS
  Run,              \* correlation ids
  Session,          \* visitors' sessions
  None,
  Concurrent, GlobalConcurrent,  \* limits on runs that hold a slot
  Retained, GlobalRetained,      \* limits on runs kept
  MaxAttempts,      \* attempts to publish before the outbox gives up: 3
  MaxRetries,       \* bound: retries by visitors in one behaviour
  MaxCrashes,       \* bound: crashes or reconnections of the worker
  Blips             \* which of "begin", "commit" the database may suffer

\* "begin": a transaction cannot begin although the next one can.  "commit": the
\* connection is lost after finish() committed, so its caller sees a failure.
\* Either may always befall the record of a publication, whose loss tests exercise.
ASSUME DemoAssumption ==
  /\ IsFiniteSet(Run)
  /\ Concurrent \in Nat /\ GlobalConcurrent \in Nat
  /\ Retained \in Nat /\ GlobalRetained \in Nat
  /\ MaxAttempts \in Nat \ {0} /\ MaxRetries \in Nat /\ MaxCrashes \in Nat
  /\ Blips \subseteq {"begin", "commit"}

STAGES == <<"submission", "publication", "ingestion", "snapshot", "score",
            "rules", "allocation", "case", "agent", "decision", "audit">>
Place == 1..Len(STAGES)

\* The stages process() runs, and the ones a human decision completes.
Work == 4..9
Publication == 2
Ingestion == 3
CaseStage == 8
Agent == 9
Review == {10, 11}

StageStatus == {"waiting", "processing", "completed", "abstained", "failed", "blocked"}
Done == {"completed", "abstained"}
RunStatus == {"WAITING", "PROCESSING", "AWAITING_REVIEW", "FAILED", "COMPLETED", "EXPIRED"}

VARIABLES
  run,       \* demo_run: owner, status, status of each stage, case version; and
             \* whether the demo_case row is the case the document shows
  outbox,    \* demo_outbox: attempts and published_at
  inbox,     \* demo_inbox: the runs whose event was accepted
  journal,   \* demo_journal: last status of each stage, stages ever done
  deleted,   \* demo_retention_receipt
  topic,     \* the Kafka partition
  flying,    \* copies sent, neither stored by the broker nor known lost
  offset,    \* the consumer group's committed offset
  worker,    \* the worker's program counter and what it remembers
  admitted,  \* the request that passed the capacity check and holds its lock
  retries, crashes

tables == <<run, outbox, inbox, journal, deleted>>
kafka == <<topic, flying, offset>>
budget == <<retries, crashes>>
vars == <<tables, kafka, worker, admitted, budget>>

CaseRow == {"none", "shown", "other"}
RunRow == [owner : Session, status : RunStatus, stage : [Place -> StageStatus],
           version : Nat, case : CaseRow]
OutboxRow == [attempts : 0..MaxAttempts, published : BOOLEAN]
JournalOf == [latest : [Place -> StageStatus \cup {None}], committed : SUBSET Place]
Request == [kind : {"submit", "retry"}, session : Session, run : Run]
Pc == {"connect", "pending", "publish", "send", "sent", "ingest",
       "resumable", "process", "stage", "operate", "failed"}
Worker == [pc : Pc, todo : SUBSET Run, cur : Run \cup {None}, at : Place,
           next : Nat, upto : Nat]

ASSUME NoneAssumption ==
  None \notin Run \cup Session \cup RunStatus \cup StageStatus \cup RunRow \cup Request

NewStages == [p \in Place |-> IF p = 1 THEN "completed" ELSE "waiting"]
Unsent == [attempts |-> 0, published |-> FALSE]
NoEntries == [latest |-> [p \in Place |-> None], committed |-> {}]

Init ==
  /\ run = [r \in Run |-> None]
  /\ outbox = [r \in Run |-> Unsent]
  /\ inbox = {}
  /\ journal = [r \in Run |-> NoEntries]
  /\ deleted = {}
  /\ topic = <<>>
  /\ flying = [r \in Run |-> 0]
  /\ offset = 0
  /\ worker = [pc |-> "connect", todo |-> {}, cur |-> None, at |-> 1, next |-> 0, upto |-> 0]
  /\ admitted = None
  /\ retries = 0
  /\ crashes = 0

-----------------------------------------------------------------------------
(* DemoStore: rows and journal entries *)

Exists(r) == run[r] # None
Status(r) == IF Exists(r) THEN run[r].status ELSE None
Active(r) == Status(r) \in {"WAITING", "PROCESSING"}

\* Entries of one transaction: the last status journaled for each stage in them.
Journaled(j, entries) ==
  [latest |-> [p \in Place |-> IF p \in DOMAIN entries THEN entries[p] ELSE j.latest[p]],
   committed |-> j.committed \cup {p \in DOMAIN entries : entries[p] \in Done}]

\* What startInRun, finishInRun and fail write to the document and the journal.
Marked(stage, entries) ==
  [p \in Place |-> IF p \in DOMAIN entries THEN entries[p] ELSE stage[p]]

\* finish of the case: the document takes the new evidence, demo_case keeps the
\* row it has (ON CONFLICT DO NOTHING).
CaseAfter(case, entries) ==
  IF CaseStage \notin DOMAIN entries \/ entries[CaseStage] # "completed" THEN case
  ELSE IF case = "none" THEN "shown" ELSE "other"

\* mutate: the row as the transaction leaves it, with its journal entries.
Write(r, status, stage, entries) ==
  /\ run' = [run EXCEPT ![r].status = status, ![r].stage = stage,
                        ![r].case = CaseAfter(@, entries)]
  /\ journal' = [journal EXCEPT ![r] = Journaled(@, entries)]

\* stages that match, all with one status
All(ps, status) == [p \in ps |-> status]

\* verifyLocked: a stage shown done is in the journal, one whose last entry is
\* done is shown so, and the case shown is the one in demo_case.
Verified(r) ==
  /\ \A p \in Place : run[r].stage[p] \in Done => p \in journal[r].committed
  /\ \A p \in Place : journal[r].latest[p] \in Done =>
       run[r].stage[p] = journal[r].latest[p]
  /\ run[r].case # "other"

\* Mutants: the outbox never gives up; a publication once begun is not repeated.
Pending_NoLimit == {r \in Run : Status(r) \notin {None, "FAILED"} /\ ~outbox[r].published}
Pending_OnlyUntried == {r \in Run : /\ Status(r) \notin {None, "FAILED"}
                                    /\ ~outbox[r].published
                                    /\ outbox[r].attempts = 0}

\* pending: the submissions to publish.
Pending == {r \in Run : /\ Status(r) \notin {None, "FAILED"}
                        /\ ~outbox[r].published
                        /\ outbox[r].attempts < MaxAttempts}
\* resumable: the accepted runs with stages to run.
Resumable == {r \in inbox : Status(r) = "PROCESSING"}

\* The document after fail(id, name): later stages that wait are blocked.
FailedStages(stage, at) ==
  [p \in Place |-> IF p = at THEN "failed"
                   ELSE IF p > at /\ stage[p] = "waiting" THEN "blocked" ELSE stage[p]]

\* Mutant: a retry starts the whole journey again.
RetriedStages_All(stage) == [p \in Place |-> IF p = 1 THEN stage[p] ELSE "waiting"]

\* The document after retry(id).
RetriedStages(stage) ==
  [p \in Place |-> IF stage[p] \in {"failed", "blocked"} THEN "waiting" ELSE stage[p]]

\* The document after a delivery proved a publication whose record is missing.
UnblockedStages(stage) ==
  [p \in Place |-> IF stage[p] = "blocked" THEN "waiting" ELSE stage[p]]

-----------------------------------------------------------------------------
(* DemoPublicAccess: visitors' requests, under the advisory capacity lock *)

\* Mutant: a failed run never holds a slot.
Counted_ActiveOnly(r) == Active(r)

\* A run holds a slot while it is active, or failed with its event perhaps sent
\* and not yet received.
Counted(r) ==
  \/ Active(r)
  \/ Status(r) = "FAILED" /\ outbox[r].attempts > 0 /\ r \notin inbox

Owned(s) == {r \in Run : Exists(r) /\ run[r].owner = s}

HasSlot(s, retrying) ==
  LET counted == {r \in Run \ retrying : Counted(r)}
  IN  /\ Cardinality(counted) < GlobalConcurrent
      /\ Cardinality(counted \cap Owned(s)) < Concurrent

HasRoom(s) ==
  /\ Cardinality({r \in Run : Exists(r)}) < GlobalRetained
  /\ Cardinality(Owned(s)) < Retained

\* submit: the check; the scenario is then fetched with the lock still held.
AdmitSubmission(s, r) ==
  /\ admitted = None
  /\ ~Exists(r) /\ r \notin deleted
  /\ HasSlot(s, {}) /\ HasRoom(s)
  /\ admitted' = [kind |-> "submit", session |-> s, run |-> r]
  /\ UNCHANGED <<tables, kafka, worker, budget>>

\* create: the run, its outbox row and its first journal entry.
CreateRun ==
  /\ admitted # None /\ admitted.kind = "submit"
  /\ LET r == admitted.run IN
     /\ run' = [run EXCEPT ![r] = [owner |-> admitted.session, status |-> "WAITING",
                                   stage |-> NewStages, version |-> 0, case |-> "none"]]
     /\ outbox' = [outbox EXCEPT ![r] = Unsent]
     /\ journal' = [journal EXCEPT ![r] = Journaled(NoEntries, All({1}, "completed"))]
  /\ admitted' = None
  /\ UNCHANGED <<inbox, deleted, kafka, worker, budget>>

AdmitRetry(s, r) ==
  /\ admitted = None
  /\ retries < MaxRetries
  /\ r \in Owned(s)
  /\ HasSlot(s, {r})
  /\ admitted' = [kind |-> "retry", session |-> s, run |-> r]
  /\ UNCHANGED <<tables, kafka, worker, budget>>

RetryRun ==
  /\ admitted # None /\ admitted.kind = "retry"
  /\ Status(admitted.run) = "FAILED"
  /\ LET r == admitted.run IN
     /\ Write(r, IF r \in inbox THEN "PROCESSING" ELSE "WAITING",
              RetriedStages(run[r].stage), All({}, "waiting"))
     /\ outbox' = IF outbox[r].published THEN outbox
                  ELSE [outbox EXCEPT ![r].attempts = 0]
  /\ retries' = retries + 1
  /\ admitted' = None
  /\ UNCHANGED <<inbox, deleted, kafka, worker, crashes>>

\* The request's transaction rolls back: the scenario could not be fetched, or
\* the run to retry is no longer failed.
Refuse ==
  /\ admitted # None
  /\ admitted' = None
  /\ UNCHANGED <<tables, kafka, worker, budget>>

\* decide: decision and audit are journaled and verified in one transaction.
Decide(r) ==
  /\ Status(r) = "AWAITING_REVIEW"
  /\ Verified(r)
  /\ LET entries == All(Review, "completed") IN
     /\ run' = [run EXCEPT ![r].status = "COMPLETED", ![r].version = @ + 1,
                           ![r].stage = Marked(@, entries)]
     /\ journal' = [journal EXCEPT ![r] = Journaled(@, entries)]
  /\ UNCHANGED <<outbox, inbox, deleted, kafka, worker, admitted, budget>>

\* cleanup: one transaction expires the reviews `idle' and deletes the runs `old'.
Cleanup(idle, old) ==
  /\ admitted = None
  /\ idle \cup old # {}
  /\ \A r \in idle : Status(r) = "AWAITING_REVIEW"
  /\ \A r \in old : Status(r) \in {"COMPLETED", "FAILED", "EXPIRED"} /\ Verified(r)
  /\ LET entries == All(Review, "blocked") IN
     /\ run' = [r \in Run |-> IF r \in old THEN None
                              ELSE IF r \in idle
                              THEN [run[r] EXCEPT !.status = "EXPIRED",
                                                  !.stage = Marked(@, entries)]
                              ELSE run[r]]
     /\ journal' = [r \in Run |-> IF r \in old THEN NoEntries
                                  ELSE IF r \in idle THEN Journaled(journal[r], entries)
                                  ELSE journal[r]]
  /\ outbox' = [r \in Run |-> IF r \in old THEN Unsent ELSE outbox[r]]
  /\ inbox' = inbox \ old
  /\ deleted' = deleted \cup old
  /\ UNCHANGED <<kafka, worker, admitted, budget>>

-----------------------------------------------------------------------------
(* DemoJourneyWorker.loop *)

Goto(pc) == worker' = [worker EXCEPT !.pc = pc, !.cur = None, !.at = 1]

\* A new consumer reads from the committed offset.
Connect ==
  /\ worker.pc = "connect"
  /\ worker' = [worker EXCEPT !.pc = "pending", !.next = offset, !.upto = offset]
  /\ UNCHANGED <<tables, kafka, admitted, budget>>

TakePending ==
  /\ worker.pc = "pending"
  /\ worker' = [worker EXCEPT !.pc = "publish", !.todo = Pending]
  /\ UNCHANGED <<tables, kafka, admitted, budget>>

\* publish: publishing(id), send, published(id); any failure goes to fail(id).
Publishing(r) ==
  /\ worker.pc = "publish" /\ r \in worker.todo
  /\ Write(r, run[r].status, Marked(run[r].stage, All({Publication}, "processing")),
           All({Publication}, "processing"))
  /\ outbox' = [outbox EXCEPT ![r].attempts = @ + 1]
  /\ worker' = [worker EXCEPT !.pc = "send", !.todo = @ \ {r}, !.cur = r, !.at = Publication]
  /\ UNCHANGED <<inbox, deleted, kafka, admitted, budget>>

SendAcked ==
  /\ worker.pc = "send"
  /\ topic' = Append(topic, worker.cur)
  /\ worker' = [worker EXCEPT !.pc = "sent"]
  /\ UNCHANGED <<tables, flying, offset, admitted, budget>>

\* get() times out or throws; the broker may yet store the copy.
SendInDoubt ==
  /\ worker.pc = "send"
  /\ flying' = [flying EXCEPT ![worker.cur] = @ + 1]
  /\ worker' = [worker EXCEPT !.pc = "failed"]
  /\ UNCHANGED <<tables, topic, offset, admitted, budget>>

Arrive(r) ==
  /\ flying[r] > 0
  /\ flying' = [flying EXCEPT ![r] = @ - 1]
  /\ topic' = Append(topic, r)
  /\ UNCHANGED <<tables, offset, worker, admitted, budget>>

RecordPublication(r) ==
  /\ Write(r, run[r].status, Marked(run[r].stage, All({Publication}, "completed")),
           All({Publication}, "completed"))
  /\ outbox' = [outbox EXCEPT ![r].published = TRUE]

Published ==
  /\ worker.pc = "sent"
  /\ RecordPublication(worker.cur)
  /\ Goto("publish")
  /\ UNCHANGED <<inbox, deleted, kafka, admitted, budget>>

\* published(id) fails: rolled back, or committed with its answer lost.
PublishedInDoubt ==
  /\ worker.pc = "sent"
  /\ \/ RecordPublication(worker.cur)
     \/ UNCHANGED <<run, journal, outbox>>
  /\ worker' = [worker EXCEPT !.pc = "failed"]
  /\ UNCHANGED <<inbox, deleted, kafka, admitted, budget>>

\* fail(id, stage), which does not ask in which status the run is.
Fail ==
  /\ worker.pc = "failed"
  /\ IF Exists(worker.cur)
     THEN /\ Write(worker.cur, "FAILED", FailedStages(run[worker.cur].stage, worker.at),
                   All({worker.at}, "failed"))
          /\ Goto(IF worker.at = Publication THEN "publish" ELSE "process")
     ELSE /\ Goto("connect")
          /\ UNCHANGED <<run, journal>>
  /\ UNCHANGED <<outbox, inbox, deleted, kafka, admitted, budget>>

\* Mutant: offsets are committed as records are polled.
Poll_AutoCommit ==
  /\ worker.pc = "publish" /\ worker.todo = {}
  /\ IF worker.next < Len(topic)
     THEN \E n \in (worker.next + 1)..Len(topic) :
            /\ worker' = [worker EXCEPT !.pc = "ingest", !.upto = n]
            /\ offset' = n
     ELSE Goto("resumable") /\ UNCHANGED offset
  /\ UNCHANGED <<tables, topic, flying, admitted, budget>>

\* poll: the records after the consumer's position, some or all of them.
Poll ==
  /\ worker.pc = "publish" /\ worker.todo = {}
  /\ IF worker.next < Len(topic)
     THEN \E n \in (worker.next + 1)..Len(topic) :
            worker' = [worker EXCEPT !.pc = "ingest", !.upto = n]
     ELSE Goto("resumable")
  /\ UNCHANGED <<tables, kafka, admitted, budget>>

Polled == topic[worker.next + 1]

\* Mutants: a delivery proves no publication; the inbox is not asked.
Ingest_NothingProved(r) ==
  LET known == r \in inbox
      entries == All(IF known THEN {} ELSE {Ingestion}, "completed")
  IN  /\ Write(r, IF known THEN run[r].status ELSE "PROCESSING",
               Marked(run[r].stage, entries), entries)
      /\ inbox' = inbox \cup {r}
      /\ UNCHANGED outbox
Ingest_Again(r) ==
  LET proved == run[r].stage[Publication] # "completed"
      entries == All((IF proved THEN {Publication} ELSE {}) \cup {Ingestion}, "completed")
      stage == IF proved THEN UnblockedStages(run[r].stage) ELSE run[r].stage
  IN  /\ Write(r, "PROCESSING", Marked(stage, entries), entries)
      /\ outbox' = IF proved THEN [outbox EXCEPT ![r].published = TRUE] ELSE outbox
      /\ inbox' = inbox \cup {r}

\* ingest: a delivery also proves a publication that has no record.
Ingest(r) ==
  LET proved == run[r].stage[Publication] # "completed"
      known == r \in inbox
      entries == All((IF proved THEN {Publication} ELSE {})
                       \cup (IF known THEN {} ELSE {Ingestion}), "completed")
      stage == IF proved THEN UnblockedStages(run[r].stage) ELSE run[r].stage
  IN  /\ Write(r, IF known THEN run[r].status ELSE "PROCESSING",
               Marked(stage, entries), entries)
      /\ outbox' = IF proved THEN [outbox EXCEPT ![r].published = TRUE] ELSE outbox
      /\ inbox' = inbox \cup {r}

Receive ==
  /\ worker.pc = "ingest" /\ worker.next < worker.upto
  /\ Exists(Polled)
  /\ Ingest(Polled)
  /\ worker' = [worker EXCEPT !.next = @ + 1]
  /\ UNCHANGED <<deleted, kafka, admitted, budget>>

\* A record that ingest rejects is quarantined: its run is gone, or a transaction
\* could not begin, which is not a DataAccessException.  Nothing reads the
\* quarantine, so it has no variable.
Quarantine ==
  /\ worker.pc = "ingest" /\ worker.next < worker.upto
  /\ ~Exists(Polled) \/ "begin" \in Blips
  /\ worker' = [worker EXCEPT !.next = @ + 1]
  /\ UNCHANGED <<tables, kafka, admitted, budget>>

CommitOffsets ==
  /\ worker.pc = "ingest" /\ worker.next = worker.upto
  /\ offset' = worker.upto
  /\ Goto("resumable")
  /\ UNCHANGED <<tables, topic, flying, admitted, budget>>

TakeResumable ==
  /\ worker.pc = "resumable"
  /\ worker' = [worker EXCEPT !.pc = "process", !.todo = Resumable]
  /\ UNCHANGED <<tables, kafka, admitted, budget>>

-----------------------------------------------------------------------------
(* DemoJourneyWorker.process *)

BeginRun(r) ==
  /\ worker.pc = "process" /\ r \in worker.todo
  /\ worker' = [worker EXCEPT !.pc = "stage", !.todo = @ \ {r}, !.cur = r]
  /\ UNCHANGED <<tables, kafka, admitted, budget>>

EndPass ==
  /\ worker.pc = "process" /\ worker.todo = {}
  /\ Goto("pending")
  /\ UNCHANGED <<tables, kafka, admitted, budget>>

\* done(id, name) is asked of each stage in turn.
FirstUndone(stage) ==
  CHOOSE p \in Work : stage[p] \notin Done /\ \A q \in Work : q < p => stage[q] \in Done

StartStage ==
  /\ worker.pc = "stage"
  /\ LET r == worker.cur
         p == FirstUndone(run[r].stage)
         entries == All({p}, "processing")
     IN  /\ Write(r, run[r].status, Marked(run[r].stage, entries), entries)
         /\ worker' = [worker EXCEPT !.pc = "operate", !.at = p]
  /\ UNCHANGED <<outbox, inbox, deleted, kafka, admitted, budget>>

\* finish: the verified output of the stage.
FinishStage ==
  /\ worker.pc = "operate"
  /\ \E outcome \in IF worker.at = Agent THEN Done ELSE {"completed"} :
       LET r == worker.cur
           entries == All({worker.at}, outcome)
       IN  Write(r, IF worker.at = Agent THEN "AWAITING_REVIEW" ELSE run[r].status,
                 Marked(run[r].stage, entries), entries)
  /\ \/ IF worker.at = Agent THEN Goto("process")
        ELSE worker' = [worker EXCEPT !.pc = "stage", !.at = 1]
     \/ "commit" \in Blips /\ worker' = [worker EXCEPT !.pc = "failed"]
  /\ UNCHANGED <<outbox, inbox, deleted, kafka, admitted, budget>>

\* The service fails, its answer is refused, or, with "begin", the database
\* fails publishing(id), start(id) or a question done(id, name).
StepFails ==
  /\ \/ worker.pc = "operate" /\ worker' = [worker EXCEPT !.pc = "failed"]
     \/ /\ "begin" \in Blips
        /\ \/ \E r \in worker.todo :
                /\ worker.pc = "publish"
                /\ worker' = [worker EXCEPT !.pc = "failed", !.todo = @ \ {r},
                                            !.cur = r, !.at = Publication]
           \/ \E p \in Work :
                /\ worker.pc = "stage"
                /\ p <= FirstUndone(run[worker.cur].stage)
                /\ worker' = [worker EXCEPT !.pc = "failed", !.at = p]
  /\ UNCHANGED <<tables, kafka, admitted, budget>>

\* The process dies, or an exception reaches loop(): the consumer is closed and
\* what the worker remembered is lost.  A copy being sent may arrive or not.
Crash ==
  /\ worker.pc # "connect" /\ crashes < MaxCrashes
  /\ crashes' = crashes + 1
  /\ flying' = IF worker.pc = "send" THEN [flying EXCEPT ![worker.cur] = @ + 1] ELSE flying
  /\ worker' = [pc |-> "connect", todo |-> {}, cur |-> None, at |-> 1, next |-> 0, upto |-> 0]
  /\ UNCHANGED <<tables, topic, offset, admitted, retries>>

-----------------------------------------------------------------------------

WorkerStep ==
  \/ Connect \/ TakePending
  \/ \E r \in Run : Publishing(r)
  \/ SendAcked \/ SendInDoubt \/ Published \/ PublishedInDoubt \/ Fail
  \/ Poll \/ Receive \/ Quarantine \/ CommitOffsets
  \/ TakeResumable
  \/ \E r \in Run : BeginRun(r)
  \/ EndPass \/ StartStage \/ FinishStage \/ StepFails

VisitorStep ==
  \/ \E s \in Session, r \in Run : AdmitSubmission(s, r) \/ AdmitRetry(s, r)
  \/ CreateRun \/ RetryRun \/ Refuse
  \/ \E r \in Run : Decide(r)

Next ==
  \/ WorkerStep
  \/ VisitorStep
  \/ \E r \in Run : Arrive(r)
  \/ \E idle, old \in SUBSET Run : Cleanup(idle, old)
  \/ Crash

Spec == Init /\ [][Next]_vars

\* The worker's loop goes on while the process lives; nobody else has to act.
FairSpec == Spec /\ WF_vars(WorkerStep)

-----------------------------------------------------------------------------
(* Properties *)

TypeOK ==
  /\ run \in [Run -> RunRow \cup {None}]
  /\ outbox \in [Run -> OutboxRow]
  /\ inbox \subseteq Run
  /\ journal \in [Run -> JournalOf]
  /\ deleted \subseteq Run
  /\ topic \in Seq(Run)
  /\ flying \in [Run -> Nat]
  /\ offset \in 0..Len(topic)
  /\ worker \in Worker
  /\ admitted \in Request \cup {None}
  /\ retries \in 0..MaxRetries
  /\ crashes \in 0..MaxCrashes

\* The displayed run agrees with its journal and its case row, whatever failed, was
\* retried, delivered twice or expired on the way (DemoStore.verify): no run is
\* stuck because a decision or the retention refuses its evidence.
JournalAccounts == \A r \in Run : Exists(r) => Verified(r)

\* A stage is done only when every stage before it is: the worker may resume a
\* run anywhere, and a delivery may come before its publication is on record.
StagesInOrder ==
  \A r \in Run : Exists(r) =>
    \A p, q \in Place :
      p < q /\ run[r].stage[q] \in Done => run[r].stage[p] \in Done

\* Never more active runs than the limits, although the worker makes failed runs
\* active again without asking (DemoPublicAccess.capacity).
CapacityRespected ==
  LET active == {r \in Run : Active(r)}
  IN  /\ Cardinality(active) <= GlobalConcurrent
      /\ \A s \in Session : Cardinality(active \cap Owned(s)) <= Concurrent

\* An offset is committed only past events that are in the inbox or whose run is
\* deleted, so no accepted submission is lost between Kafka and the database.
OffsetsAccounted ==
  \A i \in 1..offset : topic[i] \in inbox \cup deleted

\* What a run has reached stays: only a publication's record may be made again,
\* a failed run alone becomes active, and an ended one changes no more.
NeverUndone ==
  [][\A r \in Run : Exists(r) /\ Exists(r)' =>
       /\ \A p \in Place \ {Publication} : run[r].stage[p] \in Done =>
            run'[r].stage[p] = run[r].stage[p]
       /\ Active(r)' => Status(r) \in {"WAITING", "PROCESSING", "FAILED"}
       /\ Status(r) \in {"COMPLETED", "EXPIRED"} => run'[r] = run[r]]_vars

\* The outbox has given up on a run that is still waiting.
Exhausted(r) ==
  /\ Status(r) = "WAITING"
  /\ ~outbox[r].published /\ outbox[r].attempts = MaxAttempts

\* A submitted run does not stay active: it comes to review or fails, when it can
\* be retried; or the worker died in each of its attempts to publish it.
Settles == \A r \in Run : Active(r) ~> (~Active(r) \/ Exhausted(r))

=============================================================================
