# InForsight: formal models

TLA+ modules for the stateful parts of InForsight and for the algorithms whose
result depends on the order of events, TLC configurations that check them on small
instances, and TLAPS proofs of what they promise for instances of any size. Paths are relative to the repository; `simulator` stands for
`simulator/src/inforsight_simulator`, `controlplane` for
`services/control-plane/src/main/java/com/inforsight/controlplane`.

- [1. The system](#1-the-system)
- [2. Modules](#2-modules)
- [3. Runs](#3-runs)
- [4. Where the code departs from its documents](#4-where-the-code-departs-from-its-documents)
- [5. Proofs](#5-proofs)
- [6. Not modelled](#6-not-modelled)
- [7. Plan](#7-plan)

## 1. The system

InForsight recommends actions for fictional insurance policies that may lapse.
A specialist reviews each recommendation before anything is executed, and every
transition of a case goes to a hash-chained audit ledger. There are two
implementations of that core, one in Python (the simulator package, a
dashboard), one in Java over PostgreSQL and Kafka (the control plane, a demo
journey).

| Component | State | Operations | Talks to |
| --- | --- | --- | --- |
| Python audit ledger, `simulator/audit/ledger.py` | JSONL log, checkpoint file, lock file; records and tip of each object in memory | constructor (recover or create), `append` | several objects and processes share the files through a non-blocking `flock` |
| Python workflow service, `simulator/workflow/` | cases, reservations, free capacity, idempotency results; state file with a committed snapshot and a pending transition | `create_case`, `submit_review`, `dispatch_execution`, `dismiss_case`, `resolve_case`, recovery | audit ledger (append, records), state file (begin, commit, rollback) |
| Dashboard bridge, `dashboard/services/engine_bridge.py` | one service per session | get or create a case; review then dispatch, or dismiss then resolve | workflow service |
| Python algorithms, `simulator/{rules,optimization,economics,reconstruction,...}` | none | eligibility, portfolio optimisation, bitemporal replay | called by the bridge |
| Streaming adapters, `simulator/{streaming,kafka_adapter}.py` | identities seen | handle an event | Kafka |
| Model serving and monitoring, `serving/` | sliding windows, alerts | score, record outcome, evaluate | HTTP |
| Agents, `agents/` | none | draft with citations, or abstain | control plane |
| Java demo journey, `controlplane/demo/` | runs with eleven stages, outbox, inbox, case, decision, journal and checkpoint, sessions, quotas | submit, publish, ingest, process stages, retry, decide, expire, clean up | PostgreSQL transactions, Kafka, Python runtime |
| Corpora, labels and splits, `simulator/{generation,validation,observations,v3_corpus,splitting,...}` | a history of events with three times, observations cut from it | generate, validate, replay, observe, label, split | training and evaluation |
| Java casework and agent drafts, `controlplane/{casework,agent,web}/` | cases with versions, drafts, idempotency keys | create, decide, submit draft, hand off | PostgreSQL, Java audit ledger |
| Java audit ledger, `controlplane/audit/` | table of chained entries | append, append a batch, verify, sign a checkpoint | the caller's transaction |
| Java streaming consumer, `controlplane/streaming/` | offsets, identities seen, running flag | poll, handle, commit | Kafka |
| Java resilience, `controlplane/{resilience,inference}/` | breaker state, token windows | admit, record success or failure, bounded retry | inference runtime |
| Java rules and allocation, `controlplane/{rules,allocation}/` | none | eligibility, multiple-choice knapsack | controller, demo journey |

What is hard in it:

- **Crashes and torn writes.** The ledger makes a record durable, then replaces
  its checkpoint; the service writes a pending transition, then the ledger, then
  the committed state. A process may die, or a write raise, between any two of
  these, and after the effect as well as before it.
- **Interleaving.** Ledger objects share files. The service's review and dispatch
  hold a lock, its creation, dismissal and resolution do not.
- **Retries.** A dispatch carries an idempotency key; the audit append it rests
  on may have failed, or have failed after it committed.
- **Delivery and transactions (Java).** The demo journey has an outbox, at-least-once
  delivery, an inbox and a worker that restarts anywhere; casework and audit rely
  on row locks under READ COMMITTED; the Kafka consumer commits a batch whose
  handlers ran in any order.
- **Late knowledge.** An event occurs, takes effect and is ingested at three
  different times. What was known at a cutoff is not what was in force at it.
- **Threads without locks.** The handlers of the monitor run on a pool of threads,
  requests through the circuit breaker overlap and end in any order.

What makes each component correct:

- audit ledger: a record whose append returned is never lost; history never
  forks; a ledger can always be opened again; together, it is an append-only log;
- workflow service: state and audit agree between calls and after every recovery;
  no restart is refused; nothing is executed without a review, twice, or beyond
  the capacity; a retry returns only what was committed;
- demo journey: every submitted run is eventually reviewed or failed and
  retryable; the journal accounts for every stage; capacity counts every run that
  may still be processed;
- Java casework and audit: versions, audited decisions and idempotency records of
  a case are one; a retry gets the first answer or none; a draft precedes every
  decision; the chain has one successor for each entry;
- streaming: an event is processed at least once and, within one life of the
  process, accepted at most once; a replay at a cutoff never changes;
- circuit breaker: inference that keeps failing is left alone;
- monitor: its window holds, an outcome counts once, a report is of one moment;
- histories, corpora, splits: the readings of a history agree, a label once observed
  stays, features know nothing of later, no partition learns from a later one;
- planning: nobody is contacted on unconfirmed evidence, no value is given up.

## 2. Modules

| Module | Models | Extends / uses |
| --- | --- | --- |
| `AppendOnlyLog` | what a ledger promises: a sequence that grows at its end, acknowledged records | |
| `AuditLedger` | `ledger.py`, with its files, lock, crashes and I/O errors | `AppendOnlyLog` (refinement) |
| `MCAuditLedger` | instances of it | `AuditLedger` |
| `AuditLedgerProofs` | theorems about it, and that it implements `AppendOnlyLog` | `AuditLedger`, TLAPS |
| `CaseStates` | case states and transitions of `state_machine.py` | |
| `CaseAuthority` | what the audited history of the cases promises | `CaseStates` |
| `WorkflowService` | `service.py`, `state_machine.py`, `persistence.py` | `CaseStates`, `CaseAuthority` (refinement) |
| `MCWorkflowService` | instances of it | `WorkflowService` |
| `SumTheorems` | lemmas about sums over finite sets and about their greatest elements | TLAPS |
| `WorkflowProofs` | its type, and that a restart is never refused | `WorkflowService`, TLAPS |
| `WorkflowAgreementProofs` | that its capacity balances; that memory, state file and audit agree; that it implements `CaseAuthority` | `WorkflowProofs`, `SumTheorems` |
| `DemoJourney` | `DemoStore`, `DemoJourneyWorker`, and the capacity, retry and retention of `DemoPublicAccess` | |
| `MCDemoJourney` | instances of it | `DemoJourney` |
| `DemoJourneyProofs` | its type, that the worker's memory agrees with the tables, capacity, offsets, and what the document of a run shows | `DemoJourney`, TLAPS |
| `Casework` | `PersistentCaseRepository`, `PersistentAgentDraftStore` and `AuditLedgerRepository` in their transactions | |
| `MCCasework` | instances of it | `Casework` |
| `CaseworkProofs` | theorems about it | `Casework`, TLAPS |
| `KafkaConsumer` | `KafkaEventConsumer` with `BoundedStreamingEventHandler` | |
| `EventIngress` | `streaming.py`, `kafka_adapter.py` | |
| `Resilience` | rate limiter, circuit breaker and the endpoint they guard | |
| `MCStreams` | instances of these three | `KafkaConsumer`; the other two as instances |
| `StreamsProofs` | theorems about these three | `MCStreams`, `SumTheorems`, TLAPS |
| `PolicyHistory` | `generation.py`, `validation.py`, `reconstruction.py`, `observations.py` | |
| `RecurringCorpus` | one policy of `v3_corpus.py`, `v6_corpus.py`, its features and labels | |
| `TemporalSplit` | `splitting.py` | |
| `DriftMonitor` | `serving/monitoring/` | |
| `Planning` | `rules/engine.py`, `optimization/solver.py`, `PortfolioAllocator.java` | |
| `MCModeling` | instances of these five | `Planning`; the other four as instances |
| `ModelingProofs` | theorems about these five | `MCModeling`, `SumTheorems`, TLAPS |

### AuditLedger

One `Instance` is one ledger object; `mem[i]` is its `_records`, `pc[i]` where it
is in `__init__` or `append`. The files are `log`, `logExists` and `checkpoint`;
`lock` is the holder of the `flock`, which is taken without waiting, so a busy
lock fails the operation.

The log is a sequence of *cells*: a record's line is two cells, its body and its
newline. So a torn write is a body without a newline, the length of the sequence
stands for the size of the file, and `truncate`, the malformed-suffix test and
parsing are sequence operations. A record's SHA-256 covers a fresh `uuid4`; an id
handed out once stands for it.

| Code | Actions |
| --- | --- |
| `__init__`, `_load_and_validate_existing` | `OpenProbe`, `ReadCheckpoint`, `CompareSize`, `RecoverSuffix`, `ParseLog` |
| `_write_checkpoint` of the constructor | `CreateStat`, `CreateReplace` |
| `append` | `AppendBegin` (lock, stale check), `WriteRecord`, `CommitCheckpoint` |
| I/O errors, death of the process | `WriteFails`, `CheckpointFails`, `Crash` |

Each action ends where another process can interfere or the process can die. A
call that raises before it changes anything is not an action.

`ExclusiveOpen` states a guarantee that a deployment may give and the code does
not: ledgers are opened, and append, one at a time. With it the ledger keeps its
promises; without it section 4 shows what is lost.

### WorkflowService

`mem` is the service's memory, `store` the state file (`committed`, `pending`),
`audit` the ledger's committed entries. The ledger's append is one step here,
`AuditLedger` having its steps, but it may raise without effect, raise and leave
the ledger object stale (`stale`), or raise after it committed. Each caller is
in a call at `pc[t]`, whose arguments and locals are `call[t]`; `call[t].before`
is what `_snapshot_mutation_state` and `_serialize_state` captured.

| Code | Actions |
| --- | --- |
| `submit_review`, `dispatch_execution`, `dismiss_case`, `resolve_case` up to their `try` | `SubmitReview`, `DispatchExecution`, `ReplayDispatch`, `DismissCase`, `ResolveCase` |
| their `try` block | `Prepare`, `BeginPending`, `AppendAudit`, `Commit` |
| their `except` block | `BeginFails`, `AppendFails`, `CommitFails`, `Rollback`, `RollbackFails` |
| `create_case` | `CreateCase`, `AppendIntake`, `AppendIntakeFails`, `RegisterCase`, `PersistCase`, `PersistCaseFails` |
| death of the process, `_restore_persisted_state` | `Crash`, `Restart` |

The four operations share the shape of their `try` block, so they share its
actions; what differs is in `Source`, `Target`, `Accepts` and `Moved`.

`Alone` states that the calls which take no lock are made while no other call
runs, which is how a single dashboard session makes them. `Faults` selects the
faults that happen.

Abstractions: the two resources are one; the approval id and the idempotency key
are the event of the review; evidence digests, actor identity, metadata and
expiry only make a call fail before it changes anything; an override is a review
that chooses another action; the optimistic capacity version is left out for the
same reason.

### DemoJourney

A visitor submits a run; the worker publishes its event from the outbox to Kafka,
consumes it into the inbox, runs six stages against the Python services, and a
reviewer decides. `run`, `outbox`, `inbox`, `journal` and `deleted` are the
tables; `topic`, `flying` and `offset` are the Kafka partition, copies whose send
timed out but may still be stored, and the committed offset; `worker` is where the
worker is in its loop and what it read on the way, all lost in a crash.
Every transaction of `DemoStore` locks its run's row, so it is one step, and the
steps between two transactions are those at which something is read that is used
later.

| Code | Actions |
| --- | --- |
| `DemoPublicAccess.submit`, `DemoStore.create` | `AdmitSubmission` (capacity, under the advisory lock), `CreateRun`, `Refuse` |
| `DemoPublicAccess.retry`, `DemoStore.retry` | `AdmitRetry`, `RetryRun`, `Refuse` |
| `DemoStore.decide`; `cleanup`, `expireReview` | `Decide`; `Cleanup` |
| `loop`: connect, `pending`, poll, commit, `resumable` | `Connect`, `TakePending`, `Poll`, `CommitOffsets`, `TakeResumable` |
| `publish`: `publishing`, send, `published` | `Publishing`, `SendAcked`, `SendInDoubt`, `Published`, `PublishedInDoubt` |
| `ingest`, `quarantine` | `Receive`, `Quarantine` |
| `process`, `stage`: `start`, `finish` | `BeginRun`, `StartStage`, `FinishStage`, `StepFails`, `EndPass` |
| `fail` | `Fail` |
| the broker; death of the process or an exception that reaches `loop` | `Arrive`; `Crash` |

Abstractions: public access is on, so every run has an owner. The queries'
`LIMIT 10` and their order are left out: the worker takes the runs in any order.
Artifacts and hashes are left out; `verifyLocked` is modelled by what it compares:
the status each stage shows, the journal's entries, and whether the row of
`demo_case` is the case the document shows. `FinishStage` takes the outcome of the
service as it comes. A request for more information, an approval and a rejection
complete a run alike. Time is left out: whatever waits for hours may happen as soon
as its other conditions hold. The receipts of deleted runs are kept (the code drops
them after seven days).

`Blips` names two kinds of database failure. With `"begin"`, a transaction cannot
begin although the next one can (no connection from the pool, say); with
`"commit"`, the connection is lost after `finish` committed, so that the worker
takes a stage for failed that is done. Either may befall the record of a
publication in every instance.

### Casework

Each client of the control plane makes one request at a time, in one transaction.
`cases`, `handoffs`, `idempotency`, `drafts` and `ledger` are the committed tables;
`tx[cl]` is where a client's transaction is and what it has read. PostgreSQL runs it
at READ COMMITTED, so a step is a statement at which a transaction may wait, or
after which another may go first.

| Code | Actions |
| --- | --- |
| `PersistentCaseRepository.create`, `PersistentTrustedAgentHandoffStore` | `Create` |
| `decide` up to its `SELECT ... FOR UPDATE`; then up to `append` | `DecideRequest`; `DecideLocked` |
| `PersistentAgentDraftStore.submit` likewise | `DraftRequested`; `DraftLocked` |
| `AuditLedgerRepository.append` | `EnterAppend` (the monitor; the head is chosen), `InsertRow` (waits for the head's row, leaves the monitor) |
| the rest of the transaction | `CommitDecision`, `CommitDraft`, `Rollback` |

The monitor of `append` is left before the transaction commits. `overlapped` records
that an append began meanwhile, which is what breaks the chain (section 4). The hash
of a row is its `ledger_sequence`, which no other row has.

### KafkaConsumer, EventIngress, Resilience

`KafkaConsumer` reads one partition from the committed offset at each start. `Poll`
hands a batch to handlers, `Handle` lets them return in any order, `Commit` moves
the offset if all succeeded, `Fail` ends the loop for good if one threw, `Stop` is a
shutdown and `Restart` the next process. The identities already seen are memory of
the process, so they are lost with it.

`EventIngress` is `process_record` with the ingress and the buffer behind it:
`DeadLetter`, `Duplicate`, `Refuse` (the ingress took the pair, the buffer refuses
the event) and `Accept` (whose downstream may raise). Decoding is the choice of a
valid or invalid record.

`Resilience` is the guard of the triage endpoint: `Limit`, `Refuse`, `Admit`, then
`Success` or `Failure` in any order, and `Tick`. `streak` and `lastFailure` are what
the callers saw, apart from what the breaker remembers.

They share no state: each initial state of `MCStreams` runs one of them.

### PolicyHistory, RecurringCorpus, TemporalSplit

`PolicyHistory` takes the histories the generator makes (`Generated`), lets `Amend`
make an event late, postponed or missing as long as `Valid` accepts the result,
cuts observations (`Observe`) and follows them up for longer (`Follow`). `Reconstructed`
is what was in force at a time, `VisibleStatus` what was known, `Label` what the
follow-up says.

`RecurringCorpus` repeats `Episode`: the payments due and their corrections are
recorded with delays of their own, features are cut, the months of the outcome
horizon are drawn and the observation is labelled. A draw is a free choice.

`TemporalSplit` collects observations (`Observe`) and accepts their split (`Assign`)
only if it validates.

### DriftMonitor

`RecordScore`, `CompareWindow`, `Evict` and `ForgetOutcome` are a scoring request;
`IngestOutcome`, `ReadExisting`, `JoinOutcome` and `RecordCalibration` an outcome;
`BeginReport`, `ComputeDrift` and `FinishReport` a diagnostics report. No lock guards
the windows. In the context `"pool"` threads switch after every access to a shared
container; in `"serial"`, the context `calibration.py` says it is written for, a
request begins when no other runs. The stability index is a choice of its outcome;
the calibration error and the Brier score are computed, in integers.

`PoolAssumption` has the pool at most one thread larger than the window. In the code
the pool has 40 threads, the window 500 scores. It matters: the size is
tested before a score is evicted, so more threads than that could all be told that
the window is too long, and the last of them would pop from an empty one.

### Planning

`Receive` fills the portfolio. `Fold` takes a policy more in both dynamic programs,
the Python one, which keeps abstention as an action, and the Java one, which may
leave a policy out; `Consider` is one candidate of the Python heuristic. `Eligible`
is `evaluate` of the rules on a decision context. The utility of an action is an
integer of the instance, as the code counts it in micros, and may be negative;
`UsedBy` and `WorthOf` add a selection up. `PlanningAssumption` has costs, durations
and capacities not negative, and abstention free: the Python program drops an action
that costs or lasts less than nothing, the Java allocator refuses such amounts. The
specialist capacity is one of two resources. Sums are not bounded in the model: the
width of Java's `int` and `long` sums is left out.

These five share no state either: each initial state of `MCModeling` runs one.

## 3. Runs

Every run finishes in two minutes or so. `CHECK_DEADLOCK FALSE` is set for all but
the demo journey: those models stop when their bounds are used up and nobody
calls, or when a portfolio is allocated or a split accepted. Where waiting matters,
in the casework, `NoCircularWait` says more than the absence of deadlock. The demo
journey keeps the check on: its worker must always have a step.

| Run | Instance | Shows |
| --- | --- | --- |
| `AuditLedger.cfg` | 2 objects, 4 records, 3 faults, all kinds of initial files, `ExclusiveOpen` | `TypeOK`, `AckedSurvive`, `RestartSucceeds`, `ReopensEventually`, `ImplementsAppendOnlyLog` |
| `AuditLedgerRacing.cfg` | 3 objects (symmetric), 4 records, 2 faults, existing log and checkpoint, no exclusion | `NoForkedHistory` |
| `WorkflowService.cfg` | 2 cases (one created on the way), 2 callers (symmetric), one fault, 8 events, capacity for one action | `StateMatchesAudit`, `RestartReproduces`, `ImplementsCaseAuthority` |
| `WorkflowFaults.cfg` | 1 case from nothing to resolved, every kind of fault, two faults, two costs | `TypeOK`, `RecoveryNeverRefuses`, `CapacityConserved` |
| `DemoJourney.cfg` | 2 runs, 2 visitors (symmetric), one slot each, 2 attempts to publish, a retry, a crash | `JournalAccounts`, `StagesInOrder`, `CapacityRespected`, `OffsetsAccounted`, `NeverUndone` |
| `DemoJourneyLiveness.cfg` | 1 run, 3 attempts to publish, 2 retries, 3 crashes, fairness of the worker | `TypeOK`, `Settles` |

| `Casework.cfg` | 2 clients, 2 cases, 2 keys (all symmetric), 2 actions, 3 requests, a fault | `DecisionsAudited`, `AnswersAgree`, `AdvicePrecedesAuthority`, `ChainVerifiesInTurn`, `NoCircularWait` |
| `Streams.cfg` | consumer: 2 identities, 4 records, 2 a poll, 2 stops; ingress: 2 ids, 2 keys, 3 deliveries, a failure; guard: 4 requests, threshold 2, 2 tokens, 5 units of time | `NothingSkipped`, `AcceptedOncePerLife`, `AllConsumed`, `AllAccounted`, `ReplayStands`, `InferenceRests` |
| `Modeling.cfg` | every history amended twice; a corpus of two episodes; splits of 6 observations at 4 times; 2 threads, 3 keys, windows of 2, 5 requests; portfolios of 3, exact up to 2 | `ReplayAgrees`, `CensoringEnds`, `LabelsSettle`, `FeaturesReproduce`, `NoFutureLearned`, `WindowHolds`, `JoinedOnce`, `ReportAgrees`, `AllocationExact`, `ContactedAreClear` |

The other runs are those of section 4: each finds one property violated.

**The properties.**

- `AckedSurvive`, `RestartSucceeds`: an acknowledged record is in the committed
  prefix for good; between operations the files are ones that the constructor
  accepts.
- `ReopensEventually`: from any sequence of crashes, a ledger that is down opens.
- `ImplementsAppendOnlyLog`: with `entries` the log up to the checkpoint, every
  step appends one record (acknowledged or not) or changes nothing.
- `NoForkedHistory`: no two records of the log continue the same predecessor.
- `StateMatchesAudit`: between calls each case is in the state of its last audit
  entry, with the approval that the audit has.
- `RecoveryNeverRefuses`: at *every* moment the state file refers only to events
  in the ledger, so a crash there is recoverable.
- `RestartReproduces`: between calls a crash would lose nothing of the cases and
  the reservations.
- `CapacityConserved`: free capacity plus reservations is the capacity, in memory
  and in what a restart would recover.
- `ImplementsCaseAuthority`: what the audit tells of the cases follows the
  transition contract, restarts of a failed intake aside; an action is executed
  only if it was approved, once, and within the capacity.
- `JournalAccounts`: `DemoStore.verify` finds every run valid, so neither a decision
  nor the retention is refused for its evidence.
- `StagesInOrder`: a stage is done only when all before it are, although the worker
  resumes anywhere and a delivery may come before its publication is on record.
- `CapacityRespected`: active runs never exceed the limits, although a delivery makes
  a failed run active without asking.
- `OffsetsAccounted`: an offset is committed only past events that are in the inbox
  or whose run is deleted.
- `NeverUndone`: a done stage stays done (a publication's record may be repeated),
  only a failed run becomes active again, and an ended run changes no more.
- `Settles`: a submitted run comes to review or fails, when it can be retried. The
  exception it names is real: a run whose worker died in each of its attempts to
  publish stays `WAITING`, is not published again and cannot be retried
  (`DemoStore.java:82`, `:176`) until its event arrives.
- `DecisionsAudited`: the audited decisions of a case, their keys and their
  idempotency records are exactly its versions, and the case stands as the last of
  them left it.
- `AnswersAgree`: no two answers under one key differ, although the key is looked up
  before the case is locked.
- `AdvicePrecedesAuthority`: a case with a handoff is authorized only for what the
  handoff allows, and its draft comes before every decision in the ledger.
- `ChainVerifiesInTurn`: the verifier accepts the ledger as long as no append began
  beside one that was not committed.
- `NoCircularWait`: of the transactions under way one can always go on.
- `NothingSkipped`, `AcceptedOncePerLife`, `AllConsumed`: what is committed was
  handled and is valid; an identity is accepted again only by another process; a
  partition without an invalid record is committed to its end, and everything before
  the first invalid one is handled.
- `AllAccounted`: a record processed is downstream, a dead letter, or refused or raised
  under its pair. The last two are lost: their pair is taken for a duplicate ever after.
- `ReplayStands`: what the buffer showed at a cutoff it shows ever after.
- `InferenceRests`: nobody is admitted within `OpenDuration` of the last of
  `FailureThreshold` failures in a row, in whatever order the requests ended.
- `ReplayAgrees`: replay, observation and outcome of a history agree, and an
  observation knows of no end that has not come.
- `LabelsSettle`, `CensoringEnds`: only a censored label changes when the follow-up
  grows, and at last every eligible observation has the label its history says.
- `FeaturesReproduce`: cut from the finished history, an observation's features are
  those it had, and the issuance is always visible when one is cut.
- `NoFutureLearned`: the horizons of a partition are over before any later partition
  observes, and no policy is on both sides.
- `WindowHolds`: on a pool, too, the window comes back to its size and nobody pops
  from an empty one.
- `JoinedOnce`, `ReportAgrees`: in the serial context an outcome is counted once for a
  retained score and the parts of a report are of one moment; in both, a report is
  green only on enough evidence.
- `AllocationExact`: against all portfolios, both programs find one worth most, the
  Python one the first of them, and the heuristic stays within the capacities and
  does not lose by acting.
- `ContactedAreClear`: whoever is contacted has every required fact confirmed clear, is
  in force and was not contacted lately.

**Bounds.** Two ledger objects are enough for every pairwise interleaving under
`ExclusiveOpen`, where operations do not overlap; three are used where they do,
so that a third can act on what two left. Three faults allow a torn write, a
crash during the recovery from it, and another failure. Four records are one
seeded, one lost, and two appended afterwards. In the workflow, two cases compete
for one unit of capacity, and eight events are the four of the second case's
intake and a review and a dispatch for each case. Nine events and two faults let
one case be created, fail in its intake and be created again, or be reviewed,
fail, be reviewed again, executed or dismissed, and resolved. In the demo journey,
two runs of two visitors compete for slots and for the worker's attention; two
attempts and a retry give three copies of an event, in doubt, late or acknowledged;
one crash falls anywhere. For liveness, three attempts are the code's own limit and
three crashes use them up. In the casework, three requests of two clients are a
decision, its retry beside it, and a draft or a decision on the other case; nothing
in it relates three clients. Four records with two identities give a duplicate
inside a batch, across batches and across a restart. In the guard, threshold 2 and
four requests let late answers of admitted requests open, close and reopen the
breaker. Two amendments of a history make an event both late and postponed, or two
events change places. Six observations are the least a split needs (both classes
in three partitions), placed off by one around the boundaries; five policies let one
be observed twice. Windows of two are
filled, overrun and overrun while another thread evicts. Portfolios of three are
beyond `ExactLimit` (6 in the code), those of one and two within it.

**Fairness.** `AuditLedger.cfg` assumes weak fairness of the steps of an
open, and of the write and commit of a begun append. A call that has begun runs
on unless its process dies, and a caller that finds the ledger down opens it
again (the service constructs its ledger at every start). Nothing obliges anyone
to append, and faults are never forced; they are bounded by `MaxFaults`, as no
recovery ends if crashes never do. `DemoJourneyLiveness.cfg` assumes weak fairness of
the worker's next step: its loop goes on while the process lives and reconnects
after every exception. Visitors, reviewers, retention, late copies and crashes have
no fairness. `Streams.cfg` assumes weak fairness of the
consumer's poll, handlers, commit and failure, which one thread and its pool run,
and that a process that was stopped is started again, which is the deployment's
part. Nobody is obliged to stop it.

## 4. Where the code departs from its documents

| Run | Violates | What happens |
| --- | --- | --- |
| `AuditLedgerRaceLoss.cfg` | `AckedSurvive` | The constructor reads the checkpoint and the size before it takes the writer lock (`ledger.py:140-160`). An append that commits in between is cut off. The durability contract (`docs/hardening/rh-10-audit-durability-contract.md:127`) has the lock taken first. |
| `WorkflowRetry.cfg` | `ReturnedCommitted` | `_execution_results` is filled before the audit append and not restored (`service.py:863`, `:400-413`): after a failed append a retry is told that it succeeded. |
| `CorpusNegatives.cfg` | `NegativesAreNegative` | An outcome drawn inside the horizon but ingested after the watermark makes its observation a negative (`v3_corpus.py:354-361`, `v6_corpus.py:240-253`), where the substrate contract (`docs/modeling/phase-02r-08-v3-statistical-substrate-contract.md:172`) and `docs/assumptions.md:53` have it censored. |

`AuditLedgerRaceLoss.cfg` needs `ExclusiveOpen = FALSE`.

Further departures show when a constant of a passing run is changed:

- A fault `"commit"` in `WorkflowService.cfg` violates `StateMatchesAudit`: if the
  committed state cannot be written after the audit append, memory goes back to the
  old state and the service carries on from it (`service.py:726-730`). The same
  happens when the append itself raises after its commit point (`ledger.py:259-262`).
  `WorkflowFaults.cfg` has both kinds of fault.
- `Alone = FALSE` in `WorkflowFaults.cfg` violates `RecoveryNeverRefuses`:
  `create_case`, which holds no lock, persists another call's prepared transition as
  committed (`service.py:551`).
- `Start = {"fresh"}` in `AuditLedgerRacing.cfg` violates `NoForkedHistory`: on a
  fresh log the constructor writes an empty checkpoint without the lock
  (`ledger.py:115`), over that of a running append, and its own next append starts a
  second chain at genesis.
- `Alone = FALSE` and both cases known at the start in `WorkflowService.cfg` violates
  `ImplementsCaseAuthority`: `dismiss_case`, which holds no lock, sees a review that
  is not yet audited, and its transition is audited first. The bound on what is
  executed fails as well: a failing `dismiss_case` restores the whole reservation map
  it saw at its start (`service.py:413`, `:900`, `:921`), and two executions share one
  unit of capacity.
- `Blips = {"commit"}` in `DemoJourney.cfg` violates `JournalAccounts` and
  `NeverUndone`: a finished stage is recorded as failed, whatever the run's status is
  by then (`DemoStore.java:160`); and a case stage that is run again leaves the old
  row in `demo_case` (`:152`) beside the new evidence of the document, so the run can
  neither be decided nor cleaned up.
- `Blips = {"begin"}` violates `OffsetsAccounted`: `loop` lets only a
  `DataAccessException` keep the offset (`DemoJourneyWorker.java:67-68`), but a
  transaction that cannot begin raises a `TransactionException`; the valid event is
  quarantined, its offset committed, and the run, published for good, waits for ever.
  It violates `StagesInOrder` as well (a done
  stage is marked failed when the question about it fails,
  `DemoJourneyWorker.java:162`) and `CapacityRespected` (a retry resets the attempts
  to 0, `DemoStore.java:180`, and a publication that then fails to begin leaves a run
  uncounted whose earlier copy may still arrive).

Others are excluded by the condition a property states:

- without `~overlapped`, `ChainVerifiesInTurn` fails: `AuditLedgerRepository.java:21`
  leaves its monitor before the transaction commits, and the head a waiting
  transaction chose is no longer the newest when it gets the row. With an empty table
  there is no row to wait for. Two entries then name the same parent, and the verifier
  rejects the ledger;
- without `context = "serial"`, `JoinedOnce` fails: two deliveries of one outcome pass
  the lookup at `monitor.py:116` together and both count, and an outcome joined while
  its score is evicted stays behind;
- `AllAccounted` names the records the buffer refuses, which `process_record` reports
  as dead letters and does not send (`kafka_adapter.py:113-122`), and those whose
  downstream raised, which are not tried again;
- `AllocationExact` compares what the Java selection is worth, not what it selects:
  its ties are broken by another order (`PortfolioAllocator.java:52-55`,
  `solver.py:233`) than the Python one's, where the phase 04-03 document asks for
  bit-for-bit equal results.

Others were seen while reading and are not in a model:

- an approved abstention is moved to `DISMISSED` by `_prepare_execution` and then
  refused by `_record_prepared_execution` (`state_machine.py:202`, `:236-245`), so
  the case stays reviewed; the model takes the refusal;
- the Java rules take unknown consent for permission, and offer abstention where
  evidence is unavailable, unlike the Python rules and the matrix of the rh-02
  contract; payment-method remediation goes by e-mail in Java and by SMS in
  the Python catalogue;
- the snapshot interface of the rules engine does not enforce the cooling-off;
- `HttpInferenceClient` retries client errors and identity violations, which the
  phase 04-03 document has fail at once;
- `run_v6_statistical_acceptance.py --check` without intermediate files renders the
  committed manifest again and compares that with itself (`:104-105`), and a seed
  file torn by a crash makes every later run fail until it is deleted;
- `build_decision_note` of `run_final_evaluation.py` writes "Final Determination:
  RELEASE" whatever the decision of the manifest is.

## 5. Proofs

TLAPS checks these theorems for every value of the constants that satisfies the
named assumptions of the modules (`LedgerAssumption`, `WorkflowAssumption`,
`DemoAssumption`, `NoneAssumption`, `CaseworkAssumption`, `ConsumerAssumption`,
`GuardAssumption`, `WindowsAssumption`, `DataAssumption`, `PlanningAssumption`: types,
finiteness of `Case`, `Run` and the like, that `None` is none of the values it stands
beside, the size of the pool and the signs of amounts). They state every safety
property that section 3 checks. `MCStreams` and `MCModeling` hold several systems side
by side; each theorem is about the specification of its own system.

| Theorem | Module | States |
| --- | --- | --- |
| `TypeCorrect` | `AuditLedgerProofs` | `Spec => []TypeOK` |
| `RestartAlwaysSucceeds` | | with `ExclusiveOpen`, `Spec => []RestartSucceeds` |
| `AckedRecordsSurvive` | | with `ExclusiveOpen`, `Spec => []AckedSurvive` |
| `LedgerImplementsLog` | | with `ExclusiveOpen`, `Spec => ImplementsAppendOnlyLog` |
| `RaceNeverForks` | | with `Start \subseteq {"checkpointed"}`, `Spec => []NoForkedHistory` |
| `TypeCorrect` | `WorkflowProofs` | `Spec => []TypeOK` |
| `RestartNeverRefused` | | with `Alone`, `Spec => []RecoveryNeverRefuses` |
| `CapacityBalanced` | `WorkflowAgreementProofs` | `Spec => []CapacityConserved` |
| `MemoryFollowsAudit` | | with `Alone` and no fault after a commit, `Spec => []StateMatchesAudit` |
| `CrashLosesNothing` | | likewise, `Spec => []RestartReproduces` |
| `LedgerFollowsAuthority` | | likewise, `Spec => ImplementsCaseAuthority` |
| `TypeCorrect` | `DemoJourneyProofs` | `Spec => []TypeOK` |
| `Capacity` | | with `"begin" \notin Blips`, `Spec => []CapacityRespected` |
| `Offsets` | | with `"begin" \notin Blips`, `Spec => []OffsetsAccounted` |
| `Journal` | | with `Blips = {}`, `Spec => []JournalAccounts` |
| `Stages` | | with `Blips = {}`, `Spec => []StagesInOrder` |
| `Progress` | | with `Blips = {}`, `Spec => NeverUndone` |
| `DecisionsAreAudited` | `CaseworkProofs` | `Spec => []DecisionsAudited` |
| `RetriesAgree` | | `Spec => []AnswersAgree` |
| `AdviceComesFirst` | | `Spec => []AdvicePrecedesAuthority` |
| `TheChainVerifies` | | `Spec => []ChainVerifiesInTurn` |
| `NobodyWaitsInACircle` | | `Spec => []NoCircularWait` |
| `NoRecordIsSkipped` | `StreamsProofs` | `KafkaConsumer`: `Spec => []NothingSkipped` |
| `IdentitiesAreAcceptedOnce` | | `KafkaConsumer`: `Spec => []AcceptedOncePerLife` |
| `EveryRecordIsAccounted` | | `EventIngress`: `Spec => []AllAccounted` |
| `ReplaysStand` | | `EventIngress`: `Spec => ReplayStands` |
| `InferenceIsLeftAlone` | | `Resilience`: `Spec => InferenceRests` |
| `ReadingsAgree` | `ModelingProofs` | `PolicyHistory`: `Spec => []ReplayAgrees` |
| `LabelsStand` | | `PolicyHistory`: `Spec => LabelsSettle` |
| `CensoringIsTemporary` | | `PolicyHistory`: `Spec => []CensoringEnds` |
| `ObservationsReproduce` | | `RecurringCorpus`: `Spec => []FeaturesReproduce` |
| `NothingIsLearnedFromTheFuture` | | `TemporalSplit`: `Spec => []NoFutureLearned` |
| `TheWindowHolds` | | `DriftMonitor`: `Spec => []WindowHolds` |
| `OutcomesJoinOnce` | | `DriftMonitor`: `Spec => []JoinedOnce` |
| `ReportsAgree` | | `DriftMonitor`: `Spec => []ReportAgrees` |
| `NoValueGivenUp` | | `Planning`: `Spec => []AllocationExact` |
| `OnlyTheClearAreContacted` | | `Planning`: `Spec => []ContactedAreClear` |

No fault after a commit is `"commit" \notin Faults` and `"append-committed" \notin
Faults`. Section 4 shows what happens without each of these hypotheses.

**The ledger.** Neither property is inductive. The invariant that is says, for
each phase of an operation, what the log holds past the checkpoint: nothing, a
torn body, or one whole line; that the prefix up to the checkpoint is the
encoding of a chained sequence of records; that an object which is ready and
agrees with the checkpoint has exactly those records in memory; and that what an
opening object has read is still current, which is where `ExclusiveOpen` is
needed. The lemmas state what encoding, decoding, truncating and appending do to
such sequences; they are non-recursive functions on intervals, so that no
induction is needed. The refinement follows from it: a record enters the committed
prefix, acknowledged, in `CommitCheckpoint`, or without an acknowledgement in
`CheckpointFails` if the replacement took effect; every other step leaves the prefix and
the acknowledgements alone, a truncation too, as it never cuts below the checkpoint.

`RaceNeverForks` has another invariant, as none of the above survives a race. `RaceInv`
gives up that anything is current. It keeps that the log reaches at most one record
past the checkpoint, that no record before it continues the checkpoint's tip while the
one past it does, and that an opener, however old what it read, cuts at or before the
checkpoint. A race may lose a record, then, but never make two of one predecessor.

**The workflow.** `RecoveryNeverRefuses` speaks of one moment and needs to know
what every call may still write. `RecoveryInv` says that at most one call runs
(from the lock and `Alone`), and that memory, the snapshot the running call took
and both halves of the state file refer only to audited events, except for the
event of the pending transition and that of the running call. It was checked by
TLC before it was proved. The theorem covers every kind of fault, the ones after
the audit commit included.

`CapacityBalanced` needs no condition: each state the service may take up, which is
memory, both halves of the state file and every snapshot a call holds, is `Balanced`,
since a step changes one reservation and moves its cost between what is free and what is
reserved. How a sum changes there is a lemma of `SumTheorems`.

The agreement of memory, state file and audit is one invariant, `AgreeInv`. While no
call runs, memory is `Faithful` to what the ledger tells of each case, and what a
restart would take up `Covers` it. A running call weakens that as far as it has come:
until its entry is audited, the snapshot it took agrees with both, and memory
differs from the snapshot by one `Transition` that the entry will record; afterwards
memory agrees. A fault after a commit leaves the ledger ahead of the memory that was
rolled back, which is why the theorems exclude it. `FileInv` says of the
state file that it agrees at every moment, pending or not, so a crash anywhere is
covered. The refinement then reads each append as the step of `CaseAuthority` that the
`Transition` allows; that an execution stays within the capacity is the balance again.

**The demo journey.** `IInv` ties the worker's memory to the tables: whatever it is
about to publish is waiting and has attempts left, whatever it processes is accepted
and not yet drafted, and a run it takes for failed exists or has a receipt. It holds because only
the worker touches an active run. It carries the type, since `attempts` stays in its
range only because `pending` is still current when `publishing` runs. Each step also
has an `Effect`: it takes no slot, unless it is the request that was admitted
(`EntersSlot`), and it forgets no accepted event without a receipt. With these,
`Capacity` follows from the invariant that the *counted* runs, a superset of the
active ones, and the run admitted with the lock held, are within the limits; and
`Offsets` from one which says that every copy in the topic or in flight belongs to a
run that exists or was deleted, and that the records between the committed offset
and the consumer's position were received. Both assume that every transaction can
begin; section 4 shows that they fail without it. They allow `"commit"`.

`Journal`, `Stages` and `Progress` share `DocInv`. For each row it adds to the three
properties how far its status says the run is: a waiting one is not accepted, one in
review has its draft, and the stages of the review are done only in a completed one.
Of the worker it says that the stage it runs, or takes for failed, is the first that
is not done. Every transaction is then `Proper`: it marks places that were not done,
after places that were, or a publication of a run that is not accepted. TLC checked
`DocInv` on the instance of `DemoJourney.cfg` before it was proved. All three assume that the worker
takes nothing for failed that was finished; section 4 shows what happens otherwise.

**The casework.** Four invariants build on each other. `TypeInv` places every
transaction: who is between choosing the head and inserting has the monitor. With
it the waits cannot close: a case row is waited for before the monitor, the monitor
before the head. `LockInv` says that two transactions never hold the row of one
case, and that what a transaction read under its lock is still so when it commits.
`RecordInv` is then inductive: for each case the versions, audit rows, idempotency
records and drafts agree, and a draft's row precedes the decisions'. `ChainInv` says
that, while nothing overlapped, at most one transaction has a row or a chosen head
that is not committed, and that its parent is the newest committed row.

**The streams.** `ConsumerInv` carries the batch under way: a record between the
committed offset and the position is waiting, failed, or handled with its identity
remembered. `OnceInv` counts: an identity was accepted once in this life if it is
remembered, and at most once in each life that is over. `SeenAreTaken` says that a pair is marked as seen only with a record of
that pair taken. `BreakerKnows` relates the breaker to what the callers saw: it counts
their streak, and once that has reached the threshold it is open since the last
failure, or half open and rested.

**The data of the model.** `LifeInv` says that a history, amended or not, has an
outcome exactly for each change to a terminal status, both effective at the same time,
and that every record is the observation of that history at the watermark. A label
that is not censored depends on outcomes ingested by the watermark and on a horizon
that is over, and both stay so. `CorpusInv` has every observation at least 90 days
before the cutoff, and whatever is still to be scheduled after that. `SplitInv` needs
the partitions to be populated: training and test are only kept apart by the
observations validated between them.

`ReadingsAgree` replays the whole history, so `ReplayInv` adds that the history is
`Sound`: finite, its ids distinct, the issuance first, at most one outcome, and
no change of status after a terminal one. The validation refuses what is effective
after a terminal change, but not a change of the same moment that is ordered behind it;
that there is none follows from the chain of statuses, as the first such change would
have to start from a terminal status.

**The monitor.** `MonitorInv` says that with one request at a time the window does not
change between the size that is tested and the report. `WindowInv` holds on the pool: the
window is too long by at most the requests that are scoring, and long enough for all
that are about to evict, which is where the size of the pool counts. `JoinInv` is
about the serial context: a retained score was counted exactly if its outcome is there,
but for the moment between the two; an outcome has its score, but for the moment in
which both leave; and nothing is counted twice.

**Planning.** `PlanInv` says what the two programs hold after each policy: for each
amount of capacity that some choice for the policies so far uses, the Python states have
the one choice that none is better than, and the Java states one that none is worth more
than. `Keep` keeps it, because `Better` is a strict order that appending the same action
preserves, and leaving a policy out is worth and costs what abstaining does. The
heuristic's selection is always one that may be made, with nothing in it worth less
than abstention.

**Sums.** `SumTheorems` proves what the sums of the capacity, of the acceptances and of
a portfolio need: that the fold is the sum, what adding or changing an element does, and
that a finite set with an order has a greatest element. It has no induction to use;
instead it takes a smallest set for which the fact fails, which exists because the
subsets of a finite set are well founded, and shows that it does not fail.

**Only model-checked.** Liveness (`ReopensEventually`, `Settles`, `AllConsumed`), with its
fairness and `ENABLED`, is out of the prover's reach. Every other property of a passing
run is proved. The properties of section 4 are violated on an instance, so nothing is to
be proved of them.

## 6. Not modelled

`PROJECT.json` lists every component. Most lines of the repository belong to the
offline pipelines: the fitting, calibration, bootstrap, diagnostics and acceptance
gates of finished data sets (`simulator/{v3,v4,v5,v6}_*.py`, `calibration.py`,
`bundle.py`, `explanations.py`) and the scripts that run them. They are
floating-point statistics in straight lines, with files written at the end; their
order of events, labels and splits is modelled, their numbers are out of TLC's
reach. The inference runtime, the stability index and the fairness reports are
numerical too.

Scoring authorization and bundles compare digests of immutable files in one call,
and a model of the comparison would only repeat it. The assistant, the bounded
agents, the demo runtime, the dashboard, the web frontend and the scripts render,
format or drive other parts within one request. The audit verifier is a pass over a
finished log; what it accepts is `Verified` of `AuditLedger` and `ChainVerifies` of
`Casework`. Contracts and deployment files hold no behaviour.

Within the modelled parts: the in-memory ledger without a file; the threads of
one process inside a ledger object (its `RLock` covers `append` from end to end);
a request for more information, which writes only metadata; the sessions, cookies and
request quotas of the demo, which only refuse requests; two sessions that
create the same case at the same time, which leaves the first with a context that
is no longer the service's; the retries of the inference clients within one request;
the Java eligibility rules; the older snapshot interface of the Python rules; snapshots and
the economics and semantic catalogues, which are parsed and digested.

## 7. Plan

In the order of importance:

1. *(done)* `AuditLedger` with `AppendOnlyLog`; its theorems.
2. *(done)* `WorkflowService` with `CaseAuthority`; type correctness, recovery, capacity,
   agreement and the refinement.
3. *(done)* `DemoJourney` with crashes of the worker at every transaction boundary,
   deliveries in doubt, retries and retention; type correctness, capacity, offsets, and the document a run shows.
4. *(done)* `Casework` with the Java audit ledger over READ COMMITTED transactions;
   five theorems.
5. *(done)* `KafkaConsumer`, `EventIngress` and `Resilience`; five theorems.
6. *(done)* Histories, corpora, splits, the monitor and planning, checked against
   references; ten theorems.
7. *(open)* The Java eligibility rules beside the Python ones; the context a second
   session of the dashboard replaces.
8. *(done)* The two refinements, and a theorem for every safety property of the runs.
9. *(open)* The demo journey without the hypotheses on `Blips`: what is left of its
   promises, and what a corrected `fail` and `loop` would need to keep them.
