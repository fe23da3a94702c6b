---------------------------- MODULE AuditLedger ----------------------------
(***************************************************************************)
(* The file-backed audit ledger of the simulator package                   *)
(* (simulator/src/inforsight_simulator/audit/ledger.py): a JSONL log, a    *)
(* sidecar checkpoint that marks the committed prefix, and an flock that   *)
(* writers take without waiting.  Several ledger objects (in one process   *)
(* or in several) share the three files.                                   *)
(*                                                                         *)
(* A record's line is two cells of the log, its body and its newline, so a *)
(* torn write is a body without a newline and the length of the sequence   *)
(* stands for the size of the file.  The SHA-256 of a record, which covers *)
(* a fresh uuid4, is its id.  The checkpoint's sequence_number is always   *)
(* its entry_count - 1 and is left out.                                    *)
(***************************************************************************)
EXTENDS Integers, Sequences, FiniteSets

CONSTANTS
    Instance,       \* ledger objects
    MaxRecords,     \* bound: ids handed out to records
    MaxFaults,      \* bound: crashes and I/O errors
    Start,          \* the files a behaviour may start from: a subset of StartKind
    Seeded,         \* records in a log that exists at the start
    ExclusiveOpen,  \* a ledger is opened only while no other is mid-operation
    None            \* no checkpoint, no lock holder

StartKind == {"fresh", "legacy", "checkpointed"}

ASSUME LedgerAssumption ==
    /\ Start \subseteq StartKind
    /\ MaxRecords \in Nat
    /\ MaxFaults \in Nat
    /\ Seeded \in 0 .. MaxRecords
    /\ ExclusiveOpen \in BOOLEAN
    /\ None \notin Instance
    /\ None \notin [count : Nat, tip : Nat, bytes : Nat]

VARIABLES
    log,            \* the cells of the log file
    logExists,      \* the log file exists
    checkpoint,     \* the content of the checkpoint file, or None
    lock,           \* the instance that holds the flock, or None
    pc,             \* where each instance is in __init__ or append
    mem,            \* _records of each instance
    seen,           \* the checkpoint an opening instance has read
    size,           \* the log size an instance has read with stat
    nextId,         \* the id of the next record
    acked,          \* records whose append returned normally
    faults          \* crashes and I/O errors so far

files == <<log, logExists, checkpoint>>
vars == <<log, logExists, checkpoint, lock, pc, mem, seen, size, nextId, acked, faults>>

GENESIS == 0
Id == 1 .. MaxRecords
Record == [id : Id, prev : Id \union {GENESIS}]
(* Zero bytes, which belong to no record. *)
Pad == [rec |-> [id |-> GENESIS, prev |-> GENESIS], newline |-> FALSE]
Cell == [rec : Record, newline : BOOLEAN] \union {Pad}
Checkpoint == [count : Nat, tip : Id \union {GENESIS}, bytes : Nat]

Opening == {"read", "stat", "lock", "parse", "create", "replace"}
Phase == {"down", "ready", "writing", "committing"} \union Opening

Tip(records) == IF records = <<>> THEN GENESIS ELSE records[Len(records)].id

Line(r) == <<[rec |-> r, newline |-> FALSE], [rec |-> r, newline |-> TRUE]>>

(* The log file that holds exactly these records. *)
Encode(records) ==
    [i \in 1 .. 2 * Len(records) |->
        [rec |-> records[(i + 1) \div 2], newline |-> i % 2 = 0]]

(* The records of a file, as the reading loop takes them one line at a time. *)
Decode(cells) == [k \in 1 .. Len(cells) \div 2 |-> cells[2 * k].rec]

Chained(records) ==
    \A k \in 1 .. Len(records) :
        records[k].prev = IF k = 1 THEN GENESIS ELSE records[k - 1].id

(* Every line parses, and prev_hash and entry_hash chain from genesis. *)
Verified(cells) ==
    /\ cells = Encode(Decode(cells))
    /\ Chained(Decode(cells))

(* truncate(n) of the file; past its end it pads with zero bytes. *)
Truncated(cells, n) ==
    [i \in 1 .. n |-> IF i <= Len(cells) THEN cells[i] ELSE Pad]

(* Past the checkpoint, the log ends in a newline after a line that does not *)
(* parse: corruption, not a torn write.                                      *)
MalformedSuffix(cells, n) ==
    LET suffix == SubSeq(cells, n + 1, Len(cells))
    IN  /\ suffix # <<>>
        /\ suffix[Len(suffix)].newline
        /\ suffix # Encode(Decode(suffix))

CheckpointOf_LastIndex(records, bytes) ==
    [count |-> Len(records) - 1, tip |-> Tip(records), bytes |-> bytes]

CheckpointOf(records, bytes) ==
    [count |-> Len(records), tip |-> Tip(records), bytes |-> bytes]

(* The checkpoint on disk describes this instance's records and this log. *)
Current(i) ==
    checkpoint = None \/ checkpoint = CheckpointOf(mem[i], Len(log))

(* What a deployment, not the code, can guarantee: ledgers are opened one at *)
(* a time, and never while another one appends.                              *)
Quiet(i) == ExclusiveOpen => \A j \in Instance \ {i} : pc[j] \in {"down", "ready"}

Seed == [k \in 1 .. Seeded |-> [id |-> k, prev |-> k - 1]]

(* No log, a log that predates checkpoints, or a log with its checkpoint. *)
InitFiles(start) ==
    /\ logExists = (start # "fresh")
    /\ log = IF start = "fresh" THEN <<>> ELSE Encode(Seed)
    /\ checkpoint = IF start = "checkpointed" THEN CheckpointOf(Seed, 2 * Seeded) ELSE None

Init ==
    /\ \E start \in Start : InitFiles(start)
    /\ lock = None
    /\ pc = [i \in Instance |-> "down"]
    /\ mem = [i \in Instance |-> <<>>]
    /\ seen = [i \in Instance |-> None]
    /\ size = [i \in Instance |-> 0]
    /\ nextId = Seeded + 1
    /\ acked = {}
    /\ faults = 0

Goto(i, phase) == pc' = [pc EXCEPT ![i] = phase]

(***************************************************************************)
(* Opening: AuditLedger.__init__, which takes no lock before it truncates. *)
(***************************************************************************)

(* log_path.exists() decides between loading and creating. *)
OpenProbe(i) ==
    /\ pc[i] = "down"
    /\ Quiet(i)
    /\ Goto(i, IF logExists THEN "read" ELSE "create")
    /\ UNCHANGED <<files, lock, mem, seen, size, nextId, acked, faults>>

ReadCheckpoint(i) ==
    /\ pc[i] = "read"
    /\ seen' = [seen EXCEPT ![i] = checkpoint]
    /\ Goto(i, IF checkpoint = None THEN "parse" ELSE "stat")
    /\ UNCHANGED <<files, lock, mem, size, nextId, acked, faults>>

CompareSize_TornIsCorrupt(i) ==
    LET n == seen[i].bytes
        failed == Len(log) < n \/ (Len(log) > n /\ ~log[Len(log)].newline)
    IN  /\ pc[i] = "stat"
        /\ Goto(i, IF failed THEN "down" ELSE IF Len(log) > n THEN "lock" ELSE "parse")
        /\ seen' = [seen EXCEPT ![i] = IF failed THEN None ELSE @]
        /\ UNCHANGED <<files, lock, mem, size, nextId, acked, faults>>

(* stat() of the log against the checkpoint: shorter, or a malformed suffix, *)
(* fails closed; longer goes on to truncate.                                 *)
CompareSize(i) ==
    LET n == seen[i].bytes
        failed == Len(log) < n \/ MalformedSuffix(log, n)
    IN  /\ pc[i] = "stat"
        /\ Goto(i, IF failed THEN "down" ELSE IF Len(log) > n THEN "lock" ELSE "parse")
        /\ seen' = [seen EXCEPT ![i] = IF failed THEN None ELSE @]
        /\ UNCHANGED <<files, lock, mem, size, nextId, acked, faults>>

RecoverSuffix_OneLineTooMany(i) ==
    /\ pc[i] = "lock"
    /\ lock = None
    /\ log' = Truncated(log, IF seen[i].bytes > 1 THEN seen[i].bytes - 2 ELSE 0)
    /\ Goto(i, "parse")
    /\ UNCHANGED <<seen, logExists, checkpoint, lock, mem, size, nextId, acked, faults>>

(* _exclusive_writer().truncate(): a busy lock fails the open; otherwise the *)
(* log is cut at the checkpoint read before the lock was taken.              *)
RecoverSuffix(i) ==
    /\ pc[i] = "lock"
    /\ \/ /\ lock # None
          /\ Goto(i, "down")
          /\ seen' = [seen EXCEPT ![i] = None]
          /\ UNCHANGED log
       \/ /\ lock = None
          /\ log' = Truncated(log, seen[i].bytes)
          /\ Goto(i, "parse")
          /\ UNCHANGED seen
    /\ UNCHANGED <<logExists, checkpoint, lock, mem, size, nextId, acked, faults>>

(* The reading loop verifies the whole log and compares it with the          *)
(* checkpoint; a log without one is given one.                               *)
ParseLog(i) ==
    LET records == Decode(log)
        expected == CheckpointOf(records, 0)
        ok == /\ Verified(log)
              /\ \/ seen[i] = None
                 \/ seen[i].count = expected.count /\ seen[i].tip = expected.tip
    IN  /\ pc[i] = "parse"
        /\ mem' = [mem EXCEPT ![i] = IF ok THEN records ELSE <<>>]
        /\ Goto(i, IF ~ok THEN "down" ELSE IF seen[i] = None THEN "create" ELSE "ready")
        /\ seen' = [seen EXCEPT ![i] = None]
        /\ UNCHANGED <<files, lock, size, nextId, acked, faults>>

(* _write_checkpoint() of the constructor, outside the lock: it takes the    *)
(* size of the log, then replaces the checkpoint.                            *)
CreateStat(i) ==
    /\ pc[i] = "create"
    /\ size' = [size EXCEPT ![i] = Len(log)]
    /\ Goto(i, "replace")
    /\ UNCHANGED <<files, lock, mem, seen, nextId, acked, faults>>

CreateReplace(i) ==
    /\ pc[i] = "replace"
    /\ checkpoint' = CheckpointOf(mem[i], size[i])
    /\ size' = [size EXCEPT ![i] = 0]
    /\ Goto(i, "ready")
    /\ UNCHANGED <<log, logExists, lock, mem, seen, nextId, acked, faults>>

(***************************************************************************)
(* append().  A busy lock or a stale checkpoint raises and changes nothing.*)
(***************************************************************************)

AppendBegin_Unchecked(i) ==
    /\ pc[i] = "ready"
    /\ Quiet(i)
    /\ nextId <= MaxRecords
    /\ lock = None
    /\ lock' = i
    /\ Goto(i, "writing")
    /\ UNCHANGED <<files, mem, seen, size, nextId, acked, faults>>

AppendBegin(i) ==
    /\ pc[i] = "ready"
    /\ Quiet(i)
    /\ nextId <= MaxRecords
    /\ lock = None
    /\ Current(i)
    /\ lock' = i
    /\ Goto(i, "writing")
    /\ UNCHANGED <<files, mem, seen, size, nextId, acked, faults>>

NewRecord(i) == [id |-> nextId, prev |-> Tip(mem[i])]

(* Write, flush, fsync; then the record joins _records before the checkpoint *)
(* is written.                                                               *)
WriteRecord(i) ==
    /\ pc[i] = "writing"
    /\ log' = log \o Line(NewRecord(i))
    /\ logExists' = TRUE
    /\ mem' = [mem EXCEPT ![i] = Append(@, NewRecord(i))]
    /\ nextId' = nextId + 1
    /\ Goto(i, "committing")
    /\ UNCHANGED <<checkpoint, lock, seen, size, acked, faults>>

CommitCheckpoint_SizeBeforeWrite(i) ==
    /\ pc[i] = "committing"
    /\ checkpoint' = CheckpointOf(mem[i], Len(log) - 2)
    /\ acked' = acked \union {mem[i][Len(mem[i])]}
    /\ lock' = None
    /\ Goto(i, "ready")
    /\ UNCHANGED <<log, logExists, mem, seen, size, nextId, faults>>

CommitCheckpoint(i) ==
    /\ pc[i] = "committing"
    /\ checkpoint' = CheckpointOf(mem[i], Len(log))
    /\ acked' = acked \union {mem[i][Len(mem[i])]}
    /\ lock' = None
    /\ Goto(i, "ready")
    /\ UNCHANGED <<log, logExists, mem, seen, size, nextId, faults>>

(***************************************************************************)
(* Faults: the write or the checkpoint raises, or the process dies.        *)
(***************************************************************************)

Fault == faults < MaxFaults /\ faults' = faults + 1

(* The log write raises after n cells reached the file. *)
WriteFails(i, n) ==
    /\ Fault
    /\ pc[i] = "writing"
    /\ log' = log \o SubSeq(Line(NewRecord(i)), 1, n)
    /\ logExists' = TRUE
    /\ nextId' = nextId + 1
    /\ lock' = None
    /\ Goto(i, "ready")
    /\ UNCHANGED <<checkpoint, mem, seen, size, acked>>

(* _write_checkpoint raises, before its os.replace or (the directory fsync)  *)
(* after it; _records keeps the record either way.                           *)
CheckpointFails(i, replaced) ==
    /\ Fault
    /\ pc[i] = "committing"
    /\ checkpoint' = IF replaced THEN CheckpointOf(mem[i], Len(log)) ELSE checkpoint
    /\ lock' = None
    /\ Goto(i, "ready")
    /\ UNCHANGED <<log, logExists, mem, seen, size, nextId, acked>>

(* The process dies, having written n cells if it was writing a record; the  *)
(* operating system drops its flock.                                         *)
Crash(i, n) ==
    /\ Fault
    /\ pc[i] # "down"
    /\ n > 0 => pc[i] = "writing"
    /\ log' = IF n = 0 THEN log ELSE log \o SubSeq(Line(NewRecord(i)), 1, n)
    /\ logExists' = (logExists \/ n > 0)
    /\ nextId' = IF n = 0 THEN nextId ELSE nextId + 1
    /\ lock' = IF lock = i THEN None ELSE lock
    /\ mem' = [mem EXCEPT ![i] = <<>>]
    /\ seen' = [seen EXCEPT ![i] = None]
    /\ size' = [size EXCEPT ![i] = 0]
    /\ Goto(i, "down")
    /\ UNCHANGED <<checkpoint, acked>>

Open(i) ==
    \/ OpenProbe(i) \/ ReadCheckpoint(i) \/ CompareSize(i) \/ RecoverSuffix(i)
    \/ ParseLog(i) \/ CreateStat(i) \/ CreateReplace(i)

Next ==
    \E i \in Instance :
        \/ OpenProbe(i)
        \/ ReadCheckpoint(i)
        \/ CompareSize(i)
        \/ RecoverSuffix(i)
        \/ ParseLog(i)
        \/ CreateStat(i)
        \/ CreateReplace(i)
        \/ AppendBegin(i)
        \/ WriteRecord(i)
        \/ CommitCheckpoint(i)
        \/ \E n \in 0 .. 2 : WriteFails(i, n)
        \/ \E replaced \in BOOLEAN : CheckpointFails(i, replaced)
        \/ \E n \in 0 .. 1 : Crash(i, n)

Spec == Init /\ [][Next]_vars

(* A call that has begun runs on unless its process dies. *)
Fairness ==
    \A i \in Instance :
        /\ WF_vars(Open(i))
        /\ WF_vars(WriteRecord(i) \/ CommitCheckpoint(i))

FairSpec == Spec /\ Fairness

-----------------------------------------------------------------------------

(* Every variable has its type. *)
TypeOK ==
    /\ log \in Seq(Cell)
    /\ logExists \in BOOLEAN
    /\ checkpoint \in Checkpoint \union {None}
    /\ lock \in Instance \union {None}
    /\ pc \in [Instance -> Phase]
    /\ mem \in [Instance -> Seq(Record)]
    /\ seen \in [Instance -> Checkpoint \union {None}]
    /\ size \in [Instance -> Nat]
    /\ nextId \in 1 .. MaxRecords + 1
    /\ acked \subseteq Record
    /\ faults \in 0 .. MaxFaults

(* The committed history as the files tell it: the log up to the checkpoint. *)
Committed ==
    Decode(IF checkpoint = None THEN log ELSE Truncated(log, checkpoint.bytes))

(* "If checkpoint replacement succeeds, the prefix is the committed audit    *)
(* boundary": a record whose append returned is in the log for good.         *)
AckedSurvive == \A r \in acked : \E k \in 1 .. Len(Committed) : Committed[k] = r

(* Between operations, and whatever crashed, failed or was torn before, the  *)
(* files are ones that __init__ accepts: the log is not shorter than its     *)
(* checkpoint, its suffix is not malformed, and the committed prefix         *)
(* verifies and ends where the checkpoint says.                              *)
RestartSucceeds ==
    (logExists /\ \A i \in Instance : pc[i] \in {"down", "ready"}) =>
        IF checkpoint = None THEN Verified(log)
        ELSE /\ Len(log) >= checkpoint.bytes
             /\ ~MalformedSuffix(log, checkpoint.bytes)
             /\ Verified(Truncated(log, checkpoint.bytes))
             /\ checkpoint = CheckpointOf(Committed, checkpoint.bytes)

(* "An instance created before another writer commits cannot fork history":  *)
(* no two records of the log continue the same predecessor.                  *)
NoForkedHistory ==
    \A j, k \in 1 .. Len(log) :
        log[j].newline /\ log[k].newline /\ log[j].rec.prev = log[k].rec.prev => j = k

(* The committed history implements the append-only log.                     *)
AbstractLog == INSTANCE AppendOnlyLog WITH entries <- Committed
ImplementsAppendOnlyLog == AbstractLog!LogSpec

(* A ledger that is down, for whatever reason, opens again: no sequence of   *)
(* crashes and I/O errors leaves files that fail closed for ever.            *)
ReopensEventually == \A i \in Instance : pc[i] = "down" ~> pc[i] = "ready"
=============================================================================
