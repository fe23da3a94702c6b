------------------------- MODULE AuditLedgerProofs -------------------------
(***************************************************************************)
(* Theorems about AuditLedger, for any set of ledger objects, any bounds   *)
(* and any starting files.                                                 *)
(***************************************************************************)
EXTENDS AuditLedger, SequenceTheorems, TLAPS

(* Records and cells ------------------------------------------------------*)

LEMMA CellFields ==
    ASSUME NEW c \in Cell
    PROVE  /\ c.newline \in BOOLEAN
           /\ c.rec.id \in Id \union {GENESIS}
           /\ c.newline => c.rec \in Record
<1>1. CASE c \in [rec : Record, newline : BOOLEAN]
  <2>1. c.rec \in Record /\ c.newline \in BOOLEAN
    BY <1>1
  <2> QED BY <2>1 DEF Record
<1>2. CASE c = Pad
  BY <1>2 DEF Pad
<1> QED BY <1>1, <1>2 DEF Cell

LEMMA SeedType == Seed \in Seq(Record) /\ Len(Seed) = Seeded
<1>1. Seeded \in Nat /\ \A k \in 1 .. Seeded : k \in Id /\ k - 1 \in Id \union {GENESIS}
  BY LedgerAssumption DEF Id, GENESIS
<1>2. \A k \in 1 .. Seeded : [id |-> k, prev |-> k - 1] \in Record
  BY <1>1 DEF Record
<1> QED BY <1>1, <1>2 DEF Seed

(* Encode yields two cells for each record. *)
LEMMA EncodeType ==
    ASSUME NEW records \in Seq(Record)
    PROVE  Encode(records) \in Seq(Cell) /\ Len(Encode(records)) = 2 * Len(records)
<1>1. \A i \in 1 .. 2 * Len(records) : (i + 1) \div 2 \in 1 .. Len(records)
  OBVIOUS
<1>2. \A i \in 1 .. 2 * Len(records) :
        [rec |-> records[(i + 1) \div 2], newline |-> i % 2 = 0] \in Cell
  BY <1>1 DEF Cell
<1> QED BY <1>2 DEF Encode

LEMMA TruncatedType ==
    ASSUME NEW cells \in Seq(Cell), NEW n \in Nat
    PROVE  Truncated(cells, n) \in Seq(Cell) /\ Len(Truncated(cells, n)) = n
BY DEF Truncated, Cell

(* A log whose lines all parse decodes to records. *)
LEMMA DecodeType ==
    ASSUME NEW cells \in Seq(Cell), cells = Encode(Decode(cells))
    PROVE  Decode(cells) \in Seq(Record)
<1> DEFINE d == Decode(cells)
<1>1. Len(cells) \in Nat /\ Len(cells) \div 2 \in Nat
  OBVIOUS
<1>2. DOMAIN d = 1 .. Len(cells) \div 2 /\ Len(d) = Len(cells) \div 2
  BY <1>1 DEF Decode
<1>3. ASSUME NEW k \in 1 .. Len(d) PROVE d[k] \in Record
  <2>0. Len(d) \in Nat /\ k \in Nat /\ 1 <= k /\ k <= Len(d)
    BY <1>1, <1>2
  <2>1. 2 * k \in 1 .. 2 * Len(d) /\ (2 * k) % 2 = 0
    <3> HIDE DEF d
    <3> QED BY <2>0
  <2>2. 2 * k \in 1 .. Len(cells)
    BY <1>1, <1>2
  <2>3. Encode(d)[2 * k].newline = ((2 * k) % 2 = 0)
    BY <2>1 DEF Encode
  <2>4. cells[2 * k].newline
    BY <2>1, <2>3
  <2>5. d[k] = cells[2 * k].rec
    BY <1>2 DEF Decode
  <2> QED BY <2>2, <2>4, <2>5, CellFields
<1>4. d = [k \in 1 .. Len(cells) \div 2 |-> d[k]]
  BY DEF Decode
<1> HIDE DEF d
<1>5. d \in Seq(Record)
  BY <1>1, <1>2, <1>3, <1>4
<1> QED BY <1>5 DEF d

(* Type correctness ------------------------------------------------------*)

(* TypeOK is not inductive: it needs that the writer holds the lock and has *)
(* an id left, that a record is in mem when its checkpoint is written, and  *)
(* that an opener past the checkpoint has read one.                         *)
Holding ==
    \A i \in Instance :
        /\ pc[i] \in {"writing", "committing"} => lock = i
        /\ pc[i] = "writing" => nextId <= MaxRecords
        /\ pc[i] = "committing" => mem[i] # <<>>
        /\ pc[i] \in {"stat", "lock"} => seen[i] \in Checkpoint

TypeInv == TypeOK /\ Holding

LEMMA TipType ==
    ASSUME NEW records \in Seq(Record)
    PROVE  Tip(records) \in Id \union {GENESIS}
<1>1. records # <<>> => records[Len(records)] \in Record
  OBVIOUS
<1> QED BY <1>1 DEF Tip, Record

LEMMA CheckpointOfType ==
    ASSUME NEW records \in Seq(Record), NEW bytes \in Nat
    PROVE  CheckpointOf(records, bytes) \in Checkpoint
<1>1. Tip(records) \in Id \union {GENESIS}
  BY TipType
<1>2. Len(records) \in Nat
  OBVIOUS
<1> QED BY <1>1, <1>2 DEF CheckpointOf, Checkpoint

LEMMA NewRecordType ==
    ASSUME TypeOK, NEW i \in Instance, nextId <= MaxRecords
    PROVE  /\ NewRecord(i) \in Record
           /\ Line(NewRecord(i)) \in Seq(Cell)
           /\ Len(Line(NewRecord(i))) = 2
           /\ \A n \in 0 .. 2 : SubSeq(Line(NewRecord(i)), 1, n) \in Seq(Cell)
<1>1. Tip(mem[i]) \in Id \union {GENESIS}
  BY TipType DEF TypeOK
<1>2. nextId \in Id
  BY LedgerAssumption DEF TypeOK, Id
<1>3. NewRecord(i) \in Record
  BY <1>1, <1>2 DEF NewRecord, Record
<1>4. Line(NewRecord(i)) \in Seq(Cell) /\ Len(Line(NewRecord(i))) = 2
  BY <1>3 DEF Line, Cell
<1>5. ASSUME NEW n \in 0 .. 2 PROVE SubSeq(Line(NewRecord(i)), 1, n) \in Seq(Cell)
  BY <1>4
<1> QED BY <1>3, <1>4, <1>5

LEMMA InitTypeInv == Init => TypeInv
<1> SUFFICES ASSUME Init PROVE TypeInv
  OBVIOUS
<1>1. log \in Seq(Cell) /\ logExists \in BOOLEAN
  BY SeedType, EncodeType DEF Init, InitFiles
<1>2. CheckpointOf(Seed, 2 * Seeded) \in Checkpoint
  BY SeedType, CheckpointOfType, LedgerAssumption
<1>3. checkpoint \in Checkpoint \union {None}
  BY <1>2 DEF Init, InitFiles
<1>4. nextId \in 1 .. MaxRecords + 1 /\ faults \in 0 .. MaxFaults
  BY LedgerAssumption DEF Init
<1>5. /\ lock \in Instance \union {None}
      /\ pc \in [Instance -> Phase]
      /\ mem \in [Instance -> Seq(Record)]
      /\ seen \in [Instance -> Checkpoint \union {None}]
      /\ size \in [Instance -> Nat]
      /\ acked \subseteq Record
  BY DEF Init, Phase
<1>6. Holding
  BY DEF Init, Holding
<1> QED BY <1>1, <1>3, <1>4, <1>5, <1>6 DEF TypeInv, TypeOK

LEMMA NextTypeInv == TypeInv /\ [Next]_vars => TypeInv'
<1> SUFFICES ASSUME TypeInv, [Next]_vars PROVE TypeInv'
  OBVIOUS
<1> USE DEF TypeInv, files, Goto
<1>1. ASSUME NEW i \in Instance, OpenProbe(i) PROVE TypeInv'
  BY <1>1 DEF OpenProbe, TypeOK, Holding, Phase, Opening
<1>2. ASSUME NEW i \in Instance, ReadCheckpoint(i) PROVE TypeInv'
  BY <1>2 DEF ReadCheckpoint, TypeOK, Holding, Phase, Opening
<1>3. ASSUME NEW i \in Instance, CompareSize(i) PROVE TypeInv'
  BY <1>3 DEF CompareSize, TypeOK, Holding, Phase, Opening
<1>4. ASSUME NEW i \in Instance, RecoverSuffix(i) PROVE TypeInv'
  <2>1. seen[i] \in Checkpoint
    BY <1>4 DEF RecoverSuffix, Holding
  <2>2. Truncated(log, seen[i].bytes) \in Seq(Cell)
    BY <2>1, TruncatedType DEF TypeOK, Checkpoint
  <2> QED BY <1>4, <2>2 DEF RecoverSuffix, TypeOK, Holding, Phase, Opening
<1>5. ASSUME NEW i \in Instance, ParseLog(i) PROVE TypeInv'
  <2>1. Verified(log) => Decode(log) \in Seq(Record)
    BY DecodeType DEF TypeOK, Verified
  <2>2. mem' \in [Instance -> Seq(Record)]
    BY <1>5, <2>1 DEF ParseLog, TypeOK
  <2>3. pc' \in [Instance -> Phase]
    BY <1>5 DEF ParseLog, TypeOK, Phase, Opening
  <2>4. seen' \in [Instance -> Checkpoint \union {None}]
    BY <1>5 DEF ParseLog, TypeOK
  <2>5. TypeOK'
    BY <1>5, <2>2, <2>3, <2>4 DEF ParseLog, TypeOK
  <2>6. Holding'
    BY <1>5, <2>2 DEF ParseLog, TypeOK, Holding
  <2> QED BY <2>5, <2>6
<1>6. ASSUME NEW i \in Instance, CreateStat(i) PROVE TypeInv'
  BY <1>6 DEF CreateStat, TypeOK, Holding, Phase, Opening
<1>7. ASSUME NEW i \in Instance, CreateReplace(i) PROVE TypeInv'
  <2>1. CheckpointOf(mem[i], size[i]) \in Checkpoint
    BY CheckpointOfType DEF TypeOK
  <2> QED BY <1>7, <2>1 DEF CreateReplace, TypeOK, Holding, Phase, Opening
<1>8. ASSUME NEW i \in Instance, AppendBegin(i) PROVE TypeInv'
  BY <1>8, LedgerAssumption DEF AppendBegin, TypeOK, Holding, Phase, Opening
<1>9. ASSUME NEW i \in Instance, WriteRecord(i) PROVE TypeInv'
  <2>1. nextId <= MaxRecords /\ lock = i
    BY <1>9 DEF WriteRecord, Holding
  <2>2. NewRecord(i) \in Record /\ log \o Line(NewRecord(i)) \in Seq(Cell)
    BY <2>1, NewRecordType DEF TypeOK
  <2>3. mem' \in [Instance -> Seq(Record)] /\ mem'[i] # <<>>
    BY <1>9, <2>2 DEF WriteRecord, TypeOK
  <2>4. nextId' \in 1 .. MaxRecords + 1
    BY <1>9, <2>1, LedgerAssumption DEF WriteRecord, TypeOK
  <2>5. TypeOK'
    BY <1>9, <2>2, <2>3, <2>4 DEF WriteRecord, TypeOK, Phase
  <2>6. Holding'
    BY <1>9, <2>1, <2>3, LedgerAssumption DEF WriteRecord, TypeOK, Holding
  <2> QED BY <2>5, <2>6
<1>10. ASSUME NEW i \in Instance, CommitCheckpoint(i) PROVE TypeInv'
  <2>1. CheckpointOf(mem[i], Len(log)) \in Checkpoint
    BY CheckpointOfType DEF TypeOK
  <2>2. mem[i][Len(mem[i])] \in Record
    BY <1>10 DEF CommitCheckpoint, TypeOK, Holding
  <2>3. TypeOK'
    BY <1>10, <2>1, <2>2 DEF CommitCheckpoint, TypeOK, Phase
  <2>4. Holding'
    BY <1>10, LedgerAssumption DEF CommitCheckpoint, TypeOK, Holding
  <2> QED BY <2>3, <2>4
<1>11. ASSUME NEW i \in Instance, NEW n \in 0 .. 2, WriteFails(i, n) PROVE TypeInv'
  <2>1. nextId <= MaxRecords /\ lock = i
    BY <1>11 DEF WriteFails, Holding
  <2>2. log' \in Seq(Cell)
    BY <1>11, <2>1, NewRecordType DEF WriteFails, TypeOK
  <2>3. TypeOK'
    BY <1>11, <2>1, <2>2, LedgerAssumption DEF WriteFails, Fault, TypeOK, Phase
  <2>4. Holding'
    BY <1>11, <2>1, LedgerAssumption DEF WriteFails, TypeOK, Holding
  <2> QED BY <2>3, <2>4
<1>12. ASSUME NEW i \in Instance, NEW replaced \in BOOLEAN, CheckpointFails(i, replaced)
       PROVE TypeInv'
  <2>1. CheckpointOf(mem[i], Len(log)) \in Checkpoint
    BY CheckpointOfType DEF TypeOK
  <2>2. TypeOK'
    BY <1>12, <2>1, LedgerAssumption DEF CheckpointFails, Fault, TypeOK, Phase
  <2>3. Holding'
    BY <1>12, LedgerAssumption DEF CheckpointFails, TypeOK, Holding
  <2> QED BY <2>2, <2>3
<1>13. ASSUME NEW i \in Instance, NEW n \in 0 .. 1, Crash(i, n) PROVE TypeInv'
  <2>1. n > 0 => nextId <= MaxRecords /\ lock = i
    BY <1>13 DEF Crash, Holding
  <2>2. log' \in Seq(Cell)
    BY <1>13, <2>1, NewRecordType DEF Crash, TypeOK
  <2>3. nextId' \in 1 .. MaxRecords + 1 /\ faults' \in 0 .. MaxFaults
    BY <1>13, <2>1, LedgerAssumption DEF Crash, Fault, TypeOK
  <2>4. /\ pc' \in [Instance -> Phase]
        /\ mem' \in [Instance -> Seq(Record)]
        /\ seen' \in [Instance -> Checkpoint \union {None}]
        /\ size' \in [Instance -> Nat]
    BY <1>13 DEF Crash, TypeOK, Phase
  <2>5. TypeOK'
    BY <1>13, <2>2, <2>3, <2>4 DEF Crash, TypeOK
  <2>6. Holding'
    BY <1>13, <2>1, LedgerAssumption DEF Crash, TypeOK, Holding
  <2> QED BY <2>5, <2>6
<1>14. CASE UNCHANGED vars
  BY <1>14 DEF vars, TypeOK, Holding
<1> QED
  BY <1>1, <1>2, <1>3, <1>4, <1>5, <1>6, <1>7, <1>8, <1>9, <1>10, <1>11, <1>12, <1>13, <1>14
  DEF Next

(* Every reachable state has its type, however ledgers are opened.          *)
THEOREM TypeCorrect == Spec => []TypeOK
<1>1. TypeInv => TypeOK
  BY DEF TypeInv
<1> QED BY InitTypeInv, NextTypeInv, <1>1, PTL DEF Spec

(* The committed prefix ---------------------------------------------------*)

(* The id of the nth line of the log, which the next line must name.        *)
LogTip(n) == IF n = 0 THEN GENESIS ELSE log[2 * n].rec.id

(* The kth line of the log is whole and continues its predecessor.          *)
LineAt(k) ==
    /\ log[2 * k - 1] = [rec |-> log[2 * k].rec, newline |-> FALSE]
    /\ log[2 * k].newline
    /\ log[2 * k].rec.prev = LogTip(k - 1)

Lines(n) == \A k \in 1 .. n : LineAt(k)

(* These records describe the whole log.                                    *)
Describes(records) ==
    /\ Len(log) = 2 * Len(records)
    /\ Lines(Len(records))
    /\ Tip(records) = LogTip(Len(records))

(* Before the first checkpoint the log is whole; from then on it is a whole *)
(* prefix, which holds what was acknowledged, and at most one more line.    *)
FilesInv ==
    IF checkpoint = None
    THEN /\ \E n \in 0 .. Len(log) : Len(log) = 2 * n /\ Lines(n)
         /\ acked = {}
    ELSE /\ checkpoint.bytes = 2 * checkpoint.count
         /\ Len(log) \in checkpoint.bytes .. checkpoint.bytes + 2
         /\ Lines(checkpoint.count)
         /\ checkpoint.tip = LogTip(checkpoint.count)
         /\ Len(log) = checkpoint.bytes + 1 => ~log[Len(log)].newline
         /\ Len(log) = checkpoint.bytes + 2 => LineAt(checkpoint.count + 1)
         /\ \A r \in acked : \E k \in 1 .. checkpoint.count : log[2 * k].rec = r

(* What an instance knows of the files in each phase.                       *)
PhaseInv(i) ==
    /\ pc[i] \in {"down", "read", "stat", "lock", "parse"} => mem[i] = <<>>
    /\ pc[i] \in {"create", "replace"} => Describes(mem[i])
    /\ pc[i] \in {"create", "replace"} => checkpoint = None \/ log = <<>>
    /\ pc[i] = "replace" => size[i] = Len(log)
    /\ pc[i] \in {"stat", "lock", "parse"} => seen[i] = checkpoint
    /\ pc[i] \in {"stat", "lock", "ready", "writing", "committing"} => checkpoint # None
    /\ pc[i] = "parse" /\ checkpoint # None => Len(log) = checkpoint.bytes
    /\ pc[i] = "writing" => checkpoint = CheckpointOf(mem[i], Len(log))
    /\ pc[i] = "committing" =>
         /\ Len(log) = checkpoint.bytes + 2
         /\ Len(mem[i]) = checkpoint.count + 1
         /\ mem[i][Len(mem[i])] = log[Len(log)].rec

Idle(i) == pc[i] \in {"down", "ready"}

LedgerInv ==
    /\ TypeInv
    /\ \A i, j \in Instance : i # j => Idle(i) \/ Idle(j)
    /\ ~logExists => log = <<>>
    /\ FilesInv
    /\ \A i \in Instance : PhaseInv(i)

(* What is written after line n leaves the first n lines alone.             *)
LEMMA LinesKept ==
    ASSUME NEW n \in Nat, \A j \in 1 .. 2 * n : log'[j] = log[j], Lines(n)
    PROVE  Lines(n)' /\ LogTip(n)' = LogTip(n)
<1>1. \A k \in 0 .. n : LogTip(k)' = LogTip(k)
  <2> TAKE k \in 0 .. n
  <2>1. k = 0 \/ 2 * k \in 1 .. 2 * n
    OBVIOUS
  <2> QED BY <2>1 DEF LogTip
<1>2. ASSUME NEW k \in 1 .. n PROVE LineAt(k)'
  <2>1. k - 1 \in 0 .. n /\ 2 * k \in 1 .. 2 * n /\ 2 * k - 1 \in 1 .. 2 * n
    OBVIOUS
  <2>2. log'[2 * k] = log[2 * k] /\ log'[2 * k - 1] = log[2 * k - 1]
    BY <2>1
  <2>3. LogTip(k - 1)' = LogTip(k - 1)
    BY <1>1, <2>1
  <2>4. LineAt(k)
    BY DEF Lines
  <2> QED BY <2>2, <2>3, <2>4 DEF LineAt
<1>3. n \in 0 .. n
  OBVIOUS
<1> QED BY <1>1, <1>2, <1>3 DEF Lines

(* n whole lines decode to n records, and the reading loop accepts them.    *)
LEMMA LinesVerified ==
    ASSUME log \in Seq(Cell), NEW n \in Nat, Lines(n), 2 * n <= Len(log),
           NEW cells \in Seq(Cell), Len(cells) = 2 * n,
           \A j \in 1 .. 2 * n : cells[j] = log[j]
    PROVE  /\ Decode(cells) = [k \in 1 .. n |-> log[2 * k].rec]
           /\ Decode(cells) \in Seq(Record)
           /\ Len(Decode(cells)) = n
           /\ Tip(Decode(cells)) = LogTip(n)
           /\ Verified(cells)
<1>1. Len(cells) \div 2 = n
  OBVIOUS
<1>2. ASSUME NEW k \in 1 .. n
      PROVE  /\ 2 * k \in 1 .. Len(cells) /\ 2 * k - 1 \in 1 .. Len(cells)
             /\ cells[2 * k] = log[2 * k] /\ cells[2 * k - 1] = log[2 * k - 1]
             /\ log[2 * k] \in Cell
             /\ log[2 * k].rec \in Record
             /\ LineAt(k)
  <2>1. 2 * k \in 1 .. 2 * n /\ 2 * k - 1 \in 1 .. 2 * n
    OBVIOUS
  <2>2. LineAt(k)
    BY DEF Lines
  <2>3. log[2 * k] \in Cell
    BY <2>1
  <2>4. log[2 * k].rec \in Record
    BY <2>2, <2>3, CellFields DEF LineAt
  <2> QED BY <2>1, <2>2, <2>3, <2>4
<1>3. Decode(cells) = [k \in 1 .. n |-> log[2 * k].rec]
  BY <1>1, <1>2 DEF Decode
<1>4. Decode(cells) \in Seq(Record) /\ Len(Decode(cells)) = n
  <2>1. \A k \in 1 .. n : log[2 * k].rec \in Record
    BY <1>2
  <2> QED BY <2>1, <1>3
<1>5. Tip(Decode(cells)) = LogTip(n)
  <2>1. CASE n = 0
    BY <2>1, <1>4 DEF Tip, LogTip
  <2>2. CASE n # 0
    <3>1. Decode(cells) # <<>> /\ n \in 1 .. n
      BY <2>2, <1>4
    <3>2. Tip(Decode(cells)) = log[2 * n].rec.id
      BY <3>1, <1>3, <1>4 DEF Tip
    <3> QED BY <3>2, <2>2 DEF LogTip
  <2> QED BY <2>1, <2>2
<1>6. Chained(Decode(cells))
  <2> SUFFICES ASSUME NEW k \in 1 .. n
               PROVE  Decode(cells)[k].prev
                        = IF k = 1 THEN GENESIS ELSE Decode(cells)[k - 1].id
    BY <1>4 DEF Chained
  <2>1. Decode(cells)[k].prev = LogTip(k - 1)
    BY <1>2, <1>3 DEF LineAt
  <2>2. CASE k = 1
    BY <2>1, <2>2 DEF LogTip
  <2>3. CASE k # 1
    <3>1. k - 1 \in 1 .. n /\ k - 1 # 0
      BY <2>3
    <3> QED BY <2>1, <2>3, <3>1, <1>3 DEF LogTip
  <2> QED BY <2>2, <2>3
<1>7. cells = Encode(Decode(cells))
  <2> DEFINE d == Decode(cells)
  <2>1. Encode(d) \in Seq(Cell) /\ Len(Encode(d)) = 2 * n
    BY <1>4, EncodeType
  <2>2. ASSUME NEW i \in 1 .. 2 * n PROVE cells[i] = Encode(d)[i]
    <3>0. Encode(d)[i] = [rec |-> d[(i + 1) \div 2], newline |-> i % 2 = 0]
      BY <1>4 DEF Encode
    <3>1. PICK k \in 1 .. n : i = 2 * k \/ i = 2 * k - 1
      <4>1. (i + 1) \div 2 \in 1 .. n
        OBVIOUS
      <4>2. i = 2 * ((i + 1) \div 2) \/ i = 2 * ((i + 1) \div 2) - 1
        OBVIOUS
      <4> QED BY <4>1, <4>2
    <3>2. d[k] = log[2 * k].rec /\ LineAt(k) /\ log[2 * k] \in Cell
      BY <1>2, <1>3
    <3>3. CASE i = 2 * k
      <4>1. (i + 1) \div 2 = k /\ i % 2 = 0
        BY <3>3
      <4>2. Encode(d)[i] = [rec |-> log[2 * k].rec, newline |-> TRUE]
        BY <3>0, <4>1, <3>2
      <4>3. log[2 * k] = [rec |-> log[2 * k].rec, newline |-> TRUE]
        BY <3>2 DEF LineAt, Cell, Pad
      <4> QED BY <4>2, <4>3, <3>3, <1>2
    <3>4. CASE i = 2 * k - 1
      <4>1. (i + 1) \div 2 = k /\ i % 2 # 0
        BY <3>4
      <4>2. Encode(d)[i] = [rec |-> log[2 * k].rec, newline |-> FALSE]
        BY <3>0, <4>1, <3>2
      <4> QED BY <4>2, <3>2, <3>4, <1>2 DEF LineAt
    <3> QED BY <3>1, <3>3, <3>4
  <2>3. Len(cells) = Len(Encode(d)) /\ \A i \in 1 .. Len(cells) : cells[i] = Encode(d)[i]
    BY <2>1, <2>2
  <2> HIDE DEF d
  <2>4. cells = Encode(d)
    BY <2>1, <2>3, SeqEqual
  <2> QED BY <2>4 DEF d
<1> QED BY <1>3, <1>4, <1>5, <1>6, <1>7 DEF Verified

(* Two cells that make a whole line are the encoding of their record.       *)
LEMMA OneLine ==
    ASSUME NEW cells \in Seq(Cell), Len(cells) = 2,
           cells[1] = [rec |-> cells[2].rec, newline |-> FALSE], cells[2].newline
    PROVE  cells = Encode(Decode(cells))
<1> DEFINE d == Decode(cells)
<1>1. cells[2] \in Cell
  <2>1. 2 \in 1 .. Len(cells)
    OBVIOUS
  <2> QED BY <2>1, ElementOfSeq
<1>2. cells[2].rec \in Record /\ cells[2] = [rec |-> cells[2].rec, newline |-> TRUE]
  BY <1>1, CellFields DEF Cell, Pad
<1>3. Len(cells) \div 2 = 1
  OBVIOUS
<1>4. d = [k \in 1 .. 1 |-> cells[2 * k].rec]
  BY <1>3 DEF Decode
<1>5. \A k \in 1 .. 1 : cells[2 * k].rec = cells[2].rec
  OBVIOUS
<1>6. d \in Seq(Record) /\ Len(d) = 1 /\ d[1] = cells[2].rec
  <2> HIDE DEF d
  <2> QED BY <1>2, <1>4, <1>5
<1> HIDE DEF d
<1>7. Encode(d) \in Seq(Cell) /\ Len(Encode(d)) = Len(cells)
  <2>1. Encode(d) \in Seq(Cell) /\ Len(Encode(d)) = 2 * Len(d)
    BY <1>6, EncodeType
  <2>2. 2 * Len(d) = 2
    BY <1>6
  <2> QED BY <2>1, <2>2
<1>8. Encode(d)[1] = cells[1] /\ Encode(d)[2] = cells[2]
  <2>1. (1 + 1) \div 2 = 1 /\ (2 + 1) \div 2 = 1 /\ 1 % 2 # 0 /\ 2 % 2 = 0
    OBVIOUS
  <2>2. 2 * Len(d) = 2
    BY <1>6
  <2>3. Encode(d) = [i \in 1 .. 2 |-> [rec |-> d[(i + 1) \div 2], newline |-> i % 2 = 0]]
    BY <2>2 DEF Encode
  <2>4. /\ Encode(d)[1] = [rec |-> d[(1 + 1) \div 2], newline |-> 1 % 2 = 0]
        /\ Encode(d)[2] = [rec |-> d[(2 + 1) \div 2], newline |-> 2 % 2 = 0]
    BY <2>3
  <2> QED BY <1>2, <1>6, <2>1, <2>4
<1>9. cells = Encode(d)
  <2>1. ASSUME NEW i \in 1 .. Len(cells) PROVE cells[i] = Encode(d)[i]
    <3>1. i = 1 \/ i = 2
      OBVIOUS
    <3> QED BY <3>1, <1>8
  <2> QED BY <1>7, <2>1, SeqEqual
<1> QED BY <1>9 DEF d

(* At most one line follows the checkpoint, and it is whole or torn: never  *)
(* the malformed suffix that fails closed.                                  *)
LEMMA SuffixNotMalformed ==
    ASSUME TypeOK, FilesInv, checkpoint # None
    PROVE  ~MalformedSuffix(log, checkpoint.bytes)
<1> DEFINE n == checkpoint.count
           suffix == SubSeq(log, checkpoint.bytes + 1, Len(log))
<1>1. /\ n \in Nat /\ checkpoint.bytes = 2 * n
      /\ Len(log) \in Nat /\ Len(log) \in 2 * n .. 2 * n + 2
  BY DEF TypeOK, FilesInv, Checkpoint
<1>0. /\ suffix \in Seq(Cell)
      /\ Len(suffix) = Len(log) - 2 * n
      /\ \A i \in 1 .. Len(log) - 2 * n : suffix[i] = log[2 * n + i]
  <2>1. \A i \in 2 * n + 1 .. Len(log) : log[i] \in Cell
    BY <1>1 DEF TypeOK
  <2>2. /\ SubSeq(log, 2 * n + 1, Len(log)) \in Seq(Cell)
        /\ Len(SubSeq(log, 2 * n + 1, Len(log))) =
             IF 2 * n + 1 <= Len(log) THEN Len(log) - (2 * n + 1) + 1 ELSE 0
        /\ \A i \in 1 .. Len(log) - (2 * n + 1) + 1 :
             SubSeq(log, 2 * n + 1, Len(log))[i] = log[2 * n + 1 + i - 1]
    BY <1>1, <2>1, SubSeqProperties
  <2> QED BY <1>1, <2>2
<1> HIDE DEF suffix
<1>2. CASE Len(log) = 2 * n
  <2>1. suffix = <<>>
    BY <1>0, <1>1, <1>2
  <2> QED BY <2>1, <1>1 DEF MalformedSuffix, suffix
<1>3. CASE Len(log) = 2 * n + 1
  <2>1. Len(suffix) = 1 /\ suffix[1] = log[Len(log)]
    BY <1>0, <1>1, <1>3
  <2>2. ~log[Len(log)].newline
    BY <1>1, <1>3 DEF FilesInv
  <2> QED BY <2>1, <2>2, <1>1 DEF MalformedSuffix, suffix
<1>4. CASE Len(log) = 2 * n + 2
  <2>0. 1 \in 1 .. Len(log) - 2 * n /\ 2 \in 1 .. Len(log) - 2 * n /\ Len(log) - 2 * n = 2
    BY <1>1, <1>4
  <2>1. Len(suffix) = 2 /\ suffix[1] = log[2 * n + 1] /\ suffix[2] = log[2 * n + 2]
    BY <1>0, <2>0
  <2>2. 2 * (n + 1) = 2 * n + 2 /\ 2 * (n + 1) - 1 = 2 * n + 1
    BY <1>1
  <2>3. LineAt(n + 1)
    BY <1>1, <1>4 DEF FilesInv
  <2>4. suffix[1] = [rec |-> suffix[2].rec, newline |-> FALSE] /\ suffix[2].newline
    BY <2>1, <2>2, <2>3 DEF LineAt
  <2>5. suffix[2] \in Cell
    <3>1. 2 \in 1 .. Len(suffix)
      BY <2>1
    <3> QED BY <1>0, <3>1
  <2> QED BY <1>0, <2>1, <2>4, <2>5, OneLine DEF MalformedSuffix, suffix
<1> QED BY <1>1, <1>2, <1>3, <1>4

LEMMA CheckpointNotNone ==
    ASSUME NEW records \in Seq(Record), NEW bytes \in Nat
    PROVE  CheckpointOf(records, bytes) # None
<1>1. CheckpointOf(records, bytes) \in [count : Nat, tip : Nat, bytes : Nat]
  <2>1. Tip(records) \in Nat
    BY TipType, LedgerAssumption DEF Id, GENESIS
  <2>2. Len(records) \in Nat
    OBVIOUS
  <2> QED BY <2>1, <2>2 DEF CheckpointOf
<1> QED BY <1>1, LedgerAssumption

LEMMA PairPrefix ==
    ASSUME NEW S, NEW a \in S, NEW b \in S, NEW n \in 0 .. 2
    PROVE  /\ SubSeq(<<a, b>>, 1, n) \in Seq(S)
           /\ Len(SubSeq(<<a, b>>, 1, n)) = n
           /\ n >= 1 => SubSeq(<<a, b>>, 1, n)[1] = a
           /\ n = 2 => SubSeq(<<a, b>>, 1, n)[2] = b
<1> DEFINE p == <<a, b>>
<1>1. p[1] = a /\ p[2] = b
  OBVIOUS
<1> HIDE DEF p
<1>2. \A j \in 1 .. n : p[j] \in S
  <2> TAKE j \in 1 .. n
  <2>1. j = 1 \/ j = 2
    OBVIOUS
  <2> QED BY <1>1, <2>1
<1>3. /\ SubSeq(p, 1, n) \in Seq(S)
      /\ Len(SubSeq(p, 1, n)) = IF 1 <= n THEN n - 1 + 1 ELSE 0
      /\ \A j \in 1 .. n - 1 + 1 : SubSeq(p, 1, n)[j] = p[1 + j - 1]
  BY <1>2, SubSeqProperties
<1>4. Len(SubSeq(p, 1, n)) = n
  BY <1>3
<1>5. n >= 1 => SubSeq(p, 1, n)[1] = a
  BY <1>1, <1>3
<1>6. n = 2 => SubSeq(p, 1, n)[2] = b
  BY <1>1, <1>3
<1> QED BY <1>3, <1>4, <1>5, <1>6 DEF p

(* A current writer that gets n cells of a line to the file leaves a log    *)
(* that FilesInv describes: nothing, a torn line or a whole one follows.    *)
LEMMA CellsAppended ==
    ASSUME TypeInv, FilesInv, NEW i \in Instance, NEW n \in 0 .. 2,
           checkpoint # None, checkpoint = CheckpointOf(mem[i], Len(log)),
           nextId <= MaxRecords,
           log' = log \o SubSeq(Line(NewRecord(i)), 1, n),
           checkpoint' = checkpoint, acked' = acked
    PROVE  /\ FilesInv'
           /\ Len(log') = checkpoint.bytes + n
           /\ n = 2 => log'[Len(log')].rec = NewRecord(i)
<1> DEFINE r == NewRecord(i)
           new == SubSeq(Line(r), 1, n)
<1>0. PICK c \in Nat : c = checkpoint.count
  BY DEF TypeInv, TypeOK, Checkpoint
<1>1. /\ checkpoint.bytes = 2 * c /\ Len(log) = 2 * c
      /\ c = Len(mem[i]) /\ checkpoint.tip = Tip(mem[i])
  BY <1>0 DEF TypeInv, TypeOK, FilesInv, CheckpointOf
<1>2. r \in Record /\ r.prev = checkpoint.tip
  BY <1>1, NewRecordType DEF TypeInv, NewRecord
<1>3. /\ new \in Seq(Cell) /\ Len(new) = n
      /\ n >= 1 => new[1] = [rec |-> r, newline |-> FALSE]
      /\ n = 2 => new[2] = [rec |-> r, newline |-> TRUE]
  <2>1. [rec |-> r, newline |-> FALSE] \in Cell /\ [rec |-> r, newline |-> TRUE] \in Cell
    BY <1>2 DEF Cell
  <2> DEFINE a == [rec |-> r, newline |-> FALSE]
             b == [rec |-> r, newline |-> TRUE]
  <2>2. new = SubSeq(<<a, b>>, 1, n)
    BY DEF Line
  <2> HIDE DEF new, a, b
  <2>3. a \in Cell /\ b \in Cell
    BY <2>1 DEF a, b
  <2>4. /\ SubSeq(<<a, b>>, 1, n) \in Seq(Cell)
        /\ Len(SubSeq(<<a, b>>, 1, n)) = n
        /\ n >= 1 => SubSeq(<<a, b>>, 1, n)[1] = a
        /\ n = 2 => SubSeq(<<a, b>>, 1, n)[2] = b
    BY <2>3, PairPrefix
  <2> QED BY <2>2, <2>4 DEF a, b
<1> HIDE DEF new, r
<1>4. /\ log' = log \o new /\ log \in Seq(Cell)
      /\ Len(log') = 2 * c + n
      /\ \A j \in 1 .. 2 * c : log'[j] = log[j]
      /\ \A j \in 1 .. n : log'[2 * c + j] = new[j]
  <2>1. log' = log \o new /\ log \in Seq(Cell)
    BY DEF new, r, TypeInv, TypeOK
  <2>2. /\ Len(log \o new) = Len(log) + Len(new)
        /\ \A j \in 1 .. Len(log) + Len(new) :
              (log \o new)[j] = IF j <= Len(log) THEN log[j] ELSE new[j - Len(log)]
    BY <1>3, <2>1, ConcatProperties
  <2>3. \A j \in 1 .. 2 * c : log'[j] = log[j]
    BY <1>1, <1>3, <2>1, <2>2
  <2>4. ASSUME NEW j \in 1 .. n PROVE log'[2 * c + j] = new[j]
    <3>1. /\ 2 * c + j \in 1 .. Len(log) + Len(new) /\ ~(2 * c + j <= Len(log))
          /\ 2 * c + j - Len(log) = j
      BY <1>1, <1>3
    <3> QED BY <2>1, <2>2, <3>1
  <2> QED BY <1>1, <1>3, <2>1, <2>2, <2>3, <2>4
<1>5. Lines(c)' /\ LogTip(c)' = LogTip(c)
  <2>1. Lines(c)
    BY <1>0 DEF FilesInv
  <2>2. \A m \in Nat : (\A j \in 1 .. 2 * m : log'[j] = log[j]) /\ Lines(m)
          => Lines(m)' /\ LogTip(m)' = LogTip(m)
    BY LinesKept
  <2> QED BY <1>1, <1>4, <2>1, <2>2
<1>6. checkpoint.tip = LogTip(c)
  BY <1>0 DEF FilesInv
<1>7. n = 1 => ~log'[Len(log')].newline
  <2> HAVE n = 1
  <2>0. 1 \in 1 .. n
    OBVIOUS
  <2>1. log'[2 * c + 1] = new[1] /\ Len(log') = 2 * c + 1
    BY <1>4, <2>0
  <2> QED BY <1>3, <2>1
<1>8. n = 2 => LineAt(c + 1)' /\ log'[Len(log')].rec = r
  <2> HAVE n = 2
  <2>0. 1 \in 1 .. n /\ 2 \in 1 .. n
    OBVIOUS
  <2>1. log'[2 * c + 1] = new[1] /\ log'[2 * c + 2] = new[2] /\ Len(log') = 2 * c + 2
    BY <1>4, <2>0
  <2>2. 2 * (c + 1) = 2 * c + 2 /\ 2 * (c + 1) - 1 = 2 * c + 1 /\ (c + 1) - 1 = c
    BY <1>1
  <2>3. log'[2 * (c + 1)] = [rec |-> r, newline |-> TRUE]
    BY <1>3, <2>1, <2>2
  <2>4. log'[2 * (c + 1) - 1] = [rec |-> r, newline |-> FALSE]
    <3>1. new[1] = [rec |-> r, newline |-> FALSE]
      BY <1>3
    <3>2. log'[2 * (c + 1) - 1] = log'[2 * c + 1]
      BY <2>2
    <3> QED BY <3>1, <3>2, <2>1
  <2>5. r.prev = LogTip((c + 1) - 1)'
    BY <1>2, <1>5, <1>6, <2>2
  <2>6. LineAt(c + 1)'
    <3> DEFINE cell == log'[2 * (c + 1)]
    <3>0. cell = [rec |-> r, newline |-> TRUE]
      BY <2>3
    <3> HIDE DEF cell
    <3>1. cell.rec = r /\ cell.newline
      BY <3>0
    <3>2. log'[2 * (c + 1) - 1] = [rec |-> cell.rec, newline |-> FALSE]
      BY <2>4, <3>1
    <3>3. cell.rec.prev = LogTip((c + 1) - 1)'
      BY <2>5, <3>1
    <3> QED BY ONLY <3>1, <3>2, <3>3 DEF LineAt, cell
  <2>7. log'[Len(log')].rec = r
    BY <2>1, <2>2, <2>3
  <2> QED BY <2>6, <2>7
<1>9. \A a \in acked' : \E k \in 1 .. c : log'[2 * k].rec = a
  <2> TAKE a \in acked'
  <2>1. PICK k \in 1 .. c : log[2 * k].rec = a
    BY <1>0 DEF FilesInv
  <2>2. 2 * k \in 1 .. 2 * c
    BY <1>1
  <2> QED BY <1>4, <2>1, <2>2
<1>10. FilesInv'
  <2>1. Len(log') \in checkpoint.bytes .. checkpoint.bytes + 2
    BY <1>1, <1>4
  <2>2. Len(log') = checkpoint.bytes + 1 => n = 1
    BY <1>1, <1>4
  <2>3. Len(log') = checkpoint.bytes + 2 => n = 2
    BY <1>1, <1>4
  <2> QED BY <1>0, <1>1, <1>5, <1>6, <1>7, <1>8, <1>9, <2>1, <2>2, <2>3 DEF FilesInv
<1> QED BY <1>1, <1>4, <1>8, <1>10 DEF r

(* Replacing the checkpoint after a whole line commits that line.           *)
LEMMA LineCommitted ==
    ASSUME TypeInv, FilesInv, NEW i \in Instance, PhaseInv(i), pc[i] = "committing",
           checkpoint' = CheckpointOf(mem[i], Len(log)), log' = log,
           acked' \subseteq acked \union {mem[i][Len(mem[i])]}
    PROVE  /\ FilesInv'
           /\ checkpoint' # None
           /\ checkpoint'.count = checkpoint.count + 1
           /\ mem[i][Len(mem[i])] = log[2 * (checkpoint.count + 1)].rec
<1> DEFINE r == mem[i][Len(mem[i])]
<1>0. PICK c \in Nat : c = checkpoint.count
  BY DEF TypeInv, TypeOK, PhaseInv, Checkpoint
<1>1. /\ checkpoint # None
      /\ checkpoint.bytes = 2 * c /\ Len(log) = 2 * c + 2
      /\ Len(mem[i]) = c + 1 /\ r = log[2 * c + 2].rec
  BY <1>0 DEF TypeInv, TypeOK, FilesInv, PhaseInv
<1>2. 2 * (c + 1) = 2 * c + 2 /\ c + 1 # 0 /\ c + 1 \in Nat
  BY <1>1
<1>3. Lines(c + 1)
  <2>1. Lines(c) /\ LineAt(c + 1)
    BY <1>0, <1>1 DEF FilesInv
  <2>2. \A k \in 1 .. c + 1 : k \in 1 .. c \/ k = c + 1
    BY <1>1
  <2> QED BY <2>1, <2>2 DEF Lines
<1>4. Tip(mem[i]) = LogTip(c + 1)
  <2>1. mem[i] # <<>>
    BY <1>1, <1>2 DEF TypeInv, TypeOK
  <2>2. Tip(mem[i]) = r.id
    BY <2>1 DEF Tip
  <2> QED BY <1>1, <1>2, <2>2 DEF LogTip
<1>5. \A a \in acked' : \E k \in 1 .. c + 1 : log[2 * k].rec = a
  <2> TAKE a \in acked'
  <2>1. CASE a \in acked
    <3>1. PICK k \in 1 .. c : log[2 * k].rec = a
      BY <1>0, <1>1, <2>1 DEF FilesInv
    <3>2. k \in 1 .. c + 1
      BY <1>1
    <3> QED BY <3>1, <3>2
  <2>2. CASE a = r
    <3>1. c + 1 \in 1 .. c + 1
      BY <1>1
    <3> QED BY <1>1, <1>2, <2>2, <3>1
  <2> QED BY <2>1, <2>2
<1>6. /\ checkpoint'.count = c + 1 /\ checkpoint'.tip = Tip(mem[i])
      /\ checkpoint'.bytes = 2 * c + 2
  BY <1>1 DEF CheckpointOf
<1>7. checkpoint' # None
  BY CheckpointNotNone DEF TypeInv, TypeOK
<1>8. /\ Lines(c + 1)' /\ LogTip(c + 1)' = LogTip(c + 1)
  BY <1>3 DEF Lines, LineAt, LogTip
<1>9. FilesInv'
  <2>1. /\ checkpoint'.bytes = 2 * checkpoint'.count
        /\ Len(log') \in checkpoint'.bytes .. checkpoint'.bytes + 2
        /\ Len(log') # checkpoint'.bytes + 1 /\ Len(log') # checkpoint'.bytes + 2
    BY <1>1, <1>2, <1>6
  <2>2. \A a \in acked' : \E k \in 1 .. checkpoint'.count : log'[2 * k].rec = a
    BY <1>5, <1>6
  <2> QED BY <1>4, <1>6, <1>7, <1>8, <2>1, <2>2 DEF FilesInv
<1> QED BY <1>0, <1>1, <1>2, <1>6, <1>7, <1>9

LEMMA NoLines == Lines(0) /\ LogTip(0) = GENESIS
BY DEF Lines, LogTip

LEMMA InitLedgerInv == Init => LedgerInv
<1> SUFFICES ASSUME Init PROVE LedgerInv
  OBVIOUS
<1>1. TypeInv
  BY InitTypeInv
<1>2. ASSUME NEW n \in Nat, n = Seeded, log = Encode(Seed)
      PROVE  Len(log) = 2 * n /\ Lines(n) /\ Tip(Seed) = LogTip(n)
  <2>1. Len(log) = 2 * n
    BY <1>2, SeedType, EncodeType
  <2>2. ASSUME NEW k \in 1 .. n
        PROVE  /\ log[2 * k] = [rec |-> Seed[k], newline |-> TRUE]
               /\ log[2 * k - 1] = [rec |-> Seed[k], newline |-> FALSE]
    <3>1. /\ 2 * k \in 1 .. 2 * n /\ 2 * k - 1 \in 1 .. 2 * n
          /\ (2 * k + 1) \div 2 = k /\ (2 * k - 1 + 1) \div 2 = k
          /\ (2 * k) % 2 = 0 /\ (2 * k - 1) % 2 # 0
      OBVIOUS
    <3>2. log = [i \in 1 .. 2 * n |-> [rec |-> Seed[(i + 1) \div 2], newline |-> i % 2 = 0]]
      BY <1>2, SeedType DEF Encode
    <3> QED BY <3>1, <3>2
  <2>3. ASSUME NEW k \in 1 .. n PROVE Seed[k].id = k /\ Seed[k].prev = k - 1
    <3>1. Seed[k] = [id |-> k, prev |-> k - 1]
      BY <1>2 DEF Seed
    <3> QED BY <3>1
  <2>4. ASSUME NEW k \in 0 .. n PROVE LogTip(k) = k
    <3>1. k = 0 \/ k \in 1 .. n
      OBVIOUS
    <3>2. CASE k = 0
      BY <3>2 DEF LogTip, GENESIS
    <3>3. CASE k \in 1 .. n
      <4> DEFINE cell == log[2 * k]
      <4>1. cell = [rec |-> Seed[k], newline |-> TRUE] /\ Seed[k].id = k
        BY <2>2, <2>3, <3>3
      <4> HIDE DEF cell
      <4>2. cell.rec.id = k /\ k # 0
        BY <4>1, <3>3
      <4> QED BY <4>2 DEF LogTip, cell
    <3> QED BY <3>1, <3>2, <3>3
  <2>5. Lines(n)
    <3> SUFFICES ASSUME NEW k \in 1 .. n PROVE LineAt(k)
      BY DEF Lines
    <3> DEFINE cell == log[2 * k]
    <3>1. cell = [rec |-> Seed[k], newline |-> TRUE]
      BY <2>2
    <3> HIDE DEF cell
    <3>2. cell.rec = Seed[k] /\ cell.newline
      BY <3>1
    <3>3. Seed[k].prev = k - 1 /\ k - 1 \in 0 .. n
      BY <2>3
    <3>4. log[2 * k - 1] = [rec |-> cell.rec, newline |-> FALSE]
      BY <2>2, <3>2
    <3>5. cell.rec.prev = LogTip(k - 1)
      BY <2>4, <3>2, <3>3
    <3> QED BY <3>2, <3>4, <3>5 DEF LineAt, cell
  <2>6. Tip(Seed) = LogTip(n)
    <3>1. CASE n = 0
      BY <3>1, <1>2, SeedType DEF Tip, LogTip
    <3>2. CASE n # 0
      <4>1. Seed # <<>> /\ Tip(Seed) = Seed[n].id /\ n \in 1 .. n
        BY <3>2, <1>2, SeedType DEF Tip
      <4>2. Seed[n].id = n /\ n \in 0 .. n
        BY <2>3, <4>1
      <4> QED BY <4>1, <4>2, <2>4
    <3> QED BY <3>1, <3>2
  <2> QED BY <2>1, <2>5, <2>6
<1>3. FilesInv
  <2>0. Seeded \in Nat
    BY LedgerAssumption
  <2>1. PICK start \in Start : InitFiles(start)
    BY DEF Init
  <2>2. acked = {}
    BY DEF Init
  <2>3. CASE start = "fresh"
    <3>1. log = <<>> /\ checkpoint = None /\ Len(log) = 2 * 0 /\ 0 \in 0 .. Len(log)
      BY <2>1, <2>3 DEF InitFiles
    <3> QED BY <2>2, <3>1, NoLines DEF FilesInv
  <2>4. CASE start # "fresh" /\ checkpoint = None
    <3>1. Len(log) = 2 * Seeded /\ Lines(Seeded)
      BY <1>2, <2>0, <2>1, <2>4 DEF InitFiles
    <3>2. Seeded \in 0 .. Len(log)
      BY <2>0, <3>1
    <3> QED BY <2>2, <2>4, <3>1, <3>2 DEF FilesInv
  <2>5. CASE start # "fresh" /\ checkpoint # None
    <3>1. Len(log) = 2 * Seeded /\ Lines(Seeded) /\ Tip(Seed) = LogTip(Seeded)
      BY <1>2, <2>0, <2>1, <2>5 DEF InitFiles
    <3>2. /\ checkpoint.count = Seeded /\ checkpoint.bytes = 2 * Seeded
          /\ checkpoint.tip = Tip(Seed)
      BY <2>1, <2>5, SeedType DEF InitFiles, CheckpointOf
    <3>3. /\ Len(log) \in 2 * Seeded .. 2 * Seeded + 2
          /\ Len(log) # 2 * Seeded + 1 /\ Len(log) # 2 * Seeded + 2
      BY <2>0, <3>1
    <3> QED BY <2>2, <2>5, <3>1, <3>2, <3>3 DEF FilesInv
  <2> QED BY <2>3, <2>4, <2>5
<1>4. ~logExists => log = <<>>
  BY DEF Init, InitFiles
<1>5. \A i \in Instance : pc[i] = "down" /\ PhaseInv(i)
  BY DEF Init, PhaseInv
<1> QED BY <1>1, <1>3, <1>4, <1>5 DEF LedgerInv, Idle

(* A step that writes neither file leaves what is said of them true.        *)
LEMMA FilesUntouched ==
    ASSUME log' = log, checkpoint' = checkpoint, acked' = acked
    PROVE  /\ FilesInv' = FilesInv
           /\ \A n \in Nat : Lines(n)' = Lines(n) /\ LogTip(n)' = LogTip(n)
BY DEF FilesInv, Lines, LineAt, LogTip

(* When ledgers are opened one at a time, an instance that is mid-operation *)
(* is alone: every other one is down with no records, or ready.             *)
LEMMA OthersIdle ==
    ASSUME LedgerInv, NEW i \in Instance, ~Idle(i), NEW j \in Instance \ {i},
           pc'[j] = pc[j], mem'[j] = mem[j], checkpoint # None => checkpoint' # None
    PROVE  Idle(j)' /\ PhaseInv(j)'
<1>1. Idle(j)
  BY DEF LedgerInv
<1>2. PhaseInv(j)
  BY DEF LedgerInv
<1> QED BY <1>1, <1>2 DEF Idle, PhaseInv

LEMMA NextLedgerInv ==
    ASSUME ExclusiveOpen
    PROVE  LedgerInv /\ [Next]_vars => LedgerInv'
<1> SUFFICES ASSUME LedgerInv, [Next]_vars PROVE LedgerInv'
  OBVIOUS
<1>0. TypeInv /\ TypeInv' /\ FilesInv /\ (~logExists => log = <<>>)
  BY NextTypeInv DEF LedgerInv
<1>a. ASSUME NEW i \in Instance, ~Idle(i), PhaseInv(i)', FilesInv',
             ~logExists' => log' = <<>>,
             \A j \in Instance \ {i} : pc'[j] = pc[j] /\ mem'[j] = mem[j],
             checkpoint # None => checkpoint' # None
      PROVE  LedgerInv'
  <2>1. \A j \in Instance \ {i} : Idle(j)' /\ PhaseInv(j)'
    BY <1>a, OthersIdle
  <2> QED BY <1>0, <1>a, <2>1 DEF LedgerInv
<1>b. ASSUME NEW i \in Instance, PhaseInv(i)', Quiet(i), Idle(i), UNCHANGED <<files, acked>>,
             \A j \in Instance \ {i} : pc'[j] = pc[j] /\ mem'[j] = mem[j]
      PROVE  LedgerInv'
  <2>1. ASSUME NEW j \in Instance \ {i} PROVE Idle(j)' /\ PhaseInv(j)'
    <3>1. Idle(j) /\ PhaseInv(j)
      BY <1>b DEF Quiet, Idle, LedgerInv
    <3> QED BY <1>b, <3>1 DEF Idle, PhaseInv, files
  <2>2. FilesInv' /\ (~logExists' => log' = <<>>)
    BY <1>0, <1>b, FilesUntouched DEF files
  <2> QED BY <1>0, <1>b, <2>1, <2>2 DEF LedgerInv
<1>1. ASSUME NEW i \in Instance, OpenProbe(i) PROVE LedgerInv'
  <2>1. PhaseInv(i)'
    <3>1. mem'[i] = <<>>
      BY <1>1 DEF OpenProbe, LedgerInv, PhaseInv
    <3>2. ~logExists => Describes(mem[i])'
      <4> HAVE ~logExists
      <4>1. log' = <<>> /\ Len(log') = 0 /\ Len(mem'[i]) = 0 /\ Len(log') = 2 * Len(mem'[i])
        BY <1>0, <1>1, <3>1 DEF OpenProbe, files
      <4>2. Lines(0)' /\ LogTip(0)' = GENESIS /\ Tip(mem'[i]) = GENESIS
        BY <3>1 DEF Lines, LogTip, Tip
      <4> QED BY <4>1, <4>2 DEF Describes
    <3>3. pc'[i] = IF logExists THEN "read" ELSE "create"
      BY <1>0, <1>1 DEF OpenProbe, Goto, TypeInv, TypeOK
    <3>4. ~logExists => log' = <<>>
      BY <1>0, <1>1 DEF OpenProbe, files
    <3>5. \/ pc'[i] = "read"
          \/ pc'[i] = "create" /\ Describes(mem[i])' /\ log' = <<>>
      BY <3>2, <3>3, <3>4
    <3> QED BY <3>1, <3>5 DEF PhaseInv
  <2>2. /\ Quiet(i) /\ Idle(i) /\ UNCHANGED <<files, acked>>
        /\ \A j \in Instance \ {i} : pc'[j] = pc[j] /\ mem'[j] = mem[j]
    BY <1>0, <1>1 DEF OpenProbe, Idle, Goto, TypeInv, TypeOK
  <2> QED BY <1>b, <2>1, <2>2
<1>2. ASSUME NEW i \in Instance, ReadCheckpoint(i) PROVE LedgerInv'
  <2>1. PhaseInv(i)
    BY DEF LedgerInv
  <2>2. PhaseInv(i)'
    BY <1>0, <1>2, <2>1 DEF ReadCheckpoint, PhaseInv, files, Goto, TypeInv, TypeOK
  <2>3. FilesInv'
    BY <1>0, <1>2, FilesUntouched DEF ReadCheckpoint, files
  <2> QED BY <1>0, <1>2, <1>a, <2>2, <2>3
      DEF ReadCheckpoint, Idle, files, Goto, TypeInv, TypeOK
<1>3. ASSUME NEW i \in Instance, CompareSize(i) PROVE LedgerInv'
  <2>1. PhaseInv(i) /\ seen[i] = checkpoint /\ checkpoint # None
    BY <1>3 DEF LedgerInv, CompareSize, PhaseInv
  <2>2. Len(log) \in Nat /\ checkpoint.bytes \in Nat
    <3>1. log \in Seq(Cell) /\ checkpoint \in Checkpoint
      BY <1>0, <2>1 DEF TypeInv, TypeOK
    <3>2. checkpoint.bytes \in Nat
      BY <3>1 DEF Checkpoint
    <3> QED BY <3>1, <3>2
  <2>3. /\ pc'[i] \in {"down", "lock", "parse"}
        /\ pc'[i] = "parse" => Len(log) = checkpoint.bytes
        /\ pc'[i] # "down" => seen'[i] = checkpoint
    BY <1>0, <1>3, <2>1, <2>2 DEF CompareSize, Goto, TypeInv, TypeOK
  <2>4. PhaseInv(i)'
    BY <1>3, <2>1, <2>3 DEF CompareSize, PhaseInv, files
  <2>5. FilesInv'
    BY <1>0, <1>3, FilesUntouched DEF CompareSize, files
  <2> QED BY <1>0, <1>3, <1>a, <2>4, <2>5
      DEF CompareSize, Idle, files, Goto, TypeInv, TypeOK
<1>4. ASSUME NEW i \in Instance, RecoverSuffix(i) PROVE LedgerInv'
  <2>1. PhaseInv(i) /\ seen[i] = checkpoint /\ checkpoint # None /\ mem[i] = <<>>
    BY <1>4 DEF LedgerInv, RecoverSuffix, PhaseInv
  <2>2. CASE lock # None
    <3>1. PhaseInv(i)'
      BY <1>0, <1>4, <2>1, <2>2 DEF RecoverSuffix, PhaseInv, Goto, TypeInv, TypeOK
    <3>2. FilesInv'
      BY <1>0, <1>4, <2>2, FilesUntouched DEF RecoverSuffix
    <3> QED BY <1>0, <1>4, <1>a, <2>2, <3>1, <3>2
        DEF RecoverSuffix, Idle, Goto, TypeInv, TypeOK
  <2>3. CASE lock = None
    <3>0. PICK n \in Nat : n = checkpoint.count /\ checkpoint.bytes = 2 * n
      BY <1>0, <2>1 DEF TypeInv, TypeOK, Checkpoint, FilesInv
    <3>1. /\ log' = Truncated(log, checkpoint.bytes) /\ checkpoint' = checkpoint
          /\ acked' = acked /\ pc'[i] = "parse" /\ seen'[i] = checkpoint /\ mem'[i] = <<>>
          /\ logExists' = logExists
      BY <1>0, <1>4, <2>1, <2>3 DEF RecoverSuffix, Goto, TypeInv, TypeOK
    <3>2. Len(log) \in Nat /\ 2 * n <= Len(log) /\ Lines(n)
      BY <1>0, <2>1, <3>0 DEF FilesInv, TypeInv, TypeOK
    <3>3. Len(log') = 2 * n /\ \A j \in 1 .. 2 * n : log'[j] = log[j]
      <4>1. log' = [j \in 1 .. 2 * n |-> IF j <= Len(log) THEN log[j] ELSE Pad]
        BY <3>0, <3>1 DEF Truncated
      <4>2. \A j \in 1 .. 2 * n : log'[j] = log[j]
        BY <3>2, <4>1
      <4>3. Len(log') = 2 * n
        <5>1. log \in Seq(Cell) /\ checkpoint.bytes \in Nat
          <6>1. 2 * n \in Nat
            OBVIOUS
          <6> QED BY <1>0, <3>0, <6>1 DEF TypeInv, TypeOK
        <5>2. Len(Truncated(log, checkpoint.bytes)) = checkpoint.bytes
          BY <5>1, TruncatedType
        <5> QED BY <3>0, <3>1, <5>2
      <4> QED BY <4>2, <4>3
    <3>4. Lines(n)' /\ LogTip(n)' = LogTip(n)
      BY <3>2, <3>3, LinesKept
    <3>5. \A a \in acked' : \E k \in 1 .. n : log'[2 * k].rec = a
      <4> TAKE a \in acked'
      <4>1. PICK k \in 1 .. n : log[2 * k].rec = a
        BY <1>0, <2>1, <3>0, <3>1 DEF FilesInv
      <4>2. 2 * k \in 1 .. 2 * n
        OBVIOUS
      <4> QED BY <3>3, <4>1, <4>2
    <3>6. FilesInv'
      <4>1. /\ Len(log') \in 2 * n .. 2 * n + 2
            /\ Len(log') # 2 * n + 1 /\ Len(log') # 2 * n + 2
        BY <3>3
      <4>2. checkpoint.tip = LogTip(n)
        BY <1>0, <2>1, <3>0 DEF FilesInv
      <4> QED BY <2>1, <3>0, <3>1, <3>4, <3>5, <4>1, <4>2 DEF FilesInv
    <3>7. PhaseInv(i)'
      BY <2>1, <3>0, <3>1, <3>3 DEF PhaseInv
    <3>8. ~logExists' => log' = <<>>
      <4> HAVE ~logExists'
      <4>1. Len(log) = 0
        BY <1>0, <3>1
      <4>2. Len(log') = 0
        BY <3>2, <3>3, <4>1
      <4>3. log' \in Seq(Cell)
        BY <1>0 DEF TypeInv, TypeOK
      <4> QED BY <4>2, <4>3
    <3> QED BY <1>0, <1>4, <1>a, <3>1, <3>6, <3>7, <3>8
        DEF RecoverSuffix, Idle, Goto, TypeInv, TypeOK
  <2> QED BY <2>2, <2>3
<1>5. ASSUME NEW i \in Instance, ParseLog(i) PROVE LedgerInv'
  <2>1. PhaseInv(i) /\ seen[i] = checkpoint
    BY <1>5 DEF LedgerInv, ParseLog, PhaseInv
  <2>2. FilesInv'
    BY <1>0, <1>5, FilesUntouched DEF ParseLog, files
  <2>3. checkpoint = None => Describes(Decode(log))
    <3> HAVE checkpoint = None
    <3>1. PICK n \in 0 .. Len(log) : Len(log) = 2 * n /\ Lines(n)
      BY <1>0 DEF FilesInv
    <3>2. n \in Nat /\ log \in Seq(Cell)
      BY <1>0 DEF TypeInv, TypeOK
    <3>3. Len(Decode(log)) = n /\ Tip(Decode(log)) = LogTip(n)
      BY <3>1, <3>2, LinesVerified
    <3> QED BY <3>1, <3>3 DEF Describes
  <2>4. /\ pc'[i] \in {"down", "create", "ready"}
        /\ pc'[i] = "down" => mem'[i] = <<>>
        /\ pc'[i] = "create" => mem'[i] = Decode(log) /\ checkpoint = None
        /\ pc'[i] = "ready" => checkpoint # None
    BY <1>0, <1>5, <2>1 DEF ParseLog, Goto, TypeInv, TypeOK
  <2>5. pc'[i] = "create" => Describes(mem[i])'
    <3> HAVE pc'[i] = "create"
    <3>1. Describes(Decode(log)) /\ mem'[i] = Decode(log) /\ log' = log
      BY <1>5, <2>3, <2>4 DEF ParseLog, files
    <3> QED BY <3>1 DEF Describes, Lines, LineAt, LogTip
  <2>6. PhaseInv(i)'
    BY <1>5, <2>4, <2>5 DEF ParseLog, PhaseInv, files
  <2> QED BY <1>0, <1>5, <1>a, <2>2, <2>6
      DEF ParseLog, Idle, files, Goto, TypeInv, TypeOK
<1>6. ASSUME NEW i \in Instance, CreateStat(i) PROVE LedgerInv'
  <2>1. PhaseInv(i) /\ Describes(mem[i])
    BY <1>6 DEF LedgerInv, CreateStat, PhaseInv
  <2>2. Describes(mem[i])'
    BY <1>6, <2>1 DEF CreateStat, files, Describes, Lines, LineAt, LogTip
  <2>3. PhaseInv(i)'
    BY <1>0, <1>6, <2>1, <2>2 DEF CreateStat, PhaseInv, files, Goto, TypeInv, TypeOK
  <2>4. FilesInv'
    BY <1>0, <1>6, FilesUntouched DEF CreateStat, files
  <2> QED BY <1>0, <1>6, <1>a, <2>3, <2>4
      DEF CreateStat, Idle, files, Goto, TypeInv, TypeOK
<1>7. ASSUME NEW i \in Instance, CreateReplace(i) PROVE LedgerInv'
  <2>0. PhaseInv(i) /\ Describes(mem[i]) /\ size[i] = Len(log)
    BY <1>7 DEF LedgerInv, CreateReplace, PhaseInv
  <2>1. PICK n \in Nat : n = Len(mem[i])
    BY <1>0 DEF TypeInv, TypeOK
  <2>2. /\ checkpoint'.count = n /\ checkpoint'.bytes = Len(log) /\ Len(log) = 2 * n
        /\ checkpoint'.tip = LogTip(n) /\ Lines(n)
        /\ log' = log /\ acked' = acked /\ mem' = mem /\ logExists' = logExists
    BY <1>7, <2>0, <2>1 DEF CreateReplace, CheckpointOf, Describes
  <2>3. checkpoint' # None
    BY <1>0, <1>7, CheckpointNotNone DEF CreateReplace, TypeInv, TypeOK
  <2>4. \A a \in acked : \E k \in 1 .. n : log[2 * k].rec = a
    <3>1. CASE checkpoint = None
      BY <1>0, <3>1 DEF FilesInv
    <3>2. CASE checkpoint # None
      <4>1. checkpoint.count \in Nat /\ checkpoint.count <= n
        BY <1>0, <2>2, <3>2 DEF FilesInv, TypeInv, TypeOK, Checkpoint
      <4>2. 1 .. checkpoint.count \subseteq 1 .. n
        BY <4>1
      <4> QED BY <1>0, <3>2, <4>2 DEF FilesInv
    <3> QED BY <3>1, <3>2
  <2>5. Lines(n)' /\ LogTip(n)' = LogTip(n)
    BY <2>2 DEF Lines, LineAt, LogTip
  <2>6. FilesInv'
    <3>1. /\ Len(log') \in 2 * n .. 2 * n + 2
          /\ Len(log') # 2 * n + 1 /\ Len(log') # 2 * n + 2
      BY <2>2
    <3> QED BY <2>2, <2>3, <2>4, <2>5, <3>1 DEF FilesInv
  <2>7. PhaseInv(i)'
    BY <1>0, <1>7, <2>3 DEF CreateReplace, PhaseInv, Goto, TypeInv, TypeOK
  <2> QED BY <1>0, <1>7, <1>a, <2>2, <2>3, <2>6, <2>7
      DEF CreateReplace, Idle, Goto, TypeInv, TypeOK
<1>8. ASSUME NEW i \in Instance, AppendBegin(i) PROVE LedgerInv'
  <2>1. PhaseInv(i) /\ checkpoint # None
    BY <1>8 DEF LedgerInv, AppendBegin, PhaseInv
  <2>2. PhaseInv(i)'
    BY <1>0, <1>8, <2>1 DEF AppendBegin, Current, PhaseInv, files, Goto, TypeInv, TypeOK
  <2> QED BY <1>0, <1>8, <1>b, <2>2 DEF AppendBegin, Idle, files, Goto, TypeInv, TypeOK
<1>9. ASSUME NEW i \in Instance, WriteRecord(i) PROVE LedgerInv'
  <2>1. /\ PhaseInv(i) /\ checkpoint # None /\ checkpoint = CheckpointOf(mem[i], Len(log))
        /\ nextId <= MaxRecords
    BY <1>0, <1>9 DEF LedgerInv, WriteRecord, PhaseInv, TypeInv, Holding
  <2>2. /\ NewRecord(i) \in Record
        /\ Line(NewRecord(i)) \in Seq(Cell) /\ Len(Line(NewRecord(i))) = 2
    BY <1>0, <2>1, NewRecordType DEF TypeInv
  <2>3. SubSeq(Line(NewRecord(i)), 1, 2) = Line(NewRecord(i))
    BY <2>2, SubSeqFull
  <2>4. /\ log' = log \o SubSeq(Line(NewRecord(i)), 1, 2)
        /\ checkpoint' = checkpoint /\ acked' = acked
    BY <1>9, <2>3 DEF WriteRecord
  <2>5. /\ FilesInv' /\ Len(log') = checkpoint.bytes + 2
        /\ log'[Len(log')].rec = NewRecord(i)
    BY <1>0, <2>1, <2>4, CellsAppended
  <2>6. /\ Len(mem'[i]) = checkpoint.count + 1
        /\ mem'[i][Len(mem'[i])] = NewRecord(i)
    <3>1. mem'[i] = Append(mem[i], NewRecord(i)) /\ mem[i] \in Seq(Record)
      BY <1>0, <1>9 DEF WriteRecord, TypeInv, TypeOK
    <3>2. checkpoint.count = Len(mem[i])
      BY <2>1 DEF CheckpointOf
    <3> QED BY <2>2, <3>1, <3>2
  <2>7. PhaseInv(i)'
    BY <1>0, <1>9, <2>1, <2>4, <2>5, <2>6 DEF WriteRecord, PhaseInv, Goto, TypeInv, TypeOK
  <2>8. ~logExists' => log' = <<>>
    BY <1>9 DEF WriteRecord
  <2> QED BY <1>0, <1>9, <1>a, <2>4, <2>5, <2>7, <2>8
      DEF WriteRecord, Idle, Goto, TypeInv, TypeOK
<1>10. ASSUME NEW i \in Instance, CommitCheckpoint(i) PROVE LedgerInv'
  <2>1. PhaseInv(i) /\ pc[i] = "committing"
    BY <1>10 DEF LedgerInv, CommitCheckpoint
  <2>2. FilesInv' /\ checkpoint' # None
    BY <1>0, <1>10, <2>1, LineCommitted DEF CommitCheckpoint
  <2>3. PhaseInv(i)'
    BY <1>0, <1>10, <2>2 DEF CommitCheckpoint, PhaseInv, Goto, TypeInv, TypeOK
  <2> QED BY <1>0, <1>10, <1>a, <2>2, <2>3
      DEF CommitCheckpoint, Idle, Goto, TypeInv, TypeOK
<1>11. ASSUME NEW i \in Instance, NEW n \in 0 .. 2, WriteFails(i, n) PROVE LedgerInv'
  <2>1. /\ PhaseInv(i) /\ checkpoint # None /\ checkpoint = CheckpointOf(mem[i], Len(log))
        /\ nextId <= MaxRecords
    BY <1>0, <1>11 DEF LedgerInv, WriteFails, PhaseInv, TypeInv, Holding
  <2>2. /\ log' = log \o SubSeq(Line(NewRecord(i)), 1, n)
        /\ checkpoint' = checkpoint /\ acked' = acked
    BY <1>11 DEF WriteFails
  <2>3. FilesInv'
    BY <1>0, <2>1, <2>2, CellsAppended
  <2>4. PhaseInv(i)'
    BY <1>0, <1>11, <2>1, <2>2 DEF WriteFails, PhaseInv, Goto, TypeInv, TypeOK
  <2>5. ~logExists' => log' = <<>>
    BY <1>11 DEF WriteFails
  <2> QED BY <1>0, <1>11, <1>a, <2>2, <2>3, <2>4, <2>5
      DEF WriteFails, Idle, Goto, TypeInv, TypeOK
<1>12. ASSUME NEW i \in Instance, NEW replaced \in BOOLEAN, CheckpointFails(i, replaced)
       PROVE LedgerInv'
  <2>1. PhaseInv(i) /\ pc[i] = "committing" /\ checkpoint # None
    BY <1>12 DEF LedgerInv, CheckpointFails, PhaseInv
  <2>2. FilesInv' /\ checkpoint' # None
    <3>1. CASE replaced
      <4>1. /\ checkpoint' = CheckpointOf(mem[i], Len(log)) /\ log' = log
            /\ acked' \subseteq acked \union {mem[i][Len(mem[i])]}
        BY <1>12, <3>1 DEF CheckpointFails
      <4> QED BY <1>0, <2>1, <4>1, LineCommitted
    <3>2. CASE ~replaced
      <4>1. checkpoint' = checkpoint /\ log' = log /\ acked' = acked
        BY <1>12, <3>2 DEF CheckpointFails
      <4> QED BY <1>0, <2>1, <4>1, FilesUntouched
    <3> QED BY <3>1, <3>2
  <2>3. PhaseInv(i)'
    BY <1>0, <1>12, <2>2 DEF CheckpointFails, PhaseInv, Goto, TypeInv, TypeOK
  <2> QED BY <1>0, <1>12, <1>a, <2>1, <2>2, <2>3
      DEF CheckpointFails, Idle, Goto, TypeInv, TypeOK
<1>13. ASSUME NEW i \in Instance, NEW n \in 0 .. 1, Crash(i, n) PROVE LedgerInv'
  <2>1. checkpoint' = checkpoint /\ acked' = acked
    BY <1>13 DEF Crash
  <2>2. FilesInv'
    <3>1. CASE n = 0
      <4>1. log' = log
        BY <1>13, <3>1 DEF Crash
      <4> QED BY <1>0, <2>1, <4>1, FilesUntouched
    <3>2. CASE n # 0
      <4>1. n > 0
        BY <3>2
      <4>2. /\ checkpoint # None /\ checkpoint = CheckpointOf(mem[i], Len(log))
            /\ nextId <= MaxRecords
        BY <1>0, <1>13, <4>1 DEF LedgerInv, Crash, PhaseInv, TypeInv, Holding
      <4>3. log' = log \o SubSeq(Line(NewRecord(i)), 1, n) /\ n \in 0 .. 2
        BY <1>13, <4>1 DEF Crash
      <4> QED BY <1>0, <2>1, <4>2, <4>3, CellsAppended
    <3> QED BY <3>1, <3>2
  <2>3. /\ pc'[i] = "down" /\ mem'[i] = <<>>
        /\ \A j \in Instance \ {i} : pc'[j] = pc[j] /\ mem'[j] = mem[j]
    BY <1>0, <1>13 DEF Crash, Goto, TypeInv, TypeOK
  <2>4. PhaseInv(i)'
    BY <2>3 DEF PhaseInv
  <2>5. ~logExists' => log' = <<>>
    <3> HAVE ~logExists'
    <3>1. logExists' = (logExists \/ n > 0)
      BY <1>13 DEF Crash
    <3>2. ~logExists /\ n = 0
      <4>1. ~(logExists \/ n > 0)
        BY <3>1, Zenon
      <4> QED BY <4>1
    <3>3. log' = log
      BY <1>13, <3>2 DEF Crash
    <3> QED BY <1>0, <3>2, <3>3
  <2>6. CASE ~Idle(i)
    BY <1>a, <2>1, <2>2, <2>3, <2>4, <2>5, <2>6
  <2>7. CASE Idle(i)
    <3>1. n = 0 /\ log' = log
      BY <1>13, <2>7 DEF Crash, Idle
    <3>2. ASSUME NEW j \in Instance \ {i} PROVE PhaseInv(j)' /\ Idle(j)' = Idle(j)
      <4>1. PhaseInv(j)
        BY DEF LedgerInv
      <4>2. seen'[j] = seen[j] /\ size'[j] = size[j] /\ pc'[j] = pc[j] /\ mem'[j] = mem[j]
        BY <1>0, <1>13, <2>3 DEF Crash, TypeInv, TypeOK
      <4> QED BY <2>1, <3>1, <4>1, <4>2
          DEF PhaseInv, Describes, Lines, LineAt, LogTip, CheckpointOf, Tip, Idle
    <3>3. Idle(i)'
      BY <2>3 DEF Idle
    <3> QED BY <1>0, <2>2, <2>4, <2>5, <3>2, <3>3 DEF LedgerInv
  <2> QED BY <2>6, <2>7
<1>14. CASE UNCHANGED vars
  BY <1>0, <1>14, FilesUntouched
  DEF vars, LedgerInv, PhaseInv, Describes, Lines, LineAt, LogTip, Idle, CheckpointOf, Tip
<1> QED
  BY <1>1, <1>2, <1>3, <1>4, <1>5, <1>6, <1>7, <1>8, <1>9, <1>10, <1>11, <1>12, <1>13, <1>14
  DEF Next

(* What a restart finds ---------------------------------------------------*)

LEMMA CommittedRecords ==
    ASSUME TypeOK, FilesInv, checkpoint # None
    PROVE  /\ Committed = [k \in 1 .. checkpoint.count |-> log[2 * k].rec]
           /\ Committed \in Seq(Record) /\ Len(Committed) = checkpoint.count
           /\ Verified(Truncated(log, checkpoint.bytes))
           /\ Tip(Committed) = checkpoint.tip
           /\ Len(log) >= checkpoint.bytes
<1> DEFINE cells == Truncated(log, checkpoint.bytes)
<1>1. PICK n \in Nat : n = checkpoint.count /\ checkpoint.bytes = 2 * n
  BY DEF TypeOK, FilesInv, Checkpoint
<1>2. /\ log \in Seq(Cell) /\ 2 * n <= Len(log) /\ Lines(n)
      /\ checkpoint.tip = LogTip(n)
  BY <1>1 DEF TypeOK, FilesInv
<1>3. cells \in Seq(Cell) /\ Len(cells) = 2 * n
  <2>1. checkpoint.bytes \in Nat
    BY <1>1
  <2>2. cells \in Seq(Cell) /\ Len(cells) = checkpoint.bytes
    BY <1>2, <2>1, TruncatedType
  <2> QED BY <1>1, <2>2
<1>4. \A j \in 1 .. 2 * n : cells[j] = log[j]
  BY <1>1, <1>2 DEF Truncated
<1>5. Committed = Decode(cells)
  BY DEF Committed
<1> HIDE DEF cells
<1>6. /\ Decode(cells) = [k \in 1 .. n |-> log[2 * k].rec]
      /\ Decode(cells) \in Seq(Record)
      /\ Len(Decode(cells)) = n
      /\ Tip(Decode(cells)) = LogTip(n)
      /\ Verified(cells)
  BY <1>2, <1>3, <1>4, LinesVerified
<1> QED BY <1>1, <1>2, <1>5, <1>6 DEF cells

LEMMA LedgerInvRestart == LedgerInv => RestartSucceeds /\ AckedSurvive
<1> SUFFICES ASSUME LedgerInv PROVE RestartSucceeds /\ AckedSurvive
  OBVIOUS
<1>1. TypeOK /\ FilesInv
  BY DEF LedgerInv, TypeInv
<1>2. CASE checkpoint = None
  <2>1. PICK n \in 0 .. Len(log) : Len(log) = 2 * n /\ Lines(n)
    BY <1>1, <1>2 DEF FilesInv
  <2>2. n \in Nat /\ log \in Seq(Cell)
    BY <1>1 DEF TypeOK
  <2>3. Verified(log)
    BY <2>1, <2>2, LinesVerified
  <2>4. acked = {}
    BY <1>1, <1>2 DEF FilesInv
  <2> QED BY <1>2, <2>3, <2>4 DEF RestartSucceeds, AckedSurvive
<1>3. CASE checkpoint # None
  <2>1. checkpoint = CheckpointOf(Committed, checkpoint.bytes)
    <3>1. checkpoint \in Checkpoint
      BY <1>1, <1>3 DEF TypeOK
    <3>2. checkpoint.count = Len(Committed) /\ checkpoint.tip = Tip(Committed)
      BY <1>1, <1>3, CommittedRecords
    <3> QED BY <3>1, <3>2 DEF CheckpointOf, Checkpoint
  <2>2. RestartSucceeds
    BY <1>1, <1>3, <2>1, CommittedRecords, SuffixNotMalformed DEF RestartSucceeds
  <2>3. AckedSurvive
    <3> SUFFICES ASSUME NEW r \in acked
                 PROVE  \E k \in 1 .. Len(Committed) : Committed[k] = r
      BY DEF AckedSurvive
    <3>1. PICK k \in 1 .. checkpoint.count : log[2 * k].rec = r
      BY <1>1, <1>3 DEF FilesInv
    <3>2. /\ Committed = [j \in 1 .. checkpoint.count |-> log[2 * j].rec]
          /\ Len(Committed) = checkpoint.count
      BY <1>1, <1>3, CommittedRecords
    <3> QED BY <3>1, <3>2
  <2> QED BY <2>2, <2>3
<1> QED BY <1>2, <1>3

(* When ledgers are opened one at a time, the files left by any history of  *)
(* appends, crashes and I/O errors are files that __init__ accepts.         *)
THEOREM RestartAlwaysSucceeds ==
    ASSUME ExclusiveOpen
    PROVE  Spec => []RestartSucceeds
<1>1. LedgerInv => RestartSucceeds
  BY LedgerInvRestart
<1> QED BY InitLedgerInv, NextLedgerInv, <1>1, PTL DEF Spec

(* ... and a record whose append returned is never lost.                    *)
THEOREM AckedRecordsSurvive ==
    ASSUME ExclusiveOpen
    PROVE  Spec => []AckedSurvive
<1>1. LedgerInv => AckedSurvive
  BY LedgerInvRestart
<1> QED BY InitLedgerInv, NextLedgerInv, <1>1, PTL DEF Spec

(* The append-only log ----------------------------------------------------*)

(* What CommittedRecords says, as a formula that also holds of the next state. *)
LEMMA CommittedPrefix ==
    LedgerInv /\ checkpoint # None =>
        /\ checkpoint.count \in Nat /\ checkpoint.bytes = 2 * checkpoint.count
        /\ Committed = [k \in 1 .. checkpoint.count |-> log[2 * k].rec]
        /\ Committed \in Seq(Record)
<1> SUFFICES ASSUME LedgerInv, checkpoint # None
             PROVE  /\ checkpoint.count \in Nat /\ checkpoint.bytes = 2 * checkpoint.count
                    /\ Committed = [k \in 1 .. checkpoint.count |-> log[2 * k].rec]
                    /\ Committed \in Seq(Record)
  OBVIOUS
<1>1. TypeOK /\ FilesInv
  BY DEF LedgerInv, TypeInv
<1>2. checkpoint \in Checkpoint
  BY <1>1 DEF TypeOK
<1>3. checkpoint.count \in Nat /\ checkpoint.bytes = 2 * checkpoint.count
  BY <1>1, <1>2 DEF Checkpoint, FilesInv
<1> QED BY <1>1, <1>3, CommittedRecords

(* Before the first checkpoint the whole log is the committed history. *)
LEMMA CommittedWhole ==
    LedgerInv /\ checkpoint = None =>
        /\ Committed = [k \in 1 .. Len(log) \div 2 |-> log[2 * k].rec]
        /\ Committed \in Seq(Record)
<1> SUFFICES ASSUME LedgerInv, checkpoint = None
             PROVE  /\ Committed = [k \in 1 .. Len(log) \div 2 |-> log[2 * k].rec]
                    /\ Committed \in Seq(Record)
  OBVIOUS
<1>1. TypeOK /\ FilesInv
  BY DEF LedgerInv, TypeInv
<1>2. log \in Seq(Cell) /\ Len(log) \in Nat
  BY <1>1 DEF TypeOK
<1>3. PICK n \in 0 .. Len(log) : Len(log) = 2 * n /\ Lines(n)
  BY <1>1 DEF FilesInv
<1>4. n \in Nat /\ 2 * n <= Len(log)
  BY <1>2, <1>3
<1>5. Decode(log) \in Seq(Record)
  BY <1>2, <1>3, <1>4, LinesVerified
<1>6. Committed = Decode(log)
  BY DEF Committed
<1> QED BY <1>5, <1>6 DEF Decode

(* The committed history stays while the checkpoint and the log up to it do. *)
LEMMA CommittedKept ==
    ASSUME LedgerInv, LedgerInv', checkpoint # None, checkpoint' = checkpoint,
           \A j \in 1 .. checkpoint.bytes : log'[j] = log[j]
    PROVE  Committed' = Committed
<1>1. /\ checkpoint.count \in Nat /\ checkpoint.bytes = 2 * checkpoint.count
      /\ Committed = [k \in 1 .. checkpoint.count |-> log[2 * k].rec]
  BY CommittedPrefix
<1>2. Committed' = [k \in 1 .. checkpoint.count |-> log'[2 * k].rec]
  <2>1. (LedgerInv /\ checkpoint # None
          => Committed = [k \in 1 .. checkpoint.count |-> log[2 * k].rec])'
    BY CommittedPrefix, PTL
  <2> QED BY <2>1
<1>3. \A k \in 1 .. checkpoint.count : log'[2 * k].rec = log[2 * k].rec
  <2> TAKE k \in 1 .. checkpoint.count
  <2>1. 2 * k \in 1 .. checkpoint.bytes
    BY <1>1
  <2> QED BY <2>1
<1> QED BY <1>1, <1>2, <1>3

(* Replacing the checkpoint after a record was written commits that record. *)
LEMMA CommitAppends ==
    ASSUME LedgerInv, LedgerInv', NEW i \in Instance, pc[i] = "committing",
           log' = log, checkpoint' = CheckpointOf(mem[i], Len(log))
    PROVE  /\ mem[i][Len(mem[i])] \in Record
           /\ Committed' = Append(Committed, mem[i][Len(mem[i])])
<1> DEFINE r == mem[i][Len(mem[i])]
<1>1. TypeOK /\ FilesInv /\ PhaseInv(i) /\ checkpoint # None
  BY DEF LedgerInv, TypeInv, PhaseInv
<1>2. PICK n \in Nat : n = checkpoint.count /\ checkpoint.bytes = 2 * n
  BY <1>1, CommittedPrefix
<1>3. Len(mem[i]) = n + 1 /\ Len(log) = 2 * n + 2 /\ r = log[2 * (n + 1)].rec
  BY <1>1, <1>2 DEF PhaseInv
<1>4. r \in Record
  <2>1. mem[i] \in Seq(Record) /\ n + 1 \in 1 .. Len(mem[i])
    BY <1>1, <1>3 DEF TypeOK
  <2> QED BY <2>1, <1>3
<1>5. checkpoint' # None /\ checkpoint'.count = n + 1
  <2>1. mem[i] \in Seq(Record) /\ Len(log) \in Nat
    BY <1>1 DEF TypeOK
  <2>2. CheckpointOf(mem[i], Len(log)) # None
    BY <2>1, CheckpointNotNone
  <2> QED BY <2>2, <1>3 DEF CheckpointOf
<1>6. Committed' = [k \in 1 .. n + 1 |-> log[2 * k].rec]
  <2>1. (LedgerInv /\ checkpoint # None
          => Committed = [k \in 1 .. checkpoint.count |-> log[2 * k].rec])'
    BY CommittedPrefix, PTL
  <2> QED BY <2>1, <1>5
<1>7. Committed = [k \in 1 .. n |-> log[2 * k].rec] /\ Committed \in Seq(Record)
  BY <1>1, <1>2, CommittedPrefix
<1> HIDE DEF r
<1>8. Committed' = Append(Committed, r)
  <2>1. Len(Committed) = n
    BY <1>7
  <2>2. /\ Append(Committed, r) \in Seq(Record) /\ Len(Append(Committed, r)) = n + 1
        /\ \A k \in 1 .. n : Append(Committed, r)[k] = Committed[k]
        /\ Append(Committed, r)[n + 1] = r
    BY <1>4, <1>7, <2>1, AppendProperties
  <2>3. Committed' \in Seq(Record) /\ Len(Committed') = n + 1
    <3>1. (LedgerInv /\ checkpoint # None => Committed \in Seq(Record))'
      BY CommittedPrefix, PTL
    <3> QED BY <3>1, <1>5, <1>6
  <2>4. ASSUME NEW k \in 1 .. n + 1 PROVE Committed'[k] = Append(Committed, r)[k]
    <3>1. Committed'[k] = log[2 * k].rec
      BY <1>6
    <3>2. CASE k \in 1 .. n
      BY <3>1, <3>2, <2>2, <1>7
    <3>3. CASE k = n + 1
      BY <3>1, <3>3, <2>2, <1>3
    <3>4. k \in 1 .. n \/ k = n + 1
      OBVIOUS
    <3> QED BY <3>2, <3>3, <3>4
  <2> QED BY <2>2, <2>3, <2>4, SeqEqual
<1> QED BY <1>4, <1>8 DEF r

(* Every step of the files is a step of the append-only log or leaves it.   *)
LEMMA LogStep ==
    ASSUME LedgerInv, LedgerInv', Next
    PROVE  AbstractLog!LogNext \/ UNCHANGED AbstractLog!logVars
<1> USE DEF AbstractLog!logVars
<1>0. TypeOK /\ FilesInv
  BY DEF LedgerInv, TypeInv
<1>a. ASSUME UNCHANGED <<files, acked>> PROVE UNCHANGED AbstractLog!logVars
  BY <1>a DEF files, Committed
<1>b. ASSUME NEW i \in Instance, NEW cells, pc[i] = "writing", log' = log \o cells,
             cells \in Seq(Cell), UNCHANGED <<checkpoint, acked>>
      PROVE  UNCHANGED AbstractLog!logVars
  <2>1. checkpoint # None
    BY <1>b DEF LedgerInv, PhaseInv
  <2>2. log \in Seq(Cell) /\ Len(log) \in Nat /\ checkpoint.bytes <= Len(log)
    BY <1>0, <2>1 DEF TypeOK, FilesInv
  <2>3. checkpoint.bytes \in Nat
    BY <2>1, CommittedPrefix
  <2>4. \A j \in 1 .. checkpoint.bytes : log'[j] = log[j]
    BY <1>b, <2>2, <2>3
  <2> QED BY <1>b, <2>1, <2>4, CommittedKept
<1>c. ASSUME NEW i \in Instance, pc[i] = "committing", log' = log,
             checkpoint' = CheckpointOf(mem[i], Len(log)),
             acked' \in {acked, acked \union {mem[i][Len(mem[i])]}}
      PROVE  AbstractLog!LogNext
  <2>1. /\ mem[i][Len(mem[i])] \in Record
        /\ Committed' = Append(Committed, mem[i][Len(mem[i])])
    BY <1>c, CommitAppends
  <2> QED BY <1>c, <2>1 DEF AbstractLog!LogNext, AbstractLog!AppendAcked, AbstractLog!AppendUnacked
<1>1. ASSUME NEW i \in Instance,
             OpenProbe(i) \/ ReadCheckpoint(i) \/ CompareSize(i) \/ ParseLog(i)
               \/ CreateStat(i) \/ AppendBegin(i)
      PROVE  UNCHANGED AbstractLog!logVars
  BY <1>1, <1>a
  DEF OpenProbe, ReadCheckpoint, CompareSize, ParseLog, CreateStat, AppendBegin, files
<1>2. ASSUME NEW i \in Instance, RecoverSuffix(i) PROVE UNCHANGED AbstractLog!logVars
  <2>1. CASE log' = log
    BY <1>2, <2>1, <1>a DEF RecoverSuffix, files
  <2>2. CASE log' = Truncated(log, seen[i].bytes)
    <3>1. seen[i] = checkpoint /\ checkpoint # None
      BY <1>2 DEF RecoverSuffix, LedgerInv, PhaseInv
    <3>2. Len(log) \in Nat /\ checkpoint.bytes <= Len(log)
      BY <1>0, <3>1 DEF TypeOK, FilesInv
    <3>3. checkpoint.bytes \in Nat
      BY <3>1, CommittedPrefix
    <3>4. \A j \in 1 .. checkpoint.bytes : log'[j] = log[j]
      BY <2>2, <3>1, <3>2, <3>3 DEF Truncated
    <3>5. checkpoint' = checkpoint /\ acked' = acked
      BY <1>2 DEF RecoverSuffix
    <3> QED BY <3>1, <3>4, <3>5, CommittedKept
  <2> QED BY <1>2, <2>1, <2>2 DEF RecoverSuffix
<1>3. ASSUME NEW i \in Instance, CreateReplace(i) PROVE UNCHANGED AbstractLog!logVars
  <2>1. /\ Describes(mem[i]) /\ size[i] = Len(log)
        /\ checkpoint = None \/ log = <<>>
        /\ mem[i] \in Seq(Record)
    BY <1>3, <1>0 DEF CreateReplace, LedgerInv, PhaseInv, TypeOK
  <2>2. PICK n \in Nat : n = Len(mem[i]) /\ Len(log) = 2 * n
    BY <2>1 DEF Describes
  <2>3. log' = log /\ acked' = acked /\ checkpoint' = CheckpointOf(mem[i], Len(log))
    BY <1>3, <2>1 DEF CreateReplace
  <2>4. checkpoint' # None /\ checkpoint'.count = n
    BY <2>1, <2>2, <2>3, CheckpointNotNone DEF CheckpointOf
  <2>5. Committed' = [k \in 1 .. n |-> log[2 * k].rec]
    <3>1. (LedgerInv /\ checkpoint # None
            => Committed = [k \in 1 .. checkpoint.count |-> log[2 * k].rec])'
      BY CommittedPrefix, PTL
    <3> QED BY <3>1, <2>3, <2>4
  <2>6. Committed = [k \in 1 .. n |-> log[2 * k].rec]
    <3>1. CASE checkpoint = None
      <4>1. Len(log) \div 2 = n
        <5>1. \A m \in Nat : (2 * m) \div 2 = m
          OBVIOUS
        <5> QED BY <5>1, <2>2
      <4> QED BY <3>1, <4>1, CommittedWhole
    <3>2. CASE checkpoint # None
      <4>1. log = <<>> /\ n = 0
        BY <2>1, <2>2, <3>2
      <4>2. checkpoint.count \in Nat /\ checkpoint.bytes = 2 * checkpoint.count
        BY <3>2, CommittedPrefix
      <4>3. checkpoint.count = 0
        BY <1>0, <3>2, <4>1, <4>2 DEF FilesInv
      <4> QED BY <3>2, <4>1, <4>3, CommittedPrefix
    <3> QED BY <3>1, <3>2
  <2> QED BY <2>3, <2>5, <2>6
<1>4. ASSUME NEW i \in Instance, WriteRecord(i) PROVE UNCHANGED AbstractLog!logVars
  <2>1. nextId <= MaxRecords
    BY <1>4 DEF WriteRecord, LedgerInv, TypeInv, Holding
  <2>2. Line(NewRecord(i)) \in Seq(Cell)
    BY <1>0, <2>1, NewRecordType
  <2> QED BY <1>4, <1>b, <2>2 DEF WriteRecord
<1>5. ASSUME NEW i \in Instance, CommitCheckpoint(i) PROVE AbstractLog!LogNext
  BY <1>5, <1>c DEF CommitCheckpoint
<1>6. ASSUME NEW i \in Instance, NEW n \in 0 .. 2, WriteFails(i, n)
      PROVE  UNCHANGED AbstractLog!logVars
  <2>1. nextId <= MaxRecords
    BY <1>6 DEF WriteFails, LedgerInv, TypeInv, Holding
  <2>2. SubSeq(Line(NewRecord(i)), 1, n) \in Seq(Cell)
    BY <1>0, <2>1, NewRecordType
  <2> QED BY <1>6, <1>b, <2>2 DEF WriteFails
<1>7. ASSUME NEW i \in Instance, NEW replaced \in BOOLEAN, CheckpointFails(i, replaced)
      PROVE  AbstractLog!LogNext \/ UNCHANGED AbstractLog!logVars
  <2>1. CASE replaced
    BY <1>7, <2>1, <1>c DEF CheckpointFails
  <2>2. CASE ~replaced
    BY <1>7, <2>2, <1>a DEF CheckpointFails, files
  <2> QED BY <2>1, <2>2
<1>8. ASSUME NEW i \in Instance, NEW n \in 0 .. 1, Crash(i, n)
      PROVE  UNCHANGED AbstractLog!logVars
  <2>1. CASE n = 0
    <3>1. log' = log /\ checkpoint' = checkpoint /\ acked' = acked
      BY <1>8, <2>1 DEF Crash
    <3> QED BY <3>1 DEF Committed
  <2>2. CASE n # 0
    <3>1. pc[i] = "writing" /\ n \in 0 .. 2
      BY <1>8, <2>2 DEF Crash
    <3>2. nextId <= MaxRecords
      BY <3>1 DEF LedgerInv, TypeInv, Holding
    <3>3. SubSeq(Line(NewRecord(i)), 1, n) \in Seq(Cell)
      BY <1>0, <3>1, <3>2, NewRecordType
    <3> QED BY <1>8, <1>b, <2>2, <3>1, <3>3 DEF Crash
  <2> QED BY <2>1, <2>2
<1> QED
  BY <1>1, <1>2, <1>3, <1>4, <1>5, <1>6, <1>7, <1>8 DEF Next

(* The files of the ledger, up to the checkpoint, are an append-only log:   *)
(* no step of an opener, of a writer or of a fault rewrites, drops or       *)
(* reorders what was committed, a commit adds one record at the end, and    *)
(* an append is acknowledged only as it commits.                            *)
THEOREM LedgerImplementsLog ==
    ASSUME ExclusiveOpen
    PROVE  Spec => ImplementsAppendOnlyLog
<1>1. LedgerInv /\ Init => AbstractLog!LogInit
  <2> SUFFICES ASSUME LedgerInv, Init PROVE AbstractLog!LogInit
    OBVIOUS
  <2>1. Committed \in Seq(Record)
    BY CommittedPrefix, CommittedWhole
  <2>2. acked = {}
    BY DEF Init
  <2> QED BY <2>1, <2>2 DEF AbstractLog!LogInit
<1>2. LedgerInv /\ LedgerInv' /\ [Next]_vars => [AbstractLog!LogNext]_(AbstractLog!logVars)
  <2> SUFFICES ASSUME LedgerInv, LedgerInv', [Next]_vars
               PROVE  [AbstractLog!LogNext]_(AbstractLog!logVars)
    OBVIOUS
  <2>1. CASE Next
    BY <2>1, LogStep
  <2>2. CASE UNCHANGED vars
    BY <2>2 DEF vars, files, Committed, AbstractLog!logVars
  <2> QED BY <2>1, <2>2
<1> QED
  BY InitLedgerInv, NextLedgerInv, <1>1, <1>2, PTL
  DEF Spec, ImplementsAppendOnlyLog, AbstractLog!LogSpec

(* Racing openers ---------------------------------------------------------*)

(* From a checkpointed log, and however ledgers race, the checkpoint stays, *)
(* its tip is an id already used, and the log reaches at most one record    *)
(* past it.                                                                 *)
CutInv ==
    /\ checkpoint \in Checkpoint
    /\ logExists
    /\ checkpoint.tip < nextId
    /\ Len(log) <= checkpoint.bytes + 2

(* No record up to the checkpoint continues its tip; the one past it does.  *)
EndsInv ==
    \A j \in 1 .. Len(log) : log[j].newline =>
        /\ log[j].rec.prev < nextId
        /\ j <= checkpoint.bytes => log[j].rec.prev # checkpoint.tip
        /\ j > checkpoint.bytes =>
             j = checkpoint.bytes + 2 /\ log[j].rec.prev = checkpoint.tip

(* An opener cuts at or before the checkpoint, and only a writer whose      *)
(* records end at the checkpoint adds a record.                             *)
RacerInv(i) ==
    /\ pc[i] \notin {"create", "replace"}
    /\ pc[i] \in {"stat", "lock", "parse"} =>
         seen[i] \in Checkpoint /\ seen[i].bytes <= checkpoint.bytes
    /\ pc[i] = "writing" => checkpoint = CheckpointOf(mem[i], Len(log))
    /\ pc[i] = "committing" =>
         /\ Len(log) = checkpoint.bytes + 2
         /\ mem[i][Len(mem[i])].id < nextId
         /\ \A j \in 1 .. Len(log) :
              log[j].newline => log[j].rec.prev < mem[i][Len(mem[i])].id

RaceInv == TypeInv /\ CutInv /\ EndsInv /\ NoForkedHistory /\ \A i \in Instance : RacerInv(i)

(* The cells of a record's line.                                            *)
LEMMA LineCells ==
    ASSUME NEW r \in Record, NEW n \in 0 .. 2
    PROVE  /\ SubSeq(Line(r), 1, n) \in Seq(Cell) /\ Len(SubSeq(Line(r), 1, n)) = n
           /\ \A k \in 1 .. n : SubSeq(Line(r), 1, n)[k].newline =>
                k = 2 /\ SubSeq(Line(r), 1, n)[k].rec = r
<1> DEFINE a == [rec |-> r, newline |-> FALSE]
           b == [rec |-> r, newline |-> TRUE]
           new == SubSeq(<<a, b>>, 1, n)
<1>1. a \in Cell /\ b \in Cell
  BY DEF Cell
<1>2. ~a.newline /\ b.rec = r
  OBVIOUS
<1>3. SubSeq(Line(r), 1, n) = new
  BY DEF Line
<1> HIDE DEF a, b
<1>4. /\ new \in Seq(Cell) /\ Len(new) = n
      /\ n >= 1 => new[1] = a
      /\ n = 2 => new[2] = b
  BY <1>1, PairPrefix
<1> HIDE DEF new
<1>5. ASSUME NEW k \in 1 .. n, new[k].newline PROVE k = 2 /\ new[k].rec = r
  <2>1. CASE k = 1
    BY <2>1, <1>2, <1>4, <1>5
  <2>2. CASE k = 2 /\ n = 2
    BY <2>2, <1>2, <1>4
  <2>3. k = 1 \/ (k = 2 /\ n = 2)
    OBVIOUS
  <2> QED BY <2>1, <2>2, <2>3
<1> QED BY <1>3, <1>4, <1>5

(* A step that only drops cells keeps the log free of forks.                *)
LEMMA CellsDropped ==
    ASSUME CutInv, EndsInv, NoForkedHistory, log \in Seq(Cell), log' \in Seq(Cell),
           checkpoint' = checkpoint, nextId \in Nat, nextId' \in Nat, nextId <= nextId',
           \A j \in 1 .. Len(log') :
              log'[j].newline => j \in 1 .. Len(log) /\ log'[j] = log[j]
    PROVE  EndsInv' /\ NoForkedHistory'
<1>1. ASSUME NEW j \in 1 .. Len(log'), log'[j].newline
      PROVE  /\ log'[j].rec.prev < nextId'
             /\ j <= checkpoint.bytes => log'[j].rec.prev # checkpoint.tip
             /\ j > checkpoint.bytes =>
                  j = checkpoint.bytes + 2 /\ log'[j].rec.prev = checkpoint.tip
  <2>1. j \in 1 .. Len(log) /\ log'[j] = log[j] /\ log[j].newline
    BY <1>1
  <2>2. log[j].rec.prev \in Nat
    <3>1. log[j].rec \in Record
      BY <2>1, CellFields
    <3> QED BY <3>1, LedgerAssumption DEF Record, Id, GENESIS
  <2>3. log'[j].rec.prev < nextId'
    BY <2>1, <2>2 DEF EndsInv
  <2> QED BY <2>1, <2>3 DEF EndsInv
<1>2. EndsInv'
  BY <1>1 DEF EndsInv
<1>3. ASSUME NEW j \in 1 .. Len(log'), NEW k \in 1 .. Len(log'),
             log'[j].newline, log'[k].newline, log'[j].rec.prev = log'[k].rec.prev
      PROVE  j = k
  <2>1. /\ j \in 1 .. Len(log) /\ log'[j] = log[j]
        /\ k \in 1 .. Len(log) /\ log'[k] = log[k]
    BY <1>3
  <2> QED BY <1>3, <2>1 DEF NoForkedHistory
<1>4. NoForkedHistory'
  BY <1>3 DEF NoForkedHistory
<1> QED BY <1>2, <1>4

(* Neither does a writer whose records end at the checkpoint make one: the  *)
(* record it adds is the only one that continues the checkpoint's tip.      *)
LEMMA CellsAdded ==
    ASSUME RaceInv, NEW i \in Instance, pc[i] = "writing", NEW n \in 0 .. 2,
           log' = log \o SubSeq(Line(NewRecord(i)), 1, n),
           checkpoint' = checkpoint, nextId' = nextId + 1, logExists'
    PROVE  /\ CutInv' /\ EndsInv' /\ NoForkedHistory'
           /\ Len(log') = checkpoint.bytes + n
           /\ \A j \in 1 .. Len(log') : log'[j].newline => log'[j].rec.prev < nextId
<1> DEFINE r == NewRecord(i)
           new == SubSeq(Line(r), 1, n)
<1>1. /\ TypeOK /\ CutInv /\ EndsInv /\ NoForkedHistory
      /\ checkpoint = CheckpointOf(mem[i], Len(log))
      /\ nextId <= MaxRecords
  BY DEF RaceInv, TypeInv, Holding, RacerInv
<1>2. r \in Record /\ r.prev = checkpoint.tip
  <2>1. r \in Record
    BY <1>1, NewRecordType
  <2>2. checkpoint.tip = Tip(mem[i])
    BY <1>1 DEF CheckpointOf
  <2> QED BY <2>1, <2>2 DEF NewRecord
<1>3. /\ new \in Seq(Cell) /\ Len(new) = n
      /\ \A k \in 1 .. n : new[k].newline => k = 2 /\ new[k].rec = r
  BY <1>2, LineCells
<1> HIDE DEF new, r
<1>4. /\ log \in Seq(Cell) /\ Len(log) \in Nat /\ nextId \in Nat
      /\ Len(log) = checkpoint.bytes /\ checkpoint.tip \in Nat /\ checkpoint.tip < nextId
  <2>1. log \in Seq(Cell) /\ nextId \in Nat
    BY <1>1, LedgerAssumption DEF TypeOK
  <2>2. Len(log) = checkpoint.bytes
    BY <1>1 DEF CheckpointOf
  <2>3. checkpoint.tip \in Nat /\ checkpoint.tip < nextId
    BY <1>1, LedgerAssumption DEF CutInv, Checkpoint, Id, GENESIS
  <2> QED BY <2>1, <2>2, <2>3
<1>5. /\ log' = log \o new /\ Len(log') = Len(log) + n
      /\ \A j \in 1 .. Len(log) : log'[j] = log[j]
      /\ \A k \in 1 .. n : log'[Len(log) + k] = new[k]
  <2>1. log' = log \o new
    BY DEF new, r
  <2>2. /\ Len(log \o new) = Len(log) + n
        /\ \A j \in 1 .. Len(log) + n :
             (log \o new)[j] = IF j <= Len(log) THEN log[j] ELSE new[j - Len(log)]
    BY <1>3, <1>4, ConcatProperties
  <2>3. \A j \in 1 .. Len(log) : j \in 1 .. Len(log) + n /\ j <= Len(log)
    BY <1>4
  <2>4. \A k \in 1 .. n : /\ Len(log) + k \in 1 .. Len(log) + n /\ ~(Len(log) + k <= Len(log))
                          /\ Len(log) + k - Len(log) = k
    BY <1>4
  <2> QED BY <2>1, <2>2, <2>3, <2>4
<1>6. ASSUME NEW j \in 1 .. Len(log'), log'[j].newline
      PROVE  \/ /\ j \in 1 .. Len(log) /\ log'[j] = log[j]
                /\ log'[j].rec.prev \in Nat /\ log'[j].rec.prev < nextId
                /\ log'[j].rec.prev # checkpoint.tip
             \/ /\ j = Len(log) + 2 /\ log'[j].rec.prev = checkpoint.tip
  <2>1. CASE j \in 1 .. Len(log)
    <3>1. log'[j] = log[j] /\ log[j].newline /\ log[j] \in Cell /\ j <= checkpoint.bytes
      BY <2>1, <1>4, <1>5, <1>6
    <3>2. log[j].rec \in Record
      BY <3>1, CellFields
    <3>3. log[j].rec.prev \in Nat
      BY <3>2, LedgerAssumption DEF Record, Id, GENESIS
    <3>4. log[j].rec.prev < nextId /\ log[j].rec.prev # checkpoint.tip
      BY <1>1, <2>1, <3>1 DEF EndsInv
    <3> QED BY <2>1, <3>1, <3>3, <3>4
  <2>2. CASE j \notin 1 .. Len(log)
    <3>1. PICK k \in 1 .. n : j = Len(log) + k
      <4>1. j - Len(log) \in 1 .. n /\ j = Len(log) + (j - Len(log))
        BY <2>2, <1>4, <1>5
      <4> QED BY <4>1
    <3>2. log'[j] = new[k] /\ new[k].newline
      BY <3>1, <1>5, <1>6
    <3> QED BY <3>1, <3>2, <1>2, <1>3
  <2> QED BY <2>1, <2>2
<1>7. EndsInv'
  <2> SUFFICES ASSUME NEW j \in 1 .. Len(log'), log'[j].newline
               PROVE  /\ log'[j].rec.prev < nextId + 1
                      /\ j <= checkpoint.bytes => log'[j].rec.prev # checkpoint.tip
                      /\ j > checkpoint.bytes =>
                           j = checkpoint.bytes + 2 /\ log'[j].rec.prev = checkpoint.tip
    BY DEF EndsInv
  <2>1. CASE /\ j \in 1 .. Len(log) /\ log'[j].rec.prev \in Nat
             /\ log'[j].rec.prev < nextId /\ log'[j].rec.prev # checkpoint.tip
    BY <2>1, <1>4
  <2>2. CASE j = Len(log) + 2 /\ log'[j].rec.prev = checkpoint.tip
    BY <2>2, <1>4
  <2> QED BY <1>6, <2>1, <2>2
<1>8. NoForkedHistory'
  <2> SUFFICES ASSUME NEW j \in 1 .. Len(log'), NEW k \in 1 .. Len(log'),
                      log'[j].newline, log'[k].newline,
                      log'[j].rec.prev = log'[k].rec.prev
               PROVE  j = k
    BY DEF NoForkedHistory
  <2>1. CASE log'[j].rec.prev = checkpoint.tip
    BY <2>1, <1>6
  <2>2. CASE log'[j].rec.prev # checkpoint.tip
    <3>1. /\ j \in 1 .. Len(log) /\ log'[j] = log[j]
          /\ k \in 1 .. Len(log) /\ log'[k] = log[k]
      BY <2>2, <1>6
    <3> QED BY <3>1, <1>1 DEF NoForkedHistory
  <2> QED BY <2>1, <2>2
<1>9. CutInv'
  BY <1>1, <1>4, <1>5 DEF CutInv
<1>10. \A j \in 1 .. Len(log') : log'[j].newline => log'[j].rec.prev < nextId
  BY <1>4, <1>6
<1> QED BY <1>4, <1>5, <1>7, <1>8, <1>9, <1>10

LEMMA CheckpointIsNotNone == \A c \in Checkpoint : c # None
BY LedgerAssumption DEF Checkpoint, Id, GENESIS

(* An instance keeps what it knows while no other one moves the files under *)
(* a writer or moves the checkpoint back.                                   *)
LEMMA RacerKept ==
    ASSUME NEW j \in Instance, RacerInv(j), CutInv, CutInv',
           pc'[j] = pc[j], mem'[j] = mem[j], seen'[j] = seen[j],
           checkpoint.bytes <= checkpoint'.bytes,
           \/ pc[j] \notin {"writing", "committing"}
           \/ UNCHANGED <<log, checkpoint, nextId>>
    PROVE  RacerInv(j)'
<1>1. CASE UNCHANGED <<log, checkpoint, nextId>>
  BY <1>1 DEF RacerInv
<1>2. CASE pc[j] \notin {"writing", "committing"}
  <2>1. checkpoint.bytes \in Nat /\ checkpoint'.bytes \in Nat
    BY DEF CutInv, Checkpoint
  <2>2. seen[j] \in Checkpoint => seen[j].bytes \in Nat
    BY DEF Checkpoint
  <2> QED BY <1>2, <2>1, <2>2 DEF RacerInv
<1> QED BY <1>1, <1>2

LEMMA InitRaceInv ==
    ASSUME Start \subseteq {"checkpointed"}
    PROVE  Init => RaceInv
<1> SUFFICES ASSUME Init PROVE RaceInv
  OBVIOUS
<1>1. TypeInv
  BY InitTypeInv
<1>2. /\ logExists /\ log = Encode(Seed) /\ checkpoint = CheckpointOf(Seed, 2 * Seeded)
      /\ nextId = Seeded + 1
  BY DEF Init, InitFiles
<1>3. PICK n \in Nat : n = Seeded
  BY LedgerAssumption
<1>4. Seed \in Seq(Record) /\ Len(Seed) = n
  BY <1>3, SeedType
<1>5. Len(log) = 2 * n /\ log = [j \in 1 .. 2 * n |->
                                  [rec |-> Seed[(j + 1) \div 2], newline |-> j % 2 = 0]]
  BY <1>2, <1>4, EncodeType DEF Encode
<1>6. checkpoint \in Checkpoint /\ checkpoint.bytes = 2 * n /\ checkpoint.tip = n
  <2>1. checkpoint \in Checkpoint
    BY <1>2, <1>3, <1>4, CheckpointOfType
  <2>2. Tip(Seed) = n
    <3>1. CASE n = 0
      BY <3>1, <1>4 DEF Tip, GENESIS
    <3>2. CASE n # 0
      <4>1. Seed # <<>> /\ n \in 1 .. n
        BY <3>2, <1>4
      <4> QED BY <4>1, <1>3, <1>4 DEF Tip, Seed
    <3> QED BY <3>1, <3>2
  <2> QED BY <2>1, <2>2, <1>2, <1>3 DEF CheckpointOf
<1>7. ASSUME NEW j \in 1 .. Len(log), log[j].newline
      PROVE  j \in 1 .. 2 * n /\ j % 2 = 0 /\ log[j].rec.prev = (j \div 2) - 1
  <2>1. j \in 1 .. 2 * n /\ log[j].rec = Seed[(j + 1) \div 2]
    BY <1>5
  <2>2. j % 2 = 0
    BY <1>5, <1>7
  <2>3. (j + 1) \div 2 = j \div 2 /\ j \div 2 \in 1 .. n
    BY <2>1, <2>2
  <2>4. Seed[j \div 2].prev = (j \div 2) - 1
    BY <2>3, <1>3 DEF Seed
  <2> QED BY <2>1, <2>2, <2>3, <2>4
<1>8. EndsInv
  <2> SUFFICES ASSUME NEW j \in 1 .. Len(log), log[j].newline
               PROVE  /\ log[j].rec.prev < nextId
                      /\ j <= checkpoint.bytes => log[j].rec.prev # checkpoint.tip
                      /\ ~(j > checkpoint.bytes)
    BY DEF EndsInv
  <2>1. j \in 1 .. 2 * n /\ log[j].rec.prev = (j \div 2) - 1
    BY <1>7
  <2>2. (j \div 2) - 1 < n
    BY <2>1
  <2> QED BY <2>1, <2>2, <1>2, <1>3, <1>6
<1>9. NoForkedHistory
  <2> SUFFICES ASSUME NEW j \in 1 .. Len(log), NEW k \in 1 .. Len(log),
                      log[j].newline, log[k].newline, log[j].rec.prev = log[k].rec.prev
               PROVE  j = k
    BY DEF NoForkedHistory
  <2>1. /\ j \in 1 .. 2 * n /\ j % 2 = 0 /\ log[j].rec.prev = (j \div 2) - 1
        /\ k \in 1 .. 2 * n /\ k % 2 = 0 /\ log[k].rec.prev = (k \div 2) - 1
    BY <1>7
  <2>2. j \div 2 = k \div 2
    <3>1. (j \div 2) - 1 = (k \div 2) - 1
      BY <2>1
    <3>2. j \div 2 \in Int /\ k \div 2 \in Int
      BY <2>1
    <3>3. \A a, b \in Int : a - 1 = b - 1 => a = b
      OBVIOUS
    <3> QED BY <3>1, <3>2, <3>3
  <2>3. \A m \in Nat : m % 2 = 0 => m = 2 * (m \div 2)
    OBVIOUS
  <2>4. j \in Nat /\ k \in Nat
    BY <2>1
  <2>5. j = 2 * (j \div 2) /\ k = 2 * (k \div 2)
    BY <2>1, <2>3, <2>4
  <2> QED BY <2>2, <2>5
<1>10. CutInv
  BY <1>2, <1>3, <1>5, <1>6 DEF CutInv
<1>11. \A i \in Instance : RacerInv(i)
  BY DEF Init, RacerInv
<1> QED BY <1>1, <1>8, <1>9, <1>10, <1>11 DEF RaceInv

LEMMA NextRaceInv == RaceInv /\ [Next]_vars => RaceInv'
<1> SUFFICES ASSUME RaceInv, [Next]_vars PROVE RaceInv'
  OBVIOUS
<1>0. TypeInv /\ TypeInv' /\ CutInv /\ EndsInv /\ NoForkedHistory
  BY NextTypeInv DEF RaceInv
<1>n. checkpoint.bytes \in Nat /\ checkpoint \in Checkpoint /\ checkpoint # None
  BY <1>0, CheckpointIsNotNone DEF CutInv, Checkpoint
<1>f. UNCHANGED <<log, logExists, checkpoint, nextId>> =>
        CutInv' /\ EndsInv' /\ NoForkedHistory'
  BY <1>0 DEF CutInv, EndsInv, NoForkedHistory
<1>a. ASSUME NEW i \in Instance, UNCHANGED <<log, logExists, checkpoint, nextId>>,
             RacerInv(i)',
             \A j \in Instance \ {i} : pc'[j] = pc[j] /\ mem'[j] = mem[j] /\ seen'[j] = seen[j]
      PROVE  RaceInv'
  <2>1. ASSUME NEW j \in Instance PROVE RacerInv(j)'
    <3>1. CASE j = i
      BY <3>1, <1>a
    <3>2. CASE j # i
      BY <3>2, <1>0, <1>a, <1>f, <1>n, RacerKept DEF RaceInv
    <3> QED BY <3>1, <3>2
  <2> QED BY <1>0, <1>a, <1>f, <2>1 DEF RaceInv
<1>b. ASSUME NEW i \in Instance, lock \in {i, None},
             CutInv', EndsInv', NoForkedHistory', RacerInv(i)',
             checkpoint.bytes <= checkpoint'.bytes,
             \A j \in Instance \ {i} : pc'[j] = pc[j] /\ mem'[j] = mem[j] /\ seen'[j] = seen[j]
      PROVE  RaceInv'
  <2>1. ASSUME NEW j \in Instance PROVE RacerInv(j)'
    <3>1. CASE j = i
      BY <3>1, <1>b
    <3>2. CASE j # i
      <4>1. pc[j] \notin {"writing", "committing"}
        BY <3>2, <1>0, <1>b, LedgerAssumption DEF TypeInv, Holding
      <4> QED BY <3>2, <4>1, <1>0, <1>b, RacerKept DEF RaceInv
    <3> QED BY <3>1, <3>2
  <2> QED BY <1>0, <1>b, <2>1 DEF RaceInv
<1>t. /\ pc \in [Instance -> Phase] /\ mem \in [Instance -> Seq(Record)]
      /\ seen \in [Instance -> Checkpoint \union {None}]
      /\ log \in Seq(Cell) /\ Len(log) \in Nat /\ nextId \in Nat
  BY <1>0, LedgerAssumption DEF TypeInv, TypeOK
<1>1. ASSUME NEW i \in Instance, OpenProbe(i) PROVE RaceInv'
  <2>1. pc'[i] = "read"
    BY <1>0, <1>1, <1>t DEF OpenProbe, Goto, CutInv
  <2>2. RacerInv(i)'
    BY <2>1 DEF RacerInv
  <2> QED BY <1>1, <1>a, <1>t, <2>2 DEF OpenProbe, Goto, files
<1>2. ASSUME NEW i \in Instance, ReadCheckpoint(i) PROVE RaceInv'
  <2>1. pc'[i] = "stat" /\ seen'[i] = checkpoint /\ checkpoint' = checkpoint
    BY <1>2, <1>n, <1>t DEF ReadCheckpoint, Goto, files
  <2>2. RacerInv(i)'
    BY <2>1, <1>n DEF RacerInv
  <2> QED BY <1>2, <1>a, <1>t, <2>2 DEF ReadCheckpoint, Goto, files
<1>3. ASSUME NEW i \in Instance, CompareSize(i) PROVE RaceInv'
  <2>1. seen[i] \in Checkpoint /\ seen[i].bytes <= checkpoint.bytes
    BY <1>3 DEF CompareSize, RaceInv, RacerInv
  <2>2. /\ pc'[i] \in {"down", "lock", "parse"} /\ checkpoint' = checkpoint
        /\ pc'[i] # "down" => seen'[i] = seen[i]
    BY <1>3, <1>t DEF CompareSize, Goto, files
  <2>3. RacerInv(i)'
    BY <2>1, <2>2 DEF RacerInv
  <2> QED BY <1>3, <1>a, <1>t, <2>3 DEF CompareSize, Goto, files
<1>4. ASSUME NEW i \in Instance, RecoverSuffix(i) PROVE RaceInv'
  <2>1. seen[i] \in Checkpoint /\ seen[i].bytes <= checkpoint.bytes
    BY <1>4 DEF RecoverSuffix, RaceInv, RacerInv
  <2>2. CASE lock # None
    <3>1. pc'[i] = "down" /\ log' = log
      BY <1>4, <1>t, <2>2 DEF RecoverSuffix, Goto
    <3>2. RacerInv(i)'
      BY <3>1 DEF RacerInv
    <3> QED BY <1>4, <1>a, <1>t, <3>1, <3>2 DEF RecoverSuffix, Goto
  <2>3. CASE lock = None
    <3> DEFINE n == seen[i].bytes
    <3>1. n \in Nat
      BY <2>1 DEF Checkpoint
    <3>2. /\ log' = Truncated(log, n) /\ pc'[i] = "parse" /\ seen' = seen /\ mem' = mem
          /\ logExists' = logExists /\ checkpoint' = checkpoint /\ nextId' = nextId
          /\ \A j \in Instance \ {i} : pc'[j] = pc[j]
      BY <1>4, <1>t, <2>3 DEF RecoverSuffix, Goto
    <3> HIDE DEF n
    <3>3. log' \in Seq(Cell) /\ Len(log') = n
      BY <1>t, <3>1, <3>2, TruncatedType
    <3>4. ASSUME NEW j \in 1 .. Len(log'), log'[j].newline
          PROVE  j \in 1 .. Len(log) /\ log'[j] = log[j]
      <4>1. j \in 1 .. n /\ log'[j] = IF j <= Len(log) THEN log[j] ELSE Pad
        BY <3>2, <3>3 DEF Truncated
      <4>2. ~Pad.newline
        BY DEF Pad
      <4> QED BY <1>t, <3>1, <3>4, <4>1, <4>2
    <3>5. EndsInv' /\ NoForkedHistory'
      BY <1>0, <1>t, <3>2, <3>3, <3>4, CellsDropped
    <3>6. n <= checkpoint.bytes
      BY <2>1 DEF n
    <3>7. CutInv'
      BY <1>0, <1>n, <3>1, <3>2, <3>3, <3>6 DEF CutInv
    <3>8. RacerInv(i)'
      BY <2>1, <3>2 DEF RacerInv
    <3> QED BY <1>b, <1>n, <2>3, <3>2, <3>5, <3>7, <3>8
  <2> QED BY <2>2, <2>3
<1>5. ASSUME NEW i \in Instance, ParseLog(i) PROVE RaceInv'
  <2>1. seen[i] # None
    BY <1>5, CheckpointIsNotNone DEF ParseLog, RaceInv, RacerInv
  <2>2. pc'[i] \in {"down", "ready"}
    BY <1>5, <1>t, <2>1 DEF ParseLog, Goto
  <2>3. RacerInv(i)'
    BY <2>2 DEF RacerInv
  <2> QED BY <1>5, <1>a, <1>t, <2>3 DEF ParseLog, Goto, files
<1>6. ASSUME NEW i \in Instance, CreateStat(i) \/ CreateReplace(i) PROVE RaceInv'
  BY <1>6 DEF CreateStat, CreateReplace, RaceInv, RacerInv
<1>7. ASSUME NEW i \in Instance, AppendBegin(i) PROVE RaceInv'
  <2>1. /\ pc'[i] = "writing" /\ checkpoint' = checkpoint /\ log' = log /\ mem' = mem
        /\ checkpoint = CheckpointOf(mem[i], Len(log))
    BY <1>7, <1>n, <1>t DEF AppendBegin, Goto, Current, files
  <2>2. RacerInv(i)'
    BY <2>1 DEF RacerInv, CheckpointOf, Tip
  <2> QED BY <1>7, <1>a, <1>t, <2>2 DEF AppendBegin, Goto, files
<1>8. ASSUME NEW i \in Instance, WriteRecord(i) PROVE RaceInv'
  <2>0. lock = i /\ nextId <= MaxRecords /\ TypeOK
    BY <1>0, <1>8 DEF WriteRecord, TypeInv, Holding
  <2>1. NewRecord(i) \in Record /\ Len(Line(NewRecord(i))) = 2
        /\ Line(NewRecord(i)) \in Seq(Cell)
    BY <2>0, NewRecordType
  <2>2. SubSeq(Line(NewRecord(i)), 1, 2) = Line(NewRecord(i))
    BY <2>1, SubSeqFull
  <2>3. /\ pc[i] = "writing" /\ log' = log \o SubSeq(Line(NewRecord(i)), 1, 2)
        /\ checkpoint' = checkpoint /\ nextId' = nextId + 1 /\ logExists' /\ seen' = seen
        /\ mem' = [mem EXCEPT ![i] = Append(mem[i], NewRecord(i))] /\ pc'[i] = "committing"
        /\ \A j \in Instance \ {i} : pc'[j] = pc[j]
    BY <1>8, <1>t, <2>2 DEF WriteRecord, Goto
  <2>4. /\ CutInv' /\ EndsInv' /\ NoForkedHistory'
        /\ Len(log') = checkpoint.bytes + 2
        /\ \A j \in 1 .. Len(log') : log'[j].newline => log'[j].rec.prev < nextId
    <3>1. 2 \in 0 .. 2
      OBVIOUS
    <3> QED BY <2>3, <3>1, CellsAdded
  <2>5. mem'[i][Len(mem'[i])] = NewRecord(i)
    <3>1. mem'[i] = Append(mem[i], NewRecord(i)) /\ mem[i] \in Seq(Record)
      BY <2>3, <1>t
    <3> QED BY <3>1, <2>1, AppendProperties
  <2>6. mem'[i][Len(mem'[i])].id = nextId
    BY <2>5 DEF NewRecord
  <2>7. RacerInv(i)'
    <3>1. nextId < nextId' /\ Len(log') = checkpoint'.bytes + 2
      BY <1>t, <2>3, <2>4
    <3> QED BY <2>3, <2>4, <2>6, <3>1 DEF RacerInv
  <2>8. \A j \in Instance \ {i} : mem'[j] = mem[j]
    BY <1>t, <2>3
  <2> QED BY <1>b, <1>n, <2>0, <2>3, <2>4, <2>7, <2>8
<1>c. ASSUME NEW i \in Instance, pc[i] = "committing", pc'[i] = "ready",
             checkpoint' = CheckpointOf(mem[i], Len(log)),
             UNCHANGED <<log, logExists, mem, seen, nextId>>,
             \A j \in Instance \ {i} : pc'[j] = pc[j]
      PROVE  RaceInv'
  <2>1. /\ lock = i /\ mem[i] # <<>> /\ mem[i] \in Seq(Record)
    BY <1>0, <1>c, <1>t DEF TypeInv, Holding
  <2>2. PICK tip \in Nat : tip = mem[i][Len(mem[i])].id
    <3>1. Len(mem[i]) \in 1 .. Len(mem[i])
      BY <2>1
    <3>2. mem[i][Len(mem[i])] \in Record
      BY <2>1, <3>1, ElementOfSeq
    <3> QED BY <3>2, LedgerAssumption DEF Record, Id
  <2>3. /\ Len(log) = checkpoint.bytes + 2 /\ tip < nextId
        /\ \A j \in 1 .. Len(log) : log[j].newline => log[j].rec.prev < tip
    BY <1>c, <2>2 DEF RaceInv, RacerInv
  <2>4. checkpoint' \in Checkpoint /\ checkpoint'.tip = tip /\ checkpoint'.bytes = Len(log)
    <3>1. Tip(mem[i]) = tip
      BY <2>1, <2>2 DEF Tip
    <3>2. CheckpointOf(mem[i], Len(log)) \in Checkpoint
      BY <1>t, <2>1, CheckpointOfType
    <3> QED BY <1>c, <3>1, <3>2 DEF CheckpointOf
  <2>5. CutInv'
    BY <1>0, <1>c, <1>t, <2>3, <2>4 DEF CutInv
  <2>6. EndsInv'
    <3> SUFFICES ASSUME NEW j \in 1 .. Len(log), log[j].newline
                 PROVE  /\ log[j].rec.prev < nextId
                        /\ log[j].rec.prev # tip
                        /\ ~(j > Len(log))
      BY <1>c, <2>4 DEF EndsInv
    <3>1. log[j] \in Cell
      BY <1>t
    <3>2. log[j].rec.prev \in Nat
      <4>1. log[j].rec \in Record
        BY <3>1, CellFields
      <4> QED BY <4>1, LedgerAssumption DEF Record, Id, GENESIS
    <3> QED BY <1>0, <1>t, <2>3, <3>2 DEF EndsInv
  <2>7. NoForkedHistory'
    BY <1>0, <1>c DEF NoForkedHistory
  <2>8. RacerInv(i)'
    BY <1>c DEF RacerInv
  <2>9. checkpoint.bytes <= checkpoint'.bytes
    BY <1>n, <2>3, <2>4
  <2> QED BY <1>b, <1>c, <2>1, <2>5, <2>6, <2>7, <2>8, <2>9
<1>9. ASSUME NEW i \in Instance, CommitCheckpoint(i) PROVE RaceInv'
  BY <1>9, <1>c, <1>t DEF CommitCheckpoint, Goto
<1>10. ASSUME NEW i \in Instance, NEW n \in 0 .. 2, WriteFails(i, n) PROVE RaceInv'
  <2>1. /\ pc[i] = "writing" /\ log' = log \o SubSeq(Line(NewRecord(i)), 1, n)
        /\ checkpoint' = checkpoint /\ nextId' = nextId + 1 /\ logExists' /\ seen' = seen
        /\ mem' = mem /\ pc'[i] = "ready"
        /\ \A j \in Instance \ {i} : pc'[j] = pc[j]
    BY <1>10, <1>t DEF WriteFails, Goto
  <2>2. CutInv' /\ EndsInv' /\ NoForkedHistory'
    BY <2>1, CellsAdded
  <2>3. RacerInv(i)'
    BY <2>1 DEF RacerInv
  <2>4. lock = i
    BY <1>0, <2>1 DEF TypeInv, Holding
  <2> QED BY <1>b, <1>n, <2>1, <2>2, <2>3, <2>4
<1>11. ASSUME NEW i \in Instance, NEW replaced \in BOOLEAN, CheckpointFails(i, replaced)
       PROVE RaceInv'
  <2>1. CASE replaced
    BY <1>11, <2>1, <1>c, <1>t DEF CheckpointFails, Goto
  <2>2. CASE ~replaced
    <3>1. pc'[i] = "ready"
      BY <1>11, <1>t DEF CheckpointFails, Goto
    <3>2. RacerInv(i)'
      BY <3>1 DEF RacerInv
    <3> QED BY <1>11, <1>a, <1>t, <2>2, <3>2 DEF CheckpointFails, Goto
  <2> QED BY <2>1, <2>2
<1>12. ASSUME NEW i \in Instance, NEW n \in 0 .. 1, Crash(i, n) PROVE RaceInv'
  <2>1. /\ pc'[i] = "down" /\ checkpoint' = checkpoint
        /\ \A j \in Instance \ {i} : pc'[j] = pc[j] /\ mem'[j] = mem[j] /\ seen'[j] = seen[j]
    BY <1>12, <1>t DEF Crash, Goto
  <2>2. RacerInv(i)'
    BY <2>1 DEF RacerInv
  <2>3. CASE n = 0
    <3>1. UNCHANGED <<log, logExists, checkpoint, nextId>>
      BY <1>0, <1>12, <2>3 DEF Crash, TypeInv, TypeOK
    <3> QED BY <1>a, <2>1, <2>2, <3>1
  <2>4. CASE n # 0
    <3>0. n > 0 /\ n \in 0 .. 2
      BY <2>4
    <3>1. /\ pc[i] = "writing" /\ logExists'
          /\ log' = log \o SubSeq(Line(NewRecord(i)), 1, n) /\ nextId' = nextId + 1
      BY <1>12, <2>4, <3>0 DEF Crash
    <3>2. CutInv' /\ EndsInv' /\ NoForkedHistory'
      BY <2>1, <3>0, <3>1, CellsAdded
    <3>3. lock = i
      BY <1>0, <3>1 DEF TypeInv, Holding
    <3> QED BY <1>b, <1>n, <2>1, <2>2, <3>2, <3>3
  <2> QED BY <2>3, <2>4
<1>13. CASE UNCHANGED vars
  BY <1>0, <1>f, <1>13 DEF vars, files, RaceInv, RacerInv, CheckpointOf, Tip
<1> QED
  BY <1>1, <1>2, <1>3, <1>4, <1>5, <1>6, <1>7, <1>8, <1>9, <1>10, <1>11, <1>12, <1>13
  DEF Next

(* From a log that has its checkpoint, and however many ledgers open,       *)
(* append, fail and crash at once, no two records of the log ever continue  *)
(* the same predecessor: the race loses records, it never forks.            *)
THEOREM RaceNeverForks ==
    ASSUME Start \subseteq {"checkpointed"}
    PROVE  Spec => []NoForkedHistory
<1>1. RaceInv => NoForkedHistory
  BY DEF RaceInv
<1> QED BY InitRaceInv, NextRaceInv, <1>1, PTL DEF Spec
=============================================================================
