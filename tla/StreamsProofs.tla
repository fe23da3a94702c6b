----------------------------- MODULE StreamsProofs -----------------------------
(***************************************************************************)
(* Proofs about the three parts of the streams, for every value of their   *)
(* constants: the breaker leaves failing inference alone, the ingress      *)
(* accounts for every record and never takes back what a replay showed,    *)
(* and the consumer skips no record and accepts no identity twice in one   *)
(* life. Each part has its own invariants and is proved of its own         *)
(* specification.                                                          *)
(***************************************************************************)
EXTENDS MCStreams, SumTheorems, TLAPS

USE DEF Guard!vars, Guard!breaker, Guard!seen

(* What the breaker knows is what the callers saw, and a breaker that reached its
   threshold is open, or half open after its rest. *)
BreakerKnows ==
    /\ DOMAIN request = Request
    /\ breakerFailures = streak
    /\ streak \in Nat /\ now \in Nat /\ openedAt \in Nat
    /\ streak >= FailureThreshold =>
          /\ openedAt = lastFailure
          /\ state = "OPEN" \/ (state = "HALF_OPEN" /\ now > openedAt + OpenDuration)

LEMMA BreakerStarts == Guard!Init => BreakerKnows
  BY GuardAssumption DEF BreakerKnows, Guard!Init, Guard!ResilienceAssumption

LEMMA BreakerStep ==
    ASSUME BreakerKnows, [Guard!Next]_Guard!vars
    PROVE  BreakerKnows'
<1> USE GuardAssumption DEF BreakerKnows, Guard!ResilienceAssumption
<1>1. ASSUME NEW r \in Request, Guard!Limit(r) PROVE BreakerKnows'
  BY <1>1 DEF Guard!Limit
<1>2. ASSUME NEW r \in Request, Guard!Refuse(r) PROVE BreakerKnows'
  BY <1>2 DEF Guard!Refuse
<1>3. ASSUME NEW r \in Request, Guard!Admit(r) PROVE BreakerKnows'
  BY <1>3 DEF Guard!Admit, Guard!AdmitFrom, Guard!Rested
<1>4. ASSUME NEW r \in Request, Guard!Success(r) PROVE BreakerKnows'
  BY <1>4 DEF Guard!Success
<1>5. ASSUME NEW r \in Request, Guard!Failure(r) PROVE BreakerKnows'
  BY <1>5 DEF Guard!Failure
<1>6. ASSUME Guard!Tick PROVE BreakerKnows'
  BY <1>6 DEF Guard!Tick
<1>7. CASE UNCHANGED Guard!vars
  BY <1>7
<1> QED
  BY <1>1, <1>2, <1>3, <1>4, <1>5, <1>6, <1>7 DEF Guard!Next

(* Only Admit admits, and only the request it takes. *)
LEMMA AdmittedByAdmit ==
    ASSUME BreakerKnows, Guard!Next, NEW r \in Request, Guard!Admitted(r)
    PROVE  Guard!Admit(r)
<1> USE DEF BreakerKnows, Guard!Admitted
<1>1. ASSUME NEW q \in Request, Guard!Limit(q) PROVE FALSE
  BY <1>1 DEF Guard!Limit
<1>2. ASSUME NEW q \in Request, Guard!Refuse(q) PROVE FALSE
  BY <1>2 DEF Guard!Refuse
<1>3. ASSUME NEW q \in Request, Guard!Admit(q) PROVE Guard!Admit(r)
  BY <1>3 DEF Guard!Admit
<1>4. ASSUME NEW q \in Request, Guard!Success(q) PROVE FALSE
  BY <1>4 DEF Guard!Success
<1>5. ASSUME NEW q \in Request, Guard!Failure(q) PROVE FALSE
  BY <1>5 DEF Guard!Failure
<1>6. ASSUME Guard!Tick PROVE FALSE
  BY <1>6 DEF Guard!Tick
<1> QED
  BY <1>1, <1>2, <1>3, <1>4, <1>5, <1>6 DEF Guard!Next

LEMMA RestStep ==
    ASSUME BreakerKnows, Guard!Next, NEW r \in Request, Guard!Admitted(r)
    PROVE  streak < FailureThreshold \/ now > lastFailure + OpenDuration
<1>1. Guard!Admit(r)
  BY AdmittedByAdmit
<1> QED
  BY <1>1, GuardAssumption
  DEF BreakerKnows, Guard!ResilienceAssumption, Guard!Admit, Guard!Rested

(* Resilience: inference that failed FailureThreshold times in a row is left alone for
   OpenDuration, whatever the order in which its requests end. *)
THEOREM InferenceIsLeftAlone == Guard!Spec => InferenceRests
<1>1. BreakerKnows /\ [Guard!Next]_Guard!vars =>
        [\A r \in Request : Guard!Admitted(r) =>
          streak < FailureThreshold \/ now > lastFailure + OpenDuration]_Guard!vars
  BY RestStep
<1> QED
  BY <1>1, BreakerStarts, BreakerStep, PTL DEF Guard!Spec, InferenceRests, Guard!InferenceRests
-----------------------------------------------------------------------------
(* A pair is marked as seen only with a record of that pair taken. *)
SeenAreTaken ==
    \A pair \in seen : \E s \in downstream \cup refused \cup raised : Ingress!Pair(s.event) = pair

LEMMA IngressStarts == Ingress!Init => SeenAreTaken /\ AllAccounted
  BY DEF Ingress!Init, SeenAreTaken, AllAccounted, Ingress!AllAccounted

LEMMA IngressStep ==
    ASSUME SeenAreTaken, AllAccounted, [Ingress!Next]_Ingress!vars
    PROVE  (SeenAreTaken /\ AllAccounted)'
<1> USE DEF SeenAreTaken, AllAccounted, Ingress!AllAccounted, Ingress!Deliver
<1>1. ASSUME NEW r \in Ingress!Record, Ingress!DeadLetter(r) PROVE (SeenAreTaken /\ AllAccounted)'
  BY <1>1 DEF Ingress!DeadLetter
<1>2. ASSUME NEW r \in Ingress!Record, Ingress!Duplicate(r) PROVE (SeenAreTaken /\ AllAccounted)'
  BY <1>2 DEF Ingress!Duplicate
<1>3. ASSUME NEW r \in Ingress!Record, Ingress!Refuse(r) PROVE (SeenAreTaken /\ AllAccounted)'
  BY <1>3 DEF Ingress!Refuse
<1>4. ASSUME NEW r \in Ingress!Record, Ingress!Accept(r) PROVE (SeenAreTaken /\ AllAccounted)'
  BY <1>4 DEF Ingress!Accept
<1>5. CASE UNCHANGED Ingress!vars
  BY <1>5 DEF Ingress!vars
<1> QED
  BY <1>1, <1>2, <1>3, <1>4, <1>5 DEF Ingress!Next

(* EventIngress: no record is lost without a trace, however often and in whatever
   order records are delivered and wherever their processing raises. *)
THEOREM EveryRecordIsAccounted == Ingress!Spec => []AllAccounted
  BY IngressStarts, IngressStep, PTL DEF Ingress!Spec

LEMMA ReplayStep ==
    ASSUME Ingress!Next, NEW cutoff \in Ingress!Time
    PROVE  Ingress!Visible(cutoff) \subseteq Ingress!Visible(cutoff)'
<1>1. ASSUME NEW r \in Ingress!Record, Ingress!Accept(r)
      PROVE  Ingress!Visible(cutoff) \subseteq Ingress!Visible(cutoff)'
  <2>1. events \subseteq events'
    BY <1>1 DEF Ingress!Accept, Ingress!Buffers
  <2> QED
    BY <2>1 DEF Ingress!Visible
<1>2. ASSUME NEW r \in Ingress!Record,
             Ingress!DeadLetter(r) \/ Ingress!Duplicate(r) \/ Ingress!Refuse(r)
      PROVE  events' = events
  BY <1>2 DEF Ingress!DeadLetter, Ingress!Duplicate, Ingress!Refuse
<1> QED
  BY <1>1, <1>2 DEF Ingress!Next, Ingress!Visible

(* EventIngress: what a replay showed at a cutoff it shows ever after. *)
THEOREM ReplaysStand == Ingress!Spec => ReplayStands
<1>1. [Ingress!Next]_Ingress!vars =>
        [\A cutoff \in Ingress!Time :
            Ingress!Visible(cutoff) \subseteq Ingress!Visible(cutoff)']_Ingress!vars
  BY ReplayStep
<1> QED
  BY <1>1, PTL DEF Ingress!Spec, ReplayStands, Ingress!ReplayStands
-----------------------------------------------------------------------------
Envelope == [identity : Identity, valid : BOOLEAN]

(* The offset of a handler that returned: its identity is remembered. *)
Done(o) == partition[o].valid /\ o \in handled /\ partition[o].identity \in seenIdentities

AcceptedSomewhere(i) == \E p \in Offset : partition[p].identity = i /\ acceptances[p] > 0

ConsumerTypes ==
    /\ partition \in Seq(Envelope)
    /\ committed \in Nat /\ position \in Nat
    /\ committed <= position /\ position <= Len(partition)
    /\ waiting \subseteq Nat
    /\ acceptances \in [Offset -> Nat]

(* What NothingSkipped needs of a batch under way: a record fetched and not committed
   is done, or its handler has not returned, or it threw, and a loop that polls has
   nothing under way. *)
ConsumerInv ==
    /\ ConsumerTypes
    /\ \A i \in seenIdentities : AcceptedSomewhere(i)
    /\ loop = "polling" => committed = position /\ waiting = {} /\ failed = {}
    /\ waiting # {} => loop = "handling"
    /\ waiting \subseteq committed + 1 .. position
    /\ loop = "handling" => \A o \in committed + 1 .. position : o \in waiting \cup failed \/ Done(o)
    /\ NothingSkipped

LEMMA ConsumerStarts == Init => ConsumerInv
<1> SUFFICES ASSUME Init PROVE ConsumerInv
  OBVIOUS
<1>1. PICK n \in 0 .. MaxRecords : partition \in [1 .. n -> Envelope]
  BY DEF Init, Envelope
<1>2. partition \in Seq(Envelope)
  BY <1>1, ConsumerAssumption
<1> QED
  BY <1>2 DEF Init, ConsumerInv, ConsumerTypes, Offset, NothingSkipped

LEMMA PollStep == ASSUME ConsumerInv, Poll PROVE ConsumerInv'
<1>1. PICK n \in 1 .. MaxPollRecords :
        /\ position + n <= Len(partition)
        /\ waiting' = position + 1 .. position + n
        /\ position' = position + n
  BY DEF Poll
<1>2. n \in Nat
  BY ConsumerAssumption
<1>3. ConsumerTypes'
  BY <1>1, <1>2 DEF Poll, ConsumerInv, ConsumerTypes, Offset
<1>4. NothingSkipped' /\ \A i \in seenIdentities' : AcceptedSomewhere(i)'
  BY DEF Poll, ConsumerInv, NothingSkipped, Offset, AcceptedSomewhere
<1> QED
  BY <1>1, <1>2, <1>3, <1>4 DEF Poll, ConsumerInv, ConsumerTypes

LEMMA HandleStep == ASSUME ConsumerInv, NEW o \in Offset, Handle(o) PROVE ConsumerInv'
<1> USE DEF ConsumerTypes
<1>1. CASE ~partition[o].valid
  <2>1. UNCHANGED <<partition, committed, position, loop, seenIdentities, acceptances, handled>>
        /\ waiting' = waiting \ {o} /\ failed' = failed \cup {o}
    BY <1>1 DEF Handle
  <2>2. NothingSkipped' /\ \A i \in seenIdentities' : AcceptedSomewhere(i)'
    BY <2>1 DEF ConsumerInv, NothingSkipped, Offset, AcceptedSomewhere
  <2>3. \A q \in Nat : Done(q)' <=> Done(q)
    BY <2>1 DEF Done
  <2>4. ConsumerTypes'
    BY <2>1 DEF ConsumerInv, Offset
  <2> QED
    BY <2>1, <2>2, <2>3, <2>4, <1>1 DEF ConsumerInv, Handle
<1>2. CASE partition[o].valid
  <2> DEFINE i == partition[o].identity
             new == IF i \notin seenIdentities THEN 1 ELSE 0
  <2>1. /\ UNCHANGED <<partition, committed, position, loop, failed>>
        /\ waiting' = waiting \ {o}
        /\ handled' = handled \cup {o}
        /\ seenIdentities' = seenIdentities \cup {i}
        /\ acceptances' = [acceptances EXCEPT ![o] = @ + new]
        /\ o \in waiting
    BY <1>2 DEF Handle
  <2>2. \A p \in Offset : acceptances'[p] \in Nat /\ acceptances'[p] >= acceptances[p]
    BY <2>1 DEF ConsumerInv
  <2>3. ConsumerTypes'
    BY <2>1, <2>2 DEF ConsumerInv, Offset
  <2>4. ASSUME NEW j, AcceptedSomewhere(j) PROVE AcceptedSomewhere(j)'
    <3>1. PICK p \in Offset : partition[p].identity = j /\ acceptances[p] > 0
      BY <2>4 DEF AcceptedSomewhere
    <3>2. acceptances'[p] > 0
      BY <2>2, <3>1 DEF ConsumerInv
    <3> QED
      BY <2>1, <3>1, <3>2 DEF AcceptedSomewhere, Offset
  <2>5. ASSUME NEW j, j = i PROVE AcceptedSomewhere(j)'
    <3>1. CASE j \in seenIdentities
      BY <3>1, <2>4 DEF ConsumerInv
    <3>2. CASE j \notin seenIdentities
      <4>1. acceptances'[o] > 0
        BY <3>2, <2>5, <2>1 DEF ConsumerInv
      <4> QED
        BY <4>1, <2>1, <2>5 DEF AcceptedSomewhere, Offset
    <3> QED
      BY <3>1, <3>2
  <2>6. \A j \in seenIdentities' : AcceptedSomewhere(j)'
    BY <2>1, <2>4, <2>5 DEF ConsumerInv
  <2>7. \A q \in Nat : Done(q) => Done(q)'
    BY <2>1 DEF Done
  <2>8. Done(o)'
    BY <2>1, <1>2 DEF Done
  <2>9. NothingSkipped'
    <3> SUFFICES ASSUME NEW q \in 1 .. committed
        PROVE /\ partition[q].valid /\ q \in handled'
              /\ AcceptedSomewhere(partition[q].identity)'
      BY <2>1 DEF NothingSkipped, AcceptedSomewhere
    <3>1. AcceptedSomewhere(partition[q].identity) /\ partition[q].valid /\ q \in handled
      BY DEF ConsumerInv, NothingSkipped, AcceptedSomewhere
    <3> QED
      BY <3>1, <2>1, <2>4
  <2> QED
    BY <2>1, <2>3, <2>6, <2>7, <2>8, <2>9 DEF ConsumerInv
<1> QED
  BY <1>1, <1>2

LEMMA CommitStep == ASSUME ConsumerInv, Commit PROVE ConsumerInv'
<1> USE DEF ConsumerTypes
<1>1. \A i \in seenIdentities' : AcceptedSomewhere(i)'
  BY DEF Commit, ConsumerInv, AcceptedSomewhere, Offset
<1>2. CASE ~running
  <2>1. committed' = committed /\ loop' = "stopped"
    BY <1>2 DEF Commit
  <2>2. NothingSkipped' /\ ConsumerTypes'
    BY <2>1 DEF Commit, ConsumerInv, NothingSkipped, Offset
  <2> QED
    BY <1>1, <2>1, <2>2 DEF Commit, ConsumerInv, BatchDone
<1>3. CASE running
  <2>1. committed' = position /\ loop' = "polling" /\ waiting' = {} /\ failed' = {}
        /\ UNCHANGED <<partition, position, acceptances, handled, seenIdentities>>
    BY <1>3 DEF Commit, BatchDone
  <2>2. ConsumerTypes'
    BY <2>1 DEF ConsumerInv, Offset
  <2>3. ASSUME NEW o \in 1 .. position
        PROVE partition[o].valid /\ o \in handled /\ AcceptedSomewhere(partition[o].identity)
    <3>1. CASE o <= committed
      BY <3>1 DEF ConsumerInv, NothingSkipped, AcceptedSomewhere
    <3>2. CASE o > committed
      <4>1. o \in committed + 1 .. position
        BY <3>2 DEF ConsumerInv
      <4>2. Done(o)
        BY <4>1 DEF ConsumerInv, Commit, BatchDone
      <4> QED
        BY <4>2 DEF Done, ConsumerInv
    <3> QED
      BY <3>1, <3>2 DEF ConsumerInv
  <2>4. NothingSkipped'
    BY <2>1, <2>3 DEF NothingSkipped, AcceptedSomewhere, Offset
  <2> QED
    BY <1>1, <2>1, <2>2, <2>4 DEF ConsumerInv
<1> QED
  BY <1>2, <1>3

LEMMA ConsumerStep == ASSUME ConsumerInv, [Next]_vars PROVE ConsumerInv'
<1>1. CASE Fail
  <2>1. NothingSkipped' /\ \A i \in seenIdentities' : AcceptedSomewhere(i)'
    BY <1>1 DEF Fail, ConsumerInv, NothingSkipped, Offset, AcceptedSomewhere
  <2> QED
    BY <1>1, <2>1 DEF Fail, BatchDone, ConsumerInv, ConsumerTypes, Offset
<1>2. CASE Stop
  <2>1. NothingSkipped' /\ \A i \in seenIdentities' : AcceptedSomewhere(i)'
    BY <1>2 DEF Stop, ConsumerInv, NothingSkipped, Offset, AcceptedSomewhere
  <2>2. \A o \in Nat : Done(o)' <=> Done(o)
    BY <1>2 DEF Stop, Done
  <2> QED
    BY <1>2, <2>1, <2>2 DEF Stop, ConsumerInv, ConsumerTypes, Offset
<1>3. CASE Restart
  <2>1. NothingSkipped'
    BY <1>3 DEF Restart, ConsumerInv, NothingSkipped, Offset
  <2> QED
    BY <1>3, <2>1 DEF Restart, Fresh, ConsumerInv, ConsumerTypes, Offset
<1>4. CASE UNCHANGED vars
  <2>1. NothingSkipped' /\ \A i \in seenIdentities' : AcceptedSomewhere(i)'
    BY <1>4 DEF vars, memory, ConsumerInv, NothingSkipped, Offset, AcceptedSomewhere
  <2>2. \A o \in Nat : Done(o)' <=> Done(o)
    BY <1>4 DEF vars, memory, Done
  <2> QED
    BY <1>4, <2>1, <2>2 DEF vars, memory, ConsumerInv, ConsumerTypes, Offset
<1> QED
  BY <1>1, <1>2, <1>3, <1>4, PollStep, HandleStep, CommitStep DEF Next

(* KafkaConsumer: whatever fails, stops or restarts, a committed offset lies behind no
   record that was not handled and accepted. *)
THEOREM NoRecordIsSkipped == Spec => []NothingSkipped
<1>1. ConsumerInv => NothingSkipped
  BY DEF ConsumerInv
<1> QED
  BY <1>1, ConsumerStarts, ConsumerStep, PTL DEF Spec
-----------------------------------------------------------------------------
Bearing(i) == {o \in Offset : partition[o].identity = i}
Total(i) == SumFunctionOnSet(acceptances, Bearing(i))

(* The lives that are over: a shutdown is counted when it is asked for. *)
Over == stops - IF running THEN 0 ELSE 1

(* An identity was accepted once in this life if it is remembered, and at most once
   in each life before. *)
OnceInv ==
    /\ ConsumerTypes
    /\ stops \in Nat /\ Over \in Nat /\ running \in BOOLEAN
    /\ loop = "stopped" => ~running
    /\ \A i \in Identity : Total(i) <= Over + (IF i \in seenIdentities THEN 1 ELSE 0)

LEMMA TotalTyped ==
    ASSUME ConsumerTypes, NEW i
    PROVE  IsFiniteSet(Offset) /\ Bearing(i) \in SUBSET Offset /\ Total(i) \in Nat
<1>1. Len(partition) \in Nat
  BY DEF ConsumerTypes
<1>2. IsFiniteSet(Offset)
  BY <1>1, FS_Interval DEF Offset
<1>3. Bearing(i) \in SUBSET Offset
  BY DEF Bearing
<1>4. SumFunctionOnSet(acceptances, Bearing(i)) \in Nat
  BY <1>2, <1>3, SumAny DEF ConsumerTypes
<1> QED
  BY <1>2, <1>3, <1>4 DEF Total

LEMMA OnceStarts == Init => OnceInv
<1> SUFFICES ASSUME Init PROVE OnceInv
  OBVIOUS
<1>1. ConsumerTypes
  BY ConsumerStarts DEF ConsumerInv
<1>2. \A o \in Offset : acceptances[o] = 0
  BY DEF Init
<1>3. \A i \in Identity : Total(i) = 0
  <2> TAKE i \in Identity
  <2>1. \A o \in Bearing(i) : acceptances[o] = 0
    BY <1>2 DEF Bearing
  <2>2. SumFunctionOnSet(acceptances, Bearing(i)) = 0
    BY <1>1, <2>1, TotalTyped, SumZero DEF ConsumerTypes
  <2> QED
    BY <2>2 DEF Total
<1> QED
  BY <1>1, <1>3 DEF Init, OnceInv, Over

(* The total of an identity changes with the record of it that is accepted. *)
LEMMA TotalMoves ==
    ASSUME ConsumerTypes, ConsumerTypes', UNCHANGED partition, NEW o \in Offset, NEW n \in Nat,
           acceptances' = [acceptances EXCEPT ![o] = @ + n], NEW i
    PROVE  Total(i)' = Total(i) + IF partition[o].identity = i THEN n ELSE 0
<1>1. Offset' = Offset /\ Bearing(i)' = Bearing(i)
  BY DEF Offset, Bearing
<1>2. /\ acceptances \in [Offset -> Nat] /\ acceptances' \in [Offset -> Nat]
      /\ \A p \in Offset \ {o} : acceptances'[p] = acceptances[p]
      /\ acceptances'[o] = acceptances[o] + n
  BY <1>1 DEF ConsumerTypes
<1>3. IsFiniteSet(Offset) /\ Bearing(i) \in SUBSET Offset
  BY TotalTyped
<1>4. Total(i) = SumFunctionOnSet(acceptances, Bearing(i))
      /\ Total(i)' = SumFunctionOnSet(acceptances', Bearing(i))
  BY <1>1 DEF Total
<1>5. IF o \in Bearing(i)
      THEN SumFunctionOnSet(acceptances', Bearing(i)) + acceptances[o] =
               SumFunctionOnSet(acceptances, Bearing(i)) + acceptances'[o]
      ELSE SumFunctionOnSet(acceptances', Bearing(i)) = SumFunctionOnSet(acceptances, Bearing(i))
  <2> DEFINE v == acceptances'
  <2>1. v \in [Offset -> Nat] /\ \A p \in Offset \ {o} : v[p] = acceptances[p]
    BY <1>2
  <2> HIDE DEF v
  <2>2. IF o \in Bearing(i)
        THEN SumFunctionOnSet(v, Bearing(i)) + acceptances[o] =
                 SumFunctionOnSet(acceptances, Bearing(i)) + v[o]
        ELSE SumFunctionOnSet(v, Bearing(i)) = SumFunctionOnSet(acceptances, Bearing(i))
    BY <1>2, <1>3, <2>1, SumMoves
  <2> QED
    BY <2>2 DEF v
<1>6. o \in Bearing(i) <=> partition[o].identity = i
  BY DEF Bearing
<1>7. /\ SumFunctionOnSet(acceptances, Bearing(i)) \in Nat
      /\ SumFunctionOnSet(acceptances', Bearing(i)) \in Nat /\ acceptances[o] \in Nat
  <2>1. Total(i) \in Nat /\ Total(i)' \in Nat
    <3>1. (ConsumerTypes => Total(i) \in Nat)'
      BY TotalTyped, PTL
    <3> QED
      BY <3>1, TotalTyped
  <2> QED
    BY <1>2, <1>4, <2>1
<1> QED
  BY <1>2, <1>4, <1>5, <1>6, <1>7

LEMMA TotalKept ==
    ASSUME UNCHANGED <<partition, acceptances>>, NEW i
    PROVE  Total(i)' = Total(i)
BY DEF Total, Bearing, Offset

LEMMA OnceHandle ==
    ASSUME OnceInv, ConsumerTypes', NEW o \in Offset, Handle(o)
    PROVE  OnceInv'
<1>1. UNCHANGED <<partition, loop, running, stops>> /\ Over' = Over
  BY DEF Handle, Over
<1>2. CASE ~partition[o].valid
  <2>1. UNCHANGED <<seenIdentities, acceptances>>
    BY <1>2 DEF Handle
  <2>2. \A i : Total(i)' = Total(i)
    BY <1>1, <2>1, TotalKept
  <2> QED
    BY <1>1, <2>1, <2>2 DEF OnceInv
<1>3. CASE partition[o].valid
  <2> DEFINE n == IF partition[o].identity \notin seenIdentities THEN 1 ELSE 0
  <2>1. /\ acceptances' = [acceptances EXCEPT ![o] = @ + n]
        /\ seenIdentities' = seenIdentities \cup {partition[o].identity}
    BY <1>3 DEF Handle
  <2>2. n \in Nat
    OBVIOUS
  <2> HIDE DEF n
  <2>3. \A i : Total(i)' = Total(i) + IF partition[o].identity = i THEN n ELSE 0
    BY <1>1, <2>1, <2>2, TotalMoves DEF OnceInv
  <2>4. ASSUME NEW i \in Identity
        PROVE  Total(i)' <= Over' + (IF i \in seenIdentities' THEN 1 ELSE 0)
    <3>1. /\ Total(i) \in Nat /\ Over \in Nat
          /\ Total(i) <= Over + (IF i \in seenIdentities THEN 1 ELSE 0)
      BY TotalTyped DEF OnceInv
    <3>2. CASE partition[o].identity = i
      BY <1>1, <2>1, <2>3, <3>1, <3>2 DEF n
    <3>3. CASE partition[o].identity # i
      BY <1>1, <2>1, <2>3, <3>1, <3>3
    <3> QED
      BY <3>2, <3>3
  <2> QED
    BY <1>1, <2>4 DEF OnceInv
<1> QED
  BY <1>2, <1>3

LEMMA OnceRestart ==
    ASSUME OnceInv, ConsumerTypes', Restart
    PROVE  OnceInv'
<1>1. /\ UNCHANGED <<partition, acceptances>> /\ running' = TRUE /\ loop' = "polling"
      /\ seenIdentities' = {}
      /\ (loop = "stopped" /\ stops' = stops) \/ stops' = stops + 1
  BY DEF Restart, Fresh
<1>2. stops \in Nat /\ stops' \in Nat /\ Over' = stops' /\ Over \in Nat /\ Over + 1 <= stops'
  BY <1>1 DEF OnceInv, Over
<1>3. ASSUME NEW i \in Identity
      PROVE  Total(i)' <= Over' + (IF i \in seenIdentities' THEN 1 ELSE 0)
  <2>1. Total(i)' = Total(i) /\ Total(i) \in Nat
    BY <1>1, TotalKept, TotalTyped DEF OnceInv
  <2>2. Total(i) <= Over + 1
    BY <1>2, <2>1 DEF OnceInv
  <2> QED
    BY <1>1, <1>2, <2>1, <2>2
<1> QED
  BY <1>1, <1>2, <1>3 DEF OnceInv

LEMMA OnceStep == ASSUME OnceInv, ConsumerTypes', [Next]_vars PROVE OnceInv'
<1>1. CASE Poll \/ Commit \/ Fail \/ UNCHANGED vars
  <2>1. UNCHANGED <<partition, running, seenIdentities, acceptances, stops>>
        /\ (loop' = "stopped" => loop = "stopped" \/ ~running)
    BY <1>1 DEF Poll, Commit, Fail, vars, memory
  <2>2. \A i : Total(i)' = Total(i)
    BY <2>1, TotalKept
  <2> QED
    BY <2>1, <2>2 DEF OnceInv, Over
<1>2. CASE Stop
  <2>1. /\ UNCHANGED <<partition, acceptances, seenIdentities>> /\ running /\ running' = FALSE
        /\ stops' = stops + 1
    BY <1>2 DEF Stop
  <2>2. \A i : Total(i)' = Total(i)
    BY <2>1, TotalKept
  <2>3. Over' = Over /\ stops' \in Nat
    BY <2>1 DEF OnceInv, Over
  <2> QED
    BY <2>1, <2>2, <2>3 DEF OnceInv
<1> QED
  BY <1>1, <1>2, OnceHandle, OnceRestart DEF Next

(* KafkaConsumer: however handlers of a batch interleave, and whatever is delivered
   again, an identity is accepted again only in another life of the process. *)
THEOREM IdentitiesAreAcceptedOnce == Spec => []AcceptedOncePerLife
<1>1. Init => ConsumerInv /\ OnceInv
  BY ConsumerStarts, OnceStarts
<1>2. ConsumerInv /\ OnceInv /\ [Next]_vars => ConsumerInv' /\ OnceInv'
  BY ConsumerStep, OnceStep DEF ConsumerInv
<1>3. OnceInv => AcceptedOncePerLife
  <2> SUFFICES ASSUME OnceInv, NEW i \in Identity PROVE Total(i) <= stops + 1
    BY DEF AcceptedOncePerLife, Total, Bearing
  <2>1. Total(i) \in Nat /\ Total(i) <= Over + (IF i \in seenIdentities THEN 1 ELSE 0)
    BY TotalTyped DEF OnceInv
  <2>2. stops \in Nat /\ Over \in Nat /\ Over <= stops
    BY DEF OnceInv, Over
  <2> QED
    BY <2>1, <2>2
<1> QED
  BY <1>1, <1>2, <1>3, PTL DEF Spec
================================================================================
