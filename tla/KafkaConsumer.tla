---------------------------- MODULE KafkaConsumer ----------------------------
(***************************************************************************)
(* The Kafka consumer of the control plane and its bounded handler: a      *)
(* poll hands a batch to handlers that run at once, the batch is committed *)
(* when all of them succeeded, and any failure ends the poll loop for      *)
(* good. The partition is external: a log read from the committed offset   *)
(* at each start. The identities the handler deduplicates by are memory of *)
(* the process.                                                            *)
(***************************************************************************)
EXTENDS Integers, Sequences, FiniteSets, Functions

CONSTANTS
    Identity,           \* (event_id, idempotency_key) pairs
    MaxRecords,         \* bound on the length of the partition
    MaxPollRecords,
    MaxStops            \* bound on the crashes and shutdowns

ASSUME ConsumerAssumption == MaxRecords \in Nat /\ MaxPollRecords \in Nat /\ MaxStops \in Nat

VARIABLES
    partition,          \* the records of the partition: [identity, valid]
    committed,          \* committed offset of the group: records below it are done with
    position,           \* the next offset the consumer will fetch
    loop,               \* "polling", "handling", "failed" or "stopped"
    running,            \* what isRunning answers
    waiting,            \* the offsets of the batch whose handler has not returned
    failed,             \* the offsets of the batch whose handler threw
    seenIdentities,
    accepted,           \* acceptedCount
    acceptances,        \* offset -> how often its record was accepted, over all lives
    handled,            \* the offsets whose handler ever returned
    stops

memory == <<position, loop, running, waiting, failed, seenIdentities, accepted>>
vars == <<partition, committed, memory, acceptances, handled, stops>>

Offset == 1 .. Len(partition)

Fresh_Latest ==
    /\ position' = IF committed = 0 THEN Len(partition) ELSE committed
    /\ loop' = "polling" /\ running' = TRUE
    /\ waiting' = {} /\ failed' = {}
    /\ seenIdentities' = {} /\ accepted' = 0

(* auto.offset.reset is earliest: a group without an offset reads from the start. *)
Fresh ==
    /\ position' = committed
    /\ loop' = "polling" /\ running' = TRUE
    /\ waiting' = {} /\ failed' = {}
    /\ seenIdentities' = {} /\ accepted' = 0

Init ==
    /\ partition \in UNION {[1 .. n -> [identity : Identity, valid : BOOLEAN]] : n \in 0 .. MaxRecords}
    /\ committed = 0 /\ position = 0
    /\ loop = "polling" /\ running = TRUE
    /\ waiting = {} /\ failed = {}
    /\ seenIdentities = {} /\ accepted = 0
    /\ acceptances = [o \in Offset |-> 0]
    /\ handled = {}
    /\ stops = 0

(* The next records of the partition, up to max.poll.records. *)
Poll ==
    /\ loop = "polling" /\ running
    /\ \E n \in 1 .. MaxPollRecords :
          /\ position + n <= Len(partition)
          /\ waiting' = position + 1 .. position + n
          /\ position' = position + n
    /\ loop' = "handling"
    /\ UNCHANGED <<partition, committed, running, failed, seenIdentities, accepted,
                   acceptances, handled, stops>>

Handle_AddsLate(o) ==
    /\ o \in waiting
    /\ waiting' = waiting \ {o}
    /\ IF ~partition[o].valid
       THEN /\ failed' = failed \cup {o}
            /\ UNCHANGED <<seenIdentities, accepted, acceptances, handled>>
       ELSE LET new == partition[o].identity \notin seenIdentities IN
            /\ failed' = failed
            /\ handled' = handled \cup {o}
            /\ seenIdentities' = IF waiting' = {} THEN seenIdentities \cup {partition[o].identity}
                                 ELSE seenIdentities
            /\ accepted' = accepted + IF new THEN 1 ELSE 0
            /\ acceptances' = [acceptances EXCEPT ![o] = @ + IF new THEN 1 ELSE 0]
    /\ UNCHANGED <<partition, committed, position, loop, running, stops>>

(* The handlers of a batch run in any order; each refuses an invalid envelope by
   throwing, and otherwise adds the identity to a concurrent set in one step. *)
Handle(o) ==
    /\ o \in waiting
    /\ waiting' = waiting \ {o}
    /\ IF ~partition[o].valid
       THEN /\ failed' = failed \cup {o}
            /\ UNCHANGED <<seenIdentities, accepted, acceptances, handled>>
       ELSE LET new == partition[o].identity \notin seenIdentities IN
            /\ failed' = failed
            /\ handled' = handled \cup {o}
            /\ seenIdentities' = seenIdentities \cup {partition[o].identity}
            /\ accepted' = accepted + IF new THEN 1 ELSE 0
            /\ acceptances' = [acceptances EXCEPT ![o] = @ + IF new THEN 1 ELSE 0]
    /\ UNCHANGED <<partition, committed, position, loop, running, stops>>

BatchDone == loop = "handling" /\ waiting = {}

Commit_DespiteFailure ==
    /\ BatchDone
    /\ IF running THEN committed' = position /\ loop' = "polling"
       ELSE loop' = "stopped" /\ UNCHANGED committed
    /\ failed' = {}
    /\ UNCHANGED <<partition, position, running, waiting, seenIdentities, accepted,
                   acceptances, handled, stops>>

(* commitSync, unless a shutdown woke the consumer: then it throws instead, and
   the loop ends with the batch handled and not committed. *)
Commit ==
    /\ BatchDone /\ failed = {}
    /\ IF running THEN committed' = position /\ loop' = "polling"
       ELSE loop' = "stopped" /\ UNCHANGED committed
    /\ UNCHANGED <<partition, position, running, waiting, failed, seenIdentities, accepted,
                   acceptances, handled, stops>>

(* A handler that threw ends the loop, once the handlers already submitted are
   done: the executor is closed. isRunning is not told. *)
Fail ==
    /\ BatchDone /\ failed # {}
    /\ loop' = "failed"
    /\ UNCHANGED <<partition, committed, position, running, waiting, failed, seenIdentities,
                   accepted, acceptances, handled, stops>>

(* stop: the flag, then the wakeup, which ends an idle poll. *)
Stop ==
    /\ running /\ loop # "failed" /\ stops < MaxStops
    /\ running' = FALSE
    /\ loop' = IF loop = "polling" THEN "stopped" ELSE loop
    /\ stops' = stops + 1
    /\ UNCHANGED <<partition, committed, position, waiting, failed, seenIdentities, accepted,
                   acceptances, handled>>

(* The process is gone, or ended, and another takes its place. *)
Restart ==
    /\ \/ loop = "stopped" /\ stops' = stops
       \/ stops < MaxStops /\ stops' = stops + 1
    /\ Fresh
    /\ UNCHANGED <<partition, committed, acceptances, handled>>

Next ==
    \/ Poll \/ (\E o \in Offset : Handle(o)) \/ Commit \/ Fail \/ Stop \/ Restart

Spec == Init /\ [][Next]_vars

(* The loop and its handlers run; a process that was stopped is started again. *)
Fairness ==
    /\ WF_vars(Poll) /\ WF_vars(\E o \in Offset : Handle(o)) /\ WF_vars(Commit)
    /\ WF_vars(Fail) /\ WF_vars(loop = "stopped" /\ Restart)

FairSpec == Spec /\ Fairness
-----------------------------------------------------------------------------
(* What is committed was handled and its identity accepted: neither a shutdown, a
   crash nor a handler that threw lets a record be skipped, and a record that is
   not valid is never passed. *)
NothingSkipped ==
    \A o \in 1 .. committed :
        /\ partition[o].valid /\ o \in handled
        /\ \E p \in Offset : partition[p].identity = partition[o].identity /\ acceptances[p] > 0

(* An identity is accepted again only in another life of the process. *)
AcceptedOncePerLife ==
    \A i \in Identity :
        SumFunctionOnSet(acceptances, {o \in Offset : partition[o].identity = i}) <= stops + 1

(* Every record before the first invalid one is handled, and a partition without
   one is committed to its end. *)
AllConsumed ==
    /\ (\A o \in Offset : partition[o].valid) => <>[](committed = Len(partition))
    /\ \A o \in 1 .. MaxRecords :
          (o \in Offset /\ \A p \in 1 .. o : p \in Offset => partition[p].valid) => <>(o \in handled)
=============================================================================
