----------------------------- MODULE EventIngress -----------------------------
(***************************************************************************)
(* The streaming ingress of the simulator: records are validated and       *)
(* deduplicated, kept in a buffer that replays what was known at a time,   *)
(* and handed downstream; what is malformed goes to the dead-letter topic. *)
(* Records come from a broker that may deliver them late, twice or out of  *)
(* order, and again when their processing raised.                          *)
(***************************************************************************)
EXTENDS Integers, FiniteSets

CONSTANTS
    EventId, IdempotencyKey, Content,
    LastTime,           \* times are 0 .. LastTime
    MaxDeliveries, MaxFailures

VARIABLES
    seen,               \* StreamingIngress._seen
    events,             \* PointInTimeEventBuffer._events: one event for an id
    deadLetters,        \* what was sent to the dead-letter topic
    downstream,         \* what downstream took
    processed,          \* every record process_record returned for or raised on
    refused,            \* records the buffer refused after the ingress accepted them
    raised,             \* records downstream raised on
    deliveries, failures

vars == <<seen, events, deadLetters, downstream, processed, refused, raised, deliveries, failures>>

Time == 0 .. LastTime
Event ==
    [id : EventId, key : IdempotencyKey, content : Content,
     occurred : Time, effective : Time, ingested : Time]
Record == [valid : BOOLEAN, event : Event]
Pair(e) == <<e.id, e.key>>

Init ==
    /\ seen = {} /\ events = {} /\ deadLetters = {} /\ downstream = {}
    /\ processed = {} /\ refused = {} /\ raised = {}
    /\ deliveries = 0 /\ failures = 0

Buffers_Any(e) == e.occurred <= e.ingested

(* append: a time order the buffer can replay, and an id never reused for
   something else. *)
Buffers(e) ==
    /\ e.occurred <= e.ingested
    /\ \A prior \in events : prior.id = e.id => prior = e

Deliver(r) ==
    /\ deliveries < MaxDeliveries
    /\ deliveries' = deliveries + 1
    /\ processed' = processed \cup {r}

DeadLetter_Drops(r) ==
    /\ ~r.valid
    /\ Deliver(r)
    /\ UNCHANGED <<seen, events, deadLetters, downstream, refused, raised, failures>>

(* A value the schema of its topic refuses, or of a topic nobody declared. *)
DeadLetter(r) ==
    /\ ~r.valid
    /\ Deliver(r)
    /\ deadLetters' = deadLetters \cup {r}
    /\ UNCHANGED <<seen, events, downstream, refused, raised, failures>>

Duplicate(r) ==
    /\ r.valid /\ Pair(r.event) \in seen
    /\ Deliver(r)
    /\ UNCHANGED <<seen, events, deadLetters, downstream, refused, raised, failures>>

(* The ingress has the pair marked as seen before the buffer refuses the event:
   the result says dead_letter, and nothing is sent. *)
Refuse(r) ==
    /\ r.valid /\ Pair(r.event) \notin seen /\ ~Buffers(r.event)
    /\ Deliver(r)
    /\ seen' = seen \cup {Pair(r.event)}
    /\ refused' = refused \cup {r}
    /\ UNCHANGED <<events, deadLetters, downstream, raised, failures>>

Accept(r) ==
    /\ r.valid /\ Pair(r.event) \notin seen /\ Buffers(r.event)
    /\ Deliver(r)
    /\ seen' = seen \cup {Pair(r.event)}
    /\ events' = {e \in events : e.id # r.event.id} \cup {r.event}
    /\ \/ downstream' = downstream \cup {r} /\ UNCHANGED <<raised, failures>>
       \/ /\ failures < MaxFailures
          /\ failures' = failures + 1
          /\ raised' = raised \cup {r}
          /\ UNCHANGED downstream
    /\ UNCHANGED <<deadLetters, refused>>

Next == \E r \in Record :
    DeadLetter(r) \/ Duplicate(r) \/ Refuse(r) \/ Accept(r)

Spec == Init /\ [][Next]_vars
-----------------------------------------------------------------------------
(* visible_events: what was in force and known at a cutoff. *)
Visible(cutoff) == {e \in events : e.effective <= cutoff /\ e.ingested <= cutoff}

(* What a replay showed at a cutoff it shows ever after, unchanged, whatever
   arrives later or again. *)
ReplayStands == [][\A cutoff \in Time : Visible(cutoff) \subseteq Visible(cutoff)']_vars

(* Every record processed is downstream, or under the pair of one that is, or a
   dead letter; what the buffer refused and what downstream raised on are the
   only others, and their pairs are never taken again. *)
AllAccounted ==
    \A r \in processed :
        \/ r \in deadLetters
        \/ /\ r.valid
           /\ \E s \in downstream \cup refused \cup raised : Pair(s.event) = Pair(r.event)
=============================================================================
