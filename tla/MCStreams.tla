------------------------------ MODULE MCStreams ------------------------------
(* Instances for TLC of the three parts through which events and requests reach  *)
(* the services: the Kafka consumer, the simulator's ingress and the guard of    *)
(* the triage endpoint. They share no state, so each initial state runs one of   *)
(* them and leaves the others where they are.                                    *)
EXTENDS KafkaConsumer

CONSTANTS
    EventId, IdempotencyKey, Content, LastTime, MaxDeliveries, MaxFailures,
    Request, Capacity, FailureThreshold, OpenDuration, MaxTime

VARIABLES
    part,
    seen, events, deadLetters, downstream, processed, refused, raised, deliveries, failures,
    tokens, state, breakerFailures, openedAt, request, now, streak, lastFailure

Ingress == INSTANCE EventIngress
Guard == INSTANCE Resilience WITH failures <- breakerFailures

ASSUME GuardAssumption == Guard!ResilienceAssumption

ingress == <<seen, events, deadLetters, downstream, processed, refused, raised, deliveries, failures>>
guard == <<tokens, state, breakerFailures, openedAt, request, now, streak, lastFailure>>

MCInit ==
    /\ part \in {"consumer", "ingress", "guard"}
    /\ Init /\ Ingress!Init /\ Guard!Init
    /\ part # "consumer" => partition = <<>>

MCNext ==
    /\ UNCHANGED part
    /\ \/ part = "consumer" /\ Next /\ UNCHANGED <<ingress, guard>>
       \/ part = "ingress" /\ Ingress!Next /\ UNCHANGED <<vars, guard>>
       \/ part = "guard" /\ Guard!Next /\ UNCHANGED <<vars, ingress>>

MCSpec == MCInit /\ [][MCNext]_<<part, vars, ingress, guard>> /\ Fairness

(* EventIngress: every record processed is accounted for. *)
AllAccounted == Ingress!AllAccounted

(* EventIngress: what a replay showed at a cutoff it shows ever after. *)
ReplayStands == Ingress!ReplayStands

(* Resilience: inference that keeps failing is left alone for OpenDuration. *)
InferenceRests == Guard!InferenceRests
=============================================================================
