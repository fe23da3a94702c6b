--------------------------- MODULE RecurringCorpus ---------------------------
(***************************************************************************)
(* One policy of the recurring corpora (v3 to v6): while a whole outcome   *)
(* episode of 90 days fits before the watermark and the policy lives, its  *)
(* payments and service events are recorded, features are cut from what is *)
(* visible, the three months of the episode are drawn, and the observation *)
(* is labelled. Every event is ingested with a delay below 30 days. Times  *)
(* are days after the issuance; what a draw decides is chosen freely.      *)
(***************************************************************************)
EXTENDS Integers, FiniteSets

CONSTANTS
    Watermark,
    Step,               \* days between two scheduled payments
    Delay               \* the ingestion delays: days below 30

CorpusAssumption == Watermark \in Nat /\ Step \in Nat \ {0} /\ Delay \subseteq 0 .. 29

VARIABLES
    events, cutoff, nextDue, terminal, observations

vars == <<events, cutoff, nextDue, terminal, observations>>

Event(kind, about, effective, delay) ==
    [kind |-> kind, about |-> about, effective |-> effective, ingested |-> effective + delay]

(* visible_events *)
Visible(es, t) == {e \in es : e.effective <= t /\ e.ingested <= t}

(* reconstruct_v3_features: the payments of the last 90 days and of the last year,
   and those of them whose delay a visible correction replaces. *)
Features(es, t) ==
    LET visible == Visible(es, t)
        payments(days) == {e \in visible : e.kind = "payment" /\ e.effective > t - days}
        corrected == {e \in payments(90) : \E c \in visible : c.kind = "correction" /\ c.about = e.about}
    IN  [recent |-> payments(90), rolling |-> payments(365), corrected |-> corrected,
         contacts |-> {e \in visible : e.kind = "service" /\ e.effective > t - 90}]

(* generate_v6_corpus starts from the issuance, and first observes after 30 days. *)
Init ==
    /\ \E d \in Delay : events = {Event("issued", 0, 0, d)}
    /\ cutoff = 30 /\ nextDue = 1
    /\ terminal = FALSE
    /\ observations = {}

(* _scheduled_payments: each with a delay of its own, and perhaps a correction two
   days later, with another. *)
Payments(due) ==
    {{Event("payment", n, n * Step, delay[n]) : n \in due} \cup
     {Event("correction", n, n * Step + 2, correction[n]) : n \in {k \in due : correction[k] >= 0}} :
        delay \in [due -> Delay], correction \in [due -> Delay \cup {-1}]}

Service == {{}} \cup {{Event("service", cutoff, cutoff - 13, d)} : d \in Delay}

(* The first month whose draw ends the policy, and the event of that end. *)
Ends == {{}} \cup {{Event("outcome", cutoff, cutoff + 30 * month, d)} : month \in 1 .. 3, d \in Delay}

Due_BeforeCutoff == {n \in nextDue .. cutoff : n * Step < cutoff}

Due == {n \in nextDue .. cutoff : n * Step <= cutoff}

(* An end that the watermark does not see makes the label negative. *)
Label(end) == \E e \in end : e.ingested <= Watermark /\ e.effective <= Watermark

Continues == cutoff + 90 <= Watermark /\ ~terminal

Episode ==
    /\ Continues
    /\ \E paid \in Payments(Due), service \in Service, end \in Ends :
          LET before == events \cup paid \cup service IN
          /\ events' = before \cup end
          /\ observations' = observations \cup
                {[asOf |-> cutoff, horizon |-> cutoff + 90,
                  features |-> Features(before, cutoff),
                  positive |-> Label(end)]}
          /\ terminal' = (end # {})
    /\ nextDue' = nextDue + Cardinality(Due)
    /\ cutoff' = cutoff + 90

Next == Episode
Spec == Init /\ [][Next]_vars
-----------------------------------------------------------------------------
(* Point in time: cut again from the finished history, with every event that came
   later or was ingested late, an observation has the same features, and no
   generation ever stops because the issuance is not yet visible. *)
FeaturesReproduce ==
    /\ \A o \in observations : Features(events, o.asOf) = o.features
    /\ \E e \in Visible(events, cutoff) : e.kind = "issued"

(* "A negative requires watermark coverage through the episode end and no
   qualifying event": no observation of a policy that ended in its horizon is
   negative. *)
NegativesAreNegative ==
    \A o \in observations, e \in events :
        e.kind = "outcome" /\ o.asOf < e.effective /\ e.effective <= o.horizon => o.positive
=============================================================================
