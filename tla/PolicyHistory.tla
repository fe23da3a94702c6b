---------------------------- MODULE PolicyHistory ----------------------------
(***************************************************************************)
(* The life of one policy as the simulator generates, validates, replays   *)
(* and labels it. Every event has three times, in hours: when it occurred, *)
(* from when it is effective, and when it was ingested. A history may be   *)
(* amended (an event late, postponed or missing) and is then accepted only *)
(* if it validates; observations are cut from it at chosen times and       *)
(* labelled with what is known up to a watermark, which moves.             *)
(***************************************************************************)
EXTENDS Integers, FiniteSets

CONSTANTS
    Interval,           \* days from the issuance to the first bill
    Lateness,           \* hours by which an ingestion may be delayed
    HorizonDays,        \* LABEL_HORIZON_DAYS
    MaxAmendments, MaxObservations

HistoryAssumption == Interval \subseteq Nat /\ Lateness \subseteq Nat /\ HorizonDays \in Nat

VARIABLES
    history,            \* the events, a set: callers' order is sorted away
    amendments,
    watermark,          \* follow_up_through of the observations built
    records             \* the observations

vars == <<history, amendments, watermark, records>>

Days(n) == 24 * n
Terminal == {"lapsed", "surrendered"}
SupportedTransitions ==
    {<<"active", "grace_period">>, <<"grace_period", "active">>,
     <<"grace_period", "lapsed">>, <<"active", "surrendered">>}

(* An event in the order of its identifier, and a status change from one status
   to another; "to" is the outcome of an outcome event. *)
Event(id, kind, from, to, day) ==
    [id |-> id, kind |-> kind, from |-> from, to |-> to, occurred |-> Days(day),
     effective |-> Days(day), ingested |-> Days(day) + 1, due |-> day]
Fact(id, kind, day) == Event(id, kind, "none", "none", day)
Outcome(id, to, day) == Event(id, "outcome", "none", to, day)
Change(id, from, to, day) == Event(id, "status_changed", from, to, day)

Overdue(due) ==
    {Fact(3, "payment.failed", due + 1), Fact(4, "payment_reminder", due + 3),
     Change(5, "active", "grace_period", due + 5)}

(* _generate_history: what each scenario adds to the issuance and the first bill. *)
Scenario(due) ==
    { {Fact(3, "payment.received", due + 1)},
      {Fact(3, "payment.received", due + 1), Fact(4, "contact", due + 8)},
      {Fact(3, "payment.received", due + 1), Fact(4, "surrender_inquiry", due + 15),
       Outcome(5, "surrendered", due + 20), Change(6, "active", "surrendered", due + 20)},
      Overdue(due) \cup
      {Fact(6, "payment.received", due + 12), Change(7, "grace_period", "active", due + 12)},
      Overdue(due) \cup
      {Fact(6, "lapse_warning", due + 25), Outcome(7, "lapsed", due + 35),
       Change(8, "grace_period", "lapsed", due + 35)} }

Generated ==
    UNION {{{Fact(1, "issued", 0), Fact(2, "billing", due)} \cup rest : rest \in Scenario(due)} :
           due \in Interval}

OfKind(h, kind) == {e \in h : e.kind = kind}
Outcomes(h) == OfKind(h, "outcome")
Changes(h) == OfKind(h, "status_changed")

(* The order of the events: when effective, then when they occurred, then by id. *)
Before(a, b) ==
    \/ a.effective < b.effective
    \/ a.effective = b.effective /\ a.occurred < b.occurred
    \/ a.effective = b.effective /\ a.occurred = b.occurred /\ a.id < b.id
NotAfter(a, b) == a.effective <= b.effective /\ a.occurred <= b.occurred

StatusOf_LastIngested(events) ==
    IF Changes(events) = {} THEN "active"
    ELSE (CHOOSE e \in Changes(events) :
              \A f \in Changes(events) : f.ingested <= e.ingested).to

(* The status after a set of events: that of the last change. *)
StatusOf(events) ==
    IF Changes(events) = {} THEN "active"
    ELSE (CHOOSE e \in Changes(events) : \A f \in Changes(events) \ {e} : Before(f, e)).to

(* _validate_timeline *)
TimelineHolds(h) ==
    /\ Cardinality(OfKind(h, "issued")) = 1
    /\ \A e \in h : e.ingested >= e.occurred
    /\ \A i \in OfKind(h, "issued"), e \in h : NotAfter(i, e)
    /\ \A b \in OfKind(h, "billing") : Days(b.due) <= b.effective /\ b.effective < Days(b.due + 1)
    /\ \A p \in OfKind(h, "payment.received") \cup OfKind(h, "payment.failed") :
          \E b \in OfKind(h, "billing") : Before(b, p) /\ NotAfter(b, p)
    /\ \A n \in OfKind(h, "payment_reminder") \cup OfKind(h, "lapse_warning") :
          \E f \in OfKind(h, "payment.failed") : Before(f, n) /\ NotAfter(f, n)
    /\ \A o \in Outcomes(h) :
          IF o.to = "lapsed"
          THEN \A kind \in {"payment.failed", "lapse_warning"} :
                  \E e \in OfKind(h, kind) : NotAfter(e, o)
          ELSE \E e \in OfKind(h, "surrender_inquiry") : NotAfter(e, o)

(* One chain of supported changes, nothing effective after a terminal one, and
   one outcome at most. *)
ChainHolds(h) ==
    /\ \A e \in Changes(h) :
          /\ e.from = StatusOf({f \in h : Before(f, e)})
          /\ <<e.from, e.to>> \in SupportedTransitions
    /\ \A e \in Changes(h) : e.to \in Terminal => \A f \in h : f.effective <= e.effective
    /\ Cardinality(Outcomes(h)) <= 1

(* _validate_statuses_and_outcomes: the chain, and a terminal change exactly with
   its outcome. *)
StatusesHold(h) ==
    /\ ChainHolds(h)
    /\ \A s \in Terminal :
          LET changes == {e \in Changes(h) : e.to = s}
              outcomes == {o \in Outcomes(h) : o.to = s}
          IN  /\ changes = {} <=> outcomes = {}
              /\ \A e \in changes, o \in outcomes : e.effective = o.effective

Valid(h) == h # {} /\ TimelineHolds(h) /\ StatusesHold(h)

(* reconstruct_policy_state: in force at a time, however late it was known. *)
Reconstructed(h, cutoff) ==
    LET selected == {e \in h : e.effective <= cutoff}
    IN  IF selected = {} THEN "none" ELSE StatusOf(selected)

Visible(h, cutoff) == {e \in h : e.effective <= cutoff /\ e.ingested <= cutoff}

(* _visible_state: changes before a visible issuance do not count. *)
VisibleStatus(h, cutoff) ==
    IF OfKind(Visible(h, cutoff), "issued") = {} THEN "none" ELSE StatusOf(Visible(h, cutoff))

HorizonEnd(cutoff) == cutoff + Days(HorizonDays)

Label_NoCensoring(h, cutoff, w) ==
    IF VisibleStatus(h, cutoff) # "active" THEN "not_applicable"
    ELSE IF \E o \in Outcomes(h) :
                cutoff < o.effective /\ o.effective <= HorizonEnd(cutoff) /\ o.ingested <= w
         THEN "observed_positive" ELSE "observed_negative"

Label_FromTheCutoff(h, cutoff, w) ==
    LET inHorizon == {o \in Outcomes(h) : cutoff <= o.effective /\ o.effective <= HorizonEnd(cutoff)}
    IN  IF VisibleStatus(h, cutoff) # "active" THEN "not_applicable"
        ELSE IF \E o \in inHorizon : o.ingested <= w THEN "observed_positive"
        ELSE IF inHorizon # {} \/ w < HorizonEnd(cutoff) THEN "right_censored"
        ELSE "observed_negative"

(* _build_label: no outcome counts before it is ingested, nor its absence before
   the horizon is over. *)
Label(h, cutoff, w) ==
    LET inHorizon == {o \in Outcomes(h) : cutoff < o.effective /\ o.effective <= HorizonEnd(cutoff)}
    IN  IF VisibleStatus(h, cutoff) # "active" THEN "not_applicable"
        ELSE IF \E o \in inHorizon : o.ingested <= w THEN "observed_positive"
        ELSE IF inHorizon # {} \/ w < HorizonEnd(cutoff) THEN "right_censored"
        ELSE "observed_negative"

(* build_observation *)
Observation(h, cutoff, w) ==
    [asOf |-> cutoff, status |-> VisibleStatus(h, cutoff),
     seen |-> {e.id : e \in Visible(h, cutoff)}, label |-> Label(h, cutoff, w)]

(* first_billing_observation_time *)
FirstBilling(h) ==
    (CHOOSE b \in OfKind(h, "billing") : \A c \in OfKind(h, "billing") \ {b} : Before(b, c)).ingested

Times(h) == {e.effective : e \in h} \cup {e.ingested : e \in h}

Init ==
    /\ history \in Generated
    /\ amendments = 0 /\ records = {}
    /\ watermark = 0

(* Another history, refused unless it validates. *)
Amend ==
    /\ records = {} /\ watermark = 0 /\ amendments < MaxAmendments
    /\ amendments' = amendments + 1
    /\ \E e \in history :
          \/ history' = history \ {e}
          \/ \E d \in Lateness : history' = (history \ {e}) \cup {[e EXCEPT !.ingested = @ + d]}
          \/ \E t \in Times(history) : history' = (history \ {e}) \cup {[e EXCEPT !.effective = t]}
    /\ Valid(history')
    /\ UNCHANGED <<watermark, records>>

Observe ==
    /\ Cardinality(records) < MaxObservations
    /\ OfKind(history, "billing") # {}
    /\ \E cutoff \in Times(history) \cup {FirstBilling(history)} :
          /\ cutoff <= watermark
          /\ records' = records \cup {Observation(history, cutoff, watermark)}
    /\ UNCHANGED <<history, amendments, watermark>>

(* The same observations, followed up for longer. *)
Follow ==
    /\ \E w \in Times(history) \cup {HorizonEnd(r.asOf) : r \in records} :
          /\ w > watermark /\ watermark' = w
    /\ records' = {Observation(history, r.asOf, watermark') : r \in records}
    /\ UNCHANGED <<history, amendments>>

Next == Amend \/ Observe \/ Follow
Spec == Init /\ [][Next]_vars
-----------------------------------------------------------------------------
(* The three readings of a history agree. Replayed to its end it has the status its
   outcome says, and a terminal status only with an outcome; what an observation
   sees is what the replay says once nothing in force is still on its way; and no
   observation knows of an end that has not come. *)
ReplayAgrees ==
    /\ LET last == CHOOSE t \in Times(history) : \A u \in Times(history) : u <= t
           final == Reconstructed(history, last)
       IN  IF final \in Terminal THEN {o.to : o \in Outcomes(history)} = {final}
           ELSE Outcomes(history) = {}
    /\ \A t \in Times(history) :
          /\ (\A e \in history : e.effective <= t => e.ingested <= t)
                => VisibleStatus(history, t) = Reconstructed(history, t)
          /\ VisibleStatus(history, t) \in Terminal
                => Reconstructed(history, t) = VisibleStatus(history, t)

(* A label once observed is never taken back by following the policy up for
   longer; only a censored one changes. *)
LabelsSettle ==
    [][\A r \in records : r.label # "right_censored" =>
          \E s \in records' : s.asOf = r.asOf /\ s.label = r.label]_vars

(* Censoring ends: when the horizon is over and every event has been ingested, an
   eligible observation has its label, positive exactly when the policy ends in
   the horizon. *)
CensoringEnds ==
    \A r \in records :
        /\ watermark >= HorizonEnd(r.asOf) /\ (\A e \in history : e.ingested <= watermark)
        /\ r.status = "active"
        => r.label = IF \E e \in Changes(history) :
                            /\ e.to \in Terminal
                            /\ r.asOf < e.effective /\ e.effective <= HorizonEnd(r.asOf)
                     THEN "observed_positive" ELSE "observed_negative"
=============================================================================
