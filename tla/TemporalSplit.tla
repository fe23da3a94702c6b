---------------------------- MODULE TemporalSplit ----------------------------
(***************************************************************************)
(* The chronological split of labelled observations into training,         *)
(* validation and test, which is assigned by the cutoff alone and then     *)
(* refused unless the partitions share no policy and no outcome, have both *)
(* classes, and no label horizon of one reaches the next.                  *)
(***************************************************************************)
EXTENDS Integers, FiniteSets

CONSTANTS
    Cutoff,             \* the times at which a policy is observed
    Horizon,            \* LABEL_HORIZON_DAYS
    Specification,      \* the boundaries: train_end, validation_start, validation_end, test_start
    MaxRecords, MaxAtCutoff, MaxPolicies

SplitAssumption == Cutoff \subseteq Nat /\ Horizon \in Nat

VARIABLES
    records,            \* the observations: [policy, asOf, label]
    boundaries,         \* the specification of the split
    accepted            \* whether assign_temporal_splits returned

vars == <<records, boundaries, accepted>>

Label == {"observed_positive", "observed_negative", "right_censored"}
Disposition == {"train", "embargoed", "validation", "calendar_gap", "test", "excluded"}
Modeling == {"train", "validation", "test"}

(* _expected_disposition *)
Expected(r) ==
    IF r.label = "right_censored" THEN "excluded"
    ELSE IF r.asOf < boundaries[1] THEN "train"
    ELSE IF r.asOf < boundaries[2] THEN "embargoed"
    ELSE IF r.asOf < boundaries[3] THEN "validation"
    ELSE IF r.asOf < boundaries[4] THEN "calendar_gap"
    ELSE "test"

Partition(name) == {r \in records : Expected(r) = name}

(* An outcome is an episode of its policy: one that several horizons cover is the
   same source event. *)
SameOutcome(r, s) ==
    /\ r.policy = s.policy
    /\ r.label = "observed_positive" /\ s.label = "observed_positive"

(* validate_observation_records: one observation of a policy at a time, and no
   outcome that labels two. *)
Distinct(r) ==
    \A s \in records : (s.policy # r.policy \/ s.asOf # r.asOf) /\ ~SameOutcome(r, s)

Populated ==
    \A name \in Modeling :
        {r.label : r \in Partition(name)} = {"observed_positive", "observed_negative"}

Embargoed_Chronology(earlier, later) ==
    \A r \in Partition(earlier), s \in Partition(later) : r.asOf < s.asOf

(* _require_chronology and _require_horizon_embargo: reaching the next partition's
   first cutoff is an overlap. *)
Embargoed(earlier, later) ==
    \A r \in Partition(earlier), s \in Partition(later) : r.asOf < s.asOf /\ r.asOf + Horizon < s.asOf

Isolated ==
    \A name, other \in Modeling : name # other =>
        \A r \in Partition(name), s \in Partition(other) : r.policy # s.policy /\ ~SameOutcome(r, s)

(* validate_temporal_split *)
Validated ==
    /\ Populated /\ Isolated
    /\ Embargoed("train", "validation") /\ Embargoed("validation", "test")

Init ==
    /\ records = {} /\ accepted = FALSE
    /\ boundaries \in Specification

Latest == CHOOSE t \in {r.asOf : r \in records} \cup {0} : \A r \in records : r.asOf <= t

Rank(label, policy) ==
    policy + (CASE label = "observed_positive" -> 0 [] label = "observed_negative" -> MaxPolicies
                [] OTHER -> 2 * MaxPolicies)

(* The records are sorted before they are assigned: they are observed in the order of
   time, then in one of the orders that differ only by the names of the policies. *)
Observe ==
    /\ ~accepted /\ Cardinality(records) < MaxRecords
    /\ \E policy \in 1 .. MaxPolicies, t \in Cutoff, label \in Label :
          /\ t >= Latest /\ Cardinality({r \in records : r.asOf = t}) < MaxAtCutoff
          /\ \A r \in records : r.asOf = t => Rank(r.label, r.policy) < Rank(label, policy)
          /\ policy <= Cardinality({r.policy : r \in records}) + 1
          /\ Distinct([policy |-> policy, asOf |-> t, label |-> label])
          /\ records' = records \cup {[policy |-> policy, asOf |-> t, label |-> label]}
    /\ UNCHANGED <<boundaries, accepted>>

(* assign_temporal_splits *)
Assign ==
    /\ ~accepted /\ Validated
    /\ accepted' = TRUE
    /\ UNCHANGED <<records, boundaries>>

Next == Observe \/ Assign
Spec == Init /\ [][Next]_vars
-----------------------------------------------------------------------------
(* An accepted split never learns from the future: whatever can have happened in
   the horizon of an earlier partition's observation is over before any later
   partition observes a policy, the test after the training included, and no policy
   is on both sides. *)
NoFutureLearned ==
    accepted =>
        \A pair \in {<<"train", "validation">>, <<"validation", "test">>, <<"train", "test">>} :
            \A r \in Partition(pair[1]), s \in Partition(pair[2]) :
                r.asOf + Horizon < s.asOf /\ r.policy # s.policy
=============================================================================
