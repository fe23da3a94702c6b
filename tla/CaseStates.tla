----------------------------- MODULE CaseStates -----------------------------
(* The states of a conservation case and the transitions its contract allows *)
(* (simulator/src/inforsight_simulator/workflow/state_machine.py).           *)

CaseState == {"NONE", "CREATED", "TRIAGED", "EVIDENCE_ASSEMBLED", "RECOMMENDED",
              "HUMAN_REVIEWED", "EXECUTED", "DISMISSED", "RESOLVED"}

VALID_TRANSITIONS == {
    <<"NONE", "CREATED">>, <<"CREATED", "TRIAGED">>,
    <<"TRIAGED", "EVIDENCE_ASSEMBLED">>, <<"EVIDENCE_ASSEMBLED", "RECOMMENDED">>,
    <<"RECOMMENDED", "HUMAN_REVIEWED">>, <<"HUMAN_REVIEWED", "EXECUTED">>,
    <<"HUMAN_REVIEWED", "DISMISSED">>, <<"EXECUTED", "RESOLVED">>,
    <<"DISMISSED", "RESOLVED">> }

(* What create_case audits, in this order, before the case exists. *)
Intake == <<"CREATED", "TRIAGED", "EVIDENCE_ASSEMBLED", "RECOMMENDED">>
=============================================================================
