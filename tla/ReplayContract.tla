--------------------------- MODULE ReplayContract ---------------------------
(***************************************************************************)
(* What run_fixture may rely on when it calls replay: the call returns     *)
(* once, with an answer that its arguments allow.                          *)
(***************************************************************************)
CONSTANTS
    Inputs,           \* the documents a request may be about
    Pending,
    Allowed(_, _, _)  \* the answers to a baseline, a candidate and an expected base

VARIABLES baseline, candidate, expected, outcome

ContractVars == <<baseline, candidate, expected, outcome>>

Request ==
    /\ baseline \in Inputs /\ candidate \in Inputs /\ expected \in Inputs
    /\ outcome = Pending

Answer ==
    /\ outcome = Pending
    /\ outcome' \in Allowed(baseline, candidate, expected)
    /\ UNCHANGED <<baseline, candidate, expected>>

Spec == Request /\ [][Answer]_ContractVars /\ WF_ContractVars(Answer)
=============================================================================
