----------------------------- MODULE Evaluation -----------------------------
(***************************************************************************)
(* The two evaluations of what a call or a benchmark left behind: the gate *)
(* of the replay benchmark (benchmark_gate.py) and the report of a call    *)
(* (review_call.py).                                                       *)
(***************************************************************************)
EXTENDS ReplayGate, ReviewReport

\* What the two evaluation scripts print is what the measurements say: a promotion is
\* earned, and the two reports of a call's log agree with it.
EvaluationIsHonest ==
    /\ DOMAIN replayed # {} => VerdictIsEarned
    /\ LoggedRows # {} => ReportsAddUp
=============================================================================
