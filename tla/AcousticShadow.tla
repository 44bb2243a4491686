--------------------------- MODULE AcousticShadow ---------------------------
(***************************************************************************)
(* acoustic_shadow.py: around the prediction shadow of a direction, a      *)
(* sampled prediction becomes an arm, which collects the audio that comes  *)
(* after it and has the pruner score it, window by window, once the        *)
(* candidates are there and the audio is complete.                         *)
(*                                                                         *)
(* Words are not modelled: what an STT event means for an arm is a choice. *)
(* Whether the sampling takes a prediction is one too.                     *)
(***************************************************************************)
EXTENDS Integers, Sequences, FiniteSets

CONSTANTS
    Windows,    \* number of windows_ms
    MaxActive,  \* max_active
    MaxArms     \* bound: arms of the call

ASSUME AcousticAssumption == /\ Windows \in Nat \ {0} /\ MaxActive \in Nat \ {0}
                             /\ MaxArms \in Nat

VARIABLES
    arms,       \* _arms
    collector   \* the session's aclose: open, unpredicted, closing, closed

acousticVars == <<arms, collector>>

NewArm == [status |-> "armed",
           predictor |-> "asked",   \* asked, candidates, empty, failed
           full |-> FALSE,          \* the audio of the longest window is there
           scoring |-> "no",        \* no, running, over, failed, cut
           scores |-> 0,
           rows |-> 0]              \* in the eval log: logged from the first on

AcousticInit == arms = <<>> /\ collector = "open"

Logged(a) == a.rows # 0

----------------------------------------------------------------------------
(* One arm: _occupies_active_slot, _maybe_start_scoring, _maybe_log. *)

Occupies(a) == ~Logged(a) /\ (a.status \in {"armed", "resolved"} \/ a.scoring = "running")

StartScoring(a) ==
    IF ~Logged(a) /\ a.scoring = "no" /\ a.predictor = "candidates" /\ a.full
    THEN [a EXCEPT !.scoring = "running"] ELSE a

\* Mutant: the outcome is logged when it is known, scored or not.
WaitsForTheWord(a) == a.status = "armed"

\* For its word, for the scorer, or for more audio to score.
Waits(a) ==
    \/ a.status = "armed"
    \/ a.scoring \in {"running", "cut"}
    \/ a.scoring = "no" /\ a.status = "resolved" /\ a.predictor = "candidates" /\ ~a.full

MaybeLog(a) == IF Logged(a) \/ Waits(a) THEN a ELSE [a EXCEPT !.rows = @ + 1]

OnArm(i, a) == arms' = [arms EXCEPT ![i] = a]

----------------------------------------------------------------------------
(* AcousticAwarePredictorClient: arm, then predictor_result or _error. *)

ArmPrediction ==
    /\ collector = "open" /\ Len(arms) < MaxArms
    /\ Cardinality({i \in DOMAIN arms : Occupies(arms[i])}) < MaxActive
    /\ arms' = Append(arms, NewArm)
    /\ UNCHANGED collector

\* A logged arm does not want it any more.
PredictorAnswers(i) ==
    /\ arms[i].predictor = "asked"
    /\ \E answer \in {"candidates", "empty"} :
         OnArm(i, StartScoring([arms[i] EXCEPT !.predictor = answer]))
    /\ UNCHANGED collector

Refused(a) ==
    LET b == [a EXCEPT !.predictor = "failed"] IN
    IF Logged(a) THEN b ELSE MaybeLog([b EXCEPT !.status = "predictor_error"])

PredictorRefuses(i) ==
    /\ arms[i].predictor = "asked"
    /\ OnArm(i, Refused(arms[i]))
    /\ UNCHANGED collector

----------------------------------------------------------------------------
(* feed_pcm and observe_stt *)

Collects == collector \in {"open", "unpredicted"}

\* Frames that complete the audio of some arms; whoever is complete asks to be scored.
FeedPcm ==
    /\ Collects
    /\ \E done \in SUBSET {i \in DOMAIN arms : ~Logged(arms[i]) /\ ~arms[i].full} :
         /\ done # {}
         /\ arms' = [i \in DOMAIN arms |->
                       IF i \in done THEN StartScoring([arms[i] EXCEPT !.full = TRUE]) ELSE arms[i]]
    /\ UNCHANGED collector

\* The next word of some arms is stable, or their prefix was revised.  After a final
\* nothing more is known of the others.
ObserveStt ==
    /\ Collects
    /\ \E outcome \in [DOMAIN arms -> {"armed", "resolved", "prefix_revised"}], final \in BOOLEAN :
         arms' = [i \in DOMAIN arms |->
                    IF Logged(arms[i]) \/ arms[i].status # "armed" THEN arms[i]
                    ELSE MaybeLog([arms[i] EXCEPT !.status =
                           IF final /\ outcome[i] = "armed" THEN "no_next_word" ELSE outcome[i]])]
    /\ UNCHANGED collector

----------------------------------------------------------------------------
(* _score *)

WindowScored(i) ==
    /\ arms[i].scoring = "running"
    /\ LET a == [arms[i] EXCEPT !.scores = @ + 1] IN
       OnArm(i, IF a.scores = Windows THEN MaybeLog([a EXCEPT !.scoring = "over"]) ELSE a)
    /\ UNCHANGED collector

ScoringFails(i) ==
    /\ arms[i].scoring = "running"
    /\ OnArm(i, MaybeLog([arms[i] EXCEPT !.scoring = "failed"]))
    /\ UNCHANGED collector

----------------------------------------------------------------------------
(* AcousticShadowSttSession.aclose *)

\* The prediction shadow closes first; what it cancels counts as an error.
PredictorCloses ==
    /\ collector = "open"
    /\ collector' = "unpredicted"
    /\ arms' = [i \in DOMAIN arms |-> IF arms[i].predictor = "asked" THEN Refused(arms[i]) ELSE arms[i]]

CollectorCloses ==
    /\ collector = "unpredicted"
    /\ collector' = "closing"
    /\ UNCHANGED arms

\* Two seconds for the scorers, then they are cancelled, and every arm is logged.
CollectorClosed ==
    /\ collector = "closing"
    /\ collector' = "closed"
    /\ arms' = [i \in DOMAIN arms |->
         LET a == IF arms[i].scoring = "running" THEN [arms[i] EXCEPT !.scoring = "cut"] ELSE arms[i]
         IN IF Logged(a) THEN a
            ELSE [a EXCEPT !.rows = @ + 1,
                     !.status = CASE @ = "resolved" -> "closed_incomplete"
                                  [] @ = "armed" -> "closed"
                                  [] OTHER -> IF a.scoring = "cut" THEN "incomplete" ELSE @]]

----------------------------------------------------------------------------
Scoring == \E i \in DOMAIN arms : WindowScored(i) \/ ScoringFails(i)

AcousticNext ==
    \/ ArmPrediction \/ FeedPcm \/ ObserveStt \/ Scoring
    \/ \E i \in DOMAIN arms : PredictorAnswers(i) \/ PredictorRefuses(i)
    \/ PredictorCloses \/ CollectorCloses \/ CollectorClosed

AcousticSpec == AcousticInit /\ [][AcousticNext]_acousticVars

----------------------------------------------------------------------------
(* Properties. *)

\* Every variable has its type.
AcousticTypeOK ==
    /\ collector \in {"open", "unpredicted", "closing", "closed"}
    /\ Len(arms) <= MaxArms
    /\ \A i \in DOMAIN arms :
         arms[i] \in [status : {"armed", "resolved", "prefix_revised", "no_next_word",
                                "predictor_error", "closed", "closed_incomplete", "incomplete"},
                      predictor : {"asked", "candidates", "empty", "failed"}, full : BOOLEAN,
                      scoring : {"no", "running", "over", "failed", "cut"},
                      scores : 0 .. Windows, rows : Nat]

\* An arm has one row when the session is over, and none before its scorer is; the row
\* of a scorer that was cut says so, and an arm whose word is known and whose scorer is
\* through is not kept back.
RowsAreWhole ==
    \A i \in DOMAIN arms :
      LET a == arms[i] IN
      /\ a.rows <= 1 /\ (collector = "closed" => a.rows = 1)
      /\ Logged(a) => /\ a.scoring # "running"
                      /\ a.scoring = "cut" => a.status \in {"closed", "closed_incomplete", "incomplete"}
      /\ a.status # "armed" /\ a.scoring \in {"over", "failed"} => Logged(a)
============================================================================
