-------------------------- MODULE PredictionShadow --------------------------
(***************************************************************************)
(* speculation.py: the evaluator of the next-word predictor that listens   *)
(* to one STT session.  A prefix two hypotheses agree on is sent to the    *)
(* predictor; the answer is held against the word that follows it once     *)
(* that one is stable too.  Requests are tasks, and answer when they like. *)
(***************************************************************************)
EXTENDS Integers, Sequences, SequencesExt

CONSTANTS
    Vocabulary,         \* the words of a hypothesis
    MinPrefixWords,     \* min_prefix_words
    MaxHypothesis,      \* bound: words of a hypothesis
    MaxShadowAttempts         \* bound: predictions asked for

ASSUME ShadowAssumption == /\ MinPrefixWords \in Nat \ {0}
                           /\ MaxHypothesis \in Nat /\ MaxShadowAttempts \in Nat

VARIABLES
    previous,       \* _previous_words
    attempts,       \* _attempts, with the rows each has in the eval log
    shadow,         \* aclose: open, closing, closed
    observed        \* the last hypothesis, and whether it was final

shadowVars == <<previous, attempts, shadow, observed>>

Texts == BoundedSeq(Vocabulary, MaxHypothesis)
NoWord == "none"

Unheard == [text |-> <<>>, final |-> FALSE]

ShadowInit ==
    /\ previous = <<>> /\ attempts = <<>> /\ shadow = "open"
    /\ observed = Unheard

----------------------------------------------------------------------------
(* What happens to one attempt. *)

\* _emit_if_ready: answered, and its outcome known.
EmitIfReady(a) ==
    IF a.answer = "answered" /\ a.settled /\ ~a.logged
    THEN [a EXCEPT !.logged = TRUE, !.rows = @ + 1] ELSE a

\* Mutant: the word after the prefix need not be stable itself.
ResolveUnstable(a, text, stable) ==
    IF a.actual # NoWord \/ a.logged \/ stable < Len(a.prefix) \/ Len(text) <= Len(a.prefix)
    THEN a
    ELSE EmitIfReady(IF IsPrefix(a.prefix, text)
                     THEN [a EXCEPT !.actual = text[Len(a.prefix) + 1], !.settled = TRUE]
                     ELSE [a EXCEPT !.settled = TRUE])

\* The following word is stable: it is the truth, unless the prefix was revised.  An
\* attempt that was settled before, but not answered, is judged again.
Resolve(a, text, stable) ==
    IF a.actual # NoWord \/ a.logged \/ stable <= Len(a.prefix) THEN a
    ELSE EmitIfReady(IF IsPrefix(a.prefix, text)
                     THEN [a EXCEPT !.actual = text[Len(a.prefix) + 1], !.settled = TRUE]
                     ELSE [a EXCEPT !.settled = TRUE])

\* Why it has no next word (a final, a new speech start, the end) is only for the row.
Settle(a) == IF a.settled THEN a ELSE EmitIfReady([a EXCEPT !.settled = TRUE])

EachAttempt(Op(_)) == [i \in DOMAIN attempts |-> Op(attempts[i])]

----------------------------------------------------------------------------
(* observe and reset: ShadowSttSession feeds every event of the session. *)

\* A stable prefix that is long enough and not already being asked for.
Asks(as, prefix) ==
    /\ Len(prefix) >= MinPrefixWords
    /\ \A i \in DOMAIN as : as[i].prefix = prefix => as[i].logged

ObservePartial ==
    /\ shadow = "open"
    /\ \E text \in Texts :
         LET agreed == LongestCommonPrefix({previous, text})
             resolved == EachAttempt(LAMBDA a : Resolve(a, text, Len(agreed)))
         IN /\ previous' = text
            /\ observed' = [text |-> text, final |-> FALSE]
            /\ IF Asks(resolved, agreed)
               THEN /\ Len(attempts) < MaxShadowAttempts
                    /\ attempts' = Append(resolved,
                         [prefix |-> agreed, answer |-> "asked", settled |-> FALSE,
                          actual |-> NoWord, logged |-> FALSE, rows |-> 0])
               ELSE attempts' = resolved
    /\ UNCHANGED shadow

\* A final is stable as a whole, and what it has not settled has no next word.
ObserveFinal ==
    /\ shadow = "open"
    /\ \E text \in Texts :
         /\ attempts' = EachAttempt(LAMBDA a : Settle(Resolve(a, text, Len(text))))
         /\ observed' = [text |-> text, final |-> TRUE]
    /\ previous' = <<>>
    /\ UNCHANGED shadow

ShadowReset ==
    /\ previous' = <<>> /\ observed' = Unheard
    /\ attempts' = EachAttempt(LAMBDA a : Settle(a))

ObserveSpeechStart ==
    /\ shadow = "open"
    /\ ShadowReset
    /\ UNCHANGED shadow

----------------------------------------------------------------------------
(* _run *)

Predicted(i) ==
    /\ attempts[i].answer = "asked"
    /\ attempts' = [attempts EXCEPT ![i] = EmitIfReady([attempts[i] EXCEPT !.answer = "answered"])]
    /\ UNCHANGED <<previous, shadow, observed>>

\* A refusal or the timeout of the request: its row says so.
PredictionFails(i) ==
    /\ attempts[i].answer = "asked"
    /\ attempts' = [attempts EXCEPT ![i] =
                        [attempts[i] EXCEPT !.answer = "failed", !.settled = TRUE,
                                            !.logged = TRUE, !.rows = @ + 1]]
    /\ UNCHANGED <<previous, shadow, observed>>

----------------------------------------------------------------------------
(* aclose *)

\* Mutant: closing settles nothing.
ShadowClosesUnsettled ==
    /\ shadow = "open"
    /\ shadow' = "closing"
    /\ UNCHANGED <<previous, attempts, observed>>

ShadowCloses ==
    /\ shadow = "open"
    /\ shadow' = "closing"
    /\ ShadowReset

\* Every request is over, or a second has passed and the rest is cancelled.
ShadowClosed ==
    /\ shadow = "closing"
    /\ shadow' = "closed"
    /\ attempts' = EachAttempt(LAMBDA a : IF a.answer = "asked" THEN [a EXCEPT !.answer = "cancelled"] ELSE a)
    /\ UNCHANGED <<previous, observed>>

----------------------------------------------------------------------------
Observing == ObservePartial \/ ObserveFinal \/ ObserveSpeechStart

ShadowClosing == ShadowCloses \/ ShadowClosed

ShadowNext == \/ Observing \/ ShadowClosing
              \/ \E i \in DOMAIN attempts : Predicted(i) \/ PredictionFails(i)

ShadowSpec == ShadowInit /\ [][ShadowNext]_shadowVars

----------------------------------------------------------------------------
(* Properties. *)

\* Every variable has its type.
ShadowTypeOK ==
    /\ previous \in Texts /\ Len(attempts) <= MaxShadowAttempts
    /\ \A i \in DOMAIN attempts :
         attempts[i] \in [prefix : Texts, answer : {"asked", "answered", "failed", "cancelled"},
                          settled : BOOLEAN, actual : Vocabulary \cup {NoWord},
                          logged : BOOLEAN, rows : Nat]
    /\ shadow \in {"open", "closing", "closed"}
    /\ observed \in [text : Texts, final : BOOLEAN]

\* The statistics count rows: each attempt the predictor answered has one when the
\* session is over, whenever the answer came, one it failed has its error row, one cut
\* off has none, and no prefix is asked for twice at a time.
OneRowPerAttempt ==
    /\ \A i \in DOMAIN attempts :
         /\ attempts[i].rows <= 1
         /\ shadow = "closed" =>
              (attempts[i].rows = 1 <=> attempts[i].answer \in {"answered", "failed"})
    /\ \A i, k \in DOMAIN attempts :
         attempts[i].prefix = attempts[k].prefix /\ ~attempts[i].logged /\ ~attempts[k].logged
           => i = k

\* "Resolve older predictions only when the following word is itself stable": a word
\* becomes the truth of a prediction only when it follows the prefix in a final, or in
\* two hypotheses in a row.
TruthIsStable ==
    [][\A i \in DOMAIN attempts : attempts'[i].actual # attempts[i].actual =>
         LET said == Append(attempts[i].prefix, attempts'[i].actual) IN
         /\ IsPrefix(said, observed'.text)
         /\ observed'.final \/ IsPrefix(said, previous)]_shadowVars
============================================================================
