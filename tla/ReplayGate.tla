----------------------------- MODULE ReplayGate -----------------------------
(***************************************************************************)
(* The replay benchmark, from one labelled word to the verdict:            *)
(* acoustic-replay-bench.py asks the predictor (gpu/predictor) and the     *)
(* pruner (gpu/acoustic) about each sample, benchmark_gate.py counts the   *)
(* answers and says PROMOTE, HOLD or REJECT.                               *)
(*                                                                         *)
(* The word that was said is "truth"; the others are rivals.  Samples are  *)
(* counted, their order is nobody's; of the windows the gate's is kept.  A *)
(* metric is a set of at most one number: the empty set is None.  Rates    *)
(* are in ten-thousandths, rounded as _rate rounds; a tie, which floats    *)
(* break either way, goes up.                                              *)
(***************************************************************************)
EXTENDS Integers, Sequences, FiniteSets, Tally, FiniteSetsExt, SequencesExt

CONSTANTS
    Langs,                  \* LANGS
    Rivals,                 \* the words the predictor may offer beside the truth
    Top3, Top5, Top10,      \* cuts of the ranking
    TopK,                   \* candidates asked of the predictor, and the largest cut
    MinSamples,             \* minSamplesPerLanguage
    WindowMs,               \* targetWindowMs
    Trips,                  \* round trips, in ms
    Baselines,              \* when the STT had the word, in ms after its onset
    MaxSamples              \* bound: samples in the manifest

ASSUME ReplayAssumption == /\ {Top3, Top5, Top10, TopK} \subseteq Nat
                           /\ 0 < Top3 /\ Top3 < Top5 /\ Top5 <= Top10 /\ Top10 <= TopK
                           /\ MinSamples \in Nat \ {0} /\ MaxSamples \in Nat
                           /\ Trips \subseteq Nat /\ Baselines \subseteq Nat

VARIABLE replayed       \* the results, a bag

replayVars == <<replayed>>

Lexicon == Rivals \union {"truth"}

----------------------------------------------------------------------------
(* The services. *)

\* collapse_candidates: beams that start with the same word are that word once, at its
\* best score; a context term gains on the others; TopK words are left, best first.
Collapse(beams, context) ==
    LET words == {b.word : b \in beams}
        best(w) == Max({b.score : b \in {b \in beams : b.word = w}})
                   + (IF w \in context THEN 1 ELSE 0)
        \* sorted() keeps the order in which equal words came; any order is possible
        lists == {l \in SetToSeqs(words) :
                    \A i, j \in DOMAIN l : i < j => best(l[i]) >= best(l[j])}
    IN {SubSeq(l, 1, TopK) : l \in {l \in lists : Len(l) > TopK}}
       \union {l \in lists : Len(l) <= TopK}

\* The context terms of a sample.  A manifest whose terms hold the truth word is refused:
\* it would be boosted before acoustics were asked.
Contexts == SUBSET Rivals

\* What predict may offer.
Offers == UNION {Collapse(beams, context) :
                    beams \in SUBSET [word : Lexicon, score : 0 .. 1] \ {{}},
                    context \in Contexts}

\* prefix_similarity of a word to what was heard is 0 or 1 here: the words that sound like
\* the window's evidence, any of them.
Sounds == SUBSET Lexicon

\* The prior of a word of the list is its place.
\* rank_candidates: acoustics weigh 88, the prior of the predictor 12; every candidate
\* stays in the list.  _truth_rank of the answer.
Rank(list, sounds) ==
    LET n == Len(list)
        score(i) == 88 * n * (IF list[i] \in sounds THEN 1 ELSE 0) + 12 * (n + 1 - i)
    IN {1 + Cardinality({j \in 1 .. n : score(j) > score(i)}) :
            i \in {i \in 1 .. n : list[i] = "truth"}}

\* _truth_rank of the predictor's list.
PriorRank(list) == {i \in DOMAIN list : list[i] = "truth"}

\* What an answered sample can come to: the truth's rank before and after acoustics.
Ranked == {[prior |-> PriorRank(list), kept |-> Rank(list, sounds)] :
              list \in Offers, sounds \in Sounds}

----------------------------------------------------------------------------
(* acoustic-replay-bench.py. *)

Count(results) == HowMany(replayed, results)

ReplayInit == replayed = EmptyTally

Recorded(r) == replayed' = OneMore(replayed, r)

Blank(lang) == [lang |-> lang, predicted |-> TRUE, prior |-> {}, window |-> "none",
                kept |-> {}, trip |-> {}, lead |-> {}]

\* The predictor fails, or has no candidate: no window is asked for.
PredictorFails(lang) == Recorded([Blank(lang) EXCEPT !.predicted = FALSE])

\* The word starts after the end of the WAV: no window.  A clip too short for the window,
\* or a pruner that fails, leaves a row with an error.
PrunerSilent(lang) ==
    \E ranks \in Ranked, window \in {"none", "error"} :
        Recorded([Blank(lang) EXCEPT !.prior = ranks.prior, !.window = window])

\* The pruner answers.  The lead is that of a predictor started at the word's onset, when
\* the manifest has a baseline.
PrunerAnswers(lang) ==
    \E ranks \in Ranked, predictor, pruner \in Trips,
       baseline \in {{}} \union {{b} : b \in Baselines} :
        Recorded([Blank(lang) EXCEPT
                    !.prior = ranks.prior, !.window = "answered", !.kept = ranks.kept,
                    !.trip = {pruner},
                    !.lead = {b - (Max({WindowMs, predictor}) + pruner) : b \in baseline}])

\* _run_sample of one more sample of the manifest.
RunSample ==
    /\ Count(DOMAIN replayed) < MaxSamples
    /\ \E lang \in Langs : PredictorFails(lang) \/ PrunerSilent(lang) \/ PrunerAnswers(lang)

ReplayNext == RunSample

ReplaySpec == ReplayInit /\ [][ReplayNext]_replayVars

----------------------------------------------------------------------------
(* benchmark_gate.py. *)

\* summarize_replay: each language has its own numbers, of its own results.
Of(lang) == {r \in DOMAIN replayed : r.lang = lang}

Rate(n, of) == IF of = 0 THEN {} ELSE {(20000 * n + of) \div (2 * of)}

\* percentile of a field that results have or lack, rounded to tenths: between the two
\* values around the place it interpolates.
Percentile(rows, field, q) ==
    LET n == Count({r \in rows : r[field] # {}})
        place == (n - 1) * q
        lower == place \div 100
        weight == place % 100
        at(k) == Min({v \in UNION {r[field] : r \in rows} :
                        Count({r \in rows : \E x \in r[field] : x <= v}) > k})
    IN IF n = 0 THEN {}
       ELSE {(at(lower) * (100 - weight)
              + (IF weight = 0 THEN 0 ELSE at(lower + 1) * weight) + 5) \div 10}

Within(k, ranks) == \E rank \in ranks : rank <= k

\* _prediction_metrics: a sample the predictor failed on counts for nothing.
PredictionMetrics(lang) ==
    LET answered == {r \in Of(lang) : r.predicted}
    IN [samples |-> Count(answered),
        recall |-> Rate(Count({r \in answered : Within(TopK, r.prior)}), Count(answered))]

\* Mutant: a window the pruner never answered for is left out of the rates.
WindowMetricsAnswered(lang) ==
    LET rows == {r \in Of(lang) : r.window = "answered"}
        eligible == {r \in rows : r.prior # {}}
        part(results) == Rate(Count(results), Count(eligible))
        lead == {r \in rows : r.lead # {}}
    IN [samples |-> Count(rows),
        retention |-> [k \in 1 .. TopK |-> part({r \in eligible : Within(k, r.kept)})],
        vanished |-> part({r \in eligible : r.kept = {}}),
        errored |-> part({}),
        demoted |-> [k \in 1 .. TopK |-> part({r \in eligible : r.kept # {} /\ ~Within(k, r.kept)})],
        ahead |-> Rate(Count({r \in lead : \E ms \in r.lead : ms > 0}), Count(lead)),
        leadP50 |-> Percentile(rows, "lead", 50),
        trips |-> Count({r \in rows : r.trip # {}}),
        tripP95 |-> Percentile(rows, "trip", 95)]

\* _window_metrics of the gate's window.  Of the words the predictor supplied, at each
\* cut: kept, demoted below it, vanished, or never answered for.
WindowMetrics(lang) ==
    LET rows == {r \in Of(lang) : r.window # "none"}
        eligible == {r \in rows : r.prior # {}}
        answered == {r \in eligible : r.window # "error"}
        part(results) == Rate(Count(results), Count(eligible))
        lead == {r \in rows : r.lead # {}}
    IN [samples |-> Count(rows),
        retention |-> [k \in 1 .. TopK |-> part({r \in answered : Within(k, r.kept)})],
        vanished |-> part({r \in answered : r.kept = {}}),
        errored |-> part(eligible \ answered),
        demoted |-> [k \in 1 .. TopK |-> part({r \in answered : r.kept # {} /\ ~Within(k, r.kept)})],
        ahead |-> Rate(Count({r \in lead : \E ms \in r.lead : ms > 0}), Count(lead)),
        leadP50 |-> Percentile(rows, "lead", 50),
        trips |-> Count({r \in rows : r.trip # {}}),
        tripP95 |-> Percentile(rows, "trip", 95)]

AtLeast(metric, bound) == \E v \in metric : v >= bound
AtMost(metric, bound) == \E v \in metric : v <= bound

\* The checks of one language.  A missing metric passes none.
ChecksPass(lang) ==
    LET p == PredictionMetrics(lang)
        w == WindowMetrics(lang)
        missed == {v + e + d : v \in w.vanished, e \in w.errored, d \in w.demoted[Top5]}
    IN /\ p.samples >= MinSamples /\ AtLeast(p.recall, 9500)
       /\ w.samples >= MinSamples /\ w.trips >= MinSamples
       /\ AtLeast(w.retention[Top5], 9500) /\ AtLeast(w.retention[Top3], 8800)
       /\ AtMost(missed, 500)
       /\ AtLeast(w.ahead, 7500) /\ AtLeast(w.leadP50, 1500)
       /\ AtMost(w.tripP95, 2200)

\* A failure large enough, over samples enough, that nothing advances.
Rejects(lang) ==
    LET p == PredictionMetrics(lang)
        w == WindowMetrics(lang)
    IN \/ p.samples >= MinSamples /\ AtMost(p.recall, 7999)
       \/ w.samples >= MinSamples /\ AtMost(w.retention[Top10], 7999)
       \/ w.trips >= MinSamples /\ AtLeast(w.tripP95, 5001)

\* evaluate_promotion_gate
Verdict == IF \E lang \in Langs : Rejects(lang) THEN "REJECT"
           ELSE IF \A lang \in Langs : ChecksPass(lang) THEN "PROMOTE"
           ELSE "HOLD"

----------------------------------------------------------------------------
(* A run that fails to answer is no cheaper than one that answers badly: with a PROMOTE, *)
(* in every language at most one in twenty of the words the predictor supplied was out   *)
(* of the first Top5 after acoustics, whether it was demoted, vanished or never answered *)
(* for, whatever their number.  One in twenty is as exact as the rates, half a           *)
(* ten-thousandth: 51 of 1019 words pass.  And nothing is rejected on fewer samples than *)
(* the gate asks for.                                                                    *)
VerdictIsEarned ==
    LET supplied(lang) == {r \in Of(lang) : r.window # "none" /\ r.prior # {}}
        lost(lang) == {r \in supplied(lang) : ~Within(Top5, r.kept)}
    IN /\ Verdict = "PROMOTE" =>
            \A lang \in Langs : 20000 * Count(lost(lang)) <= 1001 * Count(supplied(lang))
       /\ Verdict = "REJECT" =>
            \E lang \in Langs :
                Count(Of(lang)) >= MinSamples
=============================================================================
