---------------------------- MODULE ReviewReport ----------------------------
(***************************************************************************)
(* What the testers read after a call: review_call.py counts the rows of   *)
(* an eval log, one row for each committed chunk.  Two tools are kept, one *)
(* that reads every chunk as an utterance (agent/scripts) and one that     *)
(* groups chunks by utteranceKey (agent/agent/scripts).  The logs are of   *)
(* every age: without the key, with a key two utterances could share, and  *)
(* with a unique one.                                                      *)
(*                                                                         *)
(* Each figure of a row is a number or it is missing: a chunk without an   *)
(* anchor of its speech, or whose synthesis gave no audio, is delivered    *)
(* without the delay its utterance is measured by.  One such figure of the *)
(* utterance stands for all: percentiles and verdicts are not modelled.    *)
(***************************************************************************)
EXTENDS Integers, FiniteSets, Tally

CONSTANTS
    Keys,       \* utterance keys
    MaxReportRows   \* bound: rows of a log

NoKey == 0

ASSUME ReportAssumption == Keys \subseteq Nat \ {NoKey} /\ MaxReportRows \in Nat

VARIABLE log        \* the utterance rows, a bag

logVars == <<log>>

\* "cut" is cancelled by a barge-in once it was translated, "silent" a genuinely empty
\* translation.
Fates == {"delivered", "cut", "cancelled", "errored", "silent"}

\* "timed": the row's delay is a number.
Row == [key : Keys, first : BOOLEAN, fate : Fates, timed : BOOLEAN]
OldRow == [key : {NoKey}, first : {TRUE}, fate : Fates, timed : BOOLEAN]

LoggedRows == DOMAIN log
RowCount(rows) == HowMany(log, rows)

LogInit == log = EmptyTally

\* A log of one age has keys in every row or in none.
LogRow ==
    /\ RowCount(LoggedRows) < MaxReportRows
    /\ \E r \in Row \union OldRow :
         /\ \A old \in LoggedRows : (old.key = NoKey) = (r.key = NoKey)
         /\ log' = OneMore(log, r)

LogNext == LogRow
LogSpec == LogInit /\ [][LogNext]_logVars

----------------------------------------------------------------------------
\* Percentiles are over what reached the listener.
Spoken == {r \in LoggedRows : r.fate = "delivered"}

\* group_by_utterance, count_utterances: a row without a key is an utterance by itself.
UtteranceCount(rows) ==
    Cardinality({r.key : r \in {r \in rows : r.key # NoKey}})
    + RowCount({r \in rows : r.key = NoKey})

\* is_first_chunk
FirstChunks(rows) == {r \in rows : r.first}

FirstsOf(key, rows) == RowCount({r \in FirstChunks(rows) : r.key = key})

KeysOf(rows) == {r.key : r \in rows} \ {NoKey}

\* grouping_anomalies
Missing(rows) == Cardinality({key \in KeysOf(rows) : FirstsOf(key, rows) = 0})
Excess(rows) == Cardinality({key \in KeysOf(rows) : FirstsOf(key, rows) > 1})

Timed(rows) == {r \in rows : r.timed}

\* Mutant: every delivered chunk is a sample of the utterance's delays.
SamplesOfChunks(rows) == RowCount(Timed(rows))

\* samples on the utterance basis: the first chunks that have the number.
Samples(rows) == RowCount(Timed(FirstChunks(rows)))

\* print_latency.
Latency == [utterances |-> UtteranceCount(Spoken), chunks |-> RowCount(Spoken),
            n |-> Samples(Spoken), missing |-> Missing(Spoken), excess |-> Excess(Spoken)]

\* print_latency of the older tool.
OldLatency == [utterances |-> RowCount(Spoken), n |-> RowCount(Timed(Spoken))]

Fated(fates) == RowCount({r \in LoggedRows : r.fate \in fates})

\* print_counts: what was translated before it was cut counts as delivered here.
Counts == [utterances |-> UtteranceCount(LoggedRows), chunks |-> RowCount(LoggedRows),
           delivered |-> Fated({"delivered", "cut"}), cancelled |-> Fated({"cut", "cancelled"}),
           errored |-> Fated({"errored"})]

\* print_counts of the older tool.
OldCounts == [utterances |-> RowCount(LoggedRows),
              delivered |-> Fated({"delivered", "cut"}), cancelled |-> Fated({"cut", "cancelled"}),
              errored |-> Fated({"errored"})]

\* summary_json: delivered is what was heard, missing is of the delivered, and excess and
\* utterances are of every row.
Summary == [utterances |-> UtteranceCount(LoggedRows), chunks |-> RowCount(LoggedRows),
            missing |-> Missing(Spoken), excess |-> Excess(LoggedRows),
            delivered |-> RowCount(Spoken), cancelled |-> Fated({"cut", "cancelled"}),
            errored |-> Fated({"errored"}), n |-> Samples(Spoken)]

\* summary_json of the older tool.
OldSummary == [utterances |-> RowCount(LoggedRows), delivered |-> RowCount(Spoken),
               cancelled |-> Fated({"cut", "cancelled"}), errored |-> Fated({"errored"}),
               n |-> RowCount(Timed(Spoken))]

\* The numbers both tools give.
Shared(new, old) == [field \in DOMAIN old |-> new[field]] = old

----------------------------------------------------------------------------
\* First chunks that were heard and have no delay: no report counts them.
Untimed == RowCount(FirstChunks(Spoken) \ Timed(FirstChunks(Spoken)))

(* The samples under an utterance's delay and the utterances are told apart by what the  *)
(* reports say and by nothing else but the first chunks that were heard without a        *)
(* number: those and the missing make up for every utterance that is no sample, and      *)
(* where no key has two first chunks they do so to the last one.  In the summary, which  *)
(* counts every utterance, that holds when everything was heard.  More samples than      *)
(* utterances are never without their excess; nothing heard is missing from the counts;  *)
(* and a log older than the keys reads exactly as it always did.                         *)
ReportsAddUp ==
    /\ Latency.utterances <= Latency.n + Untimed + Latency.missing
    /\ Latency.excess = 0 => Latency.utterances = Latency.n + Untimed + Latency.missing
    /\ Summary.delivered = Summary.chunks =>
         Summary.utterances <= Summary.n + Untimed + Summary.missing
    /\ Summary.n > Summary.utterances => Summary.excess > 0
    /\ Summary.delivered + Summary.cancelled + Summary.errored <= Summary.chunks
    /\ Summary.delivered <= Counts.delivered
    /\ KeysOf(LoggedRows) = {} =>
         Shared(Latency, OldLatency) /\ Shared(Counts, OldCounts) /\ Shared(Summary, OldSummary)
=============================================================================
