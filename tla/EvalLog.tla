------------------------------ MODULE EvalLog ------------------------------
(***************************************************************************)
(* evallog.py and the verdict handler of main.py: the JSONL file of one    *)
(* call.  A relay's log queues its rows and a writer task appends them in  *)
(* batches on a worker thread; a verdict is appended by its own request,   *)
(* after the relay too.  The process may die and a new one, or a new relay *)
(* of the same call, go on with the file.                                  *)
(*                                                                         *)
(* A row is its number; its line is whole, or spoiled because it was       *)
(* written after the torn line of a crash or of a write that failed.       *)
(***************************************************************************)
EXTENDS Integers, Sequences, FiniteSets, SequencesExt

CONSTANTS
    QueueSize,      \* _QUEUE_MAXSIZE
    MaxRows,        \* bound: rows of the call, headers included
    MaxLogs,        \* bound: relays of the call, one after another
    MaxCrashes,     \* bound: deaths of the process
    Judges          \* the listeners who may send a verdict

ASSUME EvalLogAssumption == /\ QueueSize \in Nat \ {0} /\ MaxRows \in Nat
                            /\ MaxLogs \in Nat /\ MaxCrashes \in Nat

VARIABLES
    rowOf,      \* the rows appended so far, and the judge who hears a translation of them
    evlog,      \* the log of the relay that runs, and how often the process died
    evqueue,    \* _queue
    writer,     \* the _writer task
    threads,    \* the batch the worker thread of each log has in hand
    file,       \* the lines, and whether the last one is torn
    missed,     \* rows dropped by a full queue or a failed write, or gone in a crash
    verdict     \* the request of a judge, and the utterance it is about

evalVars == <<rowOf, evlog, evqueue, writer, threads, file, missed, verdict>>

Stop == 0
Logs == 1 .. MaxLogs
EvalRows == 1 .. MaxRows
VerdictRow == MaxRows + 1
Nobody == "nobody"
NoVerdict == [pc |-> "none", by |-> Nobody, row |-> 0]

EvalInit ==
    /\ rowOf = <<>>
    /\ evlog = [n |-> 0, state |-> "closed", late |-> FALSE, crashes |-> 0]
    /\ evqueue = <<>> /\ writer = "ended"
    /\ threads = [n \in Logs |-> <<>>]
    /\ file = [exists |-> FALSE, lines |-> <<>>, torn |-> FALSE]
    /\ missed = {} /\ verdict = NoVerdict

----------------------------------------------------------------------------
(* _append_lines and read_records_from_path.  The lock makes an append one *)
(* step; a write cut short leaves whole lines and a part of the next one.  *)

Appended(f, lines) ==
    [exists |-> TRUE, torn |-> f.torn /\ lines = <<>>,
     lines |-> f.lines \o [i \in DOMAIN lines |-> [row |-> lines[i], whole |-> i > 1 \/ ~f.torn]]]

CutShort(f, lines) ==
    {[Appended(f, SubSeq(lines, 1, n)) EXCEPT !.torn = @ \/ part] :
        n \in 0 .. Len(lines) - 1, part \in BOOLEAN}

Rows(s) == ToSet(s) \ {Stop}

----------------------------------------------------------------------------
(* open_call and CallEvalLog.append *)

\* The header is a row nobody hears.
OpenCall ==
    /\ evlog.state = "closed" /\ evlog.n < MaxLogs /\ Len(rowOf) < MaxRows
    /\ evlog' = [evlog EXCEPT !.n = @ + 1, !.state = "open", !.late = FALSE]
    /\ rowOf' = Append(rowOf, Nobody)
    /\ missed' = missed \cup Rows(evqueue)
    /\ evqueue' = <<Len(rowOf')>> /\ writer' = "waiting"
    /\ UNCHANGED <<threads, file, verdict>>

\* A unit is over.  A judge heard its translation, or none did.
AppendRow ==
    /\ evlog.state = "open" /\ Len(rowOf) < MaxRows
    /\ \E by \in Judges \cup {Nobody} : rowOf' = Append(rowOf, by)
    /\ IF Len(evqueue) < QueueSize
       THEN evqueue' = Append(evqueue, Len(rowOf')) /\ UNCHANGED missed
       ELSE missed' = missed \cup {Len(rowOf')} /\ UNCHANGED evqueue
    /\ UNCHANGED <<evlog, writer, threads, file, verdict>>

----------------------------------------------------------------------------
(* _writer *)

\* Mutant: the stop ends the writer before its batch is written.
WriterTakesNothingAtStop ==
    /\ writer = "waiting" /\ evqueue # <<>>
    /\ IF Last(evqueue) = Stop
       THEN writer' = "ended" /\ UNCHANGED threads
       ELSE writer' = "writing" /\ threads' = [threads EXCEPT ![evlog.n] = evqueue]
    /\ evqueue' = <<>>
    /\ UNCHANGED <<rowOf, evlog, file, missed, verdict>>

\* One turn takes all there is: the stop, if it came, is the last.
WriterTakes ==
    /\ writer = "waiting" /\ evqueue # <<>>
    /\ LET stop == Last(evqueue) = Stop
           batch == IF stop THEN Front(evqueue) ELSE evqueue
       IN /\ threads' = [threads EXCEPT ![evlog.n] = batch]
          /\ writer' = IF batch # <<>> THEN IF stop THEN "last" ELSE "writing"
                       ELSE "ended"
    /\ evqueue' = <<>>
    /\ UNCHANGED <<rowOf, evlog, file, missed, verdict>>

\* The thread is done, also when nobody waits for it any more.
ThreadDone(n) ==
    /\ threads[n] # <<>>
    /\ threads' = [threads EXCEPT ![n] = <<>>]
    /\ writer' = IF n # evlog.n THEN writer
                 ELSE CASE writer = "writing" -> "waiting" [] OTHER -> "ended"
    /\ UNCHANGED <<rowOf, evlog, evqueue, verdict>>

BatchWritten(n) ==
    /\ ThreadDone(n)
    /\ file' = Appended(file, threads[n])
    /\ UNCHANGED missed

\* Logged and swallowed.
BatchFails(n) ==
    /\ ThreadDone(n)
    /\ file' \in CutShort(file, threads[n])
    /\ missed' = missed \cup {r \in Rows(threads[n]) :
                                \A i \in DOMAIN file'.lines : file'.lines[i].row # r}

----------------------------------------------------------------------------
(* CallEvalLog.aclose *)

\* A full queue takes no stop: the writer is left waiting, and the timeout ends it.
CloseBegins ==
    /\ evlog.state = "open"
    /\ evlog' = [evlog EXCEPT !.state = "closing"]
    /\ evqueue' = IF Len(evqueue) < QueueSize THEN Append(evqueue, Stop) ELSE evqueue
    /\ UNCHANGED <<rowOf, writer, threads, file, missed, verdict>>

CloseEnds ==
    /\ evlog.state = "closing" /\ writer = "ended"
    /\ evlog' = [evlog EXCEPT !.state = "closed"]
    /\ UNCHANGED <<rowOf, evqueue, writer, threads, file, missed, verdict>>

\* 3 s: the task is cancelled, the thread is not, and the queue stays as it is.  The
\* loop itself is not slow: a writer that can take a batch has taken it.
CloseTimesOut ==
    /\ evlog.state = "closing" /\ writer # "ended"
    /\ writer = "waiting" => evqueue = <<>>
    /\ evlog' = [evlog EXCEPT !.state = "closed", !.late = threads[evlog.n] # <<>>]
    /\ writer' = "ended"
    /\ UNCHANGED <<rowOf, evqueue, threads, file, missed, verdict>>

----------------------------------------------------------------------------
(* The process dies; what the threads have in hand is written in part.     *)

Crash ==
    /\ evlog.crashes < MaxCrashes
    /\ evlog' = [evlog EXCEPT !.state = "closed", !.late = TRUE, !.crashes = @ + 1]
    /\ \E n \in Logs :
         /\ file' \in IF threads[n] = <<>> THEN {file}
                      ELSE CutShort(file, threads[n])
         /\ missed' = missed \cup ((Rows(evqueue) \cup UNION {Rows(threads[k]) : k \in Logs})
                                    \ {file'.lines[i].row : i \in DOMAIN file'.lines})
    /\ evqueue' = <<>> /\ writer' = "ended" /\ threads' = [n \in Logs |-> <<>>]
    /\ verdict' = IF verdict.pc \in {"asked", "resolved"} THEN [verdict EXCEPT !.pc = "none"]
                  ELSE verdict
    /\ UNCHANGED rowOf

----------------------------------------------------------------------------
(* post_verdict: "whatever I just heard" *)

\* No file: the call is unknown, 404.
VerdictAsked ==
    /\ verdict.pc = "none" /\ file.exists
    /\ \E by \in Judges : verdict' = [pc |-> "asked", by |-> by, row |-> 0]
    /\ UNCHANGED <<rowOf, evlog, evqueue, writer, threads, file, missed>>

\* Mutant: the newest row, whoever heard it.
HeardByAnyone(by) ==
    {i \in DOMAIN file.lines : file.lines[i].whole /\ file.lines[i].row \in DOMAIN rowOf}

\* The readable lines of utterances this judge heard.
HeardBy(by) ==
    {i \in DOMAIN file.lines : /\ file.lines[i].whole /\ file.lines[i].row \in DOMAIN rowOf
                               /\ rowOf[file.lines[i].row] = by}

\* resolve_latest_utterance: none is an orphan, and is kept too.
VerdictResolved ==
    /\ verdict.pc = "asked"
    /\ LET heardBy == HeardBy(verdict.by) IN
       verdict' = [verdict EXCEPT !.pc = "resolved",
                      !.row = IF heardBy = {} THEN 0 ELSE file.lines[Max(heardBy)].row]
    /\ UNCHANGED <<rowOf, evlog, evqueue, writer, threads, file, missed>>

\* 202 when the line is written.
VerdictAccepted ==
    /\ verdict.pc = "resolved"
    /\ verdict' = [verdict EXCEPT !.pc = "accepted"]
    /\ file' = Appended(file, <<VerdictRow>>)
    /\ UNCHANGED <<rowOf, evlog, evqueue, writer, threads, missed>>

\* 500, and the judge may press again.
VerdictFails ==
    /\ verdict.pc = "resolved"
    /\ verdict' = NoVerdict
    /\ file' \in CutShort(file, <<VerdictRow>>)
    /\ UNCHANGED <<rowOf, evlog, evqueue, writer, threads, missed>>

----------------------------------------------------------------------------
Logging == OpenCall \/ AppendRow \/ WriterTakes \/ \E n \in Logs : BatchWritten(n) \/ BatchFails(n)

EvalClosing == CloseBegins \/ CloseEnds \/ CloseTimesOut

Judging == VerdictAsked \/ VerdictResolved \/ VerdictAccepted \/ VerdictFails

EvalNext == Logging \/ EvalClosing \/ Crash \/ Judging

EvalSpec == EvalInit /\ [][EvalNext]_evalVars

----------------------------------------------------------------------------
(* Properties. *)

\* Every variable has its type.
EvalTypeOK ==
    /\ rowOf \in Seq(Judges \cup {Nobody}) /\ Len(rowOf) <= MaxRows
    /\ evlog \in [n : 0 .. MaxLogs, state : {"open", "closing", "closed"}, late : BOOLEAN,
                  crashes : 0 .. MaxCrashes]
    /\ evqueue \in Seq(EvalRows \cup {Stop}) /\ Len(evqueue) <= QueueSize
    /\ writer \in {"waiting", "writing", "last", "ended"}
    /\ threads \in [Logs -> Seq(EvalRows)]
    /\ file \in [exists : BOOLEAN, torn : BOOLEAN,
                 lines : Seq([row : EvalRows \cup {VerdictRow}, whole : BOOLEAN])]
    /\ missed \subseteq EvalRows
    /\ verdict \in [pc : {"none", "asked", "resolved", "accepted"},
                    by : Judges \cup {Nobody}, row : 0 .. MaxRows]

\* Each row is in one place: queued, in a thread, on file once, or missed.  A log that
\* was closed in time has left nothing behind: hanging up loses no row the disk took.
NoRowVanishes ==
    /\ \A r \in DOMAIN rowOf :
         Cardinality({i \in DOMAIN evqueue : evqueue[i] = r})
         + Cardinality({n \in Logs : r \in Rows(threads[n])})
         + Cardinality({i \in DOMAIN file.lines : file.lines[i].row = r})
         + (IF r \in missed THEN 1 ELSE 0) = 1
    /\ evlog.n # 0 /\ evlog.state = "closed" /\ ~evlog.late =>
         Rows(evqueue) = {} /\ threads[evlog.n] = <<>>

\* A verdict that was accepted is on file, after the utterance it is about, which its
\* judge heard and could be read.
VerdictNamesTheHeard ==
    verdict.pc = "accepted" =>
      \E i \in DOMAIN file.lines :
         /\ file.lines[i].row = VerdictRow
         /\ verdict.row # 0 => /\ rowOf[verdict.row] = verdict.by
                               /\ \E k \in 1 .. i - 1 : file.lines[k] = [row |-> verdict.row, whole |-> TRUE]
============================================================================
