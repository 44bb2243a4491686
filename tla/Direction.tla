----------------------------- MODULE Direction -----------------------------
(***************************************************************************)
(* One speaker -> listener pipeline of the agent: the STT loop, the ticker *)
(* and the unit worker of direction.py, barge-in, and the close with its   *)
(* drain, down to the relay's last act, closing the eval log.              *)
(*                                                                         *)
(* One asyncio loop: each action runs up to the next await that suspends.  *)
(* Words are not modelled: the chunker is what it may still commit, and    *)
(* how much it commits is a choice (Chunker has the rules).  A cancelled   *)
(* task sees its cancellation at some later step, whatever it awaits.      *)
(***************************************************************************)
EXTENDS Integers, Sequences

CONSTANTS
    MaxUnits,       \* bound: units committed
    MaxChunks,      \* bound: audio chunks a synthesis delivers
    MaxBargeIns     \* bound: calls of cancel_output

ASSUME BoundAssumption == MaxUnits \in Nat /\ MaxChunks \in Nat /\ MaxBargeIns \in Nat

VARIABLES
    utt,        \* the utterance: anchor, key, current segment, the chunker
    units,      \* every unit committed so far; its place is its utterance id
    queue,      \* _queue
    work,       \* the active unit and its _process_unit task
    worker,     \* the _worker task
    epoch,      \* _epoch
    sink,       \* the epochs of the frames in the audio source
    heard,      \* units with no row yet, of which a frame was captured
    captions,   \* segments that went final, and units refused one that had
    rows,       \* rows of each unit in the eval log
    lost,       \* units whose task ended without a row
    close       \* aclose

directionVars == <<utt, units, queue, work, worker, epoch, sink, heard, captions,
                   rows, lost, close>>
speech == <<utt, units>>
output == <<sink, heard, captions>>
played == <<sink, captions>>

Units == 1 .. MaxUnits
Segments == 1 .. MaxUnits + 1
Chunks == {"empty",     \* nothing that is not committed
           "heard",     \* words of one hypothesis, which silence may confirm
           "pending"}   \* stable words, has_pending
Closings == {"open", "flushing", "draining", "closed", "logged"}
Phases == {"none", "created", "mt", "subtitle", "tts", "frame", "flush", "done"}

Silence == [anchor |-> 0, key |-> 0, segment |-> 0, chunk |-> "empty"]

IdleWork == [unit |-> 0, phase |-> "none", epoch |-> 0, cancelled |-> FALSE,
         text |-> FALSE, chunks |-> 0]

DirectionInit ==
    /\ utt = Silence
    /\ units = <<>> /\ queue = <<>>
    /\ work = IdleWork /\ worker = "on"
    /\ epoch = 0 /\ sink = {} /\ heard = {}
    /\ captions = [final |-> {}, refused |-> {}]
    /\ rows = [u \in Units |-> 0] /\ lost = {}
    /\ close = [pc |-> "open", streak |-> 0]

DirectionClosed == close.pc \in {"closed", "logged"}

----------------------------------------------------------------------------
(* Committing units: _enqueue and _utterance_grouping. *)

\* A segment id no unit has; one whose partial was abandoned is as good as new.
NewSegment(us) == CHOOSE g \in Segments : \A i \in DOMAIN us : us[i].segment # g

\* Mutant: a unit leaves its segment to the next one.
EnqueueOneKeepingSegment(s) ==
    LET u == Len(s.units) + 1
        seg == IF s.utt.segment # 0 THEN s.utt.segment ELSE NewSegment(s.units)
        first == s.utt.anchor = 0 \/ s.utt.key = 0
        key == IF first THEN u ELSE s.utt.key
    IN [units |-> Append(s.units, [segment |-> seg, key |-> key, first |-> first,
                                   anchor |-> s.utt.anchor]),
        queue |-> Append(s.queue, u),
        utt |-> [s.utt EXCEPT !.segment = seg, !.key = IF s.utt.anchor = 0 THEN 0 ELSE key]]

\* Mutant: the key is used before it is minted.
EnqueueOneUnminted(s) ==
    LET u == Len(s.units) + 1
        seg == IF s.utt.segment # 0 THEN s.utt.segment ELSE NewSegment(s.units)
    IN [units |-> Append(s.units, [segment |-> seg, key |-> s.utt.key,
                                   first |-> s.utt.key = 0, anchor |-> s.utt.anchor]),
        queue |-> Append(s.queue, u),
        utt |-> [s.utt EXCEPT !.segment = 0, !.key = IF s.utt.anchor = 0 THEN 0 ELSE u]]

\* The segment of the partial on display becomes the unit's; without an anchor each
\* unit is an utterance of its own.
EnqueueOne(s) ==
    LET u == Len(s.units) + 1
        seg == IF s.utt.segment # 0 THEN s.utt.segment ELSE NewSegment(s.units)
        first == s.utt.anchor = 0 \/ s.utt.key = 0
        key == IF first THEN u ELSE s.utt.key
    IN [units |-> Append(s.units, [segment |-> seg, key |-> key, first |-> first,
                                   anchor |-> s.utt.anchor]),
        queue |-> Append(s.queue, u),
        utt |-> [s.utt EXCEPT !.segment = 0, !.key = IF s.utt.anchor = 0 THEN 0 ELSE key]]

\* n units of one call of the chunker.
Enqueue(n) ==
    LET s0 == [units |-> units, queue |-> queue, utt |-> utt]
        s1 == EnqueueOne(s0)
    IN CASE n = 0 -> s0 [] n = 1 -> s1 [] n = 2 -> EnqueueOne(s1)

Room(n) == Len(units) + n <= MaxUnits

\* The two resets of an utterance clear its key with its anchor.
ResetUtterance(x) == [x EXCEPT !.anchor = 0, !.key = 0, !.segment = 0]

----------------------------------------------------------------------------
(* _stt_loop *)

\* Events come when they come, or never again; a session that ends or raises, and the
\* await of a partial's caption, only keep the next one away.
Hears == ~DirectionClosed

\* An anchor is told apart by the unit that follows it.
Anchor == Len(units) + 1

\* Mutant: the key outlives the anchor it was minted for.
SpeechStartKeepingKey ==
    /\ Hears
    /\ utt' = [utt EXCEPT !.anchor = Anchor, !.segment = 0, !.chunk = "empty"]
    /\ UNCHANGED <<units, queue, work, worker, epoch, output, rows, lost, close>>

\* Words not committed yet go with chunker.reset().  The hook it calls is the
\* cancel_output of the other direction.
SpeechStart ==
    /\ Hears
    /\ utt' = [ResetUtterance(utt) EXCEPT !.anchor = Anchor, !.chunk = "empty"]
    /\ UNCHANGED <<units, queue, work, worker, epoch, output, rows, lost, close>>

\* The caption of a partial, when there is one, is in the segment of the one before it.
ShownIn(s) == IF s.utt.segment # 0 THEN {s.utt.segment} ELSE {0, NewSegment(s.units)}

\* A partial commits some units (two at most here); then what is left is shown.
Partial ==
    /\ Hears
    /\ \E n \in 0 .. 2 :
         LET s == Enqueue(n) IN
         /\ Room(n)
         /\ units' = s.units /\ queue' = s.queue
         /\ \E chunk \in Chunks, segment \in ShownIn(s) :
              utt' = [s.utt EXCEPT !.chunk = chunk, !.segment = segment]
    /\ UNCHANGED <<work, worker, epoch, output, rows, lost, close>>

\* A final commits what is pending, and the utterance is over.
Final ==
    /\ Hears
    /\ \E n \in IF utt.chunk = "pending" THEN {1} ELSE {0, 1} :
         LET s == Enqueue(n) IN
         /\ Room(n)
         /\ units' = s.units /\ queue' = s.queue
         /\ utt' = [ResetUtterance(s.utt) EXCEPT !.chunk = "empty"]
    /\ UNCHANGED <<work, worker, epoch, output, rows, lost, close>>

----------------------------------------------------------------------------
(* _ticker *)

\* Silence confirms a hypothesis and may commit it, a timeout commits what is pending;
\* an utterance nothing was heard of for NO_SPEECH_TIMEOUT_S is reset.
DirectionTick ==
    /\ ~DirectionClosed
    /\ \/ /\ utt.chunk = "heard"
          /\ utt' = [utt EXCEPT !.chunk = "pending"]
          /\ UNCHANGED <<units, queue>>
       \/ /\ utt.chunk # "empty" /\ Room(1)
          /\ LET s == Enqueue(1) IN
             /\ units' = s.units /\ queue' = s.queue
             /\ utt' = [s.utt EXCEPT !.chunk = "empty"]
       \/ /\ utt.anchor # 0 /\ utt.chunk # "pending"
          /\ utt' = ResetUtterance(utt)
          /\ UNCHANGED <<units, queue>>
    /\ UNCHANGED <<work, worker, epoch, output, rows, lost, close>>

----------------------------------------------------------------------------
(* _worker and _process_unit *)

RecordUnit(u) == rows' = [rows EXCEPT ![u] = @ + 1] /\ heard' = heard \ {u}

At(phases) == work.phase \in phases /\ ~work.cancelled
Goes(phase) == work' = [work EXCEPT !.phase = phase]
Over == work' = [IdleWork EXCEPT !.unit = work.unit, !.phase = "done",
                                 !.cancelled = work.cancelled]

\* The task is created; it runs from the next turn of the loop on.
Take ==
    /\ worker = "on" /\ work.unit = 0 /\ queue # <<>>
    /\ work' = [IdleWork EXCEPT !.unit = Head(queue), !.phase = "created"]
    /\ queue' = Tail(queue)
    /\ UNCHANGED <<speech, worker, epoch, output, rows, lost, close>>

Begin ==
    /\ At({"created"})
    /\ work' = [work EXCEPT !.phase = "mt", !.epoch = epoch]
    /\ UNCHANGED <<speech, queue, worker, epoch, output, rows, lost, close>>

\* A final caption; one for a segment that had its final is dropped.
SendSubtitle(seg) ==
    captions' = IF seg \in captions.final
                THEN [captions EXCEPT !.refused = @ \cup {work.unit}]
                ELSE [captions EXCEPT !.final = @ \cup {seg}]

\* Translated, or not: an error and an empty text are alike from here on.  The
\* caption goes out before the synthesis, final, unless its segment already was.
Translated ==
    /\ At({"mt"})
    /\ \E text \in BOOLEAN : work' = [work EXCEPT !.phase = "subtitle", !.text = text]
    /\ SendSubtitle(units[work.unit].segment)
    /\ UNCHANGED <<speech, queue, worker, epoch, sink, heard, rows, lost, close>>

CaptionSent ==
    /\ At({"subtitle"})
    /\ IF work.text THEN Goes("tts") /\ UNCHANGED <<rows, heard>>
                    ELSE Over /\ RecordUnit(work.unit)
    /\ UNCHANGED <<speech, queue, worker, epoch, played, lost, close>>

Capture == sink' = sink \cup {work.epoch} /\ heard' = heard \cup {work.unit}

\* The loops ask this before each chunk; cancel_output and aclose cancel the task in
\* the step that makes it so, and a cancelled task does not get here.
Stale == work.epoch # epoch \/ DirectionClosed

\* A chunk goes through the resampler and the framer and is captured frame by frame; one
\* shorter than a frame is only kept.
Synthesised ==
    /\ At({"tts"}) /\ ~Stale /\ work.chunks < MaxChunks
    /\ \/ /\ work' = [work EXCEPT !.phase = "frame", !.chunks = @ + 1]
          /\ Capture
       \/ /\ work' = [work EXCEPT !.chunks = @ + 1]
          /\ UNCHANGED <<sink, heard>>
    /\ UNCHANGED <<speech, queue, worker, epoch, captions, rows, lost, close>>

\* The frame is in the source: the next one of this chunk, or the next chunk.
FrameTaken ==
    /\ At({"frame"})
    /\ \/ Capture /\ UNCHANGED work
       \/ Goes("tts") /\ UNCHANGED <<sink, heard>>
    /\ UNCHANGED <<speech, queue, worker, epoch, captions, rows, lost, close>>

\* The stream is over, or the unit is stale: the resampler is drained, and what it
\* held is captured unless it is stale.
SpokenOut ==
    /\ At({"tts"})
    /\ \/ ~Stale /\ Goes("flush") /\ Capture /\ UNCHANGED rows
       \/ Over /\ RecordUnit(work.unit) /\ UNCHANGED sink
    /\ UNCHANGED <<speech, queue, worker, epoch, captions, lost, close>>

Flushed ==
    /\ At({"flush"})
    /\ Over /\ RecordUnit(work.unit)
    /\ UNCHANGED <<speech, queue, worker, epoch, played, lost, close>>

\* The synthesis raises: recorded, and the resampler keeps what it has.
SynthesisFails ==
    /\ At({"tts"})
    /\ Over /\ RecordUnit(work.unit)
    /\ UNCHANGED <<speech, queue, worker, epoch, played, lost, close>>

\* Mutant: only a cancelled translation is recorded.
CancelledUnrecorded ==
    /\ work.cancelled /\ work.phase # "done"
    /\ Over
    /\ IF work.phase = "mt" THEN RecordUnit(work.unit) /\ UNCHANGED lost
                            ELSE lost' = lost \cup {work.unit} /\ UNCHANGED <<rows, heard>>
    /\ UNCHANGED <<speech, queue, worker, epoch, played, close>>

\* The cancellation is delivered.  Before the first step no code runs, and the await
\* of the caption is in no handler: no row.  The resampler is not drained.
Cancelled ==
    /\ work.cancelled /\ work.phase # "done"
    /\ Over
    /\ IF work.phase \in {"created", "subtitle"}
       THEN lost' = lost \cup {work.unit} /\ UNCHANGED <<rows, heard>>
       ELSE RecordUnit(work.unit) /\ UNCHANGED lost
    /\ UNCHANGED <<speech, queue, worker, epoch, played, close>>

\* Mutant: the worker asks a cancelled task for its exception, and dies of it.
NextUnitDies ==
    /\ worker = "on" /\ work.phase = "done"
    /\ work' = IdleWork
    /\ worker' = IF work.cancelled THEN "off" ELSE worker
    /\ UNCHANGED <<speech, queue, epoch, output, rows, lost, close>>

\* The worker has waited for the task, however it ended.
NextUnit ==
    /\ worker = "on" /\ work.phase = "done"
    /\ work' = IdleWork
    /\ UNCHANGED <<speech, queue, worker, epoch, output, rows, lost, close>>

----------------------------------------------------------------------------
(* cancel_output: the listener speaks, or somebody left the room. *)

CancelUnit == [work EXCEPT !.cancelled = @ \/ work.phase \notin {"none", "done"}]

\* Mutant: barge-in trusts the epoch and lets the task run.
CancelOutputByEpoch ==
    /\ epoch < MaxBargeIns /\ close.pc # "logged"
    /\ epoch' = epoch + 1
    /\ rows' = [u \in Units |-> IF \E i \in DOMAIN queue : queue[i] = u
                                THEN rows[u] + 1 ELSE rows[u]]
    /\ queue' = <<>> /\ sink' = {}
    /\ UNCHANGED <<speech, work, worker, heard, captions, lost, close>>

\* Every queued unit gets its row; what plays stops.
CancelOutput ==
    /\ epoch < MaxBargeIns /\ close.pc # "logged"
    /\ epoch' = epoch + 1
    /\ work' = CancelUnit
    /\ rows' = [u \in Units |-> IF \E i \in DOMAIN queue : queue[i] = u
                                THEN rows[u] + 1 ELSE rows[u]]
    /\ queue' = <<>> /\ sink' = {}
    /\ UNCHANGED <<speech, worker, heard, captions, lost, close>>

----------------------------------------------------------------------------
(* aclose, and the relay around it. *)

\* The session is asked to flush, and awaited without a limit.
Hangup ==
    /\ close.pc = "open"
    /\ close' = [close EXCEPT !.pc = "flushing"]
    /\ UNCHANGED <<speech, queue, work, worker, epoch, output, rows, lost>>

\* Flushed, or it raised: from here on the drain has its deadline.
FlushReturns ==
    /\ close.pc = "flushing"
    /\ close' = [close EXCEPT !.pc = "draining"]
    /\ UNCHANGED <<speech, queue, work, worker, epoch, output, rows, lost>>

Busy == queue # <<>> \/ work.unit # 0 \/ utt.chunk = "pending"

\* _closed, and every task is cancelled: the queue stays as it is, and what there is of
\* an utterance is not looked at again.
CloseNow ==
    /\ close' = [pc |-> "closed", streak |-> 0]
    /\ work' = CancelUnit /\ worker' = "off" /\ utt' = Silence

\* Two idle polls in a row end the drain; an event of the last 80 ms is not idle.
DrainPoll ==
    /\ close.pc = "draining"
    /\ \/ close' = [close EXCEPT !.streak = 0] /\ UNCHANGED <<work, worker, utt>>
       \/ ~Busy /\ close.streak = 1 /\ CloseNow
       \/ ~Busy /\ close.streak = 0
          /\ close' = [close EXCEPT !.streak = 1] /\ UNCHANGED <<work, worker, utt>>
    /\ UNCHANGED <<units, queue, epoch, output, rows, lost>>

\* Mutant: the drain has no deadline.
DrainNeverTimesOut ==
    /\ close.pc = "draining" /\ ~Busy
    /\ CloseNow
    /\ UNCHANGED <<units, queue, epoch, output, rows, lost>>

DrainTimesOut ==
    /\ close.pc = "draining"
    /\ CloseNow
    /\ UNCHANGED <<units, queue, epoch, output, rows, lost>>

\* The relay gets to the eval log after half a dozen more awaits, the flush of the other
\* direction among them: a cancelled unit has met its cancellation by then.
LogCloses ==
    /\ close.pc = "closed" /\ work.phase \in {"none", "done"}
    /\ close' = [close EXCEPT !.pc = "logged"]
    /\ UNCHANGED <<speech, queue, work, worker, epoch, output, rows, lost>>

----------------------------------------------------------------------------
Listening == SpeechStart \/ Partial \/ Final

Provided == Translated \/ CaptionSent \/ Synthesised \/ FrameTaken \/ SpokenOut
            \/ Flushed \/ SynthesisFails

Working == Take \/ Begin \/ Cancelled \/ NextUnit

Closing == FlushReturns \/ DrainPoll \/ DrainTimesOut \/ LogCloses

DirectionNext == Listening \/ DirectionTick \/ Working \/ Provided \/ CancelOutput
                 \/ Hangup \/ Closing

DirectionSpec == DirectionInit /\ [][DirectionNext]_directionVars

\* The event loop runs what is ready; the drain has a deadline.  Whether a provider
\* ever answers, a flush returns or the other direction closes is not the loop's to
\* promise.
DirectionFairness == WF_directionVars(Working) /\ WF_directionVars(DrainTimesOut)

\* Vendors answer, and a stream of audio ends.
ProvidersAnswer == WF_directionVars(Provided)

----------------------------------------------------------------------------
(* Properties. *)

UnitType == [segment : Segments, key : Units, first : BOOLEAN, anchor : 0 .. MaxUnits]

\* Every variable has its type.
DirectionTypeOK ==
    /\ utt \in [anchor : 0 .. MaxUnits + 1, key : 0 .. MaxUnits,
                segment : Segments \cup {0}, chunk : Chunks]
    /\ units \in Seq(UnitType) /\ Len(units) <= MaxUnits
    /\ queue \in Seq(Units) /\ Len(queue) <= MaxUnits
    /\ work \in [unit : 0 .. MaxUnits, phase : Phases, epoch : 0 .. MaxBargeIns,
                 cancelled : BOOLEAN, text : BOOLEAN, chunks : 0 .. MaxChunks]
    /\ worker \in {"on", "off"} /\ epoch \in 0 .. MaxBargeIns
    /\ sink \subseteq 0 .. MaxBargeIns /\ heard \subseteq Units
    /\ captions \in [final : SUBSET Segments, refused : SUBSET Units]
    /\ rows \in [Units -> Nat] /\ lost \subseteq Units
    /\ close \in [pc : Closings, streak : 0 .. 1]

\* relay.py: the log is closed last "so nothing the judge could be asked about is lost
\* on hangup".  A unit has one row at most, and one of which the listener heard anything
\* has its row as soon as it is over: however barge-in, an error or hanging up cut it.
HeardIsLogged ==
    \A u \in Units : /\ rows[u] <= 1
                     /\ u \in heard => work.unit = u

\* Once the listener has started to speak, nothing said to them before is played.
NothingStalePlays == sink \subseteq {epoch}

\* evallog.py: "The writer sets isFirstChunk on exactly one chunk per key": the first,
\* and the chunks of a key have the same speech start.
OneFirstChunk ==
    \A u, v \in DOMAIN units :
        u < v /\ units[u].key = units[v].key =>
            /\ units[u].anchor = units[v].anchor /\ units[u].anchor # 0
            /\ ~units[v].first /\ units[u].key <= u /\ units[units[u].key].first

\* subtitles.py drops what comes for a segment that is final: never a unit's own final
\* caption, so each unit shows its translation in a segment of its own.
CaptionsDelivered == captions.refused = {}

\* What the listener is shown and the judge is asked is told apart unit by unit: the first
\* chunk of each utterance, and a caption of its own.
UnitsAreToldApart == OneFirstChunk /\ CaptionsDelivered

\* While providers answer, no unit waits for ever: it is recorded, or its task ended
\* without a row, or the direction was closed over it.
UnitsSettle ==
    DirectionFairness /\ ProvidersAnswer =>
      LET Settled == \A u \in DOMAIN units : rows[u] = 1 \/ u \in lost
      IN ~Settled ~> (Settled \/ DirectionClosed)

\* Once the flush has returned, hanging up ends over a provider that never answers: the
\* direction is closed, and the unit under way has met its cancellation.
HangupEnds ==
    DirectionFairness =>
      (close.pc = "draining") ~> (DirectionClosed /\ work.phase \in {"none", "done"})
============================================================================
