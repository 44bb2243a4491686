---------------------------- MODULE RelayProofs -----------------------------
(***************************************************************************)
(* The relay's parts, for any numbers of units, speakers, microphones and  *)
(* frames: one direction logs what was heard once, plays nothing of an     *)
(* older epoch and tells its units apart; the room reads every microphone; *)
(* the recogniser's link sends its order to finish behind the audio it is  *)
(* about.                                                                  *)
(***************************************************************************)
EXTENDS Direction, RelayRoom, SttLink, SequenceTheorems, FiniteSetTheorems, TLAPS

----------------------------------------------------------------------------
\* One direction.

WorkRecords == [unit : 0 .. MaxUnits, phase : Phases, epoch : Nat, cancelled : BOOLEAN,
                text : BOOLEAN, chunks : Nat]

\* Where a unit has read its epoch; and where it may have been heard.
UnderEpoch == {"mt", "subtitle", "tts", "frame", "flush"}
Playing == {"tts", "frame", "flush"}

\* The units committed and those queued, which are told apart, are not in work and have
\* no row; nor has any that is not committed yet.
QueueOK(us, q) ==
    /\ (\E S : us \in Seq(S)) /\ Len(us) <= MaxUnits /\ work.unit <= Len(us)
    /\ q \in Seq(Units)
    /\ \A i, j \in 1 .. Len(q) : i # j => q[i] # q[j]
    /\ \A i \in 1 .. Len(q) : q[i] <= Len(us) /\ q[i] # work.unit /\ rows[q[i]] = 0
    /\ \A u \in Units : u > Len(us) => rows[u] = 0

\* The unit in work has no row until it is over, and is all that was heard without one.
WorkOK ==
    /\ work \in WorkRecords
    /\ work.phase = "none" => work.unit = 0 /\ ~work.cancelled
    /\ work.phase # "none" => work.unit \in Units
    /\ work.phase \notin {"none", "done"} => rows[work.unit] = 0
    /\ heard \subseteq IF work.phase \in Playing THEN {work.unit} ELSE {}

RowsOK == rows \in [Units -> Nat] /\ \A u \in Units : rows[u] <= 1

\* What plays, or may yet, is of this epoch.
EpochOK ==
    /\ epoch \in Nat /\ sink \subseteq {epoch}
    /\ work.phase \in UnderEpoch /\ ~work.cancelled => work.epoch = epoch

DirectionInv == QueueOK(units, queue) /\ WorkOK /\ RowsOK /\ EpochOK

\* No two units have a segment, and the one on display is no unit's.
SegmentsOK(us, x) ==
    /\ \A i, j \in 1 .. Len(us) : i # j => us[i].segment # us[j].segment
    /\ x.segment # 0 => \A i \in 1 .. Len(us) : us[i].segment # x.segment

\* A key is the place of the first unit that has it, and the key in use is of the speech
\* start in use.
KeysOK(us, x) ==
    /\ \A u \in 1 .. Len(us) : us[u].key \in 1 .. u /\ us[us[u].key].first
    /\ \A u, v \in 1 .. Len(us) : u < v /\ us[u].key = us[v].key =>
         us[u].anchor = us[v].anchor /\ us[u].anchor # 0 /\ ~us[v].first
    /\ x.key # 0 => /\ x.anchor # 0 /\ x.key \in 1 .. Len(us) /\ us[x.key].first
                    /\ \A u \in 1 .. Len(us) : us[u].key = x.key => us[u].anchor = x.anchor

\* The segments that went final are units', but of none that still has its final to come.
CaptionsOK(us, q) ==
    /\ captions \in [final : SUBSET {us[i].segment : i \in 1 .. Len(us)}, refused : {{}}]
    /\ \A i \in 1 .. Len(q) : us[q[i]].segment \notin captions.final
    /\ work.phase \in {"created", "mt"} => us[work.unit].segment \notin captions.final

UttRecords == [anchor : Nat, key : Nat, segment : Nat, chunk : Chunks]

UnitsInv ==
    /\ utt \in UttRecords
    /\ SegmentsOK(units, utt) /\ KeysOK(units, utt) /\ CaptionsOK(units, queue)

----------------------------------------------------------------------------
LEMMA DirectionStarts == DirectionInit => DirectionInv
<1> SUFFICES ASSUME DirectionInit PROVE DirectionInv
  OBVIOUS
<1>1. units \in Seq(Units) /\ queue \in Seq(Units) /\ Len(units) = 0 /\ Len(queue) = 0
  BY DEF DirectionInit
<1>2. QueueOK(units, queue)
  BY <1>1, BoundAssumption DEF DirectionInit, QueueOK, IdleWork, Units
<1>3. WorkOK /\ RowsOK /\ EpochOK
  BY BoundAssumption
  DEF DirectionInit, IdleWork, WorkOK, WorkRecords, RowsOK, EpochOK, Units, Phases, Playing, UnderEpoch
<1> QED BY <1>2, <1>3 DEF DirectionInv

----------------------------------------------------------------------------
(* Committing. *)

\* One more unit, behind the queue.
LEMMA EnqueueingOne ==
    ASSUME NEW s, QueueOK(s.units, s.queue), Len(s.units) + 1 <= MaxUnits, WorkOK
    PROVE  /\ QueueOK(EnqueueOne(s).units, EnqueueOne(s).queue)
           /\ Len(EnqueueOne(s).units) = Len(s.units) + 1
<1> DEFINE u == Len(s.units) + 1
           q == EnqueueOne(s).queue
           us == EnqueueOne(s).units
<1>1. PICK e : us = Append(s.units, e)
  BY DEF EnqueueOne
<1>2. q = Append(s.queue, u)
  BY DEF EnqueueOne
<1>3. PICK S : s.units \in Seq(S)
  BY DEF QueueOK
<1>4. us \in Seq(S \cup {e}) /\ Len(us) = u /\ u \in Nat
  <2>1. s.units \in Seq(S \cup {e})
    BY <1>3, SeqMonotonic
  <2> QED BY <1>1, <2>1, AppendProperties, LenProperties
<1>5. u \in Units
  BY <1>3, LenProperties, BoundAssumption DEF Units
<1>6. q \in Seq(Units) /\ Len(q) = Len(s.queue) + 1 /\ q[Len(q)] = u
      /\ Len(s.queue) \in Nat /\ \A i \in 1 .. Len(s.queue) : q[i] = s.queue[i]
  BY <1>2, <1>5, AppendProperties, LenProperties DEF QueueOK
<1> HIDE DEF q, us
<1>7. \A i \in 1 .. Len(s.queue) : s.queue[i] \in Nat /\ s.queue[i] < u
  <2> TAKE i \in 1 .. Len(s.queue)
  <2>1. s.queue[i] \in Units
    BY ElementOfSeq DEF QueueOK
  <2>2. s.queue[i] \in Nat
    BY <2>1, BoundAssumption DEF Units
  <2>3. s.queue[i] <= Len(s.units)
    BY DEF QueueOK
  <2>4. Len(s.units) \in Nat
    BY <1>3, LenProperties
  <2> QED BY <2>2, <2>3, <2>4
<1> HIDE DEF u
<1>8. \A i \in 1 .. Len(q) : \/ i \in 1 .. Len(s.queue) /\ q[i] = s.queue[i]
                             \/ i = Len(q) /\ q[i] = u
  BY <1>6
<1>9. \A i, j \in 1 .. Len(q) : i # j => q[i] # q[j]
  <2>1. \A i, j \in 1 .. Len(s.queue) : i # j => s.queue[i] # s.queue[j]
    BY DEF QueueOK
  <2> QED BY <1>4, <1>7, <1>8, <2>1
<1>10. work.unit \in Nat /\ work.unit < u
  BY <1>3, LenProperties, BoundAssumption DEF QueueOK, WorkOK, WorkRecords, u
<1>11. rows[u] = 0
  BY <1>3, <1>5, LenProperties DEF QueueOK, u
<1>12. \A i \in 1 .. Len(q) : q[i] <= Len(us) /\ q[i] # work.unit /\ rows[q[i]] = 0
  <2>1. \A i \in 1 .. Len(s.queue) : s.queue[i] # work.unit /\ rows[s.queue[i]] = 0
    BY DEF QueueOK
  <2> QED BY <1>4, <1>7, <1>8, <1>10, <1>11, <2>1
<1>13. \A v \in Units : v > Len(us) => rows[v] = 0
  BY <1>3, <1>4, LenProperties, BoundAssumption DEF QueueOK, Units, u
<1> QED BY <1>4, <1>6, <1>9, <1>10, <1>12, <1>13, BoundAssumption DEF QueueOK, q, us, u

LEMMA Enqueueing ==
    ASSUME DirectionInv, NEW n \in 0 .. 2, Room(n),
           units' = Enqueue(n).units, queue' = Enqueue(n).queue,
           UNCHANGED <<work, epoch, output, rows>>
    PROVE  DirectionInv'
<1> DEFINE s0 == [units |-> units, queue |-> queue, utt |-> utt]
           s1 == EnqueueOne(s0)
<1>0. PICK S : units \in Seq(S)
  BY DEF DirectionInv, QueueOK
<1>1. QueueOK(units, queue) /\ WorkOK /\ Len(units) \in Nat
  BY <1>0, LenProperties DEF DirectionInv
<1>2. QueueOK(units', queue')
  <2>1. CASE n = 0
    BY <1>1, <2>1 DEF Enqueue
  <2>2. CASE n = 1
    BY <1>1, <2>2, EnqueueingOne, BoundAssumption DEF Enqueue, Room
  <2>3. CASE n = 2
    <3>1. QueueOK(s1.units, s1.queue) /\ Len(s1.units) = Len(units) + 1
      BY <1>1, <2>3, EnqueueingOne, BoundAssumption DEF Room
    <3>2. Len(s1.units) + 1 <= MaxUnits
      BY <1>1, <2>3, <3>1, BoundAssumption DEF Room
    <3>3. units' = EnqueueOne(s1).units /\ queue' = EnqueueOne(s1).queue
      BY <2>3 DEF Enqueue
    <3> HIDE DEF s1
    <3> QED BY <1>1, <3>1, <3>2, <3>3, EnqueueingOne
  <2> QED BY <2>1, <2>2, <2>3
<1>3. QueueOK(units, queue)'
  BY <1>2 DEF QueueOK
<1> QED BY <1>3 DEF DirectionInv, WorkOK, RowsOK, EpochOK, output

\* The listening side only commits, and touches nothing that plays.
LEMMA ListeningKeeps ==
    ASSUME DirectionInv, Listening \/ DirectionTick PROVE DirectionInv'
<1>1. ASSUME UNCHANGED <<units, queue, work, epoch, output, rows>> PROVE DirectionInv'
  BY <1>1 DEF DirectionInv, QueueOK, WorkOK, RowsOK, EpochOK, output
<1>2. CASE SpeechStart
  BY <1>1, <1>2 DEF SpeechStart
<1>3. CASE Partial
  BY <1>3, Enqueueing DEF Partial
<1>4. CASE Final
  BY <1>4, Enqueueing DEF Final
<1>5. CASE DirectionTick
  BY <1>1, <1>5, Enqueueing DEF DirectionTick
<1> QED BY <1>2, <1>3, <1>4, <1>5 DEF Listening

----------------------------------------------------------------------------
(* The worker and its task. *)

\* A unit goes on to another phase of its task.
LEMMA GoingOn ==
    ASSUME DirectionInv, work.phase \notin {"none", "done"}, ~work.cancelled,
           NEW phase \in UnderEpoch, work' \in WorkRecords,
           work'.unit = work.unit, work'.phase = phase, work'.epoch = epoch,
           heard' \subseteq IF phase \in Playing THEN {work.unit} ELSE {},
           sink' \subseteq sink \cup {epoch}, UNCHANGED <<units, queue, epoch, rows>>
    PROVE  DirectionInv'
<1>1. QueueOK(units, queue)'
  BY DEF DirectionInv, QueueOK
<1>2. WorkOK'
  BY DEF DirectionInv, WorkOK, UnderEpoch
<1>3. RowsOK' /\ EpochOK'
  BY DEF DirectionInv, RowsOK, EpochOK
<1> QED BY <1>1, <1>2, <1>3 DEF DirectionInv

\* A unit is over, with its row or, when nothing of it was heard, without.
LEMMA GettingOver ==
    ASSUME DirectionInv, work.phase \notin {"none", "done"}, Over,
           \/ RecordUnit(work.unit)
           \/ work.phase \notin Playing /\ UNCHANGED <<rows, heard>>,
           sink' \subseteq sink \cup {epoch}, UNCHANGED <<units, queue, epoch>>
    PROVE  DirectionInv'
<1>1. work.unit \in Units /\ rows[work.unit] = 0 /\ rows \in [Units -> Nat]
  BY DEF DirectionInv, WorkOK, RowsOK
<1>2. work' = [unit |-> work.unit, phase |-> "done", epoch |-> 0, cancelled |-> work.cancelled,
               text |-> FALSE, chunks |-> 0]
  BY DEF Over, IdleWork
<1>3. rows' \in [Units -> Nat] /\ rows'[work.unit] \in {0, 1}
      /\ \A u \in Units : u # work.unit => rows'[u] = rows[u]
  BY <1>1 DEF RecordUnit
<1>4. heard' = {}
  BY DEF DirectionInv, WorkOK, RecordUnit
<1>5. QueueOK(units, queue)'
  <2>1. \A i \in 1 .. Len(queue) : queue[i] \in Units
    BY ElementOfSeq DEF DirectionInv, QueueOK
  <2>2. \A u \in Units : u > Len(units) => rows'[u] = 0
    <3> TAKE u \in Units
    <3>1. PICK S : units \in Seq(S)
      BY DEF DirectionInv, QueueOK
    <3>2. u > Len(units) => u # work.unit
      BY <1>1, <3>1, LenProperties DEF DirectionInv, QueueOK, Units
    <3> QED BY <1>3, <3>2 DEF DirectionInv, QueueOK
  <2> QED BY <1>2, <1>3, <2>1, <2>2 DEF DirectionInv, QueueOK
<1>6. WorkOK'
  BY <1>1, <1>2, <1>4 DEF DirectionInv, WorkOK, WorkRecords, Phases, Playing
<1>7. RowsOK'
  BY <1>3 DEF DirectionInv, RowsOK
<1>8. EpochOK'
  BY <1>2 DEF DirectionInv, EpochOK, UnderEpoch
<1> QED BY <1>5, <1>6, <1>7, <1>8 DEF DirectionInv

\* The worker takes the next unit, or lets go of one that is over.
LEMMA WorkerKeeps ==
    ASSUME DirectionInv, Take \/ NextUnit PROVE DirectionInv'
<1>1. CASE Take
  <2>1. work.phase = "none" /\ work.unit = 0 /\ heard = {}
    BY <1>1 DEF DirectionInv, WorkOK, Take, Units, Playing
  <2>2. queue \in Seq(Units) /\ queue # <<>> /\ queue' = Tail(queue) /\ Head(queue) = queue[1]
        /\ Len(queue) \in Nat /\ Len(queue) > 0
    BY <1>1, LenProperties, EmptySeq DEF DirectionInv, QueueOK, Take
  <2>3. queue' \in Seq(Units) /\ Len(queue') = Len(queue) - 1
        /\ \A i \in 1 .. Len(queue') : queue'[i] = queue[i + 1]
    BY <2>2, HeadTailProperties
  <2>4. queue[1] \in Units /\ queue[1] <= Len(units) /\ rows[queue[1]] = 0
    BY <2>2, ElementOfSeq DEF DirectionInv, QueueOK
  <2>5. work' = [unit |-> queue[1], phase |-> "created", epoch |-> 0, cancelled |-> FALSE,
                 text |-> FALSE, chunks |-> 0]
    BY <1>1, <2>2 DEF Take, IdleWork
  <2>6. work' \in WorkRecords /\ work'.unit = queue[1] /\ work'.phase = "created"
    BY <2>4, <2>5 DEF WorkRecords, Phases, Units
  <2>7. \A i \in 1 .. Len(queue') : i + 1 \in 1 .. Len(queue) /\ i + 1 # 1
    BY <2>2, <2>3
  <2>8. QueueOK(units, queue)'
    <3>1. \A i, j \in 1 .. Len(queue') : i # j => queue'[i] # queue'[j]
      BY <2>3, <2>7 DEF DirectionInv, QueueOK
    <3>2. \A i \in 1 .. Len(queue') :
            queue'[i] <= Len(units) /\ queue'[i] # work'.unit /\ rows[queue'[i]] = 0
      BY <2>2, <2>3, <2>6, <2>7 DEF DirectionInv, QueueOK
    <3> QED BY <1>1, <2>3, <2>4, <2>6, <3>1, <3>2 DEF DirectionInv, QueueOK, Take, speech
  <2>9. WorkOK' /\ RowsOK' /\ EpochOK'
    BY <1>1, <2>1, <2>4, <2>6
    DEF DirectionInv, WorkOK, RowsOK, EpochOK, Take, output, Playing, UnderEpoch
  <2> QED BY <2>8, <2>9 DEF DirectionInv
<1>2. CASE NextUnit
  <2>1. heard = {} /\ work' = IdleWork /\ UNCHANGED <<units, queue, epoch, sink, heard, rows>>
    BY <1>2 DEF DirectionInv, WorkOK, NextUnit, Playing, speech, output
  <2>2. QueueOK(units, queue)'
    <3>1. \A i \in 1 .. Len(queue) : queue[i] # 0
      <4>1. \A i \in 1 .. Len(queue) : queue[i] \in Units
        BY ElementOfSeq DEF DirectionInv, QueueOK
      <4> QED BY <4>1, BoundAssumption DEF Units
    <3>2. PICK S : units \in Seq(S)
      BY DEF DirectionInv, QueueOK
    <3> QED BY <2>1, <3>1, <3>2, LenProperties DEF DirectionInv, QueueOK, IdleWork
  <2>3. WorkOK' /\ RowsOK' /\ EpochOK'
    BY <2>1, BoundAssumption
    DEF DirectionInv, WorkOK, RowsOK, EpochOK, IdleWork, WorkRecords, Phases, UnderEpoch
  <2> QED BY <2>2, <2>3 DEF DirectionInv
<1> QED BY <1>1, <1>2

LEMMA TaskKeeps ==
    ASSUME DirectionInv, Begin \/ Cancelled \/ Provided PROVE DirectionInv'
<1>0. work \in WorkRecords /\ WorkOK /\ EpochOK /\ epoch \in Nat
  BY DEF DirectionInv, WorkOK, EpochOK
<1>1. CASE Begin
  <2>1. work' \in WorkRecords
    BY <1>0, <1>1 DEF Begin, WorkRecords, Phases
  <2> QED
    BY <1>0, <1>1, <2>1, GoingOn
    DEF Begin, At, WorkOK, WorkRecords, UnderEpoch, Playing, speech, output
<1>2. CASE Cancelled
  BY <1>0, <1>2, GettingOver DEF Cancelled, WorkOK, Playing, speech, played
<1>3. CASE Translated
  <2>1. PICK text \in BOOLEAN : work' = [work EXCEPT !.phase = "subtitle", !.text = text]
    BY <1>3 DEF Translated
  <2>2. work' \in WorkRecords
    BY <1>0, <2>1 DEF WorkRecords, Phases
  <2> QED
    BY <1>0, <1>3, <2>1, <2>2, GoingOn
    DEF Translated, At, WorkOK, EpochOK, WorkRecords, UnderEpoch, Playing, speech
<1>4. CASE CaptionSent
  <2>1. CASE work.text
    <3>1. work' \in WorkRecords
      BY <1>0, <1>4, <2>1 DEF CaptionSent, Goes, WorkRecords, Phases
    <3> QED
      BY <1>0, <1>4, <2>1, <3>1, GoingOn
      DEF CaptionSent, Goes, At, WorkOK, EpochOK, WorkRecords, UnderEpoch, Playing, speech, played
  <2>2. CASE ~work.text
    BY <1>4, <2>2, GettingOver DEF CaptionSent, At, speech, played
  <2> QED BY <2>1, <2>2
<1>5. CASE Synthesised
  <2>1. work' \in WorkRecords
    <3>1. work.chunks + 1 \in Nat
      BY <1>0 DEF WorkRecords
    <3>2. \A n \in Nat : /\ [work EXCEPT !.phase = "frame", !.chunks = n] \in WorkRecords
                         /\ [work EXCEPT !.chunks = n] \in WorkRecords
      BY <1>0 DEF WorkRecords, Phases
    <3> QED BY <1>5, <3>1, <3>2 DEF Synthesised
  <2> QED
    BY <1>0, <1>5, <2>1, GoingOn
    DEF Synthesised, Capture, At, WorkOK, EpochOK, WorkRecords, UnderEpoch, Playing, speech
<1>6. CASE FrameTaken
  <2>1. work' \in WorkRecords
    BY <1>0, <1>6 DEF FrameTaken, Goes, WorkRecords, Phases
  <2> QED
    BY <1>0, <1>6, <2>1, GoingOn
    DEF FrameTaken, Capture, Goes, At, WorkOK, EpochOK, WorkRecords, UnderEpoch, Playing, speech
<1>7. CASE SpokenOut
  <2>1. CASE Goes("flush") /\ Capture /\ UNCHANGED rows
    <3>1. work' \in WorkRecords
      BY <1>0, <2>1 DEF Goes, WorkRecords, Phases
    <3> QED
      BY <1>0, <1>7, <2>1, <3>1, GoingOn
      DEF SpokenOut, Capture, Goes, At, WorkOK, EpochOK, WorkRecords, UnderEpoch, Playing, speech
  <2>2. CASE Over /\ RecordUnit(work.unit) /\ UNCHANGED sink
    BY <1>7, <2>2, GettingOver DEF SpokenOut, At, speech
  <2> QED BY <1>7, <2>1, <2>2 DEF SpokenOut
<1>8. CASE Flushed \/ SynthesisFails
  BY <1>8, GettingOver DEF Flushed, SynthesisFails, At, speech, played
<1> QED BY <1>1, <1>2, <1>3, <1>4, <1>5, <1>6, <1>7, <1>8 DEF Provided

----------------------------------------------------------------------------
(* Barge-in and the close. *)

LEMMA CancelOutputKeeps ==
    ASSUME DirectionInv, CancelOutput PROVE DirectionInv'
<1>1. rows' \in [Units -> Nat]
      /\ \A u \in Units : rows'[u] = IF \E i \in 1 .. Len(queue) : queue[i] = u THEN rows[u] + 1 ELSE rows[u]
  <2>1. DOMAIN queue = 1 .. Len(queue)
    BY LenProperties DEF DirectionInv, QueueOK
  <2> QED BY <2>1 DEF CancelOutput, DirectionInv, RowsOK
<1>2. queue' = <<>> /\ sink' = {} /\ epoch' = epoch + 1 /\ work' = CancelUnit
      /\ UNCHANGED <<units, heard>>
  BY DEF CancelOutput, speech
<1>3. RowsOK'
  <2> SUFFICES ASSUME NEW u \in Units PROVE rows'[u] <= 1
    BY <1>1 DEF RowsOK
  <2>1. CASE \E i \in 1 .. Len(queue) : queue[i] = u
    BY <1>1, <2>1 DEF DirectionInv, QueueOK
  <2>2. CASE ~\E i \in 1 .. Len(queue) : queue[i] = u
    BY <1>1, <2>2 DEF DirectionInv, RowsOK
  <2> QED BY <2>1, <2>2
<1>4. WorkOK' /\ work'.unit = work.unit /\ EpochOK'
  <2>1. work.unit \in Units => rows'[work.unit] = rows[work.unit]
    BY <1>1 DEF DirectionInv, QueueOK
  <2>2. work' \in WorkRecords /\ work'.unit = work.unit /\ work'.phase = work.phase
        /\ work'.cancelled = (work.cancelled \/ work.phase \notin {"none", "done"})
    BY <1>2 DEF CancelUnit, DirectionInv, WorkOK, WorkRecords
  <2>3. WorkOK'
    BY <1>2, <2>1, <2>2 DEF DirectionInv, WorkOK
  <2>4. EpochOK'
    <3>1. epoch' \in Nat /\ sink' \subseteq {epoch'}
      BY <1>2 DEF DirectionInv, EpochOK
    <3>2. ~(work'.phase \in UnderEpoch /\ ~work'.cancelled)
      BY <2>2 DEF UnderEpoch
    <3> QED BY <3>1, <3>2 DEF EpochOK
  <2> QED BY <2>2, <2>3, <2>4
<1>5. QueueOK(units, queue)'
  <2>1. queue' \in Seq(Units) /\ Len(queue') = 0
    BY <1>2, EmptySeq
  <2>2. \A u \in Units : u > Len(units) => rows'[u] = 0
    <3>1. PICK S : units \in Seq(S)
      BY DEF DirectionInv, QueueOK
    <3>2. Len(units) \in Nat
      BY <3>1, LenProperties
    <3>3. ASSUME NEW u \in Units, u > Len(units) PROVE rows'[u] = 0
      <4>1. \A i \in 1 .. Len(queue) : queue[i] <= Len(units)
        BY DEF DirectionInv, QueueOK
      <4>2. u \in Int /\ rows[u] = 0
        BY <3>3, BoundAssumption DEF DirectionInv, QueueOK, Units
      <4>3. ~\E i \in 1 .. Len(queue) : queue[i] = u
        BY <3>2, <3>3, <4>1, <4>2
      <4> QED BY <1>1, <4>2, <4>3
    <3> QED BY <3>3
  <2> QED BY <1>2, <1>4, <2>1, <2>2 DEF DirectionInv, QueueOK
<1> QED BY <1>3, <1>4, <1>5 DEF DirectionInv

LEMMA DirectionClosingKeeps ==
    ASSUME DirectionInv, Hangup \/ Closing PROVE DirectionInv'
<1>1. UNCHANGED <<units, queue, epoch, sink, heard, rows>> /\ work' \in {work, CancelUnit}
  BY DEF Hangup, Closing, FlushReturns, DrainPoll, DrainTimesOut, LogCloses, CloseNow, speech, output
<1>2. CASE UNCHANGED work
  BY <1>1, <1>2 DEF DirectionInv, QueueOK, WorkOK, RowsOK, EpochOK
<1>3. CASE work' = CancelUnit
  <2>1. work' \in WorkRecords /\ work'.unit = work.unit /\ work'.phase = work.phase
        /\ work'.cancelled = (work.cancelled \/ work.phase \notin {"none", "done"})
    BY <1>3 DEF CancelUnit, DirectionInv, WorkOK, WorkRecords
  <2> QED BY <1>1, <2>1 DEF DirectionInv, QueueOK, WorkOK, RowsOK, EpochOK, UnderEpoch
<1> QED BY <1>1, <1>2, <1>3

----------------------------------------------------------------------------
LEMMA DirectionInvariant == DirectionSpec => []DirectionInv
<1>1. DirectionInv /\ [DirectionNext]_directionVars => DirectionInv'
  <2> SUFFICES ASSUME DirectionInv, [DirectionNext]_directionVars PROVE DirectionInv'
    OBVIOUS
  <2>1. CASE UNCHANGED directionVars
    BY <2>1 DEF directionVars, DirectionInv, QueueOK, WorkOK, RowsOK, EpochOK
  <2>2. CASE DirectionNext
    BY <2>2, ListeningKeeps, WorkerKeeps, TaskKeeps, CancelOutputKeeps, DirectionClosingKeeps
    DEF DirectionNext, Working
  <2> QED BY <2>1, <2>2
<1> QED BY <1>1, DirectionStarts, PTL DEF DirectionSpec

\* However barge-in, an error of a vendor or hanging up cut a unit, it is recorded once at
\* most, and as soon as it is over when anything of it was heard (_process_unit, _record).
THEOREM WhatIsHeardIsLogged == DirectionSpec => []HeardIsLogged
<1>1. DirectionInv => HeardIsLogged
  BY DEF DirectionInv, WorkOK, RowsOK, HeardIsLogged
<1> QED BY <1>1, DirectionInvariant, PTL

\* After cancel_output nothing said before it is in the audio source or gets there, also
\* from a task that was inside capture_frame when its epoch passed.
THEOREM NothingOldIsPlayed == DirectionSpec => []NothingStalePlays
<1>1. DirectionInv => NothingStalePlays
  BY DEF DirectionInv, EpochOK, NothingStalePlays
<1> QED BY <1>1, DirectionInvariant, PTL
----------------------------------------------------------------------------
(* Telling the units apart. *)

LEMMA UnitsStart == DirectionInit => UnitsInv
<1> SUFFICES ASSUME DirectionInit PROVE UnitsInv
  OBVIOUS
<1>1. units \in Seq(Units) /\ queue \in Seq(Units) /\ Len(units) = 0 /\ Len(queue) = 0
  BY DEF DirectionInit
<1>2. utt \in UttRecords /\ utt.segment = 0 /\ utt.key = 0
  BY DEF DirectionInit, Silence, UttRecords, Chunks
<1>3. CaptionsOK(units, queue)
  BY <1>1 DEF DirectionInit, CaptionsOK, IdleWork
<1> QED BY <1>1, <1>2, <1>3 DEF UnitsInv, SegmentsOK, KeysOK

\* There is a segment that no unit has.
LEMMA SegmentsLeft ==
    ASSUME NEW us, NEW S, us \in Seq(S), Len(us) <= MaxUnits
    PROVE  NewSegment(us) \in Segments /\ \A i \in 1 .. Len(us) : us[i].segment # NewSegment(us)
<1> DEFINE D == 1 .. Len(us)
           Used == {us[i].segment : i \in D}
           place == [i \in D |-> us[i].segment]
<1>1. Len(us) \in Nat /\ DOMAIN us = D
  BY LenProperties
<1>2. IsFiniteSet(D) /\ Cardinality(D) = Len(us)
  BY <1>1, FS_Interval
<1>3. place \in Surjection(D, Used)
  BY DEF Surjection
<1>4. IsFiniteSet(Used) /\ Cardinality(Used) <= Len(us)
  BY <1>2, <1>3, FS_Surjection
<1>5. IsFiniteSet(Segments) /\ Cardinality(Segments) = MaxUnits + 1
  BY BoundAssumption, FS_Interval DEF Segments
<1>6. ~(Segments \subseteq Used)
  <2> SUFFICES ASSUME Segments \subseteq Used PROVE FALSE
    OBVIOUS
  <2>1. Cardinality(Segments) <= Cardinality(Used)
    BY <1>4, FS_Subset
  <2>2. Cardinality(Used) \in Nat
    BY <1>4, FS_CardinalityType
  <2>3. MaxUnits \in Nat /\ Len(us) <= MaxUnits
    BY BoundAssumption
  <2> DEFINE a == Cardinality(Segments)  b == Cardinality(Used)  c == Len(us)
  <2>4. a = MaxUnits + 1 /\ b \in Nat /\ c \in Nat /\ b <= c /\ c <= MaxUnits /\ a <= b
    BY <1>1, <1>4, <1>5, <2>1, <2>2, <2>3
  <2> HIDE DEF a, b, c
  <2> QED BY <2>3, <2>4
<1>7. \E g \in Segments : \A i \in DOMAIN us : us[i].segment # g
  BY <1>1, <1>6
<1> QED BY <1>1, <1>7 DEF NewSegment

\* One more unit has a segment and a place of its own.
LEMMA TellingOneApart ==
    ASSUME NEW s, QueueOK(s.units, s.queue), Len(s.units) + 1 <= MaxUnits, s.utt \in UttRecords,
           SegmentsOK(s.units, s.utt), KeysOK(s.units, s.utt), CaptionsOK(s.units, s.queue), WorkOK
    PROVE  LET e == EnqueueOne(s) IN
           /\ e.utt \in UttRecords /\ e.utt.segment = 0
           /\ SegmentsOK(e.units, e.utt) /\ KeysOK(e.units, e.utt) /\ CaptionsOK(e.units, e.queue)
<1> DEFINE us == s.units
           u == Len(us) + 1
           seg == IF s.utt.segment # 0 THEN s.utt.segment ELSE NewSegment(us)
           first == s.utt.anchor = 0 \/ s.utt.key = 0
           key == IF first THEN u ELSE s.utt.key
           unit == [segment |-> seg, key |-> key, first |-> first, anchor |-> s.utt.anchor]
           vs == Append(us, unit)
           x == [s.utt EXCEPT !.segment = 0, !.key = IF s.utt.anchor = 0 THEN 0 ELSE key]
           r == Append(s.queue, u)
<1>1. EnqueueOne(s).units = vs /\ EnqueueOne(s).utt = x /\ EnqueueOne(s).queue = r
  BY DEF EnqueueOne
<1>2. PICK S : us \in Seq(S)
  BY DEF QueueOK
<1>3. Len(us) \in Nat /\ Len(us) <= MaxUnits
  BY <1>2, LenProperties DEF QueueOK
<1>4. Len(vs) = u /\ vs[u] = unit /\ \A i \in 1 .. Len(us) : vs[i] = us[i]
  <2>1. us \in Seq(S \cup {unit})
    BY <1>2, SeqMonotonic
  <2> HIDE DEF unit
  <2> QED BY <1>2, <2>1, AppendProperties
<1>5. seg \in Nat /\ \A i \in 1 .. Len(us) : us[i].segment # seg
  <2>1. NewSegment(us) \in Nat /\ \A i \in 1 .. Len(us) : us[i].segment # NewSegment(us)
    BY <1>2, <1>3, SegmentsLeft, BoundAssumption DEF Segments
  <2> QED BY <2>1 DEF SegmentsOK, UttRecords
<1>6. s.utt.anchor \in Nat /\ s.utt.key \in Nat /\ key \in 1 .. u /\ first \in BOOLEAN
  BY <1>3 DEF UttRecords, KeysOK
<1>7. /\ unit.segment = seg /\ unit.key = key /\ unit.first = first /\ unit.anchor = s.utt.anchor
      /\ \A i \in 1 .. u : i \in 1 .. Len(us) \/ i = u
  BY <1>3
<1>8. x \in UttRecords /\ x.segment = 0 /\ x.anchor = s.utt.anchor
      /\ x.key = IF s.utt.anchor = 0 THEN 0 ELSE key
  <2>1. \A k \in Nat : LET y == [s.utt EXCEPT !.segment = 0, !.key = k] IN
          y \in UttRecords /\ y.segment = 0 /\ y.anchor = s.utt.anchor /\ y.key = k
    BY DEF UttRecords
  <2>2. (IF s.utt.anchor = 0 THEN 0 ELSE key) \in Nat
    BY <1>3, <1>6
  <2> QED BY <2>1, <2>2
<1> HIDE DEF unit, vs, x, seg, r
<1>9. SegmentsOK(vs, x)
  <2> SUFFICES ASSUME NEW i \in 1 .. u, NEW j \in 1 .. u, i # j
               PROVE  vs[i].segment # vs[j].segment
    BY <1>4, <1>8 DEF SegmentsOK
  <2> QED BY <1>4, <1>5, <1>7 DEF SegmentsOK
<1>10. KeysOK(vs, x)
  <2>1. \A i \in 1 .. Len(us) : us[i].key \in 1 .. i /\ us[us[i].key].first /\ us[i].key \in 1 .. Len(us)
    BY <1>3 DEF KeysOK
  <2>2. \A i \in 1 .. u : vs[i].key \in 1 .. i /\ vs[vs[i].key].first
    <3>1. vs[u].key \in 1 .. u /\ vs[vs[u].key].first
      <4>1. CASE first
        BY <1>4, <1>6, <1>7, <4>1
      <4>2. CASE ~first
        BY <1>4, <1>6, <1>7, <4>2 DEF KeysOK
      <4> QED BY <4>1, <4>2
    <3> QED BY <1>4, <1>7, <2>1, <3>1
  <2>3. \A i \in 1 .. Len(us) : us[i].key = key =>
          ~first /\ us[i].anchor = s.utt.anchor /\ s.utt.anchor # 0
    BY <1>3, <1>6, <2>1 DEF KeysOK
  <2>4. \A i, j \in 1 .. u : i < j /\ vs[i].key = vs[j].key =>
          vs[i].anchor = vs[j].anchor /\ vs[i].anchor # 0 /\ ~vs[j].first
    <3> SUFFICES ASSUME NEW i \in 1 .. u, NEW j \in 1 .. u, i < j, vs[i].key = vs[j].key
                 PROVE  vs[i].anchor = vs[j].anchor /\ vs[i].anchor # 0 /\ ~vs[j].first
      OBVIOUS
    <3>1. i \in 1 .. Len(us)
      BY <1>3
    <3>2. CASE j = u
      BY <1>4, <1>7, <2>3, <3>1, <3>2
    <3>3. CASE j \in 1 .. Len(us)
      BY <1>4, <3>1, <3>3 DEF KeysOK
    <3> QED BY <1>7, <3>2, <3>3
  <2>5. x.key # 0 => /\ x.anchor # 0 /\ x.key \in 1 .. u /\ vs[x.key].first
                    /\ \A i \in 1 .. u : vs[i].key = x.key => vs[i].anchor = x.anchor
    <3> SUFFICES ASSUME x.key # 0
                 PROVE  /\ x.anchor # 0 /\ x.key \in 1 .. u /\ vs[x.key].first
                        /\ \A i \in 1 .. u : vs[i].key = x.key => vs[i].anchor = x.anchor
      OBVIOUS
    <3>1. x.key = key /\ x.anchor = s.utt.anchor /\ x.anchor # 0 /\ vs[u].key = key
      BY <1>4, <1>7, <1>8
    <3>2. vs[key].first
      BY <1>4, <1>7, <2>2, <3>1, <1>3
    <3> QED BY <1>4, <1>6, <1>7, <2>3, <3>1, <3>2
  <2> QED BY <1>4, <2>2, <2>4, <2>5 DEF KeysOK
<1>11. CaptionsOK(vs, r)
  <2>1. Len(r) = Len(s.queue) + 1 /\ r[Len(s.queue) + 1] = u /\ Len(s.queue) \in Nat
        /\ \A i \in 1 .. Len(s.queue) : r[i] = s.queue[i]
    <3>1. s.queue \in Seq(Units \cup {u})
      BY SeqMonotonic DEF QueueOK
    <3> QED BY <3>1, AppendProperties, LenProperties DEF r
  <2>2. \A i \in 1 .. Len(us) : vs[i].segment = us[i].segment
    BY <1>4
  <2>3. captions \in [final : SUBSET {vs[i].segment : i \in 1 .. Len(vs)}, refused : {{}}]
        /\ vs[u].segment \notin captions.final
    <3>1. captions.final \subseteq {us[i].segment : i \in 1 .. Len(us)}
      BY DEF CaptionsOK
    <3>2. captions.final \subseteq {vs[i].segment : i \in 1 .. Len(vs)}
      BY <1>3, <1>4, <2>2, <3>1
    <3>3. vs[u].segment \notin captions.final
      BY <1>4, <1>5, <1>7, <3>1
    <3> QED BY <3>2, <3>3 DEF CaptionsOK
  <2>4. \A i \in 1 .. Len(s.queue) : s.queue[i] \in 1 .. Len(us)
    <3>1. \A i \in 1 .. Len(s.queue) : s.queue[i] \in Units
      BY ElementOfSeq DEF QueueOK
    <3> QED BY <1>3, <3>1, BoundAssumption DEF QueueOK, Units
  <2>5. \A i \in 1 .. Len(r) : vs[r[i]].segment \notin captions.final
    <3> SUFFICES ASSUME NEW i \in 1 .. Len(s.queue) + 1 PROVE vs[r[i]].segment \notin captions.final
      BY <2>1
    <3>1. CASE i \in 1 .. Len(s.queue)
      BY <2>1, <2>2, <2>4, <3>1 DEF CaptionsOK
    <3>2. CASE i = Len(s.queue) + 1
      BY <2>1, <2>3, <3>2
    <3> QED BY <2>1, <3>1, <3>2
  <2>6. work.phase \in {"created", "mt"} => vs[work.unit].segment \notin captions.final
    <3> SUFFICES ASSUME work.phase \in {"created", "mt"} PROVE vs[work.unit].segment \notin captions.final
      OBVIOUS
    <3>1. work.unit \in 1 .. Len(us)
      BY <1>3, BoundAssumption DEF WorkOK, QueueOK, Units
    <3> QED BY <2>2, <3>1 DEF CaptionsOK
  <2> QED BY <2>3, <2>5, <2>6 DEF CaptionsOK
<1> QED BY <1>1, <1>8, <1>9, <1>10, <1>11

\* Units committed by one call of the chunker.
LEMMA TellingApart ==
    ASSUME DirectionInv, UnitsInv, NEW n \in 0 .. 2, Room(n)
    PROVE  LET s == Enqueue(n) IN
           /\ s.utt \in UttRecords
           /\ SegmentsOK(s.units, s.utt) /\ KeysOK(s.units, s.utt) /\ CaptionsOK(s.units, s.queue)
           /\ QueueOK(s.units, s.queue)
<1> DEFINE s0 == [units |-> units, queue |-> queue, utt |-> utt]
           s1 == EnqueueOne(s0)
<1>0. PICK S : units \in Seq(S)
  BY DEF DirectionInv, QueueOK
<1>1. QueueOK(units, queue) /\ WorkOK /\ Len(units) \in Nat /\ utt \in UttRecords
      /\ SegmentsOK(units, utt) /\ KeysOK(units, utt) /\ CaptionsOK(units, queue)
  BY <1>0, LenProperties DEF DirectionInv, UnitsInv
<1>2. CASE n = 0
  BY <1>1, <1>2 DEF Enqueue
<1>3. ASSUME n > 0
      PROVE  /\ QueueOK(s1.units, s1.queue) /\ Len(s1.units) = Len(units) + 1 /\ s1.utt \in UttRecords
             /\ SegmentsOK(s1.units, s1.utt) /\ KeysOK(s1.units, s1.utt) /\ CaptionsOK(s1.units, s1.queue)
  <2>1. Len(units) + 1 <= MaxUnits
    BY <1>1, <1>3, BoundAssumption DEF Room
  <2>2. s0.units = units /\ s0.queue = queue /\ s0.utt = utt
    OBVIOUS
  <2> HIDE DEF s0
  <2> QED BY <1>1, <2>1, <2>2, EnqueueingOne, TellingOneApart
<1>4. CASE n = 1
  BY <1>3, <1>4 DEF Enqueue
<1>5. CASE n = 2
  <2>1. Len(s1.units) + 1 <= MaxUnits
    BY <1>1, <1>3, <1>5, BoundAssumption DEF Room
  <2>2. Enqueue(n) = EnqueueOne(s1)
    BY <1>5 DEF Enqueue
  <2> HIDE DEF s1
  <2> QED BY <1>1, <1>3, <1>5, <2>1, <2>2, EnqueueingOne, TellingOneApart
<1> QED BY <1>2, <1>3, <1>4, <1>5

\* What a listening step leaves of the utterance: its key goes with its anchor, and a
\* partial on display has a segment no unit has.
LEMMA UtteranceGoesOn ==
    ASSUME NEW us, NEW x \in UttRecords, NEW y \in UttRecords, SegmentsOK(us, x), KeysOK(us, x),
           y.key = 0 \/ (y.key = x.key /\ y.anchor = x.anchor),
           y.segment \in {0, x.segment} \/ \A i \in 1 .. Len(us) : us[i].segment # y.segment
    PROVE  SegmentsOK(us, y) /\ KeysOK(us, y)
  BY DEF SegmentsOK, KeysOK

LEMMA ListeningTells ==
    ASSUME DirectionInv, UnitsInv, Listening \/ DirectionTick PROVE UnitsInv'
<1>0. utt \in UttRecords /\ UNCHANGED <<work, captions>>
  BY DEF UnitsInv, Listening, DirectionTick, SpeechStart, Partial, Final, output
<1>1. ASSUME UNCHANGED <<units, queue>>, utt' \in UttRecords,
             utt'.key = 0 \/ (utt'.key = utt.key /\ utt'.anchor = utt.anchor),
             utt'.segment \in {0, utt.segment}
      PROVE  UnitsInv'
  <2>1. SegmentsOK(units, utt') /\ KeysOK(units, utt')
    BY <1>0, <1>1, UtteranceGoesOn DEF UnitsInv
  <2> QED BY <1>0, <1>1, <2>1 DEF UnitsInv, SegmentsOK, KeysOK, CaptionsOK
<1>2. ASSUME NEW n \in 0 .. 2, Room(n), units' = Enqueue(n).units, queue' = Enqueue(n).queue,
             utt' \in UttRecords,
             utt'.key = 0 \/ (utt'.key = Enqueue(n).utt.key /\ utt'.anchor = Enqueue(n).utt.anchor),
             \/ utt'.segment \in {0, Enqueue(n).utt.segment}
             \/ utt'.segment = NewSegment(Enqueue(n).units)
      PROVE  UnitsInv'
  <2> DEFINE us == Enqueue(n).units
             q == Enqueue(n).queue
             x == Enqueue(n).utt
  <2>1. /\ x \in UttRecords /\ SegmentsOK(us, x) /\ KeysOK(us, x) /\ CaptionsOK(us, q)
        /\ QueueOK(us, q)
    BY <1>2, TellingApart
  <2>2. PICK S : us \in Seq(S)
    BY <2>1 DEF QueueOK
  <2>3. \A i \in 1 .. Len(us) : us[i].segment # NewSegment(us)
    <3>1. Len(us) <= MaxUnits
      BY <2>1 DEF QueueOK
    <3> HIDE DEF us
    <3> QED BY <2>2, <3>1, SegmentsLeft
  <2>4. SegmentsOK(us, utt') /\ KeysOK(us, utt')
    <3>1. /\ utt'.key = 0 \/ (utt'.key = x.key /\ utt'.anchor = x.anchor)
          /\ utt'.segment \in {0, x.segment} \/ utt'.segment = NewSegment(us)
          /\ utt' \in UttRecords
      BY <1>2
    <3> HIDE DEF us, x
    <3> QED BY <2>1, <2>3, <3>1, UtteranceGoesOn
  <2>5. units' = us /\ queue' = q
    BY <1>2
  <2> HIDE DEF us, q, x
  <2> QED BY <1>0, <1>2, <2>1, <2>4, <2>5 DEF UnitsInv, SegmentsOK, KeysOK, CaptionsOK
<1>3. CASE SpeechStart
  <2>1. PICK S : units \in Seq(S)
    BY DEF DirectionInv, QueueOK
  <2>2. Anchor \in Nat
    BY <2>1, LenProperties DEF Anchor
  <2>3. \A a \in Nat : LET y == [ResetUtterance(utt) EXCEPT !.anchor = a, !.chunk = "empty"] IN
          y \in UttRecords /\ y.key = 0 /\ y.segment = 0
    BY <1>0 DEF ResetUtterance, UttRecords, Chunks
  <2> QED BY <1>1, <1>3, <2>2, <2>3 DEF SpeechStart, speech
<1>4. CASE Partial
  <2>1. PICK n \in 0 .. 2 :
          /\ Room(n) /\ units' = Enqueue(n).units /\ queue' = Enqueue(n).queue
          /\ \E chunk \in Chunks, segment \in ShownIn(Enqueue(n)) :
               utt' = [Enqueue(n).utt EXCEPT !.chunk = chunk, !.segment = segment]
    BY <1>4 DEF Partial
  <2>2. PICK chunk \in Chunks, segment \in ShownIn(Enqueue(n)) :
          utt' = [Enqueue(n).utt EXCEPT !.chunk = chunk, !.segment = segment]
    BY <2>1
  <2>3. Enqueue(n).utt \in UttRecords /\ QueueOK(Enqueue(n).units, Enqueue(n).queue)
    BY <2>1, TellingApart
  <2>4. segment \in {0, Enqueue(n).utt.segment} \/ segment = NewSegment(Enqueue(n).units)
    BY DEF ShownIn
  <2>5. segment \in Nat
    <3>1. PICK S : Enqueue(n).units \in Seq(S)
      BY <2>3 DEF QueueOK
    <3>2. NewSegment(Enqueue(n).units) \in Nat
      BY <2>3, <3>1, SegmentsLeft, BoundAssumption DEF QueueOK, Segments
    <3> QED BY <2>3, <2>4, <3>2 DEF UttRecords
  <2> DEFINE y == [Enqueue(n).utt EXCEPT !.chunk = chunk, !.segment = segment]
  <2>6. y \in UttRecords /\ y.key = Enqueue(n).utt.key /\ y.anchor = Enqueue(n).utt.anchor
        /\ y.segment = segment
    BY <2>3, <2>5 DEF UttRecords
  <2>7. utt' = y
    BY <2>2
  <2> HIDE DEF y
  <2> QED BY <1>2, <2>1, <2>4, <2>6, <2>7
<1>5. CASE Final
  <2>1. PICK n \in 0 .. 2 :
          /\ Room(n) /\ units' = Enqueue(n).units /\ queue' = Enqueue(n).queue
          /\ utt' = [ResetUtterance(Enqueue(n).utt) EXCEPT !.chunk = "empty"]
    BY <1>5 DEF Final
  <2>2. Enqueue(n).utt \in UttRecords
    BY <2>1, TellingApart
  <2> DEFINE y == [ResetUtterance(Enqueue(n).utt) EXCEPT !.chunk = "empty"]
  <2>3. y \in UttRecords /\ y.key = 0 /\ y.segment = 0
    BY <2>2 DEF ResetUtterance, UttRecords, Chunks
  <2>4. utt' = y
    BY <2>1
  <2> HIDE DEF y
  <2> QED BY <1>2, <2>1, <2>3, <2>4
<1>6. CASE DirectionTick
  <2>1. CASE utt' = [utt EXCEPT !.chunk = "pending"] /\ UNCHANGED <<units, queue>>
    <3>1. LET y == [utt EXCEPT !.chunk = "pending"] IN
          y \in UttRecords /\ y.key = utt.key /\ y.anchor = utt.anchor /\ y.segment = utt.segment
      BY <1>0 DEF UttRecords, Chunks
    <3> QED BY <1>1, <2>1, <3>1
  <2>2. CASE /\ Room(1) /\ units' = Enqueue(1).units /\ queue' = Enqueue(1).queue
             /\ utt' = [Enqueue(1).utt EXCEPT !.chunk = "empty"]
    <3> DEFINE y == [Enqueue(1).utt EXCEPT !.chunk = "empty"]
    <3>1. Enqueue(1).utt \in UttRecords
      BY <2>2, TellingApart
    <3>2. y \in UttRecords /\ y.key = Enqueue(1).utt.key /\ y.anchor = Enqueue(1).utt.anchor
          /\ y.segment = Enqueue(1).utt.segment
      BY <3>1 DEF UttRecords, Chunks
    <3>3. utt' = y
      BY <2>2
    <3> HIDE DEF y
    <3> QED BY <1>2, <2>2, <3>2, <3>3
  <2>3. CASE utt' = ResetUtterance(utt) /\ UNCHANGED <<units, queue>>
    <3>1. ResetUtterance(utt) \in UttRecords /\ ResetUtterance(utt).key = 0
          /\ ResetUtterance(utt).segment = 0
      BY <1>0 DEF ResetUtterance, UttRecords
    <3> QED BY <1>1, <2>3, <3>1
  <2> QED BY <1>6, <2>1, <2>2, <2>3 DEF DirectionTick
<1> QED BY <1>3, <1>4, <1>5, <1>6 DEF Listening

\* A caption goes out in the segment of the unit in work, which was not final.
LEMMA WorkingTells ==
    ASSUME DirectionInv, UnitsInv, Working \/ Provided \/ CancelOutput \/ Hangup \/ Closing
    PROVE  UnitsInv'
<1>1. /\ units' = units
      /\ \/ utt' = utt
         \/ utt' = Silence
  BY DEF Working, Provided, CancelOutput, Hangup, Closing, Take, Begin, Cancelled, NextUnit,
         Translated, CaptionSent, Synthesised, FrameTaken, SpokenOut, Flushed, SynthesisFails,
         FlushReturns, DrainPoll, DrainTimesOut, LogCloses, CloseNow, speech
<1>2. utt' \in UttRecords /\ SegmentsOK(units, utt)' /\ KeysOK(units, utt)'
  <2>1. Silence \in UttRecords /\ Silence.key = 0 /\ Silence.segment = 0
    BY DEF Silence, UttRecords, Chunks
  <2> QED BY <1>1, <2>1 DEF UnitsInv, SegmentsOK, KeysOK
<1>3. work \in WorkRecords /\ CaptionsOK(units, queue) /\ QueueOK(units, queue)
  BY DEF DirectionInv, WorkOK, UnitsInv
<1>4. CASE Take
  <2>1. queue \in Seq(Units) /\ queue # <<>>
    BY <1>3, <1>4 DEF QueueOK, Take
  <2>2. queue' \in Seq(Units) /\ Len(queue') = Len(queue) - 1 /\ Head(queue) = queue[1]
        /\ \A i \in 1 .. Len(queue') : queue'[i] = queue[i + 1]
    BY <1>4, <2>1, HeadTailProperties DEF Take
  <2>3. Len(queue) \in Nat /\ Len(queue) > 0
    BY <2>1, LenProperties, EmptySeq
  <2>4. work'.unit = queue[1] /\ work'.phase = "created" /\ UNCHANGED captions
    BY <1>4, <2>2 DEF Take, IdleWork, output
  <2>5. \A i \in 1 .. Len(queue') : i + 1 \in 1 .. Len(queue)
    BY <2>2, <2>3
  <2>6. 1 \in 1 .. Len(queue)
    BY <2>3
  <2>7. \A i \in 1 .. Len(queue') : units[queue'[i]].segment \notin captions.final
    BY <1>3, <2>2, <2>5 DEF CaptionsOK
  <2>8. units[work'.unit].segment \notin captions.final
    BY <1>3, <2>4, <2>6 DEF CaptionsOK
  <2>9. CaptionsOK(units, queue)'
    BY <1>1, <1>3, <2>4, <2>7, <2>8 DEF CaptionsOK
  <2> QED BY <1>2, <2>9 DEF UnitsInv
<1>5. CASE Translated
  <2>1. work.phase = "mt" /\ work'.phase = "subtitle" /\ work'.unit = work.unit /\ queue' = queue
    BY <1>3, <1>5 DEF Translated, At, WorkRecords
  <2> DEFINE seg == units[work.unit].segment
  <2>2. captions' = [captions EXCEPT !.final = @ \cup {seg}]
    BY <1>3, <1>5, <2>1 DEF Translated, SendSubtitle, CaptionsOK
  <2>3. work.unit \in 1 .. Len(units)
    BY <2>1, BoundAssumption DEF DirectionInv, WorkOK, QueueOK, Units
  <2>4. captions'.final = captions.final \cup {seg} /\ captions'.refused = {}
        /\ captions' \in [final : SUBSET {units[i].segment : i \in 1 .. Len(units)}, refused : {{}}]
    <3>1. seg \in {units[i].segment : i \in 1 .. Len(units)}
      BY <2>3
    <3> HIDE DEF seg
    <3> QED BY <1>3, <2>2, <3>1 DEF CaptionsOK
  <2>5. \A i \in 1 .. Len(queue) : units[queue[i]].segment # seg
    <3> SUFFICES ASSUME NEW i \in 1 .. Len(queue) PROVE units[queue[i]].segment # seg
      OBVIOUS
    <3>1. queue[i] \in Units /\ queue[i] <= Len(units) /\ queue[i] # work.unit
      BY <1>3, ElementOfSeq DEF QueueOK
    <3>2. queue[i] \in 1 .. Len(units)
      BY <2>3, <3>1, BoundAssumption DEF Units
    <3> QED BY <2>3, <3>1, <3>2 DEF UnitsInv, SegmentsOK
  <2> QED BY <1>1, <1>2, <1>3, <2>1, <2>4, <2>5 DEF UnitsInv, CaptionsOK
<1>6. CASE UNCHANGED captions /\ queue' \in {queue, <<>>}
           /\ (work'.phase \in {"created", "mt"} =>
                 work.phase \in {"created", "mt"} /\ work'.unit = work.unit)
  <2>1. CASE queue' = queue
    BY <1>1, <1>2, <1>3, <1>6, <2>1 DEF UnitsInv, CaptionsOK
  <2>2. CASE queue' = <<>>
    <3>1. Len(queue') = 0
      BY <2>2
    <3> QED BY <1>1, <1>2, <1>3, <1>6, <3>1 DEF UnitsInv, CaptionsOK
  <2> QED BY <1>6, <2>1, <2>2
<1>7. CASE Begin \/ Cancelled \/ NextUnit
  <2>1. work'.phase \in {"created", "mt"} =>
          work.phase \in {"created", "mt"} /\ work'.unit = work.unit
    <3>1. CASE Begin
      BY <1>3, <3>1 DEF Begin, At, WorkRecords
    <3>2. CASE Cancelled
      BY <3>2 DEF Cancelled, Over, IdleWork
    <3>3. CASE NextUnit
      BY <3>3 DEF NextUnit, IdleWork
    <3> QED BY <1>7, <3>1, <3>2, <3>3
  <2>2. UNCHANGED captions /\ UNCHANGED queue
    BY <1>7 DEF Begin, Cancelled, NextUnit, output, played
  <2> QED BY <1>6, <2>1, <2>2
<1>8. CASE CaptionSent \/ Synthesised \/ FrameTaken
  <2>1. work'.phase \in {"tts", "frame", "done"}
    BY <1>3, <1>8
    DEF CaptionSent, Synthesised, FrameTaken, At, Goes, Over, IdleWork, WorkRecords
  <2> QED BY <1>6, <1>8, <2>1 DEF CaptionSent, Synthesised, FrameTaken, played
<1>9. CASE SpokenOut \/ Flushed \/ SynthesisFails
  <2>1. work'.phase \in {"flush", "done"}
    BY <1>3, <1>9 DEF SpokenOut, Flushed, SynthesisFails, Goes, Over, IdleWork, WorkRecords
  <2> QED BY <1>6, <1>9, <2>1 DEF SpokenOut, Flushed, SynthesisFails, played
<1>10. CASE CancelOutput \/ Hangup \/ Closing
  <2>1. work' \in {work, CancelUnit}
    BY <1>10 DEF CancelOutput, Hangup, Closing, FlushReturns, DrainPoll, DrainTimesOut, LogCloses, CloseNow
  <2>2. work'.phase = work.phase /\ work'.unit = work.unit
    BY <1>3, <2>1 DEF CancelUnit, WorkRecords
  <2>3. UNCHANGED captions /\ queue' \in {queue, <<>>}
    BY <1>10 DEF CancelOutput, Hangup, Closing, FlushReturns, DrainPoll, DrainTimesOut, LogCloses, output
  <2> QED BY <1>6, <2>2, <2>3
<1> QED BY <1>4, <1>5, <1>7, <1>8, <1>9, <1>10 DEF Working, Provided

LEMMA UnitsKeep ==
    ASSUME DirectionInv, UnitsInv, [DirectionNext]_directionVars PROVE UnitsInv'
<1>1. CASE UNCHANGED directionVars
  BY <1>1 DEF directionVars, UnitsInv, SegmentsOK, KeysOK, CaptionsOK
<1>2. CASE DirectionNext
  BY <1>2, ListeningTells, WorkingTells DEF DirectionNext
<1> QED BY <1>1, <1>2

\* Each utterance has one first chunk, and each unit a final caption of its own, whatever
\* is said, cut short or abandoned in between (_utterance_grouping, subtitles.py).
THEOREM UnitsAreTold == DirectionSpec => []UnitsAreToldApart
<1>1. ASSUME DirectionInv, UnitsInv PROVE UnitsAreToldApart
  <2>1. PICK S : units \in Seq(S)
    BY <1>1 DEF DirectionInv, QueueOK
  <2>2. DOMAIN units = 1 .. Len(units) /\ Len(units) \in Nat
    BY <2>1, LenProperties
  <2> QED
    BY <1>1, <2>2
    DEF UnitsInv, KeysOK, CaptionsOK, UnitsAreToldApart, OneFirstChunk, CaptionsDelivered
<1>2. DirectionInv /\ UnitsInv /\ [DirectionNext]_directionVars => UnitsInv'
  BY UnitsKeep
<1> QED BY <1>1, <1>2, UnitsStart, DirectionInvariant, PTL DEF DirectionSpec

----------------------------------------------------------------------------
(* What is counted and kept of one direction stays in its bounds. *)

\* The units committed, and the speech start of the next: told apart by the unit that
\* follows it.
UnitsTyped(us, x) ==
    /\ us \in Seq(UnitType) /\ x.anchor \in 0 .. Len(us) + 1 /\ x.segment \in Segments \cup {0}

\* The task counts its chunks and has read an epoch there was.
PlayBounds ==
    /\ epoch \in 0 .. MaxBargeIns
    /\ work.epoch \in 0 .. MaxBargeIns /\ work.chunks \in 0 .. MaxChunks

EndBounds ==
    /\ worker \in {"on", "off"} /\ lost \subseteq Units
    /\ close \in [pc : Closings, streak : 0 .. 1]

DirectionBounds == UnitsTyped(units, utt) /\ PlayBounds /\ EndBounds

LEMMA BoundsStart == DirectionInit => DirectionBounds
<1> SUFFICES ASSUME DirectionInit PROVE DirectionBounds
  OBVIOUS
<1>1. units \in Seq(UnitType) /\ Len(units) = 0
  BY EmptySeq DEF DirectionInit
<1>2. UnitsTyped(units, utt)
  BY <1>1 DEF DirectionInit, Silence, UnitsTyped
<1>3. PlayBounds
  BY BoundAssumption DEF DirectionInit, IdleWork, PlayBounds
<1>4. EndBounds
  BY DEF DirectionInit, EndBounds, Closings
<1> QED BY <1>2, <1>3, <1>4 DEF DirectionBounds

LEMMA OneMoreIsTyped ==
    ASSUME NEW s, QueueOK(s.units, s.queue), Len(s.units) + 1 <= MaxUnits, s.utt \in UttRecords,
           KeysOK(s.units, s.utt), UnitsTyped(s.units, s.utt)
    PROVE  UnitsTyped(EnqueueOne(s).units, EnqueueOne(s).utt)
<1> DEFINE us == s.units
           u == Len(us) + 1
           seg == IF s.utt.segment # 0 THEN s.utt.segment ELSE NewSegment(us)
           first == s.utt.anchor = 0 \/ s.utt.key = 0
           key == IF first THEN u ELSE s.utt.key
           unit == [segment |-> seg, key |-> key, first |-> first, anchor |-> s.utt.anchor]
           x == [s.utt EXCEPT !.segment = 0, !.key = IF s.utt.anchor = 0 THEN 0 ELSE key]
<1>1. EnqueueOne(s).units = Append(us, unit) /\ EnqueueOne(s).utt = x
  BY DEF EnqueueOne
<1>2. us \in Seq(UnitType) /\ Len(us) \in Nat /\ Len(us) <= MaxUnits
  BY LenProperties DEF UnitsTyped, QueueOK
<1>3. seg \in Segments
  <2>1. NewSegment(us) \in Segments
    BY <1>2, SegmentsLeft
  <2> QED BY <2>1 DEF UnitsTyped
<1>4. key \in Units
  BY <1>2, BoundAssumption DEF KeysOK, Units, UttRecords
<1>5. s.utt.anchor \in 0 .. MaxUnits /\ first \in BOOLEAN
  BY <1>2, BoundAssumption DEF UnitsTyped
<1>6. unit \in UnitType
  BY <1>3, <1>4, <1>5 DEF UnitType
<1>7. x.anchor = s.utt.anchor /\ x.segment = 0
  BY DEF UttRecords
<1> HIDE DEF unit, x
<1>8. Append(us, unit) \in Seq(UnitType) /\ Len(Append(us, unit)) = u
  BY <1>2, <1>6, AppendProperties
<1>9. x.anchor \in 0 .. u + 1
  BY <1>2, <1>7 DEF UnitsTyped
<1> QED BY <1>1, <1>7, <1>8, <1>9 DEF UnitsTyped

LEMMA CommittedAreTyped ==
    ASSUME DirectionInv, UnitsInv, UnitsTyped(units, utt), NEW n \in 0 .. 2, Room(n)
    PROVE  UnitsTyped(Enqueue(n).units, Enqueue(n).utt)
<1> DEFINE s0 == [units |-> units, queue |-> queue, utt |-> utt]
           s1 == EnqueueOne(s0)
<1>1. QueueOK(units, queue) /\ WorkOK /\ Len(units) \in Nat /\ utt \in UttRecords
      /\ SegmentsOK(units, utt) /\ KeysOK(units, utt) /\ CaptionsOK(units, queue)
  BY LenProperties DEF DirectionInv, UnitsInv, UnitsTyped
<1>2. CASE n = 0
  BY <1>2 DEF Enqueue
<1>3. ASSUME n > 0
      PROVE  /\ QueueOK(s1.units, s1.queue) /\ Len(s1.units) = Len(units) + 1 /\ s1.utt \in UttRecords
             /\ KeysOK(s1.units, s1.utt) /\ UnitsTyped(s1.units, s1.utt)
  <2>1. Len(units) + 1 <= MaxUnits
    BY <1>1, <1>3, BoundAssumption DEF Room
  <2>2. s0.units = units /\ s0.queue = queue /\ s0.utt = utt
    OBVIOUS
  <2> HIDE DEF s0
  <2>3. UnitsTyped(s1.units, s1.utt)
    BY <1>1, <2>1, <2>2, OneMoreIsTyped
  <2> QED BY <1>1, <2>1, <2>2, <2>3, EnqueueingOne, TellingOneApart
<1>4. CASE n = 1
  BY <1>3, <1>4 DEF Enqueue
<1>5. CASE n = 2
  <2>1. Len(s1.units) + 1 <= MaxUnits
    BY <1>1, <1>3, <1>5, BoundAssumption DEF Room
  <2>2. Enqueue(n) = EnqueueOne(s1)
    BY <1>5 DEF Enqueue
  <2> HIDE DEF s1
  <2> QED BY <1>3, <1>5, <2>1, <2>2, OneMoreIsTyped
<1> QED BY <1>2, <1>3, <1>4, <1>5

LEMMA ListeningIsTyped ==
    ASSUME DirectionInv, UnitsInv, UnitsTyped(units, utt), Listening \/ DirectionTick
    PROVE  UnitsTyped(units', utt')
<1>1. utt \in UttRecords /\ Len(units) \in Nat
  BY LenProperties DEF UnitsInv, UnitsTyped
<1>2. \A n \in 0 .. 2 : Room(n) =>
         /\ Enqueue(n).utt \in UttRecords /\ UnitsTyped(Enqueue(n).units, Enqueue(n).utt)
         /\ NewSegment(Enqueue(n).units) \in Segments
  <2> SUFFICES ASSUME NEW n \in 0 .. 2, Room(n)
               PROVE  /\ Enqueue(n).utt \in UttRecords /\ UnitsTyped(Enqueue(n).units, Enqueue(n).utt)
                      /\ NewSegment(Enqueue(n).units) \in Segments
    OBVIOUS
  <2> DEFINE us == Enqueue(n).units
  <2>1. Enqueue(n).utt \in UttRecords /\ QueueOK(us, Enqueue(n).queue)
    BY TellingApart
  <2>2. UnitsTyped(us, Enqueue(n).utt)
    BY CommittedAreTyped
  <2>3. us \in Seq(UnitType) /\ Len(us) <= MaxUnits
    BY <2>1, <2>2 DEF UnitsTyped, QueueOK
  <2> HIDE DEF us
  <2>4. NewSegment(us) \in Segments
    BY <2>3, SegmentsLeft
  <2> QED BY <2>1, <2>2, <2>4 DEF us
<1>3. \A us, x, y : UnitsTyped(us, x) /\ y.anchor \in {0, x.anchor} /\ y.segment \in Segments \cup {0}
                    /\ Len(us) \in Nat => UnitsTyped(us, y)
  BY DEF UnitsTyped
<1>4. \A us, x : UnitsTyped(us, x) => Len(us) \in Nat /\ x.segment \in Segments \cup {0}
  BY LenProperties DEF UnitsTyped
<1>5. CASE SpeechStart
  <2> DEFINE y == [ResetUtterance(utt) EXCEPT !.anchor = Anchor, !.chunk = "empty"]
  <2>1. y.anchor = Len(units) + 1 /\ y.segment = 0
    BY <1>1 DEF ResetUtterance, UttRecords, Anchor
  <2>2. utt' = y /\ units' = units
    BY <1>5 DEF SpeechStart
  <2> HIDE DEF y
  <2> QED BY <1>1, <2>1, <2>2 DEF UnitsTyped
<1>6. CASE Partial
  <2>1. PICK n \in 0 .. 2, chunk \in Chunks : \E segment \in ShownIn(Enqueue(n)) :
          /\ Room(n) /\ units' = Enqueue(n).units
          /\ utt' = [Enqueue(n).utt EXCEPT !.chunk = chunk, !.segment = segment]
    BY <1>6 DEF Partial
  <2>2. PICK segment \in ShownIn(Enqueue(n)) :
          /\ Room(n) /\ units' = Enqueue(n).units
          /\ utt' = [Enqueue(n).utt EXCEPT !.chunk = chunk, !.segment = segment]
    BY <2>1
  <2> DEFINE x == Enqueue(n).utt
             y == [x EXCEPT !.chunk = chunk, !.segment = segment]
             us == Enqueue(n).units
  <2>3. x \in UttRecords /\ UnitsTyped(us, x) /\ NewSegment(us) \in Segments
    BY <1>2, <2>2
  <2>4. segment \in Segments \cup {0}
    BY <1>4, <2>3 DEF ShownIn
  <2>5. y.anchor = x.anchor /\ y.segment = segment
    BY <2>3 DEF UttRecords
  <2>6. utt' = y /\ units' = us
    BY <2>2
  <2> HIDE DEF x, y, us
  <2> QED BY <1>3, <1>4, <2>3, <2>4, <2>5, <2>6
<1>7. CASE Final
  <2>1. PICK n \in 0 .. 2 :
          /\ Room(n) /\ units' = Enqueue(n).units
          /\ utt' = [ResetUtterance(Enqueue(n).utt) EXCEPT !.chunk = "empty"]
    BY <1>7 DEF Final
  <2> DEFINE x == Enqueue(n).utt
             y == [ResetUtterance(x) EXCEPT !.chunk = "empty"]
             us == Enqueue(n).units
  <2>2. x \in UttRecords /\ UnitsTyped(us, x)
    BY <1>2, <2>1
  <2>3. y.anchor = 0 /\ y.segment = 0
    BY <2>2 DEF UttRecords, ResetUtterance
  <2>4. utt' = y /\ units' = us
    BY <2>1
  <2> HIDE DEF x, y, us
  <2> QED BY <1>3, <1>4, <2>2, <2>3, <2>4
<1>8. CASE DirectionTick
  <2>1. CASE utt' = [utt EXCEPT !.chunk = "pending"] /\ UNCHANGED units
    <3>1. utt'.anchor = utt.anchor /\ utt'.segment = utt.segment
      BY <1>1, <2>1 DEF UttRecords
    <3> QED BY <2>1, <3>1 DEF UnitsTyped
  <2>2. CASE Room(1) /\ units' = Enqueue(1).units /\ utt' = [Enqueue(1).utt EXCEPT !.chunk = "empty"]
    <3> DEFINE x == Enqueue(1).utt
               us == Enqueue(1).units
    <3>1. x \in UttRecords /\ UnitsTyped(us, x)
      BY <1>2, <2>2
    <3>2. utt' = [x EXCEPT !.chunk = "empty"] /\ units' = us
      BY <2>2
    <3> HIDE DEF x, us
    <3>3. utt'.anchor = x.anchor /\ utt'.segment = x.segment
      BY <3>1, <3>2 DEF UttRecords
    <3> QED BY <3>1, <3>2, <3>3 DEF UnitsTyped
  <2>3. CASE utt' = ResetUtterance(utt) /\ UNCHANGED units
    <3>1. utt'.anchor = 0 /\ utt'.segment = 0
      BY <1>1, <2>3 DEF UttRecords, ResetUtterance
    <3> QED BY <1>1, <2>3, <3>1 DEF UnitsTyped
  <2> QED BY <1>8, <2>1, <2>2, <2>3 DEF DirectionTick
<1> QED BY <1>5, <1>6, <1>7, <1>8 DEF Listening

LEMMA UnitsStayTyped ==
    ASSUME DirectionInv, UnitsInv, UnitsTyped(units, utt), DirectionNext
    PROVE  UnitsTyped(units', utt')
<1>1. CASE Listening \/ DirectionTick
  BY <1>1, ListeningIsTyped
<1>2. ASSUME Working \/ Provided \/ CancelOutput \/ Hangup \/ Closing PROVE UnitsTyped(units', utt')
  <2>1. units' = units /\ (utt' = utt \/ utt' = Silence)
    BY <1>2
    DEF Working, Provided, CancelOutput, Hangup, Closing, Take, Begin, Cancelled, NextUnit,
        Translated, CaptionSent, Synthesised, FrameTaken, SpokenOut, Flushed, SynthesisFails,
        FlushReturns, DrainPoll, DrainTimesOut, LogCloses, CloseNow, speech
  <2>2. Len(units) \in Nat /\ Silence.anchor = 0 /\ Silence.segment = 0
    BY LenProperties DEF UnitsTyped, Silence
  <2> QED BY <2>1, <2>2 DEF UnitsTyped
<1> QED BY <1>1, <1>2 DEF DirectionNext

LEMMA PlayStaysBounded ==
    ASSUME DirectionInv, PlayBounds, DirectionNext PROVE PlayBounds'
<1>1. /\ work \in WorkRecords /\ epoch \in 0 .. MaxBargeIns
      /\ work.epoch \in 0 .. MaxBargeIns /\ work.chunks \in 0 .. MaxChunks
      /\ MaxBargeIns \in Nat /\ MaxChunks \in Nat
  BY BoundAssumption DEF DirectionInv, WorkOK, PlayBounds
<1>2. CASE UNCHANGED <<work, epoch>>
  BY <1>1, <1>2 DEF PlayBounds
<1>3. ASSUME epoch' = epoch, \E p \in Phases : work' = [work EXCEPT !.phase = p] PROVE PlayBounds'
  BY <1>1, <1>3 DEF PlayBounds, WorkRecords
<1>4. ASSUME epoch' = epoch, Over \/ work' = IdleWork PROVE PlayBounds'
  <2>1. CASE Over
    <3> DEFINE r == [unit |-> 0, phase |-> "none", epoch |-> 0, cancelled |-> FALSE,
                     text |-> FALSE, chunks |-> 0]
    <3>1. /\ r.epoch = 0 /\ r.chunks = 0 /\ DOMAIN r = DOMAIN work
          /\ work' = [r EXCEPT !.unit = work.unit, !.phase = "done", !.cancelled = work.cancelled]
      BY <1>1, <2>1 DEF Over, IdleWork, WorkRecords
    <3>2. {"epoch", "chunks"} \subseteq DOMAIN r
      OBVIOUS
    <3> HIDE DEF r
    <3>3. work'.epoch = 0 /\ work'.chunks = 0
      BY <3>1, <3>2
    <3> QED BY <1>1, <1>4, <3>3 DEF PlayBounds
  <2>2. CASE work' = IdleWork
    BY <1>1, <1>4, <2>2 DEF PlayBounds, IdleWork
  <2> QED BY <1>4, <2>1, <2>2
<1>5. CASE Listening \/ DirectionTick \/ Hangup \/ LogCloses
  BY <1>2, <1>5 DEF Listening, SpeechStart, Partial, Final, DirectionTick, Hangup, LogCloses
<1>6. CASE Take
  BY <1>1, <1>6 DEF Take, IdleWork, PlayBounds
<1>7. CASE Begin
  BY <1>1, <1>7 DEF Begin, PlayBounds, WorkRecords
<1>8. CASE Cancelled \/ NextUnit \/ Flushed \/ SynthesisFails
  BY <1>4, <1>8 DEF Cancelled, NextUnit, Flushed, SynthesisFails
<1>9. CASE Translated
  BY <1>1, <1>9 DEF Translated, PlayBounds, WorkRecords
<1>10. CASE CaptionSent
  BY <1>3, <1>4, <1>10 DEF CaptionSent, Goes, Phases
<1>11. CASE Synthesised
  <2>1. work.chunks + 1 \in 0 .. MaxChunks
    BY <1>1, <1>11 DEF Synthesised
  <2>2. work' = [work EXCEPT !.phase = "frame", !.chunks = work.chunks + 1]
        \/ work' = [work EXCEPT !.chunks = work.chunks + 1]
    BY <1>1, <1>11 DEF Synthesised, WorkRecords
  <2>3. epoch' = epoch
    BY <1>11 DEF Synthesised
  <2> QED BY <1>1, <2>1, <2>2, <2>3 DEF PlayBounds, WorkRecords
<1>12. CASE FrameTaken
  BY <1>2, <1>3, <1>12 DEF FrameTaken, Goes, Phases
<1>13. CASE SpokenOut
  BY <1>3, <1>4, <1>13 DEF SpokenOut, Goes, Phases
<1>14. ASSUME work' = CancelUnit, epoch' \in 0 .. MaxBargeIns PROVE PlayBounds'
  BY <1>1, <1>14 DEF CancelUnit, PlayBounds, WorkRecords
<1>15. CASE CancelOutput
  <2>1. epoch' \in 0 .. MaxBargeIns
    BY <1>1, <1>15 DEF CancelOutput
  <2> QED BY <1>14, <1>15, <2>1 DEF CancelOutput
<1>16. CASE DrainPoll \/ DrainTimesOut
  BY <1>1, <1>2, <1>14, <1>16 DEF DrainPoll, DrainTimesOut, CloseNow
<1>17. CASE FlushReturns
  <2>1. UNCHANGED <<work, epoch>>
    BY <1>17 DEF FlushReturns
  <2> QED BY <1>2, <2>1
<1> QED
  BY <1>5, <1>6, <1>7, <1>8, <1>9, <1>10, <1>11, <1>12, <1>13, <1>15, <1>16, <1>17
  DEF DirectionNext, Working, Provided, Closing

LEMMA EndStaysBounded ==
    ASSUME DirectionInv, EndBounds, DirectionNext PROVE EndBounds'
<1>1. close \in [pc : Closings, streak : 0 .. 1] /\ worker \in {"on", "off"} /\ lost \subseteq Units
  BY DEF EndBounds
<1>2. worker' \in {"on", "off"}
  BY <1>1
  DEF DirectionNext, Listening, DirectionTick, Working, Provided, CancelOutput, Hangup, Closing,
      SpeechStart, Partial, Final, Take, Begin, Cancelled, NextUnit, Translated, CaptionSent,
      Synthesised, FrameTaken, SpokenOut, Flushed, SynthesisFails, FlushReturns, DrainPoll, DrainTimesOut,
      LogCloses, CloseNow
<1>3. lost' \subseteq Units
  <2>1. CASE Cancelled
    BY <1>1, <2>1 DEF Cancelled, DirectionInv, WorkOK
  <2>2. CASE ~Cancelled
    BY <1>1, <2>2
    DEF DirectionNext, Listening, DirectionTick, Working, Provided, CancelOutput, Hangup, Closing,
        SpeechStart, Partial, Final, Take, Begin, NextUnit, Translated, CaptionSent,
        Synthesised, FrameTaken, SpokenOut, Flushed, SynthesisFails, FlushReturns, DrainPoll, DrainTimesOut,
        LogCloses
  <2> QED BY <2>1, <2>2
<1>4. close' \in [pc : Closings, streak : 0 .. 1]
  <2>1. CASE Hangup \/ FlushReturns \/ LogCloses
    BY <1>1, <2>1 DEF Hangup, FlushReturns, LogCloses, Closings
  <2>2. CASE DrainPoll \/ DrainTimesOut
    BY <1>1, <2>2 DEF DrainPoll, DrainTimesOut, CloseNow, Closings
  <2>3. CASE UNCHANGED close
    BY <1>1, <2>3
  <2> QED
    BY <2>1, <2>2, <2>3
    DEF DirectionNext, Listening, DirectionTick, Working, Provided, CancelOutput, Closing,
        SpeechStart, Partial, Final, Take, Begin, Cancelled, NextUnit, Translated, CaptionSent,
        Synthesised, FrameTaken, SpokenOut, Flushed, SynthesisFails
<1> QED BY <1>2, <1>3, <1>4 DEF EndBounds

\* Units that are told apart are no more than there may be.
LEMMA QueueIsShort ==
    ASSUME NEW q \in Seq(Units), \A i, j \in 1 .. Len(q) : i # j => q[i] # q[j]
    PROVE  Len(q) <= MaxUnits
<1>1. Len(q) \in Nat /\ q \in [1 .. Len(q) -> Units]
  BY LenProperties
<1>2. q \in Injection(1 .. Len(q), Units)
  BY <1>1 DEF Injection, IsInjective
<1>3. IsFiniteSet(Units) /\ Cardinality(Units) = MaxUnits
  BY BoundAssumption, FS_Interval DEF Units
<1>4. Cardinality(1 .. Len(q)) = Len(q)
  BY <1>1, FS_Interval
<1>5. Cardinality(1 .. Len(q)) <= Cardinality(Units)
  BY <1>2, <1>3, FS_Injection
<1> QED BY <1>3, <1>4, <1>5

LEMMA DirectionIsTyped == DirectionInv /\ UnitsInv /\ DirectionBounds => DirectionTypeOK
<1> SUFFICES ASSUME DirectionInv, UnitsInv, DirectionBounds PROVE DirectionTypeOK
  OBVIOUS
<1>1. units \in Seq(UnitType) /\ Len(units) <= MaxUnits /\ Len(units) \in Nat
      /\ DOMAIN units = 1 .. Len(units)
  BY LenProperties DEF DirectionInv, QueueOK, DirectionBounds, UnitsTyped
<1>2. utt \in [anchor : 0 .. MaxUnits + 1, key : 0 .. MaxUnits,
               segment : Segments \cup {0}, chunk : Chunks]
  <2>1. utt \in UttRecords /\ utt.segment \in Segments \cup {0}
    BY DEF UnitsInv, DirectionBounds, UnitsTyped
  <2>2. utt.anchor \in 0 .. MaxUnits + 1
    BY <1>1, BoundAssumption DEF DirectionBounds, UnitsTyped
  <2>3. utt.key \in 0 .. MaxUnits
    BY <1>1, <2>1, BoundAssumption DEF UnitsInv, KeysOK, UttRecords
  <2> QED BY <2>1, <2>2, <2>3 DEF UttRecords
<1>3. queue \in Seq(Units) /\ Len(queue) <= MaxUnits
  BY QueueIsShort DEF DirectionInv, QueueOK
<1>4. work \in [unit : 0 .. MaxUnits, phase : Phases, epoch : 0 .. MaxBargeIns,
                cancelled : BOOLEAN, text : BOOLEAN, chunks : 0 .. MaxChunks]
  BY DEF DirectionInv, WorkOK, WorkRecords, DirectionBounds, PlayBounds
<1>5. epoch \in 0 .. MaxBargeIns /\ sink \subseteq 0 .. MaxBargeIns
  BY DEF DirectionInv, EpochOK, DirectionBounds, PlayBounds
<1>6. heard \subseteq Units
  BY DEF DirectionInv, WorkOK, Playing
<1>7. captions \in [final : SUBSET Segments, refused : SUBSET Units]
  <2>1. \A i \in 1 .. Len(units) : units[i].segment \in Segments
    <3>1. \A i \in 1 .. Len(units) : units[i] \in UnitType
      BY <1>1, ElementOfSeq
    <3> QED BY <3>1 DEF UnitType
  <2>2. captions \in [final : SUBSET {units[i].segment : i \in 1 .. Len(units)}, refused : {{}}]
    BY DEF UnitsInv, CaptionsOK
  <2>3. captions.final \subseteq Segments /\ captions.refused = {}
    BY <2>1, <2>2
  <2>4. captions = [final |-> captions.final, refused |-> captions.refused]
    BY <2>2
  <2> QED BY <2>3, <2>4
<1> QED
  BY <1>1, <1>2, <1>3, <1>4, <1>5, <1>6, <1>7
  DEF DirectionTypeOK, DirectionInv, RowsOK, DirectionBounds, EndBounds

\* No more units wait than there are, a speech start is told apart from those before it, and
\* a task has read an epoch there was, wherever it is cut.
THEOREM DirectionTypes == DirectionSpec => []DirectionTypeOK
<1>1. ASSUME DirectionInv, UnitsInv, DirectionBounds, [DirectionNext]_directionVars
      PROVE  UnitsInv' /\ DirectionBounds'
  <2>1. CASE UNCHANGED directionVars
    <3>1. UnitsInv'
      BY <1>1, <2>1, UnitsKeep
    <3>2. DirectionBounds'
      BY <1>1, <2>1 DEF directionVars, DirectionBounds, UnitsTyped, PlayBounds, EndBounds
    <3> QED BY <3>1, <3>2
  <2>2. CASE DirectionNext
    BY <1>1, <2>2, UnitsKeep, UnitsStayTyped, PlayStaysBounded, EndStaysBounded DEF DirectionBounds
  <2> QED BY <1>1, <2>1, <2>2
<1> QED BY <1>1, BoundsStart, UnitsStart, DirectionInvariant, DirectionIsTyped, PTL DEF DirectionSpec

----------------------------------------------------------------------------
\* The room and its readers.

\* What is published is the newest microphone, and no later one has a reader.
MicOK ==
    \A p \in Speakers :
      /\ mic[p].track \in {0, mic[p].count}
      /\ \A t \in Tracks : t > mic[p].count => readers[p][t] = "none"

\* Before the directions are there nobody reads, and no microphone came too early.
StartOK ==
    relay.pc = "connecting" =>
      /\ DOMAIN table = {}
      /\ \A p \in Speakers : ~mic[p].late /\ \A t \in Tracks : readers[p][t] = "none"

\* While they are, an entry is of a reader that was started; who reads is entered, and
\* reads what is published; and what is published is read, or waits for its speaker's
\* earlier reader for ever, or for the relay to be ready.
ReadOK(p) ==
    /\ p \in DOMAIN table => table[p] <= mic[p].count /\ readers[p][table[p]] # "none"
    /\ \A t \in Tracks : readers[p][t] = "reading" =>
         mic[p].track = t /\ p \in DOMAIN table /\ table[p] = t
    /\ \A t \in Tracks : mic[p].track = t /\ mic[p].late =>
         readers[p][t] = "none" /\ p \in DOMAIN table /\ table[p] < t
    /\ \A t \in Tracks : mic[p].track = t /\ ~mic[p].late =>
         readers[p][t] \in {"reading", "failed"} \/ (relay.pc = "starting" /\ p \notin DOMAIN table)

Runs == relay.pc \in {"starting", "ready"}

RoomInv == RelayTypeOK /\ MicOK /\ StartOK /\ (Runs => \A p \in Speakers : ReadOK(p))

----------------------------------------------------------------------------
LEMMA RoomStarts == RelayInit => RoomInv
<1> SUFFICES ASSUME RelayInit PROVE RoomInv
  OBVIOUS
<1>1. Cardinality(Speakers) \in Nat
  BY RelayAssumption, FS_CardinalityType
<1>2. 0 \in 0 .. MaxTracks /\ 0 \in 0 .. Cardinality(Speakers)
  BY <1>1, RelayAssumption
<1>3. RelayTypeOK
  BY <1>2 DEF RelayInit, RelayTypeOK, Reader, RelayPcs, NoTable
<1>4. MicOK /\ StartOK /\ ~Runs
  BY RelayAssumption DEF RelayInit, MicOK, StartOK, Runs, NoTable, Tracks
<1> QED BY <1>3, <1>4 DEF RoomInv

\* A step that leaves a speaker's microphone, readers and entry as they are.
LEMMA OthersKeep ==
    ASSUME NEW q \in Speakers, ReadOK(q), mic'[q] = mic[q], readers'[q] = readers[q],
           q \in DOMAIN table' <=> q \in DOMAIN table,
           q \in DOMAIN table => table'[q] = table[q], UNCHANGED relay
    PROVE  ReadOK(q)'
  BY DEF ReadOK

\* The readers of a speaker, when all of them are told to stop.
LEMMA Stopping ==
    ASSUME RelayTypeOK, NEW p \in Speakers
    PROVE  /\ Stops(p) \in [Tracks -> Reader]
           /\ \A t \in Tracks : /\ Stops(p)[t] # "reading"
                                /\ Stops(p)[t] = "none" <=> readers[p][t] = "none"
  BY DEF RelayTypeOK, Stops, Reader

LEMMA PublishKeeps ==
    ASSUME RoomInv, NEW p \in Speakers, Publish(p) PROVE RoomInv'
<1> DEFINE t == mic[p].count + 1
           a == Attached(readers, p, t)
           late == HasDirections /\ AtWork(readers, p)
<1>1. /\ mic \in [Speakers -> [track : 0 .. MaxTracks, count : 0 .. MaxTracks, late : BOOLEAN]]
      /\ readers \in [Speakers -> [Tracks -> Reader]]
      /\ DOMAIN table \subseteq Speakers /\ \A q \in DOMAIN table : table[q] \in Tracks
      /\ UNCHANGED relay
  BY DEF RoomInv, RelayTypeOK, Publish
<1>2. t \in Tracks /\ t > mic[p].count /\ mic[p].track = 0 /\ mic[p].count \in Nat /\ readers[p][t] = "none"
  BY <1>1, RelayAssumption DEF Publish, Tracks, RoomInv, MicOK
<1>3. mic' = [mic EXCEPT ![p] = [track |-> t, count |-> t, late |-> late]] /\ late \in BOOLEAN
  BY DEF Publish
<1>t. t = mic[p].count + 1
  OBVIOUS
<1> HIDE DEF t, late
<1>4. /\ mic'[p] = [track |-> t, count |-> t, late |-> late]
      /\ \A q \in Speakers : q # p => mic'[q] = mic[q]
      /\ mic' \in [Speakers -> [track : 0 .. MaxTracks, count : 0 .. MaxTracks, late : BOOLEAN]]
  BY <1>1, <1>2, <1>3, RelayAssumption DEF Tracks
<1>5. CASE UNCHANGED <<readers, table>> /\ ~HasDirections
  <2>1. RelayTypeOK'
    BY <1>1, <1>4, <1>5 DEF RoomInv, RelayTypeOK
  <2>2. MicOK'
    <3>1. \A k \in Tracks : k > t => k > mic[p].count
      BY <1>2, RelayAssumption DEF Tracks
    <3> QED BY <1>4, <1>5, <3>1 DEF RoomInv, MicOK
  <2>3. StartOK' /\ ~Runs'
    <3>1. ~late
      BY <1>5 DEF late
    <3>2. relay.pc \notin {"starting", "ready"} /\ relay' = relay
      BY <1>1, <1>5 DEF HasDirections
    <3>3. ~Runs'
      BY <3>2 DEF Runs
    <3>4. StartOK'
      <4> SUFFICES ASSUME relay.pc = "connecting"
                   PROVE  /\ DOMAIN table = {}
                          /\ \A q \in Speakers : ~mic'[q].late /\ \A k \in Tracks : readers[q][k] = "none"
        BY <1>5, <3>2 DEF StartOK
      <4>1. DOMAIN table = {} /\ \A q \in Speakers : ~mic[q].late /\ \A k \in Tracks : readers[q][k] = "none"
        BY DEF RoomInv, StartOK
      <4>2. ASSUME NEW q \in Speakers PROVE ~mic'[q].late
        <5>1. CASE q = p
          BY <1>4, <3>1, <5>1
        <5>2. CASE q # p
          BY <1>4, <4>1, <5>2
        <5> QED BY <5>1, <5>2
      <4> QED BY <4>1, <4>2
    <3> QED BY <3>3, <3>4
  <2> QED BY <2>1, <2>2, <2>3 DEF RoomInv
<1>6. CASE /\ HasDirections /\ readers' = a.rs
           /\ table' = [q \in DOMAIN table \cup a.entry |-> IF q \in a.entry THEN t ELSE table[q]]
  <2>1. \/ /\ p \in DOMAIN table /\ readers[p][table[p]] \notin ReaderOver
           /\ readers' = readers /\ late
           /\ DOMAIN table' = DOMAIN table /\ \A q \in DOMAIN table : table'[q] = table[q]
        \/ /\ readers' = [readers EXCEPT ![p][t] = "reading"] /\ ~late
           /\ table' = [q \in DOMAIN table \cup {p} |-> IF q = p THEN t ELSE table[q]]
    <3>1. CASE p \in DOMAIN table /\ readers[p][table[p]] \notin ReaderOver
      <4>1. a = [rs |-> readers, entry |-> {}]
        BY <3>1 DEF Attached, AtWork
      <4>2. late
        BY <1>6, <3>1 DEF late, AtWork
      <4> QED BY <1>6, <3>1, <4>1, <4>2
    <3>2. CASE ~(p \in DOMAIN table /\ readers[p][table[p]] \notin ReaderOver)
      <4>1. a = [rs |-> [readers EXCEPT ![p][t] = "reading"], entry |-> {p}]
        BY <3>2 DEF Attached, AtWork
      <4>2. ~late
        BY <3>2 DEF late, AtWork
      <4> QED BY <1>6, <3>2, <4>1, <4>2
    <3> QED BY <3>1, <3>2
  <2>2. CASE /\ p \in DOMAIN table /\ readers' = readers /\ late
             /\ DOMAIN table' = DOMAIN table /\ \A q \in DOMAIN table : table'[q] = table[q]
    <3>1. RelayTypeOK'
      BY <1>1, <1>4, <2>2 DEF RoomInv, RelayTypeOK
    <3>2. MicOK'
      <4>1. \A k \in Tracks : k > t => k > mic[p].count
        BY <1>2, RelayAssumption DEF Tracks
      <4> QED BY <1>4, <2>2, <4>1 DEF RoomInv, MicOK
    <3>3. StartOK'
      BY <1>1, <1>6 DEF HasDirections, StartOK
    <3>4. ASSUME Runs PROVE ReadOK(p)'
      <4>1. ReadOK(p)
        BY <3>4 DEF RoomInv
      <4>2. table[p] \in Tracks /\ table[p] < t /\ table[p] <= t /\ readers[p][table[p]] # "none"
        BY <1>1, <1>2, <1>t, <2>2, <4>1, RelayAssumption DEF ReadOK, Tracks
      <4>3. \A k \in Tracks : readers[p][k] # "reading"
        BY <1>2, <4>1 DEF ReadOK, Tracks
      <4> QED BY <1>2, <1>4, <2>2, <4>2, <4>3 DEF ReadOK
    <3>5. ASSUME Runs, NEW q \in Speakers, q # p PROVE ReadOK(q)'
      BY <1>1, <1>4, <2>2, <3>5, OthersKeep DEF RoomInv
    <3> QED BY <1>1, <3>1, <3>2, <3>3, <3>4, <3>5 DEF RoomInv, Runs
  <2>3. CASE /\ readers' = [readers EXCEPT ![p][t] = "reading"] /\ ~late
             /\ table' = [q \in DOMAIN table \cup {p} |-> IF q = p THEN t ELSE table[q]]
    <3>1. /\ readers' \in [Speakers -> [Tracks -> Reader]]
          /\ readers'[p][t] = "reading"
          /\ \A k \in Tracks : k # t => readers'[p][k] = readers[p][k]
          /\ \A q \in Speakers : q # p => readers'[q] = readers[q]
      BY <1>1, <1>2, <2>3 DEF Reader
    <3>2. /\ DOMAIN table' = DOMAIN table \cup {p} /\ table'[p] = t
          /\ \A q \in DOMAIN table : q # p => table'[q] = table[q]
      BY <2>3
    <3>3. RelayTypeOK'
      <4>1. \A q \in DOMAIN table' : table'[q] \in Tracks
        BY <1>1, <1>2, <3>2
      <4>2. DOMAIN table' \subseteq Speakers
        BY <1>1, <3>2
      <4> QED BY <1>1, <1>4, <3>1, <4>1, <4>2 DEF RoomInv, RelayTypeOK
    <3>4. MicOK'
      <4>1. \A k \in Tracks : k > t => k > mic[p].count /\ k # t
        BY <1>2, RelayAssumption DEF Tracks
      <4> QED BY <1>4, <3>1, <4>1 DEF RoomInv, MicOK
    <3>5. StartOK'
      BY <1>1, <1>6 DEF HasDirections, StartOK
    <3>6. ASSUME Runs PROVE ReadOK(p)'
      <4>1. \A k \in Tracks : readers[p][k] # "reading"
        BY <1>2, <3>6 DEF RoomInv, ReadOK, Tracks
      <4>2. \A k \in Tracks : readers'[p][k] = "reading" => k = t
        BY <3>1, <4>1
      <4>3. t <= t
        BY <1>2, RelayAssumption DEF Tracks
      <4>4. mic'[p].track = t /\ mic'[p].count = t /\ ~mic'[p].late
        BY <1>4, <2>3
      <4> QED BY <3>1, <3>2, <4>2, <4>3, <4>4 DEF ReadOK
    <3>7. ASSUME Runs, NEW q \in Speakers, q # p PROVE ReadOK(q)'
      BY <1>1, <1>4, <3>1, <3>2, <3>7, OthersKeep DEF RoomInv
    <3> QED BY <1>1, <3>3, <3>4, <3>5, <3>6, <3>7 DEF RoomInv, Runs
  <2> QED BY <2>1, <2>2, <2>3
<1> QED BY <1>5, <1>6 DEF Publish, t

\* A track ends, its speaker is still there or not.
LEMMA LeavingKeeps ==
    ASSUME RoomInv, NEW p \in Speakers, Unpublish(p) \/ SpeakerLeaves(p) PROVE RoomInv'
<1>1. /\ mic' = [mic EXCEPT ![p].track = 0, ![p].late = FALSE]
      /\ readers' = [readers EXCEPT ![p] = Stops(p)]
      /\ UNCHANGED relay
      /\ table' = table \/ table' = [q \in DOMAIN table \ {p} |-> table[q]]
  BY DEF Unpublish, SpeakerLeaves, Silenced
<1>2. RelayTypeOK /\ Stops(p) \in [Tracks -> Reader]
      /\ \A t \in Tracks : Stops(p)[t] # "reading" /\ (Stops(p)[t] = "none" <=> readers[p][t] = "none")
  BY Stopping DEF RoomInv
<1>3. /\ mic' \in [Speakers -> [track : 0 .. MaxTracks, count : 0 .. MaxTracks, late : BOOLEAN]]
      /\ mic'[p].track = 0 /\ mic'[p].count = mic[p].count /\ ~mic'[p].late
      /\ \A q \in Speakers : q # p => mic'[q] = mic[q]
  <2> DEFINE m == [mic[p] EXCEPT !.track = 0, !.late = FALSE]
  <2>1. /\ mic \in [Speakers -> [track : 0 .. MaxTracks, count : 0 .. MaxTracks, late : BOOLEAN]]
        /\ 0 \in 0 .. MaxTracks
    BY <1>2, RelayAssumption DEF RelayTypeOK
  <2>2. /\ m \in [track : 0 .. MaxTracks, count : 0 .. MaxTracks, late : BOOLEAN]
        /\ m.track = 0 /\ m.count = mic[p].count /\ m.late = FALSE
    BY <2>1
  <2>3. mic' = [mic EXCEPT ![p] = m]
    BY <1>1, <2>1
  <2> HIDE DEF m
  <2>4. mic'[p] = m /\ \A q \in Speakers : q # p => mic'[q] = mic[q]
    BY <2>1, <2>3
  <2>5. mic' \in [Speakers -> [track : 0 .. MaxTracks, count : 0 .. MaxTracks, late : BOOLEAN]]
    BY <2>1, <2>2, <2>3
  <2> QED BY <2>2, <2>4, <2>5
<1>4. /\ readers' \in [Speakers -> [Tracks -> Reader]] /\ readers'[p] = Stops(p)
      /\ \A q \in Speakers : q # p => readers'[q] = readers[q]
  BY <1>1, <1>2 DEF RelayTypeOK
<1>5. DOMAIN table' \subseteq DOMAIN table /\ DOMAIN table \ {p} \subseteq DOMAIN table'
      /\ \A q \in DOMAIN table' : table'[q] = table[q]
  BY <1>1
<1>6. RelayTypeOK'
  BY <1>1, <1>2, <1>3, <1>4, <1>5 DEF RelayTypeOK
<1>7. MicOK' /\ StartOK'
  <2>1. \A q \in Speakers, t \in Tracks : readers[q][t] = "none" => readers'[q][t] = "none"
    BY <1>2, <1>4
  <2>2. MicOK'
    BY <1>1, <1>3, <2>1 DEF RoomInv, MicOK
  <2>3. StartOK'
    BY <1>1, <1>3, <1>5, <2>1 DEF RoomInv, StartOK
  <2> QED BY <2>2, <2>3
<1>8. ASSUME Runs PROVE ReadOK(p)'
  <2>1. ReadOK(p)
    BY <1>8 DEF RoomInv
  <2>2. p \in DOMAIN table' => table'[p] = table[p] /\ table[p] \in Tracks
    BY <1>2, <1>5 DEF RelayTypeOK
  <2> QED BY <1>2, <1>3, <1>4, <1>5, <2>1, <2>2 DEF ReadOK, Tracks
<1>9. ASSUME Runs, NEW q \in Speakers, q # p PROVE ReadOK(q)'
  BY <1>1, <1>3, <1>4, <1>5, <1>9, OthersKeep DEF RoomInv
<1> QED BY <1>1, <1>6, <1>7, <1>8, <1>9 DEF RoomInv, Runs

LEMMA DirectionsStartKeep ==
    ASSUME RoomInv, DirectionsStart PROVE RoomInv'
<1>1. /\ relay.pc = "connecting" /\ relay' = [relay EXCEPT !.pc = "starting"]
      /\ UNCHANGED <<mic, readers, table>> /\ RelayTypeOK /\ MicOK
      /\ DOMAIN table = {}
      /\ \A p \in Speakers : ~mic[p].late /\ \A t \in Tracks : readers[p][t] = "none"
  BY DEF RoomInv, StartOK, DirectionsStart
<1>2. relay'.pc = "starting" /\ RelayTypeOK'
  BY <1>1 DEF RelayTypeOK, RelayPcs
<1>3. MicOK' /\ StartOK'
  BY <1>1, <1>2 DEF MicOK, StartOK
<1>4. \A p \in Speakers : ReadOK(p)'
  BY <1>1, <1>2 DEF ReadOK
<1> QED BY <1>2, <1>3, <1>4 DEF RoomInv

LEMMA ReadyKeeps ==
    ASSUME RoomInv, RelayReady PROVE RoomInv'
<1> DEFINE new == {p \in Speakers : mic[p].track # 0 /\ Attached(readers, p, mic[p].track).entry # {}}
<1>1. /\ relay.pc = "starting" /\ relay' = [relay EXCEPT !.pc = "ready"]
      /\ readers' = [p \in Speakers |-> IF p \in new THEN [readers[p] EXCEPT ![mic[p].track] = "reading"]
                                        ELSE readers[p]]
      /\ table' = [p \in DOMAIN table \cup new |-> IF p \in new THEN mic[p].track ELSE table[p]]
      /\ mic' = [p \in Speakers |-> IF p \in new THEN [mic[p] EXCEPT !.late = FALSE] ELSE mic[p]]
  BY DEF RelayReady
<1>2. RelayTypeOK /\ MicOK /\ \A p \in Speakers : ReadOK(p)
  BY <1>1 DEF RoomInv, Runs
<1>3. \A p \in new : mic[p].track \in Tracks /\ mic[p].track = mic[p].count /\ mic[p].count \in Nat
  BY <1>2, RelayAssumption DEF MicOK, RelayTypeOK, Tracks
<1>4. \A p \in Speakers : p \notin new /\ mic[p].track # 0 =>
        p \in DOMAIN table /\ readers[p][table[p]] \notin ReaderOver
  BY DEF Attached, AtWork
<1>5. relay'.pc = "ready" /\ relay' \in [pc : RelayPcs, size : 0 .. Cardinality(Speakers),
                                         on : {NoReader} \cup (Speakers \X Tracks)]
  BY <1>1, <1>2 DEF RelayTypeOK, RelayPcs
<1>6. new \subseteq Speakers
  OBVIOUS
<1> HIDE DEF new
<1>7. ASSUME NEW p \in new
      PROVE  /\ readers'[p] \in [Tracks -> Reader] /\ readers'[p][mic[p].track] = "reading"
             /\ \A t \in Tracks : t # mic[p].track => readers'[p][t] = readers[p][t]
             /\ mic'[p].track = mic[p].track /\ mic'[p].count = mic[p].count /\ ~mic'[p].late
             /\ mic'[p] \in [track : 0 .. MaxTracks, count : 0 .. MaxTracks, late : BOOLEAN]
             /\ p \in DOMAIN table' /\ table'[p] = mic[p].track
  BY <1>1, <1>2, <1>3, <1>6 DEF RelayTypeOK, Reader
<1>8. ASSUME NEW p \in Speakers, p \notin new
      PROVE  /\ readers'[p] = readers[p] /\ mic'[p] = mic[p]
             /\ p \in DOMAIN table' <=> p \in DOMAIN table
             /\ p \in DOMAIN table => table'[p] = table[p]
  BY <1>1, <1>8
<1>9. RelayTypeOK'
  <2>1. readers' \in [Speakers -> [Tracks -> Reader]]
    <3>1. \A p \in Speakers : readers'[p] \in [Tracks -> Reader]
      BY <1>2, <1>7, <1>8 DEF RelayTypeOK
    <3> QED BY <1>1, <3>1
  <2>2. mic' \in [Speakers -> [track : 0 .. MaxTracks, count : 0 .. MaxTracks, late : BOOLEAN]]
    <3>1. \A p \in Speakers : mic'[p] \in [track : 0 .. MaxTracks, count : 0 .. MaxTracks, late : BOOLEAN]
      BY <1>2, <1>7, <1>8 DEF RelayTypeOK
    <3> QED BY <1>1, <3>1
  <2>3. DOMAIN table' \subseteq Speakers /\ \A p \in DOMAIN table' : table'[p] \in Tracks
    BY <1>1, <1>2, <1>3, <1>6 DEF RelayTypeOK
  <2> QED BY <1>5, <2>1, <2>2, <2>3 DEF RelayTypeOK
<1>10. MicOK' /\ StartOK'
  <2>1. StartOK'
    BY <1>5 DEF StartOK
  <2>2. ASSUME NEW p \in Speakers PROVE mic'[p].track \in {0, mic'[p].count}
    <3>1. CASE p \in new
      BY <1>3, <1>7, <3>1
    <3>2. CASE p \notin new
      BY <1>2, <1>8, <3>2 DEF MicOK
    <3> QED BY <3>1, <3>2
  <2>3. ASSUME NEW p \in Speakers, NEW t \in Tracks, t > mic'[p].count PROVE readers'[p][t] = "none"
    <3>1. CASE p \in new
      <4>1. t # mic[p].track /\ t > mic[p].count
        BY <1>3, <1>7, <2>3, <3>1, RelayAssumption DEF Tracks
      <4> QED BY <1>2, <1>7, <3>1, <4>1 DEF MicOK
    <3>2. CASE p \notin new
      BY <1>2, <1>8, <2>3, <3>2 DEF MicOK
    <3> QED BY <3>1, <3>2
  <2>4. MicOK'
    BY <2>2, <2>3 DEF MicOK
  <2> QED BY <2>1, <2>4
<1>11. ASSUME NEW p \in Speakers PROVE ReadOK(p)'
  <2>1. CASE p \in new
    <3>1. \A t \in Tracks : readers'[p][t] = "reading" => t = mic[p].track
      BY <1>2, <1>7, <2>1 DEF ReadOK
    <3>2. mic[p].track <= mic[p].count
      BY <1>3, <2>1
    <3> QED BY <1>7, <2>1, <3>1, <3>2 DEF ReadOK
  <2>2. CASE p \notin new
    <3>1. ReadOK(p)
      BY <1>2
    <3>2. \A t \in Tracks : mic[p].track = t => p \in DOMAIN table
      BY <1>4, <2>2 DEF Tracks
    <3> QED BY <1>8, <2>2, <3>1, <3>2 DEF ReadOK
  <2> QED BY <2>1, <2>2
<1> QED BY <1>9, <1>10, <1>11 DEF RoomInv

\* A step of the close, or of a reader: nobody starts to read, and no relay is ready
\* afterwards that was not before.
LEMMA QuietKeeps ==
    ASSUME RoomInv, UNCHANGED mic, readers' \in [Speakers -> [Tracks -> Reader]],
           \A p \in Speakers, t \in Tracks : readers[p][t] = "none" => readers'[p][t] = "none",
           relay' \in [pc : RelayPcs \ {"connecting", "starting", "ready"}, size : 0 .. Cardinality(Speakers),
                       on : {NoReader} \cup (Speakers \X Tracks)],
           table' \in {table, NoTable}
    PROVE  RoomInv'
<1>1. relay'.pc \in RelayPcs \ {"connecting", "starting", "ready"}
      /\ relay' \in [pc : RelayPcs, size : 0 .. Cardinality(Speakers),
                     on : {NoReader} \cup (Speakers \X Tracks)]
  OBVIOUS
<1>2. DOMAIN table' \subseteq Speakers /\ \A p \in DOMAIN table' : table'[p] \in Tracks
  BY DEF RoomInv, RelayTypeOK, NoTable
<1>3. RelayTypeOK'
  BY <1>1, <1>2 DEF RoomInv, RelayTypeOK
<1>4. MicOK' /\ StartOK' /\ ~Runs'
  BY <1>1 DEF RoomInv, MicOK, StartOK, Runs
<1> QED BY <1>3, <1>4 DEF RoomInv

\* A reader is done, or its stream raised: who read the track that is published has failed.
LEMMA ReaderEndKeeps ==
    ASSUME RoomInv, NEW p \in Speakers, NEW t \in Tracks, ReaderDone(p, t) \/ ReaderFails(p, t)
    PROVE  RoomInv'
<1>1. PICK over \in ReaderOver :
        /\ readers' = [readers EXCEPT ![p][t] = over] /\ UNCHANGED <<mic, table, relay>>
        /\ readers[p][t] # "none"
        /\ readers[p][t] = "reading" => over = "failed"
  BY DEF ReaderDone, ReaderFails, ReaderOver
<1>2. readers \in [Speakers -> [Tracks -> Reader]] /\ over \in Reader
      /\ over \notin {"none", "reading"}
  BY DEF RoomInv, RelayTypeOK, ReaderOver, Reader
<1>3. readers' \in [Speakers -> [Tracks -> Reader]]
      /\ \A q \in Speakers, k \in Tracks :
           readers'[q][k] = IF q = p /\ k = t THEN over ELSE readers[q][k]
  BY <1>1, <1>2
<1>4. RelayTypeOK'
  BY <1>1, <1>3 DEF RoomInv, RelayTypeOK
<1>5. MicOK' /\ StartOK'
  BY <1>1, <1>3 DEF RoomInv, MicOK, StartOK
<1>6. ASSUME Runs, NEW q \in Speakers PROVE ReadOK(q)'
  <2>1. ReadOK(q)
    BY <1>6 DEF RoomInv
  <2>2. q \in DOMAIN table => table[q] \in Tracks
    BY DEF RoomInv, RelayTypeOK
  <2>3. CASE q = p
    <3>1. \A k \in Tracks : /\ readers'[q][k] = "none" <=> readers[q][k] = "none"
                            /\ readers'[q][k] = "reading" => readers[q][k] = "reading"
                            /\ readers[q][k] \in {"reading", "failed"} /\ readers[q][k] # readers'[q][k]
                                 => k = t /\ (readers[q][k] = "reading" => readers'[q][k] = "failed")
      BY <1>1, <1>2, <1>3, <2>3
    <3>2. readers[p][t] # "failed"
      BY DEF ReaderDone, ReaderFails
    <3>3. \A k \in Tracks : readers[q][k] \in {"reading", "failed"} => readers'[q][k] \in {"reading", "failed"}
      BY <2>3, <3>1, <3>2
    <3> QED BY <1>1, <2>1, <2>2, <3>1, <3>3 DEF ReadOK
  <2>4. CASE q # p
    <3>1. readers'[q] = readers[q]
      BY <1>1, <1>2, <2>4
    <3> QED BY <1>1, <2>1, <3>1, OthersKeep
  <2> QED BY <2>3, <2>4
<1> QED BY <1>1, <1>4, <1>5, <1>6 DEF RoomInv, Runs

LEMMA ClosingTheRoom ==
    ASSUME RoomInv, RelayStopped \/ CloseCancels \/ CloseAwaits \/ CloseDirections \/ CloseLog
    PROVE  RoomInv'
<1> DEFINE Relays == [pc : RelayPcs \ {"connecting", "starting", "ready"}, size : 0 .. Cardinality(Speakers),
                      on : {NoReader} \cup (Speakers \X Tracks)]
<1>1. RelayTypeOK /\ UNCHANGED mic
  BY DEF RoomInv, RelayStopped, CloseCancels, CloseAwaits, CloseDirections, CloseLog
<1>2. \A p \in Speakers : Stops(p) \in [Tracks -> Reader]
                          /\ \A t \in Tracks : readers[p][t] = "none" => Stops(p)[t] = "none"
  BY <1>1, Stopping
<1>3. /\ readers' \in [Speakers -> [Tracks -> Reader]]
      /\ \A p \in Speakers, t \in Tracks : readers[p][t] = "none" => readers'[p][t] = "none"
  <2>1. CASE UNCHANGED readers
    BY <1>1, <2>1 DEF RelayTypeOK
  <2>2. CASE CloseCancels
    BY <1>1, <1>2, <2>2 DEF CloseCancels, RelayTypeOK
  <2>3. CASE CloseLog
    BY <1>1, <1>2, <2>3 DEF CloseLog
  <2> QED BY <2>1, <2>2, <2>3 DEF RelayStopped, CloseAwaits, CloseDirections
<1>4. Cardinality(DOMAIN table) \in 0 .. Cardinality(Speakers)
  BY <1>1, RelayAssumption, FS_Subset, FS_CardinalityType DEF RelayTypeOK
<1>5. ASSUME \/ LoopOn(readers', Cardinality(DOMAIN table))
             \/ LoopOn(readers, relay.size)
      PROVE  relay' \in Relays /\ table' \in {table, NoTable}
  <2>1. DOMAIN table \subseteq Speakers /\ \A p \in DOMAIN table : table[p] \in Tracks
    BY <1>1 DEF RelayTypeOK
  <2>2. 0 \in 0 .. Cardinality(Speakers)
    BY RelayAssumption, FS_CardinalityType
  <2> QED BY <1>1, <1>4, <1>5, <2>1, <2>2 DEF LoopOn, RelayPcs, RelayTypeOK
<1>6. relay' \in Relays /\ table' \in {table, NoTable}
  <2>1. CASE RelayStopped
    BY <1>1, <2>1 DEF RelayStopped, RelayTypeOK, RelayPcs
  <2>2. CASE CloseCancels
    <3>1. LoopOn(readers', Cardinality(DOMAIN table))
      BY <2>2 DEF CloseCancels
    <3> QED BY <1>5, <3>1
  <2>3. CASE CloseAwaits
    <3>1. CASE LoopOn(readers, relay.size)
      BY <1>5, <3>1
    <3>2. CASE relay' = [relay EXCEPT !.pc = "broken"] /\ UNCHANGED table
      BY <1>1, <3>2 DEF RelayTypeOK, RelayPcs
    <3> QED BY <2>3, <3>1, <3>2 DEF CloseAwaits
  <2>4. CASE CloseDirections
    BY <1>1, <2>4 DEF CloseDirections, RelayTypeOK, RelayPcs
  <2>5. CASE CloseLog
    BY <1>1, <2>5 DEF CloseLog, RelayTypeOK, RelayPcs
  <2> QED BY <2>1, <2>2, <2>3, <2>4, <2>5
<1> QED BY <1>1, <1>3, <1>6, QuietKeeps

LEMMA RoomInvariant == RelaySpec => []RoomInv
<1>1. ASSUME RoomInv, [RelayNext]_relayVars PROVE RoomInv'
  <2>1. CASE UNCHANGED relayVars
    BY <1>1, <2>1
    DEF relayVars, RoomInv, RelayTypeOK, MicOK, StartOK, ReadOK, Runs
  <2>2. CASE RelayNext
    BY <1>1, <2>2, PublishKeeps, LeavingKeeps, DirectionsStartKeep, ReadyKeeps, ReaderEndKeeps,
       ClosingTheRoom
    DEF RelayNext, RoomEvents, RelayRuns, RelayCloses
  <2> QED BY <1>1, <2>1, <2>2
<1> QED BY <1>1, RoomStarts, PTL DEF RelaySpec

\* relay.py: whichever comes first, the microphone, the directions or the relay, who has a
\* microphone in a relay that runs is read until the stream raises; but for one published
\* again over the speaker's own earlier reader, which is never read; and nobody else is.
THEOREM EveryMicrophoneIsRead == RelaySpec => []MicrophoneIsRead
<1>1. RoomInv => MicrophoneIsRead
  BY DEF RoomInv, Runs, ReadOK, MicrophoneIsRead
<1> QED BY <1>1, RoomInvariant, PTL

\* Who published, who reads and what each reader is at keep their types, for any speakers and
\* microphones.
THEOREM RelayTypes == RelaySpec => []RelayTypeOK
<1>1. RoomInv => RelayTypeOK
  BY DEF RoomInv
<1> QED BY <1>1, RoomInvariant, PTL

----------------------------------------------------------------------------
\* The recogniser's link.

Items(s) == {s[i] : i \in 1 .. Len(s)}

\* What the sender holds, and counts for until it is done with it.
InHand == IF sender.pc = "send" THEN {sender.frame} ELSE {}
Held == IF sender.pc = "send" THEN 1 ELSE 0

\* What join() waits for is what the queue has and what the sender holds, until the sender
\* is cancelled.
UnfinishedOK == sender.pc # "cancelled" => unfinished = Len(audio) + Held

\* Nothing tells the sender to stop before the session's own close.
StopOK ==
    /\ hang.pc \notin {"stopping", "gone"} => 0 \notin Items(audio) /\ sender.pc \notin {"ended", "cancelled"}
    /\ sender.pc = "send" => sender.frame \in Frames

\* No frame is lost but by a sender that failed.
TakenOK == sender.pc \in {"get", "send"} => micro.taken \subseteq Items(wire) \cup Items(audio) \cup InHand

\* The order to finish has not gone out, and when it does the frames it is about have.
WireOK ==
    /\ hang.pc \in {"talking", "flushing", "joined"} => FlushOrder \notin Items(wire)
    /\ hang.pc = "flushing" => hang.taken \subseteq micro.taken
    /\ hang.pc = "joined" /\ sender.pc # "failed" => hang.taken \subseteq Items(wire)

LinkInv == LinkTypeOK /\ UnfinishedOK /\ StopOK /\ TakenOK /\ WireOK /\ FlushFollowsAudio

----------------------------------------------------------------------------
(* Queues. *)

LEMMA OneMoreItem ==
    ASSUME NEW S, NEW s \in Seq(S), NEW e \in S
    PROVE  /\ Append(s, e) \in Seq(S) /\ Len(Append(s, e)) = Len(s) + 1
           /\ Items(Append(s, e)) = Items(s) \cup {e}
           /\ \A i \in 1 .. Len(s) : Append(s, e)[i] = s[i]
           /\ Append(s, e)[Len(s) + 1] = e
<1>1. /\ Append(s, e) \in Seq(S) /\ Len(Append(s, e)) = Len(s) + 1 /\ Len(s) \in Nat
      /\ \A i \in 1 .. Len(s) : Append(s, e)[i] = s[i]
      /\ Append(s, e)[Len(s) + 1] = e
  BY AppendProperties, LenProperties
<1>2. \A i \in 1 .. Len(s) + 1 : i \in 1 .. Len(s) \/ i = Len(s) + 1
  BY <1>1
<1>3. Items(Append(s, e)) \subseteq Items(s) \cup {e}
  BY <1>1, <1>2 DEF Items
<1>4. Items(s) \cup {e} \subseteq Items(Append(s, e))
  <2>1. \A i \in 1 .. Len(s) : i \in 1 .. Len(s) + 1
    BY <1>1
  <2>2. Len(s) + 1 \in 1 .. Len(s) + 1
    BY <1>1
  <2> HIDE DEF Items
  <2>3. \A x \in Items(s) : x \in Items(Append(s, e))
    BY <1>1, <2>1 DEF Items
  <2>4. e \in Items(Append(s, e))
    BY <1>1, <2>2 DEF Items
  <2> QED BY <2>3, <2>4
<1> QED BY <1>1, <1>3, <1>4

LEMMA OneLessItem ==
    ASSUME NEW S, NEW s \in Seq(S), s # <<>>
    PROVE  /\ Tail(s) \in Seq(S) /\ Len(Tail(s)) = Len(s) - 1 /\ Len(s) \in Nat \ {0}
           /\ Head(s) \in S /\ Head(s) \in Items(s)
           /\ Items(s) = Items(Tail(s)) \cup {Head(s)}
<1>1. /\ Tail(s) \in Seq(S) /\ Len(Tail(s)) = Len(s) - 1 /\ Head(s) = s[1] /\ Head(s) \in S
      /\ \A i \in 1 .. Len(s) - 1 : Tail(s)[i] = s[i + 1]
  BY HeadTailProperties
<1>2. Len(s) \in Nat \ {0}
  BY LenProperties, EmptySeq
<1>3. \A i \in 1 .. Len(s) : i = 1 \/ (i - 1 \in 1 .. Len(s) - 1 /\ i = (i - 1) + 1)
  BY <1>2
<1>4. \A i \in 1 .. Len(s) - 1 : i + 1 \in 1 .. Len(s)
  BY <1>2
<1>5. Items(s) \subseteq Items(Tail(s)) \cup {Head(s)}
  <2> SUFFICES ASSUME NEW i \in 1 .. Len(s) PROVE s[i] \in Items(Tail(s)) \cup {Head(s)}
    BY DEF Items
  <2>1. CASE i = 1
    BY <1>1, <2>1
  <2>2. CASE i # 1
    <3>1. i - 1 \in 1 .. Len(s) - 1 /\ s[i] = Tail(s)[i - 1]
      BY <1>1, <1>3, <2>2
    <3> QED BY <1>1, <3>1 DEF Items
  <2> QED BY <2>1, <2>2
<1>6. Items(Tail(s)) \cup {Head(s)} \subseteq Items(s)
  <2>1. 1 \in 1 .. Len(s)
    BY <1>2
  <2> QED BY <1>1, <1>4, <2>1 DEF Items
<1>7. Head(s) \in Items(s)
  BY <1>6
<1> QED BY <1>1, <1>2, <1>5, <1>6, <1>7

----------------------------------------------------------------------------
LEMMA LinkStarts == LinkInit => LinkInv
<1> SUFFICES ASSUME LinkInit PROVE LinkInv
  OBVIOUS
<1>1. audio = <<>> /\ wire = <<>> /\ Len(audio) = 0 /\ Len(wire) = 0
  BY DEF LinkInit
<1>2. LinkTypeOK
  BY <1>1, LinkAssumption DEF LinkInit, LinkTypeOK, LinkPhases
<1>3. UnfinishedOK /\ StopOK /\ TakenOK /\ WireOK /\ FlushFollowsAudio
  BY <1>1 DEF LinkInit, UnfinishedOK, Held, StopOK, TakenOK, WireOK, FlushFollowsAudio, Items
<1> QED BY <1>2, <1>3 DEF LinkInv

\* What is appended to what went out leaves the orders in it where they were.
LEMMA WireGrows ==
    ASSUME LinkTypeOK, FlushFollowsAudio, NEW e \in Frames \cup {FlushOrder, CloseOrder},
           wire' = Append(wire, e), hang'.taken = hang.taken,
           e = FlushOrder => hang.taken \subseteq Items(wire)
    PROVE  FlushFollowsAudio'
<1>1. wire \in Seq(Frames \cup {FlushOrder, CloseOrder}) /\ Len(wire) \in Nat
  BY LenProperties DEF LinkTypeOK
<1>2. /\ wire' \in Seq(Frames \cup {FlushOrder, CloseOrder}) /\ Len(wire') = Len(wire) + 1
      /\ \A i \in 1 .. Len(wire) : wire'[i] = wire[i]
      /\ wire'[Len(wire) + 1] = e
  BY <1>1, OneMoreItem
<1>3. DOMAIN wire' = 1 .. Len(wire) + 1 /\ DOMAIN wire = 1 .. Len(wire)
  BY <1>1, <1>2, LenProperties
<1> SUFFICES ASSUME NEW i \in 1 .. Len(wire) + 1, wire'[i] = FlushOrder
             PROVE  hang.taken \subseteq {wire'[j] : j \in 1 .. i - 1}
  BY <1>3 DEF FlushFollowsAudio
<1>4. {wire'[j] : j \in 1 .. i - 1} = {wire[j] : j \in 1 .. i - 1}
  <2>1. \A j \in 1 .. i - 1 : j \in 1 .. Len(wire)
    BY <1>1
  <2> QED BY <1>2, <2>1
<1>5. CASE i \in 1 .. Len(wire)
  BY <1>2, <1>3, <1>4, <1>5 DEF FlushFollowsAudio
<1>6. CASE i = Len(wire) + 1
  <2>1. i - 1 = Len(wire) /\ e = FlushOrder
    BY <1>1, <1>2, <1>6
  <2> QED BY <1>4, <2>1 DEF Items
<1> QED BY <1>1, <1>5, <1>6

LEMMA PushKeeps ==
    ASSUME LinkInv, PushFrame PROVE LinkInv'
<1> DEFINE n == micro.given + 1
<1>1. n \in Frames /\ UNCHANGED <<sender, socket, wire, hang>> /\ n \in 0 .. MaxFrames
      /\ hang.pc \notin {"joining", "stopping", "gone"}
  BY LinkAssumption DEF LinkInv, LinkTypeOK, PushFrame, SessionClosed, Frames
<1>2. \/ ~micro.dead /\ SessionPush(n)
      \/ InputDead(n)
  BY DEF PushFrame
<1> HIDE DEF n
<1>3. audio \in Seq(0 .. MaxFrames) /\ Len(audio) \in Nat /\ LinkTypeOK
  BY LenProperties DEF LinkInv, LinkTypeOK
<1>4. CASE SessionPush(n)
  <2>1. /\ audio' \in Seq(0 .. MaxFrames) /\ Len(audio') = Len(audio) + 1
        /\ Items(audio') = Items(audio) \cup {n}
    <3> DEFINE F == 0 .. MaxFrames
    <3>1. audio \in Seq(F) /\ n \in F /\ audio' = Append(audio, n)
      BY <1>1, <1>3, <1>4 DEF SessionPush
    <3> HIDE DEF F
    <3>2. /\ Append(audio, n) \in Seq(F) /\ Len(Append(audio, n)) = Len(audio) + 1
          /\ Items(Append(audio, n)) = Items(audio) \cup {n}
      BY <3>1, OneMoreItem
    <3> QED BY <3>1, <3>2 DEF F
  <2>2. micro' \in [given : 0 .. MaxFrames, taken : SUBSET Frames, dead : BOOLEAN]
        /\ micro'.taken = micro.taken \cup {n}
    BY <1>1, <1>3, <1>4 DEF SessionPush, LinkTypeOK
  <2>3. sender.pc \notin {"ended", "cancelled"} /\ 0 \notin Items(audio)
    BY <1>1 DEF LinkInv, StopOK
  <2>4. unfinished' = unfinished + 1 /\ Len(audio') <= QueueFrames
    BY <1>3, <1>4, <2>1, LinkAssumption DEF SessionPush
  <2>5. UnfinishedOK' /\ unfinished' \in 0 .. QueueFrames + 1
    BY <1>1, <1>3, <2>1, <2>3, <2>4, LinkAssumption DEF LinkInv, LinkTypeOK, UnfinishedOK, Held
  <2>6. LinkTypeOK'
    BY <1>1, <1>3, <2>1, <2>2, <2>4, <2>5 DEF LinkTypeOK
  <2>7. StopOK'
    <3>1. n # 0
      BY <1>1, LinkAssumption DEF Frames
    <3> QED BY <1>1, <2>1, <3>1 DEF LinkInv, StopOK
  <2>8. TakenOK' /\ WireOK' /\ FlushFollowsAudio'
    BY <1>1, <2>1, <2>2 DEF LinkInv, TakenOK, WireOK, FlushFollowsAudio, InHand
  <2> QED BY <2>5, <2>6, <2>7, <2>8 DEF LinkInv
<1>5. CASE InputDead(n)
  <2>1. micro' \in [given : 0 .. MaxFrames, taken : SUBSET Frames, dead : BOOLEAN]
        /\ micro'.taken = micro.taken /\ UNCHANGED <<audio, unfinished>>
    BY <1>1, <1>3, <1>5 DEF InputDead, LinkTypeOK
  <2> QED
    BY <1>1, <2>1
    DEF LinkInv, LinkTypeOK, UnfinishedOK, Held, StopOK, TakenOK, WireOK, FlushFollowsAudio, InHand
<1> QED BY <1>2, <1>4, <1>5

\* What TaskDone does to the hang-up: whoever joined the queue goes on when it is done with.
LEMMA DoneWith ==
    ASSUME LinkTypeOK, TaskDone
    PROVE  /\ hang' \in [pc : LinkPhases, taken : SUBSET Frames] /\ hang'.taken = hang.taken
           /\ unfinished' = unfinished - 1
           /\ \/ hang' = hang
              \/ hang.pc = "flushing" /\ hang'.pc = "joined" /\ unfinished = 1
  BY DEF LinkTypeOK, TaskDone, LinkPhases

LEMMA SenderKeeps ==
    ASSUME LinkInv, LinkSends PROVE LinkInv'
<1>1. /\ LinkTypeOK /\ audio \in Seq(0 .. MaxFrames) /\ Len(audio) \in Nat
      /\ wire \in Seq(Frames \cup {FlushOrder, CloseOrder})
      /\ sender \in [pc : {"get", "send", "ended", "failed", "cancelled"}, frame : 0 .. MaxFrames]
      /\ unfinished \in 0 .. QueueFrames + 1 /\ Len(audio) <= QueueFrames
      /\ UNCHANGED micro
  BY LenProperties DEF LinkInv, LinkTypeOK, LinkSends, SenderTakes, SenderSent, SenderFails
<1>2. CASE SenderTakes
  <2>1. /\ audio' \in Seq(0 .. MaxFrames) /\ Len(audio') = Len(audio) - 1 /\ Len(audio) \in Nat \ {0}
        /\ Head(audio) \in 0 .. MaxFrames /\ Head(audio) \in Items(audio)
        /\ Items(audio) = Items(audio') \cup {Head(audio)}
        /\ sender.pc = "get" /\ UNCHANGED <<socket, wire>>
    BY <1>1, <1>2, OneLessItem DEF SenderTakes
  <2>2. unfinished = Len(audio)
    BY <1>1, <2>1 DEF LinkInv, UnfinishedOK, Held
  <2>3. CASE Head(audio) = 0
    <3>1. sender' = [sender EXCEPT !.pc = "ended"] /\ TaskDone
      BY <1>2, <2>3 DEF SenderTakes
    <3>2. hang.pc \in {"stopping", "gone"}
      BY <2>1, <2>3 DEF LinkInv, StopOK
    <3>3. hang' = hang /\ unfinished' = unfinished - 1
      BY <1>1, <3>1, <3>2, DoneWith
    <3>4. sender' \in [pc : {"get", "send", "ended", "failed", "cancelled"}, frame : 0 .. MaxFrames]
          /\ sender'.pc = "ended"
      BY <1>1, <3>1
    <3>5. LinkTypeOK' /\ UnfinishedOK'
      BY <1>1, <2>1, <2>2, <3>3, <3>4, LinkAssumption DEF LinkTypeOK, UnfinishedOK, Held
    <3>6. StopOK' /\ TakenOK' /\ WireOK' /\ FlushFollowsAudio'
      BY <2>1, <3>2, <3>3, <3>4 DEF LinkInv, StopOK, TakenOK, WireOK, FlushFollowsAudio
    <3> QED BY <3>5, <3>6 DEF LinkInv
  <2>4. CASE Head(audio) # 0
    <3>1. sender' = [pc |-> "send", frame |-> Head(audio)] /\ UNCHANGED <<unfinished, hang>>
      BY <1>2, <2>4 DEF SenderTakes
    <3>2. Head(audio) \in Frames
      BY <2>1, <2>4, LinkAssumption DEF Frames
    <3>3. LinkTypeOK' /\ UnfinishedOK'
      BY <1>1, <2>1, <2>2, <3>1, LinkAssumption DEF LinkTypeOK, UnfinishedOK, Held
    <3>4. StopOK' /\ TakenOK' /\ WireOK' /\ FlushFollowsAudio'
      BY <1>1, <2>1, <3>1, <3>2
      DEF LinkInv, StopOK, TakenOK, WireOK, FlushFollowsAudio, InHand
    <3> QED BY <3>3, <3>4 DEF LinkInv
  <2> QED BY <2>3, <2>4
<1>3. CASE SenderSent
  <2>1. /\ sender.pc = "send" /\ wire' = Append(wire, sender.frame) /\ sender' = [pc |-> "get", frame |-> 0]
        /\ TaskDone /\ UNCHANGED <<audio, socket>> /\ sender.frame \in Frames
    BY <1>3 DEF SenderSent, LinkInv, StopOK
  <2>2. /\ wire' \in Seq(Frames \cup {FlushOrder, CloseOrder})
        /\ Items(wire') = Items(wire) \cup {sender.frame}
    BY <1>1, <2>1, OneMoreItem
  <2>3. unfinished = Len(audio) + 1
    BY <2>1 DEF LinkInv, UnfinishedOK, Held
  <2>4. /\ hang' \in [pc : LinkPhases, taken : SUBSET Frames] /\ hang'.taken = hang.taken
        /\ unfinished' = unfinished - 1
        /\ \/ hang' = hang
           \/ hang.pc = "flushing" /\ hang'.pc = "joined" /\ unfinished = 1
    BY <1>1, <2>1, DoneWith
  <2>5. LinkTypeOK' /\ UnfinishedOK'
    BY <1>1, <2>1, <2>2, <2>3, <2>4, LinkAssumption DEF LinkTypeOK, UnfinishedOK, Held
  <2>6. sender.frame # FlushOrder
    BY <2>1, LinkAssumption DEF Frames, FlushOrder
  <2>7. FlushFollowsAudio'
    BY <1>1, <2>1, <2>4, <2>6, WireGrows DEF LinkInv
  <2>8. micro.taken \subseteq Items(wire') \cup Items(audio)
    BY <2>1, <2>2 DEF LinkInv, TakenOK, InHand
  <2>9. StopOK' /\ TakenOK'
    BY <1>1, <2>1, <2>4, <2>8 DEF LinkInv, StopOK, TakenOK
  <2>10. WireOK'
    <3>1. CASE hang' = hang
      BY <2>1, <2>2, <2>6, <3>1, <1>1 DEF LinkInv, WireOK
    <3>2. CASE hang.pc = "flushing" /\ hang'.pc = "joined" /\ unfinished = 1
      <4>1. Items(audio) = {}
        BY <1>1, <2>3, <3>2 DEF Items
      <4> QED BY <2>2, <2>4, <2>6, <2>8, <3>2, <4>1 DEF LinkInv, WireOK
    <3> QED BY <2>4, <3>1, <3>2
  <2> QED BY <2>5, <2>7, <2>9, <2>10 DEF LinkInv
<1>4. CASE SenderFails
  <2>1. /\ sender.pc = "send" /\ sender' = [pc |-> "failed", frame |-> 0]
        /\ TaskDone /\ UNCHANGED <<audio, socket, wire>>
    BY <1>4 DEF SenderFails
  <2>2. unfinished = Len(audio) + 1
    BY <2>1 DEF LinkInv, UnfinishedOK, Held
  <2>3. /\ hang' \in [pc : LinkPhases, taken : SUBSET Frames] /\ hang'.taken = hang.taken
        /\ unfinished' = unfinished - 1
        /\ \/ hang' = hang
           \/ hang.pc = "flushing" /\ hang'.pc = "joined" /\ unfinished = 1
    BY <1>1, <2>1, DoneWith
  <2>4. LinkTypeOK' /\ UnfinishedOK'
    BY <1>1, <2>1, <2>2, <2>3, LinkAssumption DEF LinkTypeOK, UnfinishedOK, Held
  <2>5. StopOK' /\ TakenOK' /\ WireOK' /\ FlushFollowsAudio'
    BY <1>1, <2>1, <2>3 DEF LinkInv, StopOK, TakenOK, WireOK, FlushFollowsAudio
  <2> QED BY <2>4, <2>5 DEF LinkInv
<1> QED BY <1>2, <1>3, <1>4 DEF LinkSends

LEMMA HangupKeeps ==
    ASSUME LinkInv, LinkHangup \/ SocketBreaks \/ LinkClosing PROVE LinkInv'
<1>1. /\ LinkTypeOK /\ audio \in Seq(0 .. MaxFrames) /\ Len(audio) \in Nat
      /\ wire \in Seq(Frames \cup {FlushOrder, CloseOrder})
      /\ sender \in [pc : {"get", "send", "ended", "failed", "cancelled"}, frame : 0 .. MaxFrames]
      /\ hang \in [pc : LinkPhases, taken : SUBSET Frames] /\ micro.taken \subseteq Frames
      /\ UNCHANGED micro
  BY LenProperties
  DEF LinkInv, LinkTypeOK, LinkHangup, SocketBreaks, LinkClosing, FlushTold, LinkCloses,
      JoinedOrTimedOut, SenderStopped
<1>2. CASE SocketBreaks
  BY <1>2
  DEF SocketBreaks, LinkInv, LinkTypeOK, UnfinishedOK, Held, StopOK, TakenOK, WireOK,
      FlushFollowsAudio, InHand
<1>3. CASE LinkHangup
  <2>1. /\ hang.pc = "talking" /\ hang'.taken = micro.taken /\ hang' \in [pc : LinkPhases, taken : SUBSET Frames]
        /\ hang'.pc = (IF unfinished = 0 THEN "joined" ELSE "flushing")
        /\ UNCHANGED <<audio, unfinished, sender, socket, wire>>
    BY <1>1, <1>3 DEF LinkHangup, LinkPhases
  <2>2. LinkTypeOK' /\ UnfinishedOK'
    BY <1>1, <2>1 DEF LinkInv, LinkTypeOK, UnfinishedOK, Held
  <2>3. StopOK' /\ TakenOK'
    BY <1>1, <2>1 DEF LinkInv, StopOK, TakenOK, InHand
  <2>4. FlushOrder \notin Items(wire) /\ sender.pc \in {"get", "send", "failed"}
    BY <1>1, <2>1 DEF LinkInv, WireOK, StopOK
  <2>5. FlushFollowsAudio'
    <3>1. DOMAIN wire = 1 .. Len(wire)
      BY <1>1, LenProperties
    <3> QED BY <2>1, <2>4, <3>1 DEF FlushFollowsAudio, Items
  <2>6. unfinished = 0 /\ sender.pc # "failed" => micro.taken \subseteq Items(wire)
    <3> SUFFICES ASSUME unfinished = 0, sender.pc # "failed" PROVE micro.taken \subseteq Items(wire)
      OBVIOUS
    <3>1. Len(audio) = 0 /\ sender.pc = "get"
      BY <1>1, <2>4 DEF LinkInv, UnfinishedOK, Held
    <3>2. Items(audio) = {} /\ InHand = {}
      BY <3>1 DEF Items, InHand
    <3> QED BY <3>1, <3>2 DEF LinkInv, TakenOK
  <2>7. WireOK'
    BY <2>1, <2>4, <2>6, <1>1 DEF WireOK
  <2> QED BY <2>2, <2>3, <2>5, <2>7 DEF LinkInv
<1>4. CASE FlushTold
  <2>1. /\ hang.pc = "joined" /\ hang'.pc = "flushed" /\ hang'.taken = hang.taken
        /\ hang' \in [pc : LinkPhases, taken : SUBSET Frames]
        /\ UNCHANGED <<audio, unfinished, sender, socket>>
    BY <1>1, <1>4 DEF FlushTold, LinkPhases
  <2>2. \/ wire' = wire
        \/ sender.pc # "failed" /\ wire' = Append(wire, FlushOrder)
    BY <1>4 DEF FlushTold
  <2>3. wire' \in Seq(Frames \cup {FlushOrder, CloseOrder}) /\ Items(wire) \subseteq Items(wire')
    <3>1. /\ Append(wire, FlushOrder) \in Seq(Frames \cup {FlushOrder, CloseOrder})
          /\ Items(Append(wire, FlushOrder)) = Items(wire) \cup {FlushOrder}
      BY <1>1, OneMoreItem
    <3> QED BY <1>1, <2>2, <3>1
  <2>4. FlushFollowsAudio'
    <3>1. CASE wire' = wire
      BY <2>1, <3>1 DEF LinkInv, FlushFollowsAudio
    <3>2. CASE sender.pc # "failed" /\ wire' = Append(wire, FlushOrder)
      <4>1. hang.taken \subseteq Items(wire)
        BY <2>1, <3>2 DEF LinkInv, WireOK
      <4> QED BY <1>1, <2>1, <3>2, <4>1, WireGrows DEF LinkInv
    <3> QED BY <2>2, <3>1, <3>2
  <2>5. LinkTypeOK' /\ UnfinishedOK' /\ StopOK'
    BY <1>1, <2>1, <2>3 DEF LinkInv, LinkTypeOK, UnfinishedOK, Held, StopOK
  <2>6. TakenOK' /\ WireOK'
    BY <1>1, <2>1, <2>3 DEF LinkInv, TakenOK, WireOK, InHand
  <2> QED BY <2>4, <2>5, <2>6 DEF LinkInv
<1>5. CASE LinkCloses
  <2>1. /\ hang.pc = "flushed" /\ hang'.pc = "joining" /\ hang'.taken = hang.taken
        /\ hang' \in [pc : LinkPhases, taken : SUBSET Frames]
        /\ UNCHANGED <<audio, unfinished, sender, socket, wire>>
    BY <1>1, <1>5 DEF LinkCloses, LinkPhases
  <2> QED
    BY <1>1, <2>1
    DEF LinkInv, LinkTypeOK, UnfinishedOK, Held, StopOK, TakenOK, WireOK, FlushFollowsAudio, InHand
<1>6. CASE JoinedOrTimedOut
  <2>1. /\ hang.pc = "joining" /\ hang'.pc = "stopping" /\ hang'.taken = hang.taken
        /\ hang' \in [pc : LinkPhases, taken : SUBSET Frames]
        /\ UNCHANGED <<sender, socket>> /\ sender.pc \notin {"ended", "cancelled"}
    BY <1>1, <1>6 DEF JoinedOrTimedOut, LinkPhases, LinkInv, StopOK
  <2>2. wire' = wire \/ wire' = Append(wire, CloseOrder)
    BY <1>6 DEF JoinedOrTimedOut
  <2>3. wire' \in Seq(Frames \cup {FlushOrder, CloseOrder}) /\ Items(wire) \subseteq Items(wire')
    <3>1. /\ Append(wire, CloseOrder) \in Seq(Frames \cup {FlushOrder, CloseOrder})
          /\ Items(Append(wire, CloseOrder)) = Items(wire) \cup {CloseOrder}
      BY <1>1, OneMoreItem
    <3> QED BY <1>1, <2>2, <3>1
  <2>4. FlushFollowsAudio'
    <3>1. CASE wire' = wire
      BY <2>1, <3>1 DEF LinkInv, FlushFollowsAudio
    <3>2. CASE wire' = Append(wire, CloseOrder)
      BY <1>1, <2>1, <3>2, WireGrows DEF LinkInv, FlushOrder, CloseOrder
    <3> QED BY <2>2, <3>1, <3>2
  <2>5. \/ UNCHANGED <<audio, unfinished>>
        \/ /\ audio' = Append(audio, 0) /\ unfinished' = unfinished + 1 /\ Len(audio) < QueueFrames
    BY <1>6 DEF JoinedOrTimedOut
  <2>6. /\ audio' \in Seq(0 .. MaxFrames) /\ Items(audio) \subseteq Items(audio')
        /\ \/ audio' = audio /\ unfinished' = unfinished
           \/ Len(audio') = Len(audio) + 1 /\ unfinished' = unfinished + 1 /\ Len(audio) < QueueFrames
    <3> DEFINE F == 0 .. MaxFrames
    <3>1. audio \in Seq(F) /\ 0 \in F
      BY <1>1, LinkAssumption
    <3> HIDE DEF F
    <3>2. /\ Append(audio, 0) \in Seq(F) /\ Len(Append(audio, 0)) = Len(audio) + 1
          /\ Items(Append(audio, 0)) = Items(audio) \cup {0}
      BY <3>1, OneMoreItem
    <3> USE DEF F
    <3>3. CASE UNCHANGED <<audio, unfinished>>
      BY <1>1, <3>3
    <3>4. CASE audio' = Append(audio, 0) /\ unfinished' = unfinished + 1 /\ Len(audio) < QueueFrames
      BY <3>2, <3>4
    <3> QED BY <2>5, <3>3, <3>4
  <2>7. LinkTypeOK' /\ UnfinishedOK'
    <3>1. unfinished = Len(audio) + Held /\ Held \in {0, 1} /\ Held' = Held
      BY <2>1 DEF LinkInv, UnfinishedOK, Held
    <3>2. unfinished' = Len(audio') + Held /\ Len(audio') <= QueueFrames /\ Len(audio') \in Nat
      <4>1. Len(audio) <= QueueFrames
        BY <1>1 DEF LinkTypeOK
      <4>2. CASE audio' = audio /\ unfinished' = unfinished
        BY <1>1, <3>1, <4>1, <4>2
      <4>3. CASE Len(audio') = Len(audio) + 1 /\ unfinished' = unfinished + 1 /\ Len(audio) < QueueFrames
        BY <1>1, <3>1, <4>3, LinkAssumption
      <4> QED BY <2>6, <4>2, <4>3
    <3>3. unfinished' \in 0 .. QueueFrames + 1
      BY <3>1, <3>2, LinkAssumption
    <3> QED BY <1>1, <2>1, <2>3, <2>6, <3>1, <3>2, <3>3 DEF LinkTypeOK, UnfinishedOK
  <2>8. StopOK' /\ TakenOK' /\ WireOK'
    BY <1>1, <2>1, <2>3, <2>6 DEF LinkInv, StopOK, TakenOK, WireOK, InHand
  <2> QED BY <2>4, <2>7, <2>8 DEF LinkInv
<1>7. CASE SenderStopped
  <2>1. /\ hang.pc = "stopping" /\ hang'.pc = "gone" /\ hang'.taken = hang.taken
        /\ hang' \in [pc : LinkPhases, taken : SUBSET Frames]
        /\ UNCHANGED <<audio, unfinished, wire>> /\ socket' = "down"
        /\ sender' = sender \/ sender' = [pc |-> "cancelled", frame |-> 0]
    BY <1>1, <1>7 DEF SenderStopped, LinkPhases
  <2>2. sender' \in [pc : {"get", "send", "ended", "failed", "cancelled"}, frame : 0 .. MaxFrames]
        /\ (sender' = sender \/ sender'.pc = "cancelled")
    BY <1>1, <2>1, LinkAssumption
  <2> QED
    BY <1>1, <2>1, <2>2
    DEF LinkInv, LinkTypeOK, UnfinishedOK, Held, StopOK, TakenOK, WireOK, FlushFollowsAudio, InHand
<1> QED BY <1>2, <1>3, <1>4, <1>5, <1>6, <1>7 DEF LinkClosing

LEMMA LinkInvariant == LinkSpec => []LinkInv
<1>1. ASSUME LinkInv, [LinkNext]_linkVars PROVE LinkInv'
  <2>1. CASE UNCHANGED linkVars
    BY <1>1, <2>1
    DEF linkVars, LinkInv, LinkTypeOK, UnfinishedOK, Held, StopOK, TakenOK, WireOK,
        FlushFollowsAudio, InHand
  <2>2. CASE LinkNext
    BY <1>1, <2>2, PushKeeps, SenderKeeps, HangupKeeps DEF LinkNext
  <2> QED BY <1>1, <2>1, <2>2
<1> QED BY <1>1, LinkStarts, PTL DEF LinkSpec

\* The order to finish the utterance never overtakes a frame spoken before the hang-up,
\* whenever the socket breaks and however full the queue is (RunpodSttSession.flush).
THEOREM FlushIsBehind == LinkSpec => []FlushFollowsAudio
<1>1. LinkInv => FlushFollowsAudio
  BY DEF LinkInv
<1> QED BY <1>1, LinkInvariant, PTL

\* The queue of frames is never longer than it may be and no more is unfinished than is in
\* it and in the sender's hand.
THEOREM LinkTypes == LinkSpec => []LinkTypeOK
<1>1. LinkInv => LinkTypeOK
  BY DEF LinkInv
<1> QED BY <1>1, LinkInvariant, PTL
=============================================================================
