----------------------------- MODULE AsrService -----------------------------
(***************************************************************************)
(* gpu/acoustic: the speech recogniser's websocket service.  A stream      *)
(* borrows a VAD model from the pool, and the VAD cuts its audio into      *)
(* utterances.  A Russian utterance is generated on a thread that holds    *)
(* the one lock of the model from its first features to its last; a        *)
(* Hebrew one is transcribed in snapshots, one at a time, and once more    *)
(* at its end.                                                             *)
(*                                                                         *)
(* Audio and text are not modelled: whether a chunk starts the model, is   *)
(* recognised or ends the utterance is a choice.  A stream reads one       *)
(* message at a time and reads none while it awaits the end of one.        *)
(***************************************************************************)
EXTENDS Integers, FiniteSets

CONSTANTS
    Streams, Russian,   \* the connections, and those with lang = ru
    VadModels,          \* the models of the pool, VAD_POOL_SIZE of them
    MaxUtterances       \* bound: utterances of a stream

ASSUME AsrAssumption == /\ Russian \subseteq Streams /\ MaxUtterances \in Nat
                        /\ "none" \notin VadModels

VARIABLES
    stream,     \* stream() and the AcousticSession of each connection
    vadOf,      \* the VAD model a connection has in hand, if any
    available,  \* the models in the pool
    jobs,       \* the recogniser's work on each utterance
    holder,     \* the utterance that holds the generation lock, if any
    said        \* the last event of each stream

asrVars == <<stream, vadOf, available, jobs, holder, said>>

Utterances == Streams \X (1 .. MaxUtterances)
Nothing == <<>>
NoVad == "none"
Jobs == {"none",
         "waits",       \* ru: the thread wants the lock
         "runs",        \* ru: it generates.  he: a snapshot is transcribed
         "heard",       \* a partial is on its way to the loop
         "over"}

AsrInit ==
    /\ stream = [s \in Streams |-> [pc |-> "new", seq |-> 0, utt |-> 0, ending |-> 0]]
    /\ vadOf = [s \in Streams |-> NoVad] /\ available = VadModels
    /\ jobs = [u \in Utterances |-> [at |-> "none", ended |-> FALSE]]
    /\ holder = Nothing
    /\ said = [s \in Streams |-> [type |-> "end", utt |-> 0]]

Moves(s, pc) == stream' = [stream EXCEPT ![s].pc = pc]
Says(s, type, u) == said' = [said EXCEPT ![s] = [type |-> type, utt |-> u]]
Job(u, at) == jobs' = [jobs EXCEPT ![u].at = at]

----------------------------------------------------------------------------
(* The connection: stream() up to its loop. *)

Connect(s) ==
    /\ stream[s].pc = "new"
    /\ Moves(s, "waiting")
    /\ UNCHANGED <<vadOf, available, jobs, holder, said>>

\* acquire_iterator: also for a client that has left meanwhile.
TakeVad(s) ==
    /\ stream[s].pc = "waiting"
    /\ \E v \in available : vadOf' = [vadOf EXCEPT ![s] = v] /\ available' = available \ {v}
    /\ Moves(s, "open")
    /\ UNCHANGED <<jobs, holder, said>>

----------------------------------------------------------------------------
(* feed_pcm: one VAD window. *)

Current(s) == <<s, stream[s].utt>>

SpeechStarts(s) ==
    /\ stream[s].pc = "open" /\ stream[s].utt = 0 /\ stream[s].seq < MaxUtterances
    /\ stream' = [stream EXCEPT ![s].seq = @ + 1, ![s].utt = stream[s].seq + 1]
    /\ Says(s, "start", stream[s].seq + 1)
    /\ UNCHANGED <<vadOf, available, jobs, holder>>

\* Enough audio: for the first streaming chunk, which starts the thread, or for another
\* snapshot, when none is being transcribed.
FeedStartsJob(s) ==
    /\ stream[s].pc = "open" /\ stream[s].utt # 0
    /\ jobs[Current(s)].at \in IF s \in Russian THEN {"none"} ELSE {"none", "over"}
    /\ Job(Current(s), IF s \in Russian THEN "waits" ELSE "runs")
    /\ UNCHANGED <<stream, vadOf, available, holder, said>>

----------------------------------------------------------------------------
(* The recognisers. *)

\* run_model: the thread gets the lock of the model.
Generates(u) ==
    /\ jobs[u].at = "waits" /\ holder = Nothing
    /\ Job(u, "runs") /\ holder' = u
    /\ UNCHANGED <<stream, vadOf, available, said>>

\* Text that is new: the loop is told.
StreamHears(u) ==
    /\ jobs[u].at = "runs"
    /\ Job(u, "heard")
    /\ UNCHANGED <<stream, vadOf, available, holder, said>>

AfterHearing(u) == IF u[1] \in Russian THEN "runs" ELSE "over"

\* Mutant: whichever utterance is current, the text is its own.
PartialComesUnasked(u) ==
    /\ jobs[u].at = "heard"
    /\ Job(u, AfterHearing(u))
    /\ Says(u[1], "partial", u[2])
    /\ UNCHANGED <<stream, vadOf, available, holder>>

\* on_partial, _run_he_partial: of the current utterance, or dropped.
PartialComes(u) ==
    /\ jobs[u].at = "heard"
    /\ Job(u, AfterHearing(u))
    /\ IF u = Current(u[1]) THEN Says(u[1], "partial", u[2]) ELSE UNCHANGED said
    /\ UNCHANGED <<stream, vadOf, available, holder>>

\* A generation ends after the last features; a snapshot may hear nothing new.
JobEnds(u) ==
    /\ jobs[u].at = "runs"
    /\ u[1] \in Russian => jobs[u].ended
    /\ Job(u, "over")
    /\ holder' = IF holder = u THEN Nothing ELSE holder
    /\ UNCHANGED <<stream, vadOf, available, said>>

----------------------------------------------------------------------------
(* _finish_utterance: after the VAD's end, a flush or the loop's end. *)

\* finish() ends the features, and starts a thread that had not enough to start.
EndsFeatures(u) ==
    jobs' = [jobs EXCEPT ![u] =
               [at |-> IF u[1] \in Russian /\ @.at = "none" THEN "waits" ELSE @.at, ended |-> TRUE]]

SpeechEnds(s) ==
    /\ stream[s].pc = "open" /\ stream[s].utt # 0
    /\ stream' = [stream EXCEPT ![s].pc = "ending", ![s].utt = 0, ![s].ending = stream[s].utt]
    /\ EndsFeatures(Current(s))
    /\ UNCHANGED <<vadOf, available, holder, said>>

\* Mutant: the model is back in the pool before the session is closed.
LoopEndsGivingBack(s) ==
    /\ stream[s].pc = "open"
    /\ stream' = [stream EXCEPT ![s].pc = "closing", ![s].utt = 0, ![s].ending = stream[s].utt]
    /\ IF stream[s].utt # 0 THEN EndsFeatures(Current(s)) ELSE UNCHANGED jobs
    /\ available' = available \cup {vadOf[s]}
    /\ UNCHANGED <<vadOf, holder, said>>

\* The client is gone, or said close: the utterance it was in is ended all the same.
LoopEnds(s) ==
    /\ stream[s].pc = "open"
    /\ stream' = [stream EXCEPT ![s].pc = "closing", ![s].utt = 0, ![s].ending = stream[s].utt]
    /\ IF stream[s].utt # 0 THEN EndsFeatures(Current(s)) ELSE UNCHANGED jobs
    /\ UNCHANGED <<vadOf, available, holder, said>>

\* finish() raises before the last features are in: the utterance ends with an error, its
\* thread is left waiting for more, and the loop goes on, if it was not the loop's end, or
\* a feed() that raised, that finished it.
FinishFails(s) ==
    /\ \E pc \in {"open", "closing"} : stream' = [stream EXCEPT ![s].pc = pc, ![s].utt = 0]
    /\ Says(s, "end", stream[s].utt)

\* feed() raises on the tail that close() still had: nobody is told of an end.
TailFails(s) ==
    /\ stream' = [stream EXCEPT ![s].pc = "closing", ![s].utt = 0]
    /\ UNCHANGED said

FeatureFails(s) ==
    /\ stream[s].pc = "open" /\ stream[s].utt # 0 /\ s \in Russian
    /\ FinishFails(s) \/ TailFails(s)
    /\ UNCHANGED <<vadOf, available, jobs, holder>>

\* Mutant: the wait for the thread has no end.
UtteranceEndsInTime(s) ==
    /\ stream[s].pc \in {"ending", "closing"} /\ stream[s].ending # 0
    /\ jobs[<<s, stream[s].ending>>].at \in {"none", "over"}
    /\ stream' = [stream EXCEPT ![s].pc = IF @ = "ending" THEN "open" ELSE @, ![s].ending = 0]
    /\ Says(s, "end", stream[s].ending)
    /\ UNCHANGED <<vadOf, available, jobs, holder>>

\* A final and speech_end; or an error and speech_end, when the transcription fails or
\* the thread is not through after 30 s.  A Hebrew snapshot is waited for first.
UtteranceEnds(s) ==
    /\ stream[s].pc \in {"ending", "closing"} /\ stream[s].ending # 0
    /\ s \notin Russian => jobs[<<s, stream[s].ending>>].at \in {"none", "over"}
    /\ stream' = [stream EXCEPT ![s].pc = IF @ = "ending" THEN "open" ELSE @, ![s].ending = 0]
    /\ Says(s, "end", stream[s].ending)
    /\ UNCHANGED <<vadOf, available, jobs, holder>>

----------------------------------------------------------------------------
(* The end of stream(). *)

GivesBack(s) ==
    /\ available' = available \cup ({vadOf[s]} \ {NoVad})
    /\ vadOf' = [vadOf EXCEPT ![s] = NoVad]

\* close() is over, and each of its waits has a timeout: the model goes back.
StreamCloses(s) ==
    /\ stream[s].pc = "closing" /\ stream[s].ending = 0
    /\ Moves(s, "done")
    /\ GivesBack(s)
    /\ UNCHANGED <<jobs, holder, said>>

----------------------------------------------------------------------------
Serving(s) == TakeVad(s) \/ UtteranceEnds(s) \/ StreamCloses(s)

Speaking(s) == SpeechStarts(s) \/ FeedStartsJob(s) \/ SpeechEnds(s) \/ LoopEnds(s) \/ FeatureFails(s)

Recognising(u) == Generates(u) \/ StreamHears(u) \/ PartialComes(u) \/ JobEnds(u)

AsrNext == \/ \E s \in Streams : Connect(s) \/ Serving(s) \/ Speaking(s)
           \/ \E u \in Utterances : Recognising(u)

AsrSpec == AsrInit /\ [][AsrNext]_asrVars

\* The loop runs what is ready, the waits for a thread have a timeout, snapshots and
\* callbacks come to an end, and a client leaves at last.
AsrFairness ==
    \A s \in Streams :
       /\ WF_asrVars(Serving(s)) /\ WF_asrVars(LoopEnds(s))
       /\ WF_asrVars(\E n \in 1 .. MaxUtterances :
                        PartialComes(<<s, n>>) \/ (s \notin Russian /\ JobEnds(<<s, n>>)))

----------------------------------------------------------------------------
(* Properties. *)

\* Every variable has its type.
AsrTypeOK ==
    /\ stream \in [Streams -> [pc : {"new", "waiting", "open", "ending", "closing", "done"},
                               seq : 0 .. MaxUtterances, utt : 0 .. MaxUtterances,
                               ending : 0 .. MaxUtterances]]
    /\ vadOf \in [Streams -> VadModels \cup {NoVad}] /\ available \subseteq VadModels
    /\ jobs \in [Utterances -> [at : Jobs, ended : BOOLEAN]]
    /\ holder \in Utterances \cup {Nothing}
    /\ said \in [Streams -> [type : {"start", "partial", "end"}, utt : 0 .. MaxUtterances]]

\* "Sharing one model between the two directions of a call would mix speaker histories":
\* a VAD model is in the pool or with one stream, and none is lost.
VadNeverShared ==
    \A v \in VadModels :
      Cardinality({s \in Streams : vadOf[s] = v}) + (IF v \in available THEN 1 ELSE 0) = 1

\* The agent takes the events of a stream in order: each utterance starts after the one
\* before has ended, and a partial comes between the start and the end of its own.
UtterancesInOrder ==
    [][\A s \in Streams : said'[s] # said[s] =>
         IF said'[s].type = "start"
         THEN said[s].type = "end" /\ said'[s].utt = said[s].utt + 1
         ELSE said[s].type # "end" /\ said'[s].utt = said[s].utt]_asrVars

\* Whoever connects is served and closed at last, also over a generation that is stuck
\* with the lock: the VAD models come back.
StreamsComeToAnEnd ==
    LET Served == \A s \in Streams : stream[s].pc \in {"new", "done"}
    IN AsrFairness => (~Served ~> Served)
============================================================================
