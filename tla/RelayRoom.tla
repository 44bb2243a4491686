----------------------------- MODULE RelayRoom -----------------------------
(***************************************************************************)
(* relay.py: the relay of one call, between its room and its directions:   *)
(* the readers of the microphones, and closing.  The room's events come at *)
(* any await of aclose.                                                    *)
(*                                                                         *)
(* A microphone is a track; who comes back publishes a new one.  A reader  *)
(* whose track ended, or that was cancelled, is done some steps later; one *)
(* whose stream raises is done at once.                                    *)
(***************************************************************************)
EXTENDS Integers, FiniteSets

CONSTANTS
    Speakers,   \* the job's participants
    MaxTracks   \* bound: microphones a speaker publishes

ASSUME RelayAssumption == IsFiniteSet(Speakers) /\ MaxTracks \in Nat

VARIABLES
    mic,        \* the microphone each speaker has published, how many there were, and
                \* whether an earlier one of theirs was still being read when it came
    readers,    \* the reader of each track
    table,      \* _reader_tasks: the track whose reader a speaker's entry is
    relay       \* run and aclose

relayVars == <<mic, readers, table, relay>>

Tracks == 1 .. MaxTracks
Reader == {"none", "reading", "stopping", "done", "failed"}
ReaderOver == {"done", "failed"}
RelayPcs == {"connecting", "starting", "ready", "stopping", "readers", "directions", "log",
             "closed", "broken"}
NoReader == <<>>
NoTable == [p \in {} |-> 0]

RelayInit ==
    /\ mic = [p \in Speakers |-> [track |-> 0, count |-> 0, late |-> FALSE]]
    /\ readers = [p \in Speakers |-> [t \in Tracks |-> "none"]]
    /\ table = NoTable
    /\ relay = [pc |-> "connecting", size |-> 0, on |-> NoReader]

----------------------------------------------------------------------------
(* _attach, and the readers. *)

\* The reader of a speaker's entry is not done.
AtWork(rs, p) == p \in DOMAIN table /\ rs[p][table[p]] \notin ReaderOver

\* Mutant: a speaker who was read once is not read again.
AttachedOnce(rs, p, t) ==
    IF p \in DOMAIN table
    THEN [rs |-> rs, entry |-> {}]
    ELSE [rs |-> [rs EXCEPT ![p][t] = "reading"], entry |-> {p}]

\* What becomes of the readers, and whether the entry is new: not while the reader
\* before is not done.
Attached(rs, p, t) ==
    IF AtWork(rs, p)
    THEN [rs |-> rs, entry |-> {}]
    ELSE [rs |-> [rs EXCEPT ![p][t] = "reading"], entry |-> {p}]

\* The directions are there from the first step of _start_directions, before any of
\* them is started, until aclose has closed them.
HasDirections == relay.pc \in {"starting", "ready", "stopping", "readers", "directions"}

Publish(p) ==
    /\ mic[p].track = 0 /\ mic[p].count < MaxTracks
    /\ LET t == mic[p].count + 1
           a == Attached(readers, p, t)
       IN /\ mic' = [mic EXCEPT ![p] = [track |-> t, count |-> t,
                                         late |-> HasDirections /\ AtWork(readers, p)]]
          /\ IF HasDirections
             THEN /\ readers' = a.rs
                  /\ table' = [q \in DOMAIN table \cup a.entry |-> IF q \in a.entry THEN t ELSE table[q]]
             ELSE UNCHANGED <<readers, table>>
    /\ UNCHANGED relay

Silenced(p) == mic' = [mic EXCEPT ![p].track = 0, ![p].late = FALSE]

Stops(p) == [t \in Tracks |-> IF readers[p][t] = "reading" THEN "stopping" ELSE readers[p][t]]

\* The track ends, and its reader with it.
Unpublish(p) ==
    /\ mic[p].track # 0
    /\ Silenced(p)
    /\ readers' = [readers EXCEPT ![p] = Stops(p)]
    /\ UNCHANGED <<table, relay>>

\* _on_participant_disconnected: the entry goes, the reader is cancelled.
SpeakerLeaves(p) ==
    /\ mic[p].track # 0 \/ p \in DOMAIN table
    /\ Silenced(p)
    /\ readers' = [readers EXCEPT ![p] = Stops(p)]
    /\ table' = [q \in DOMAIN table \ {p} |-> table[q]]
    /\ UNCHANGED relay

ReaderDone(p, t) ==
    /\ readers[p][t] = "stopping"
    /\ readers' = [readers EXCEPT ![p][t] = "done"]
    /\ UNCHANGED <<mic, table, relay>>

\* The audio stream raises: a warning, and nobody reads this microphone any more.
ReaderFails(p, t) ==
    /\ readers[p][t] = "reading"
    /\ readers' = [readers EXCEPT ![p][t] = "failed"]
    /\ UNCHANGED <<mic, table, relay>>

----------------------------------------------------------------------------
(* run *)

\* Connected and the tracks published: _start_directions fills the dictionary, and
\* then awaits the start of each direction, an STT session each.
DirectionsStart ==
    /\ relay.pc = "connecting"
    /\ relay' = [relay EXCEPT !.pc = "starting"]
    /\ UNCHANGED <<mic, readers, table>>

\* Both started: the microphones of the room are attached, those the events attached
\* meanwhile a second time.
RelayReady ==
    /\ relay.pc = "starting"
    /\ relay' = [relay EXCEPT !.pc = "ready"]
    /\ LET new == {p \in Speakers : mic[p].track # 0 /\ Attached(readers, p, mic[p].track).entry # {}} IN
       /\ readers' = [p \in Speakers |-> IF p \in new THEN [readers[p] EXCEPT ![mic[p].track] = "reading"]
                                         ELSE readers[p]]
       /\ table' = [p \in DOMAIN table \cup new |-> IF p \in new THEN mic[p].track ELSE table[p]]
       /\ mic' = [p \in Speakers |-> IF p \in new THEN [mic[p] EXCEPT !.late = FALSE] ELSE mic[p]]

\* run raises or is cancelled; in "ready" also stop(), a lost room and the watchdog.
\* Before there are directions there is nothing for aclose to await on its way.
RelayStopped ==
    /\ relay.pc \in {"connecting", "starting", "ready"}
    /\ relay' = [relay EXCEPT !.pc = IF @ = "connecting" THEN "log" ELSE "stopping"]
    /\ UNCHANGED <<mic, readers, table>>

----------------------------------------------------------------------------
(* aclose *)

\* The loop over the dictionary goes on to a reader that is not done, or is through.
LoopOn(rs, size) ==
    LET undone == {p \in DOMAIN table : rs[p][table[p]] \notin ReaderOver} IN
    \/ /\ \E p \in undone : relay' = [pc |-> "readers", size |-> size, on |-> <<p, table[p]>>]
       /\ UNCHANGED table
    \/ /\ undone = {}
       /\ relay' = [pc |-> "directions", size |-> 0, on |-> NoReader]
       /\ table' = NoTable

\* The watchdog is awaited; then every reader is cancelled, and awaited in turn.
CloseCancels ==
    /\ relay.pc = "stopping"
    /\ readers' = [p \in Speakers |-> IF p \in DOMAIN table THEN Stops(p) ELSE readers[p]]
    /\ LoopOn(readers', Cardinality(DOMAIN table))
    /\ UNCHANGED mic

\* A dictionary that changed its size during an await raises at the loop's next turn,
\* and aclose is over.
CloseAwaits ==
    /\ relay.pc = "readers" /\ readers[relay.on[1]][relay.on[2]] \in ReaderOver
    /\ IF Cardinality(DOMAIN table) = relay.size
       THEN LoopOn(readers, relay.size)
       ELSE relay' = [relay EXCEPT !.pc = "broken"] /\ UNCHANGED table
    /\ UNCHANGED <<mic, readers>>

CloseDirections ==
    /\ relay.pc = "directions"
    /\ relay' = [relay EXCEPT !.pc = "log"]
    /\ UNCHANGED <<mic, readers, table>>

\* The providers, the room, which ends every track; the eval log last.
CloseLog ==
    /\ relay.pc = "log"
    /\ relay' = [relay EXCEPT !.pc = "closed"]
    /\ readers' = [p \in Speakers |-> Stops(p)]
    /\ UNCHANGED <<mic, table>>

----------------------------------------------------------------------------
RelayCloses == CloseCancels \/ CloseAwaits \/ CloseDirections \/ CloseLog
               \/ \E p \in Speakers, t \in Tracks : ReaderDone(p, t)

RoomEvents == \E p \in Speakers : Publish(p) \/ Unpublish(p) \/ SpeakerLeaves(p)

RelayRuns == DirectionsStart \/ RelayReady \/ RelayStopped
             \/ \E p \in Speakers, t \in Tracks : ReaderFails(p, t)

RelayNext == RoomEvents \/ RelayRuns \/ RelayCloses

RelaySpec == RelayInit /\ [][RelayNext]_relayVars

\* The event loop runs what is ready.
RelayFairSpec == RelaySpec /\ WF_relayVars(RelayCloses)

----------------------------------------------------------------------------
(* Properties. *)

\* Every variable has its type.
RelayTypeOK ==
    /\ mic \in [Speakers -> [track : 0 .. MaxTracks, count : 0 .. MaxTracks, late : BOOLEAN]]
    /\ readers \in [Speakers -> [Tracks -> Reader]]
    /\ DOMAIN table \subseteq Speakers /\ \A p \in DOMAIN table : table[p] \in Tracks
    /\ relay \in [pc : RelayPcs, size : 0 .. Cardinality(Speakers),
                 on : {NoReader} \cup (Speakers \X Tracks)]

\* While the relay runs a published microphone is read, whichever came first, the track,
\* the directions or the relay, and also of one who came back, until its stream raises.
\* One published again while the speaker's own earlier reader was not done is never
\* read, neither then nor when that reader is done.  No other track is read, and
\* aclose finds each reader.
MicrophoneIsRead ==
    relay.pc = "ready" =>
      \A p \in Speakers, t \in Tracks :
        /\ mic[p].track = t /\ ~mic[p].late => readers[p][t] \in {"reading", "failed"}
        /\ mic[p].track = t /\ mic[p].late =>
             readers[p][t] = "none" /\ p \in DOMAIN table /\ table[p] < t
        /\ readers[p][t] = "reading" => mic[p].track = t /\ p \in DOMAIN table /\ table[p] = t

\* Hanging up reaches the eval log: "Closed last, after both directions have finished
\* writing their trailing units, so nothing the judge could be asked about is lost".
CloseReachesTheLog == (relay.pc = "stopping") ~> (relay.pc = "closed")
============================================================================
