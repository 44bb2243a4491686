------------------------------- MODULE SttLink -------------------------------
(***************************************************************************)
(* providers/stt_runpod.py: the websocket session to the recogniser of     *)
(* AsrService, and the two ends of a Direction it hangs on: push_frame,    *)
(* and the flush of a hang-up before its drain.                            *)
(*                                                                         *)
(* The microphone pushes frames into a bounded queue; a task sends them.   *)
(* The socket may break at any moment, and nobody but the sender and the   *)
(* receive loop learns of it.                                              *)
(***************************************************************************)
EXTENDS Integers, Sequences

CONSTANTS
    QueueFrames,    \* _MAX_PENDING_AUDIO_FRAMES
    MaxFrames       \* bound: frames the microphone gives

ASSUME LinkAssumption == QueueFrames \in Nat \ {0} /\ MaxFrames \in Nat

VARIABLES
    audio,          \* _audio: numbers of frames, 0 is the None that stops the sender
    unfinished,     \* what join() waits for to be zero
    sender,         \* the _send_audio task and the frame it is sending
    socket,         \* the websocket
    wire,           \* what went out: numbers of frames, 0 - 1 flush, 0 - 2 close
    micro,          \* frames given, frames taken, _input_dead
    hang            \* the hang-up: flush, drain, aclose

linkVars == <<audio, unfinished, sender, socket, wire, micro, hang>>

LinkPhases == {"talking",
               "flushing", "joined",    \* flush() waits for the queue, or has
               "flushed",               \* the drain
               "joining", "stopping",   \* aclose() waits for the queue, for the sender
               "gone"}

FlushOrder == 0 - 1
CloseOrder == 0 - 2

LinkInit ==
    /\ audio = <<>> /\ unfinished = 0
    /\ sender = [pc |-> "get", frame |-> 0]
    /\ socket = "up" /\ wire = <<>>
    /\ micro = [given |-> 0, taken |-> {}, dead |-> FALSE]
    /\ hang = [pc |-> "talking", taken |-> {}]

SessionClosed == hang.pc \in {"joining", "stopping", "gone"}

----------------------------------------------------------------------------
(* Direction.push_frame and RunpodSttSession.push_frame *)

\* put_nowait: a sender that died is not looked at, the queue takes frames until it is full.
SessionPush(n) ==
    /\ Len(audio) < QueueFrames
    /\ audio' = Append(audio, n) /\ unfinished' = unfinished + 1
    /\ micro' = [micro EXCEPT !.given = n, !.taken = @ \cup {n}]

\* What the session refuses is logged once, and nothing is offered to it again.
InputDead(n) ==
    /\ micro' = [micro EXCEPT !.given = n, !.dead = TRUE]
    /\ UNCHANGED <<audio, unfinished>>

PushFrame ==
    /\ micro.given < MaxFrames /\ ~SessionClosed
    /\ LET n == micro.given + 1 IN
       \/ ~micro.dead /\ SessionPush(n)
       \/ (micro.dead \/ Len(audio) = QueueFrames) /\ InputDead(n)
    /\ UNCHANGED <<sender, socket, wire, hang>>

----------------------------------------------------------------------------
(* _send_audio *)

\* The last one wakes who joins the queue, whatever comes after it.
TaskDone ==
    /\ unfinished' = unfinished - 1
    /\ hang' = IF unfinished = 1 /\ hang.pc = "flushing" THEN [hang EXCEPT !.pc = "joined"]
               ELSE hang

SenderTakes ==
    /\ sender.pc = "get" /\ audio # <<>>
    /\ audio' = Tail(audio)
    /\ IF Head(audio) = 0
       THEN sender' = [sender EXCEPT !.pc = "ended"] /\ TaskDone
       ELSE sender' = [pc |-> "send", frame |-> Head(audio)] /\ UNCHANGED <<unfinished, hang>>
    /\ UNCHANGED <<socket, wire, micro>>

SenderSent ==
    /\ sender.pc = "send" /\ socket = "up"
    /\ wire' = Append(wire, sender.frame)
    /\ sender' = [pc |-> "get", frame |-> 0]
    /\ TaskDone
    /\ UNCHANGED <<audio, socket, micro>>

\* The frame counts as done all the same, the ones behind it never will.
SenderFails ==
    /\ sender.pc = "send" /\ socket = "down"
    /\ sender' = [pc |-> "failed", frame |-> 0]
    /\ TaskDone
    /\ UNCHANGED <<audio, socket, wire, micro>>

SocketBreaks ==
    /\ socket = "up" /\ socket' = "down"
    /\ UNCHANGED <<audio, unfinished, sender, wire, micro, hang>>

----------------------------------------------------------------------------
(* The hang-up: Direction._drain_trailing_speech up to the flush, then aclose. *)

\* Mutant: the order to finish does not wait for the audio before it.
LinkHangupAtOnce ==
    /\ hang.pc = "talking"
    /\ hang' = [hang EXCEPT !.pc = "joined", !.taken = micro.taken]
    /\ UNCHANGED <<audio, unfinished, sender, socket, wire, micro>>

\* flush(): join() waits only if there is something to wait for.
LinkHangup ==
    /\ hang.pc = "talking"
    /\ hang' = [hang EXCEPT !.pc = IF unfinished = 0 THEN "joined" ELSE "flushing",
                            !.taken = micro.taken]
    /\ UNCHANGED <<audio, unfinished, sender, socket, wire, micro>>

\* No order on behalf of a sender that failed.  What flush() raises is suppressed.
FlushTold ==
    /\ hang.pc = "joined"
    /\ hang' = [hang EXCEPT !.pc = "flushed"]
    /\ wire' = IF sender.pc # "failed" /\ socket = "up" THEN Append(wire, FlushOrder) ELSE wire
    /\ UNCHANGED <<audio, unfinished, sender, socket, micro>>

\* The drain is over: aclose of the session.
LinkCloses ==
    /\ hang.pc = "flushed"
    /\ hang' = [hang EXCEPT !.pc = "joining"]
    /\ UNCHANGED <<audio, unfinished, sender, socket, wire, micro>>

\* The queue is joined, or not within 2 s; the sender is told to stop, if there is room.
JoinedOrTimedOut ==
    /\ hang.pc = "joining"
    /\ hang' = [hang EXCEPT !.pc = "stopping"]
    /\ wire' = IF unfinished = 0 /\ sender.pc # "failed" /\ socket = "up"
               THEN Append(wire, CloseOrder) ELSE wire
    /\ IF Len(audio) < QueueFrames
       THEN audio' = Append(audio, 0) /\ unfinished' = unfinished + 1
       ELSE UNCHANGED <<audio, unfinished>>
    /\ UNCHANGED <<sender, socket, micro>>

\* It ended, or is cancelled after 2 s.
SenderStopped ==
    /\ hang.pc = "stopping"
    /\ hang' = [hang EXCEPT !.pc = "gone"]
    /\ sender' = IF sender.pc \in {"ended", "failed"} THEN sender
                 ELSE [pc |-> "cancelled", frame |-> 0]
    /\ socket' = "down"
    /\ UNCHANGED <<audio, unfinished, wire, micro>>

----------------------------------------------------------------------------
LinkSends == SenderTakes \/ SenderSent \/ SenderFails

LinkClosing == FlushTold \/ LinkCloses \/ JoinedOrTimedOut \/ SenderStopped

LinkNext == PushFrame \/ LinkSends \/ SocketBreaks \/ LinkHangup \/ LinkClosing

LinkSpec == LinkInit /\ [][LinkNext]_linkVars

\* Tasks that can go on do; the recogniser reads its socket.
LinkFairSpec == LinkSpec /\ WF_linkVars(LinkSends) /\ WF_linkVars(LinkClosing)

----------------------------------------------------------------------------
(* Properties. *)

Frames == 1 .. MaxFrames

\* Every variable has its type.
LinkTypeOK ==
    /\ audio \in Seq(0 .. MaxFrames) /\ Len(audio) <= QueueFrames
    /\ unfinished \in 0 .. QueueFrames + 1
    /\ sender \in [pc : {"get", "send", "ended", "failed", "cancelled"}, frame : 0 .. MaxFrames]
    /\ socket \in {"up", "down"}
    /\ wire \in Seq(Frames \cup {FlushOrder, CloseOrder})
    /\ micro \in [given : 0 .. MaxFrames, taken : SUBSET Frames, dead : BOOLEAN]
    /\ hang \in [pc : LinkPhases, taken : SUBSET Frames]

\* The recogniser is told to finish the utterance behind every frame spoken before the
\* hang-up: an order that overtakes the audio loses "the closing words of every call".
FlushFollowsAudio ==
    \A i \in DOMAIN wire : wire[i] = FlushOrder =>
        hang.taken \subseteq {wire[j] : j \in 1 .. i - 1}

\* docs/05-providers.md: on aclose() a direction sends flush() and waits for the final
\* "not long, CLOSE_DRAIN_S".  So a hang-up gets past the flush.
HangupIsBrief == (hang.pc = "flushing") ~> (hang.pc # "flushing")
==============================================================================
