---------------------------- MODULE RingClient ----------------------------
(***************************************************************************)
(* One browser tab: the ring reducer of ring.ts, the poll loop of          *)
(* ringpoll.ts, the gate of autojoin.ts, and the functions of main.ts that *)
(* answer, refuse, cancel and enter calls, split at each await.            *)
(*                                                                         *)
(* The backend is what a poll of it may say.  Delays, texts and presence   *)
(* dots are left out; a tab that is closed polls no more.                  *)
(***************************************************************************)
EXTENDS Integers, FiniteSets

CONSTANTS
    MaxIn, MaxOut,      \* bounds: calls that ring this user, calls it places
    Slots,              \* bound: functions of main.ts running at a time
    MaxAttempts         \* AUTO_JOIN_MAX_ATTEMPTS

ASSUME RingClientAssumption == MaxIn \in Nat /\ MaxOut \in Nat /\ MaxAttempts \in Nat \ {0}

VARIABLES
    tab,        \* RingState
    timer,      \* whether a poll is scheduled
    flight,     \* the poll in flight: none, sent, or what the backend answered
    gate,       \* AutoJoinGate
    flows,      \* acceptRinging, declineRinging, cancelOutgoing, joinAnswered
    session,    \* whether there is a CallSession
    backend,    \* the newest ring each way
    pressed,    \* incoming calls whose Accept or Decline was pressed and has no answer yet;
                \* emptied when a call, this or another, is entered and the panel put away
    settled     \* incoming calls this user has answered or refused

ringVars == <<tab, timer, flight, gate, flows, session, backend, pressed, settled>>

Incoming == 0 .. MaxIn          \* 0: null
Outgoing == 0 .. MaxOut
RingPhases == {"idle", "ringing", "accepting", "declining", "closed"}
OutgoingPhases == {"idle", "ringing", "answered", "cancelling", "joining", "closed"}
FlowKinds == {"accept", "decline", "cancel", "join"}
FlowSteps == {"request", "entering", "connecting"}
Free == [kind |-> "none", at |-> "none", call |-> 0]

NoFlight == [state |-> "none", in |-> 0, out |-> 0, ring |-> "none"]
RingVerdicts == {"none", "ringing", "accepted", "over"}

\* Also the tab that was reloaded while its ring went on.
RingClientInit ==
    /\ tab = [phase |-> "idle", call |-> 0, handled |-> 0, out |-> "idle", outgoing |-> 0,
              outHandled |-> 0, suspended |-> FALSE, supported |-> TRUE]
    /\ timer = TRUE /\ flight = NoFlight
    /\ gate = [call |-> 0, attempts |-> 0, placed |-> {}, abandoned |-> {}]
    /\ flows = [s \in Slots |-> Free] /\ session = FALSE
    /\ pressed = {} /\ settled = {}
    /\ \/ backend = [in |-> 0, rings |-> FALSE, out |-> 0, ring |-> "none"]
       \/ MaxOut > 0 /\ backend = [in |-> 0, rings |-> FALSE, out |-> 1, ring |-> "accepted"]

----------------------------------------------------------------------------
(* The reducer: each operator is one event. *)

HandledCall(t) == IF t.call # 0 THEN t.call ELSE t.handled
HandledOut(t) == IF t.outgoing # 0 THEN t.outgoing ELSE t.outHandled
CloseIncoming(t) == [t EXCEPT !.phase = "closed", !.handled = HandledCall(t)]
CloseOutgoing(t) == [t EXCEPT !.out = "closed", !.outHandled = HandledOut(t)]

ApplyIncoming(t, in) ==
    IF t.phase \in {"accepting", "declining"} THEN t
    ELSE IF in = 0 THEN IF t.phase = "ringing" THEN CloseIncoming(t) ELSE t
    ELSE IF in = t.handled THEN t
    ELSE [t EXCEPT !.phase = "ringing", !.call = in]

ApplyOutgoing(t, out, ring) ==
    IF t.out \in {"cancelling", "joining"} THEN t
    ELSE IF ring = "none" THEN IF t.out \in {"ringing", "answered"} THEN CloseOutgoing(t) ELSE t
    ELSE IF out = t.outHandled THEN t
    ELSE IF ring = "over"
         THEN IF t.out \in {"idle", "closed"} THEN [t EXCEPT !.outHandled = out]
              ELSE CloseOutgoing([t EXCEPT !.outgoing = out])
    ELSE [t EXCEPT !.outgoing = out, !.out = IF ring = "accepted" THEN "answered" ELSE "ringing"]

Polled(t, poll) == ApplyOutgoing(ApplyIncoming(t, poll.in), poll.out, poll.ring)
Unsupported(t) == [t EXCEPT !.supported = FALSE, !.phase = "idle", !.call = 0,
                            !.out = "idle", !.outgoing = 0]
Accepted(t) == [CloseIncoming(t) EXCEPT !.phase = "idle", !.suspended = TRUE]
Joined(t) == [CloseOutgoing(t) EXCEPT !.out = "idle", !.outgoing = 0, !.suspended = TRUE]
Abandoned(t) == [t EXCEPT !.out = "idle", !.outgoing = 0, !.outHandled = HandledOut(t)]

\* Mutant: the offer goes with the panel.
SuspendForgetting(t) == [t EXCEPT !.suspended = TRUE, !.phase = "idle", !.call = 0,
                                  !.out = "idle"]

\* The calls are kept for the `accepted' or `joined' that follows.
Suspend(t) == [t EXCEPT !.suspended = TRUE, !.phase = "idle", !.out = "idle"]
Resume(t) == [t EXCEPT !.suspended = FALSE]

----------------------------------------------------------------------------
(* dispatch: the reducer, the paint with its automatic join, the next poll. *)

Polls(t) == t.supported /\ ~t.suspended

Abandon(id) == [gate EXCEPT !.call = id, !.abandoned = @ \cup {id}]

\* What the gate may say of an answered call.
Decide(t) ==
    LET id == t.outgoing
        attempts == IF id = gate.call THEN gate.attempts ELSE 0
        gone == id \in gate.abandoned
        spent == attempts >= MaxAttempts
    IN    {x \in {[tab |-> Abandoned(t), gate |-> Abandon(id), joins |-> 0]} :
              gone \/ spent \/ id \notin gate.placed}   \* or its deadline has passed
     \cup {x \in {[tab |-> t, gate |-> gate, joins |-> 0]} :
              ~gone /\ ~spent /\ attempts > 0}          \* too soon after the last try
     \cup {x \in {[tab |-> [t EXCEPT !.out = "joining"], joins |-> id,
                   gate |-> [gate EXCEPT !.call = id, !.attempts = attempts + 1]]} :
              ~gone /\ ~spent}

Painted(t) == IF t.out = "answered" THEN Decide(t)
              ELSE {[tab |-> t, gate |-> gate, joins |-> 0]}

FreeSlots(fs) == {s \in Slots : fs[s] = Free}
Launch(fs, flow) == [fs EXCEPT ![CHOOSE s \in FreeSlots(fs) : TRUE] = flow]

\* Mutant: the next poll is left to a dispatch that finds one in flight.
DispatchUnplanned(t, fs) ==
    \E d \in Painted(t) :
       /\ tab' = d.tab /\ gate' = d.gate
       /\ timer' = IF flight.state = "none" THEN Polls(d.tab) ELSE timer
       /\ IF d.joins = 0 THEN flows' = fs
          ELSE /\ FreeSlots(fs) # {}
               /\ flows' = Launch(fs, [kind |-> "join", at |-> "entering", call |-> d.joins])

\* Nothing is scheduled while a poll is in flight: its end does that.
Dispatch(t, fs) ==
    \E d \in Painted(t) :
       /\ tab' = d.tab /\ gate' = d.gate
       /\ timer' = IF flight'.state = "none" THEN Polls(d.tab) ELSE timer
       /\ IF d.joins = 0 THEN flows' = fs
          ELSE /\ FreeSlots(fs) # {}
               /\ flows' = Launch(fs, [kind |-> "join", at |-> "entering", call |-> d.joins])

----------------------------------------------------------------------------
(* The poll loop. *)

Fire ==
    /\ timer /\ flight.state = "none"
    /\ timer' = FALSE /\ flight' = [NoFlight EXCEPT !.state = "sent"]
    /\ UNCHANGED <<tab, gate, flows, session, backend, pressed, settled>>

\* The backend answers from the rings of this moment.
Answer ==
    /\ flight.state = "sent"
    /\ flight' = [state |-> "answered", in |-> IF backend.rings THEN backend.in ELSE 0,
                  out |-> backend.out, ring |-> backend.ring]
    /\ UNCHANGED <<tab, timer, gate, flows, session, backend, pressed, settled>>

\* Also when it was sent before the tab was suspended, or before a button was pressed:
\* only the phase of the tab it lands in is looked at.
PollLands ==
    /\ flight.state = "answered"
    /\ flight' = NoFlight
    /\ Dispatch(Polled(tab, flight), flows)
    /\ UNCHANGED <<session, backend, pressed, settled>>

\* A failure is counted for the delay; a backend without the routes ends the loop.
PollFails ==
    /\ flight.state # "none"
    /\ flight' = NoFlight
    /\ \/ Dispatch(tab, flows)
       \/ Dispatch(Unsupported(tab), flows)
    /\ UNCHANGED <<session, backend, pressed, settled>>

----------------------------------------------------------------------------
(* Buttons and epitaphs. *)

Press(kind, call, t) ==
    /\ FreeSlots(flows) # {}
    /\ UNCHANGED <<flight, session>>
    /\ Dispatch(t, Launch(flows, [kind |-> kind, at |-> "request", call |-> call]))

PressAccept ==
    /\ tab.phase = "ringing"
    /\ Press("accept", tab.call, [tab EXCEPT !.phase = "accepting"])
    /\ pressed' = pressed \cup {tab.call}
    /\ UNCHANGED <<backend, settled>>

PressDecline ==
    /\ tab.phase = "ringing"
    /\ Press("decline", tab.call, [tab EXCEPT !.phase = "declining"])
    /\ pressed' = pressed \cup {tab.call}
    /\ UNCHANGED <<backend, settled>>

PressCancel ==
    /\ tab.out \in {"ringing", "answered"}
    /\ Press("cancel", tab.outgoing, [tab EXCEPT !.out = "cancelling"])
    /\ UNCHANGED <<backend, pressed, settled>>

\* startCall with a ring: the backend has it before the answer comes back.
PlaceCall ==
    /\ backend.out < MaxOut /\ backend.ring \in {"none", "over"} /\ tab.supported
    /\ Press("create", backend.out + 1, tab)
    /\ backend' = [backend EXCEPT !.out = @ + 1, !.ring = "ringing"]
    /\ UNCHANGED <<pressed, settled>>

Dismiss ==
    /\ \/ tab.phase = "closed" /\ UNCHANGED flight
          /\ Dispatch([tab EXCEPT !.phase = "idle", !.call = 0], flows)
       \/ tab.out = "closed" /\ UNCHANGED flight
          /\ Dispatch([tab EXCEPT !.out = "idle", !.outgoing = 0], flows)
    /\ UNCHANGED <<session, backend, pressed, settled>>

----------------------------------------------------------------------------
(* The functions behind the buttons, from one await to the next. *)

At1(s, kinds, at) == flows[s].kind \in kinds /\ flows[s].at = at /\ UNCHANGED flight

Goes1(s, at) == [flows EXCEPT ![s].at = at]
Ends1(s) == [flows EXCEPT ![s] = Free]
Settles(s) == pressed' = pressed \ {flows[s].call} /\ settled' = settled \cup {flows[s].call}
Relents(s) == pressed' = pressed \ {flows[s].call} /\ UNCHANGED settled   \* it may be pressed again

\* What a request for a ring may do to it.
StopsRinging(c) == backend' = [backend EXCEPT !.rings = @ /\ backend.in # c]

AcceptFailed(t) == [t EXCEPT !.phase = IF t.call # 0 THEN "ringing" ELSE "idle"]

AcceptReturns(s) ==
    /\ At1(s, {"accept"}, "request")
    /\ \/ \* answered: the call is entered
          /\ StopsRinging(flows[s].call) /\ flows' = Goes1(s, "entering")
          /\ UNCHANGED <<tab, timer, gate, pressed, settled>>
       \/ \* it is gone
          /\ ~(backend.rings /\ backend.in = flows[s].call)
          /\ Dispatch(CloseIncoming(tab), Ends1(s)) /\ Settles(s) /\ UNCHANGED backend
       \/ \* a failure, whatever the request did
          /\ UNCHANGED backend \/ StopsRinging(flows[s].call)
          /\ Dispatch(AcceptFailed(tab), Ends1(s)) /\ Relents(s)
    /\ UNCHANGED session

\* Refused, or not: either way this user has done with it.
DeclineReturns(s) ==
    /\ At1(s, {"decline"}, "request")
    /\ UNCHANGED backend \/ StopsRinging(flows[s].call)
    /\ Dispatch(CloseIncoming(tab), Ends1(s)) /\ Settles(s)
    /\ UNCHANGED session

CancelReturns(s) ==
    /\ At1(s, {"cancel"}, "request")
    /\ UNCHANGED backend \/ backend' = [backend EXCEPT !.ring = "over"]
    /\ Dispatch(CloseOutgoing(tab), Ends1(s))
    /\ UNCHANGED <<session, pressed, settled>>

CreateReturns(s) ==
    /\ At1(s, {"create"}, "request")
    /\ LET t == [tab EXCEPT !.outgoing = flows[s].call, !.out = "ringing"] IN
       /\ tab' = t /\ flows' = Ends1(s)
       /\ timer' = IF flight.state = "none" THEN Polls(t) ELSE timer
    /\ gate' = [gate EXCEPT !.placed = @ \cup {flows[s].call}]
    /\ UNCHANGED <<session, backend, pressed, settled>>

\* enterCall: the join is refused, or fails, or the media session is started.
JoinReturns(s) ==
    /\ At1(s, {"accept", "join"}, "entering")
    /\ \/ /\ Dispatch(Suspend(tab), Goes1(s, "connecting"))
          /\ session' = TRUE /\ pressed' = {} /\ UNCHANGED settled
       \/ /\ flows[s].kind = "accept"
          /\ \/ Dispatch(CloseIncoming(tab), Ends1(s)) /\ Settles(s)
             \/ Dispatch(AcceptFailed(tab), Ends1(s)) /\ Relents(s)
          /\ UNCHANGED session
       \/ /\ flows[s].kind = "join"
          /\ Dispatch(CloseOutgoing(tab), Ends1(s))
          /\ UNCHANGED <<session, pressed, settled>>
    /\ UNCHANGED backend

Entered(s, t) == IF flows[s].kind = "accept" THEN Accepted(t) ELSE Joined(t)

\* session.start() is over.  When it fails enterCall resumes the polling and returns as
\* ever, and its caller goes on.
Connected1(s) ==
    /\ At1(s, {"accept", "join"}, "connecting")
    /\ \/ Dispatch(Entered(s, tab), Ends1(s)) /\ UNCHANGED session
       \/ Dispatch(Entered(s, Resume(tab)), Ends1(s)) /\ session' = FALSE
    /\ IF flows[s].kind = "accept" THEN Settles(s) ELSE UNCHANGED <<pressed, settled>>
    /\ UNCHANGED backend

\* handleEnded: somebody hung up, or the connection was lost.
SessionEnds ==
    /\ session
    /\ session' = FALSE
    /\ UNCHANGED flight /\ Dispatch(Resume(tab), flows)
    /\ UNCHANGED <<backend, pressed, settled>>

----------------------------------------------------------------------------
(* The backend: a ring at a time each way; it ends by itself or by others. *)

BackendMoves ==
    /\ \/ /\ ~backend.rings /\ backend.in < MaxIn
          /\ backend' = [backend EXCEPT !.in = @ + 1, !.rings = TRUE]
       \/ backend.rings /\ backend' = [backend EXCEPT !.rings = FALSE]
       \/ /\ backend.ring = "ringing"
          /\ \E r \in {"accepted", "over"} : backend' = [backend EXCEPT !.ring = r]
       \/ /\ backend.ring \in {"accepted", "over"}
          /\ \E r \in {"over", "none"} \ {backend.ring} : backend' = [backend EXCEPT !.ring = r]
    /\ UNCHANGED <<tab, timer, flight, gate, flows, session, pressed, settled>>

FlowStep == \E s \in Slots : \/ AcceptReturns(s) \/ DeclineReturns(s) \/ CancelReturns(s)
                             \/ CreateReturns(s) \/ JoinReturns(s) \/ Connected1(s)

PollStep == Fire \/ Answer \/ PollLands \/ PollFails

UserStep == PressAccept \/ PressDecline \/ PressCancel \/ PlaceCall \/ Dismiss \/ SessionEnds

RingClientNext == PollStep \/ UserStep \/ FlowStep \/ BackendMoves

RingClientSpec == RingClientInit /\ [][RingClientNext]_ringVars

----------------------------------------------------------------------------
(* Properties. *)

RingClientTypeOK ==
    /\ tab \in [phase : RingPhases, call : Incoming, handled : Incoming, out : OutgoingPhases,
                outgoing : Outgoing, outHandled : Outgoing, suspended : BOOLEAN,
                supported : BOOLEAN]
    /\ timer \in BOOLEAN /\ session \in BOOLEAN
    /\ flight \in [state : {"none", "sent", "answered"}, in : Incoming, out : Outgoing,
                   ring : RingVerdicts]
    /\ gate \in [call : Outgoing, attempts : 0 .. MaxAttempts, placed : SUBSET Outgoing,
                 abandoned : SUBSET Outgoing]
    /\ flows \in [Slots -> [kind : FlowKinds \cup {"create", "none"},
                            at : FlowSteps \cup {"none"}, call : Incoming \cup Outgoing]]
    /\ backend \in [in : Incoming, rings : BOOLEAN, out : Outgoing, ring : RingVerdicts]
    /\ pressed \subseteq Incoming /\ settled \subseteq Incoming

\* ringpoll.ts: "exactly one timer and at most one in-flight request, ever".  A tab that
\* polls has the one or the other, whatever is dispatched around a poll in flight, so it
\* never goes deaf; a tab in a call, or without the routes, has no timer.
OneLoop == IF flight.state = "none" THEN timer = Polls(tab) ELSE ~timer

\* From the press on, and when it is settled, a call is not offered again, however old the
\* poll that lands is, whatever else goes on in the tab, and whether the backend has heard of
\* the press or not: "A poll that lands mid-accept/mid-decline must not undo the user's
\* press", "a still-open offer will not re-ring".  Two things bring it back: an accept that
\* fails, also when the call was refused meanwhile; and a poll that lands when a call was
\* entered since the press, this one or another, and the press has no answer yet: `suspend'
\* has put the panel away and the call is not handled.
SettledIsNotOffered ==
    [][\A c \in pressed \cup settled :
         tab'.phase = "ringing" /\ tab'.call = c =>
           \/ tab.phase = "ringing" /\ tab.call = c
           \/ \E s \in Slots : flows[s].kind = "accept" /\ flows'[s] # flows[s]]_ringVars
=============================================================================
