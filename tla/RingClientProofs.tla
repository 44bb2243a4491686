-------------------------- MODULE RingClientProofs --------------------------
(***************************************************************************)
(* What RingClient promises for any number of rings, calls and functions   *)
(* in hand: one poll loop, and no poll that offers a pressed call again.   *)
(*                                                                         *)
(* Calls are numbered in the order they ring, so the tab and its polls     *)
(* only ever look forward: what is handled, what is on offer, what a poll  *)
(* brings and what the backend has come in this order.                     *)
(***************************************************************************)
EXTENDS RingClient, TLAPS

Tabs == [phase : RingPhases, call : Nat, handled : Nat, out : OutgoingPhases, outgoing : Nat,
         outHandled : Nat, suspended : BOOLEAN, supported : BOOLEAN]

Flows == [kind : FlowKinds \cup {"create", "none"}, at : FlowSteps \cup {"none"}, call : Nat]
FlowTables == [Slots -> Flows]

Flights == [state : {"none", "sent", "answered"}, in : Nat, out : Nat, ring : RingVerdicts]
Backends == [in : Nat, rings : BOOLEAN, out : Nat, ring : RingVerdicts]

\* Oldest first: what is settled, handled, on offer, brought by the poll, and rung.
Forward(t, fs, fl, b, se) ==
    /\ t.call = 0 \/ t.handled <= t.call
    /\ t.phase = "closed" => t.call <= t.handled
    /\ t.call <= b.in /\ t.handled <= b.in
    /\ \A s \in Slots : fs[s].kind \in {"accept", "decline"} =>
                          fs[s].call <= t.call \/ fs[s].call <= t.handled
    /\ \A c \in se : c <= t.handled
    /\ fl.state = "answered" => \/ fl.in = 0
                                \/ t.call <= fl.in /\ t.handled <= fl.in /\ fl.in <= b.in

Consistent(t, fs, fl, b, se) ==
    /\ fl \in Flights /\ b \in Backends /\ se \subseteq Nat
    /\ IF t.supported THEN Forward(t, fs, fl, b, se) ELSE fl.state = "none"

RingInv ==
    /\ tab \in Tabs /\ flows \in FlowTables
    /\ Consistent(tab, flows, flight, backend, settled)

\* Two states of the ring that no poll, press or epitaph of an incoming call tells apart.
SameOffer(t, u) ==
    u.phase = t.phase /\ u.call = t.call /\ u.handled = t.handled /\ u.supported = t.supported

----------------------------------------------------------------------------
(* The reducer. *)

LEMMA Reduced ==
    ASSUME NEW t \in Tabs
    PROVE  /\ CloseIncoming(t) \in Tabs /\ CloseOutgoing(t) \in Tabs /\ Unsupported(t) \in Tabs
           /\ Accepted(t) \in Tabs /\ Joined(t) \in Tabs /\ Abandoned(t) \in Tabs
           /\ Suspend(t) \in Tabs /\ Resume(t) \in Tabs /\ AcceptFailed(t) \in Tabs
  BY DEF CloseIncoming, CloseOutgoing, Unsupported, Accepted, Joined, Abandoned, Suspend, Resume,
         AcceptFailed, HandledCall, HandledOut, Tabs, RingPhases, OutgoingPhases

LEMMA OutgoingApplied ==
    ASSUME NEW t \in Tabs, NEW out \in Nat, NEW ring \in RingVerdicts
    PROVE  ApplyOutgoing(t, out, ring) \in Tabs /\ SameOffer(t, ApplyOutgoing(t, out, ring))
  BY DEF ApplyOutgoing, CloseOutgoing, HandledOut, Tabs, OutgoingPhases, RingVerdicts, SameOffer

LEMMA IncomingApplied ==
    ASSUME NEW t \in Tabs, NEW in \in Nat
    PROVE  LET u == ApplyIncoming(t, in)
           IN /\ u \in Tabs /\ u.supported = t.supported
              /\ \/ SameOffer(t, u)
                 \/ u.phase = "closed" /\ u.call = t.call /\ u.handled = HandledCall(t)
                 \/ /\ in # 0 /\ in # t.handled
                    /\ u.phase = "ringing" /\ u.call = in /\ u.handled = t.handled
  BY DEF ApplyIncoming, CloseIncoming, HandledCall, Tabs, RingPhases, SameOffer

\* Painting may abandon or join an outgoing call; it leaves the offer alone.
LEMMA Painting ==
    ASSUME NEW t \in Tabs, NEW d \in Painted(t)
    PROVE  d.tab \in Tabs /\ SameOffer(t, d.tab) /\ d.joins \in Nat
  <1>1. CASE t.out = "answered"
    <2>1. \/ d.tab = Abandoned(t) /\ d.joins = 0
          \/ d.tab = t /\ d.joins = 0
          \/ d.tab = [t EXCEPT !.out = "joining"] /\ d.joins = t.outgoing
      BY <1>1 DEF Painted, Decide
    <2>2. CASE d.tab = Abandoned(t) /\ d.joins = 0
      <3>1. Abandoned(t) \in Tabs
        BY Reduced
      <3> QED
        BY <2>2, <3>1 DEF Abandoned, Tabs, SameOffer
    <2>3. CASE d.tab = t /\ d.joins = 0
      BY <2>3 DEF SameOffer
    <2>4. CASE d.tab = [t EXCEPT !.out = "joining"] /\ d.joins = t.outgoing
      BY <2>4 DEF Tabs, OutgoingPhases, SameOffer
    <2> QED
      BY <2>1, <2>2, <2>3, <2>4
  <1>2. CASE t.out # "answered"
    BY <1>2 DEF Painted, SameOffer
  <1> QED
    BY <1>1, <1>2

LEMMA Launching ==
    ASSUME NEW fs \in FlowTables, FreeSlots(fs) # {}, NEW flow \in Flows
    PROVE  /\ Launch(fs, flow) \in FlowTables
           /\ \A s \in Slots : Launch(fs, flow)[s] \in {fs[s], flow}
  BY DEF Launch, FreeSlots, FlowTables

LEMMA Dispatching ==
    ASSUME NEW t \in Tabs, NEW fs \in FlowTables, Dispatch(t, fs)
    PROVE  /\ tab' \in Tabs /\ SameOffer(t, tab') /\ flows' \in FlowTables
           /\ \A s \in Slots : flows'[s] = fs[s] \/ flows'[s].kind = "join"
           /\ timer' = IF flight'.state = "none" THEN Polls(tab') ELSE timer
  <1>1. PICK d \in Painted(t) :
           /\ tab' = d.tab
           /\ timer' = IF flight'.state = "none" THEN Polls(d.tab) ELSE timer
           /\ IF d.joins = 0 THEN flows' = fs
              ELSE /\ FreeSlots(fs) # {}
                   /\ flows' = Launch(fs, [kind |-> "join", at |-> "entering", call |-> d.joins])
    BY DEF Dispatch
  <1>2. d.tab \in Tabs /\ SameOffer(t, d.tab) /\ d.joins \in Nat
    BY Painting
  <1>3. [kind |-> "join", at |-> "entering", call |-> d.joins] \in Flows
    BY <1>2 DEF Flows, FlowKinds, FlowSteps
  <1>4. flows' \in FlowTables /\ \A s \in Slots : flows'[s] = fs[s] \/ flows'[s].kind = "join"
    BY <1>1, <1>3, Launching
  <1> QED
    BY <1>1, <1>2, <1>4

----------------------------------------------------------------------------
(* How the pieces of the invariant move. *)

\* The functions still in hand for incoming calls are among those of fs.
NoNewAnswers(fs, gs) ==
    \A s \in Slots : gs[s].kind \in {"accept", "decline"} =>
                      fs[s].kind = gs[s].kind /\ fs[s].call = gs[s].call

\* The offer stays, and is not closed.
LEMMA Keeping ==
    ASSUME NEW t \in Tabs, NEW u \in Tabs, NEW fs, NEW gs, NEW fl, NEW b, NEW c, NEW se, NEW sf,
           Consistent(t, fs, fl, b, se), NoNewAnswers(fs, gs),
           u.call = t.call, u.handled = t.handled, u.supported = t.supported,
           u.phase = "closed" => t.phase = "closed",
           c \in Backends, b.in <= c.in, sf \subseteq se
    PROVE  Consistent(u, gs, fl, c, sf)
  <1>1. CASE t.supported
    <2>1. Forward(t, fs, fl, b, se) /\ fl \in Flights /\ b \in Backends /\ se \subseteq Nat
      BY <1>1 DEF Consistent
    <2>2. /\ t.call \in Nat /\ t.handled \in Nat /\ b.in \in Nat /\ c.in \in Nat /\ fl.in \in Nat
      BY <2>1 DEF Tabs, Backends, Flights
    <2>3. \A s \in Slots : gs[s].kind \in {"accept", "decline"} =>
                             gs[s].call <= u.call \/ gs[s].call <= u.handled
      BY <2>1 DEF Forward, NoNewAnswers
    <2>4. Forward(u, gs, fl, c, sf)
      BY <2>1, <2>2, <2>3 DEF Forward
    <2> QED
      BY <1>1, <2>1, <2>4 DEF Consistent
  <1>2. CASE ~t.supported
    BY <1>2 DEF Consistent
  <1> QED
    BY <1>1, <1>2

\* The call on offer becomes the handled one; a call no newer than it may be settled.
LEMMA ClosingStep ==
    ASSUME NEW t \in Tabs, NEW u \in Tabs, NEW fs \in FlowTables, NEW gs, NEW fl, NEW b, NEW c,
           NEW se, NEW n \in Nat,
           Consistent(t, fs, fl, b, se), NoNewAnswers(fs, gs),
           u.call = t.call, u.handled = HandledCall(t), u.supported = t.supported,
           c \in Backends, c.in = b.in,
           t.supported => n <= t.call \/ n <= t.handled
    PROVE  Consistent(u, gs, fl, c, se \cup {n})
  <1>1. CASE t.supported
    <2>1. Forward(t, fs, fl, b, se) /\ fl \in Flights /\ b \in Backends /\ se \subseteq Nat
      BY <1>1 DEF Consistent
    <2>2. /\ t.call \in Nat /\ t.handled \in Nat /\ b.in \in Nat /\ fl.in \in Nat
          /\ \A s \in Slots : fs[s].call \in Nat
      BY <2>1 DEF Tabs, Backends, Flights, FlowTables, Flows
    <2>3. /\ u.handled \in Nat /\ t.call <= u.handled /\ t.handled <= u.handled
          /\ u.handled \in {t.call, t.handled}
      BY <2>1, <2>2 DEF Forward, HandledCall
    <2>4. \A s \in Slots : gs[s].kind \in {"accept", "decline"} =>
                             gs[s].call <= u.call \/ gs[s].call <= u.handled
      <3> SUFFICES ASSUME NEW s \in Slots, gs[s].kind \in {"accept", "decline"}
                   PROVE  gs[s].call <= u.handled
        OBVIOUS
      <3>1. fs[s].kind \in {"accept", "decline"} /\ fs[s].call = gs[s].call
        BY DEF NoNewAnswers
      <3>2. fs[s].call <= t.call \/ fs[s].call <= t.handled
        BY <2>1, <3>1 DEF Forward
      <3> QED
        BY <2>2, <2>3, <3>1, <3>2
    <2>5. \A m \in se \cup {n} : m <= u.handled
      BY <1>1, <2>1, <2>2, <2>3 DEF Forward
    <2>6. Forward(u, gs, fl, c, se \cup {n})
      BY <2>1, <2>2, <2>3, <2>4, <2>5 DEF Forward
    <2> QED
      BY <1>1, <2>1, <2>6 DEF Consistent
  <1>2. CASE ~t.supported
    BY <1>2 DEF Consistent
  <1> QED
    BY <1>1, <1>2

\* A dispatch leaves behind what it was given, in order.
LEMMA Advancing ==
    ASSUME NEW t \in Tabs, NEW fs \in FlowTables, Dispatch(t, fs),
           Consistent(t, fs, flight', backend', settled'),
           OneLoop, flight'.state = "none" \/ flight' = flight
    PROVE  RingInv' /\ OneLoop'
  <1>1. /\ tab' \in Tabs /\ SameOffer(t, tab') /\ flows' \in FlowTables
        /\ \A s \in Slots : flows'[s] = fs[s] \/ flows'[s].kind = "join"
        /\ timer' = IF flight'.state = "none" THEN Polls(tab') ELSE timer
    BY Dispatching
  <1>2. NoNewAnswers(fs, flows')
    BY <1>1 DEF NoNewAnswers
  <1>3. backend' \in Backends /\ backend'.in <= backend'.in
    BY DEF Consistent, Backends
  <1>4. Consistent(tab', flows', flight', backend', settled')
    BY <1>1, <1>2, <1>3, Keeping DEF SameOffer
  <1>5. OneLoop'
    <2>1. CASE flight'.state = "none"
      BY <1>1, <2>1 DEF OneLoop, Polls
    <2>2. CASE flight'.state # "none"
      BY <1>1, <2>2 DEF OneLoop
    <2> QED
      BY <2>1, <2>2
  <1> QED
    BY <1>1, <1>4, <1>5 DEF RingInv

----------------------------------------------------------------------------
(* One step per action.  A tab without the routes has no timer, so it never polls. *)

LEMMA Starting == RingClientInit => RingInv /\ OneLoop
  <1> SUFFICES ASSUME RingClientInit PROVE RingInv /\ OneLoop
    OBVIOUS
  <1>1. tab \in Tabs /\ tab.call = 0 /\ tab.handled = 0 /\ tab.phase = "idle" /\ Polls(tab)
    BY DEF RingClientInit, Tabs, RingPhases, OutgoingPhases, Polls
  <1>2. flows \in FlowTables /\ \A s \in Slots : flows[s].kind = "none"
    BY DEF RingClientInit, FlowTables, Flows, Free
  <1>3. flight \in Flights /\ flight.state = "none" /\ timer = TRUE /\ settled = {}
    BY DEF RingClientInit, NoFlight, Flights, RingVerdicts
  <1>4. backend \in Backends /\ backend.in = 0
    <2>1. \/ backend = [in |-> 0, rings |-> FALSE, out |-> 0, ring |-> "none"]
          \/ backend = [in |-> 0, rings |-> FALSE, out |-> 1, ring |-> "accepted"]
      BY DEF RingClientInit
    <2>2. CASE backend = [in |-> 0, rings |-> FALSE, out |-> 0, ring |-> "none"]
      BY <2>2 DEF Backends, RingVerdicts
    <2>3. CASE backend = [in |-> 0, rings |-> FALSE, out |-> 1, ring |-> "accepted"]
      BY <2>3 DEF Backends, RingVerdicts
    <2> QED
      BY <2>1, <2>2, <2>3
  <1>5. RingInv
    BY <1>1, <1>2, <1>3, <1>4 DEF RingInv, Consistent, Forward, Polls
  <1>6. OneLoop
    BY <1>1, <1>3 DEF OneLoop, Polls
  <1> QED
    BY <1>5, <1>6

LEMMA PollStepsKeep ==
    ASSUME RingInv, OneLoop, PollStep
    PROVE  RingInv' /\ OneLoop'
  <1> USE DEF RingInv
  <1>1. CASE Fire
    <2>1. tab.supported
      BY <1>1 DEF Fire, OneLoop, Polls
    <2>2. flight' \in Flights /\ flight'.state = "sent"
      BY <1>1 DEF Fire, NoFlight, Flights, RingVerdicts
    <2>3. UNCHANGED <<tab, flows, backend, settled>> /\ ~timer'
      BY <1>1 DEF Fire
    <2> QED
      BY <2>1, <2>2, <2>3 DEF Consistent, Forward, OneLoop
  <1>2. CASE Answer
    <2>1. flight.state = "sent" /\ UNCHANGED <<tab, timer, flows, backend, settled>>
      BY <1>2 DEF Answer
    <2>2. tab.supported /\ Forward(tab, flows, flight, backend, settled) /\ backend \in Backends
      BY <2>1 DEF Consistent
    <2>3. /\ flight'.state = "answered" /\ flight'.in = (IF backend.rings THEN backend.in ELSE 0)
          /\ flight' \in Flights
      BY <1>2, <2>2 DEF Answer, Flights, Backends
    <2>4. Forward(tab, flows, flight', backend, settled)
      BY <2>2, <2>3 DEF Forward, Backends
    <2> QED
      BY <2>1, <2>2, <2>3, <2>4 DEF Consistent, OneLoop
  <1>3. CASE PollLands
    <2> DEFINE w == ApplyIncoming(tab, flight.in)
               u == Polled(tab, flight)
    <2>1. /\ flight.state = "answered" /\ flight' = NoFlight /\ Dispatch(u, flows)
          /\ backend' = backend /\ settled' = settled
      BY <1>3 DEF PollLands
    <2>2. /\ tab.supported /\ Forward(tab, flows, flight, backend, settled)
          /\ flight \in Flights /\ backend \in Backends /\ settled \subseteq Nat
      BY <2>1 DEF Consistent
    <2>3. flight.in \in Nat /\ flight.out \in Nat /\ flight.ring \in RingVerdicts
      BY <2>2 DEF Flights
    <2>4. /\ w \in Tabs /\ w.supported = tab.supported
          /\ \/ SameOffer(tab, w)
             \/ w.phase = "closed" /\ w.call = tab.call /\ w.handled = HandledCall(tab)
             \/ /\ flight.in # 0 /\ flight.in # tab.handled
                /\ w.phase = "ringing" /\ w.call = flight.in /\ w.handled = tab.handled
      BY <2>3, IncomingApplied
    <2>5. u \in Tabs /\ SameOffer(w, u)
      BY <2>3, <2>4, OutgoingApplied DEF Polled
    <2>6. NoFlight \in Flights /\ NoFlight.state = "none"
      BY DEF NoFlight, Flights, RingVerdicts
    <2>7. NoNewAnswers(flows, flows) /\ backend.in <= backend.in
      BY <2>2 DEF NoNewAnswers, Backends
    <2>8. Consistent(tab, flows, NoFlight, backend, settled)
      BY <2>2, <2>6 DEF Consistent, Forward
    <2>9. Consistent(w, flows, NoFlight, backend, settled)
      <3>1. CASE SameOffer(tab, w)
        BY <2>2, <2>4, <2>7, <2>8, <3>1, Keeping DEF SameOffer
      <3>2. CASE w.phase = "closed" /\ w.call = tab.call /\ w.handled = HandledCall(tab)
        <4>1. 0 <= tab.call
          BY DEF Tabs
        <4>2. Consistent(w, flows, NoFlight, backend, settled \cup {0})
          BY <2>2, <2>4, <2>7, <2>8, <3>2, <4>1, ClosingStep
        <4> QED
          BY <2>2, <4>2 DEF Consistent, Forward
      <3>3. CASE /\ flight.in # 0 /\ flight.in # tab.handled
                 /\ w.phase = "ringing" /\ w.call = flight.in /\ w.handled = tab.handled
        <4>1. tab.call <= flight.in /\ tab.handled <= flight.in /\ flight.in <= backend.in
          BY <2>1, <2>2, <3>3 DEF Forward
        <4>2. /\ tab.call \in Nat /\ tab.handled \in Nat /\ backend.in \in Nat
              /\ \A s \in Slots : flows[s].call \in Nat
          BY <2>2 DEF Tabs, Backends, FlowTables, Flows
        <4>3. \A s \in Slots : flows[s].kind \in {"accept", "decline"} =>
                                flows[s].call <= w.call \/ flows[s].call <= w.handled
          BY <2>2, <2>3, <3>3, <4>1, <4>2 DEF Forward
        <4>4. Forward(w, flows, NoFlight, backend, settled)
          BY <2>2, <2>6, <3>3, <4>1, <4>3 DEF Forward
        <4> QED
          BY <2>2, <2>4, <2>6, <4>4 DEF Consistent
      <3> QED
        BY <2>4, <3>1, <3>2, <3>3
    <2>10. Consistent(u, flows, flight', backend', settled')
      BY <2>1, <2>2, <2>4, <2>5, <2>7, <2>9, Keeping DEF SameOffer
    <2> QED
      BY <2>1, <2>5, <2>6, <2>10, Advancing
  <1>4. CASE PollFails
    <2>1. /\ flight' = NoFlight /\ backend' = backend /\ settled' = settled
          /\ Dispatch(tab, flows) \/ Dispatch(Unsupported(tab), flows)
      BY <1>4 DEF PollFails
    <2>2. NoFlight \in Flights /\ NoFlight.state = "none"
      BY DEF NoFlight, Flights, RingVerdicts
    <2>3. Consistent(tab, flows, NoFlight, backend, settled)
      BY <2>2 DEF Consistent, Forward
    <2>4. Unsupported(tab) \in Tabs /\ ~Unsupported(tab).supported
      BY Reduced DEF Unsupported, Tabs
    <2>5. Consistent(Unsupported(tab), flows, NoFlight, backend, settled)
      BY <2>2, <2>3, <2>4 DEF Consistent
    <2> QED
      BY <2>1, <2>2, <2>3, <2>4, <2>5, Advancing
  <1> QED
    BY <1>1, <1>2, <1>3, <1>4 DEF PollStep

\* A press takes a slot for the call on offer, or for one that is not incoming.
LEMMA Pressing ==
    ASSUME RingInv, OneLoop, NEW kind \in FlowKinds \cup {"create"}, NEW call \in Nat,
           NEW t \in Tabs, Press(kind, call, t),
           kind \in {"accept", "decline"} => call = tab.call,
           t.call = tab.call, t.handled = tab.handled, t.supported = tab.supported,
           t.phase = "closed" => tab.phase = "closed",
           backend' \in Backends, backend.in = backend'.in, settled' = settled
    PROVE  RingInv' /\ OneLoop'
  <1> DEFINE flow == [kind |-> kind, at |-> "request", call |-> call]
             fs == Launch(flows, flow)
  <1>1. FreeSlots(flows) # {} /\ flight' = flight /\ Dispatch(t, fs)
    BY DEF Press
  <1>2. flow \in Flows /\ flow.kind = kind /\ flow.call = call
    BY DEF Flows, FlowSteps
  <1>3. fs \in FlowTables /\ \A s \in Slots : fs[s] = flows[s] \/ fs[s] = flow
    BY <1>1, <1>2, Launching DEF RingInv
  <1>4. Consistent(tab, flows, flight, backend, settled)
    BY DEF RingInv
  <1>5. backend.in <= backend'.in /\ tab.call \in Nat /\ tab.handled \in Nat
    BY <1>4 DEF Consistent, Backends, RingInv, Tabs
  <1>6. Consistent(t, flows, flight, backend', settled)
    <2>1. NoNewAnswers(flows, flows)
      BY DEF NoNewAnswers
    <2> QED
      BY <1>4, <1>5, <2>1, Keeping DEF RingInv
  <1>7. Consistent(t, fs, flight, backend', settled)
    <2>1. CASE t.supported
      <3>1. Forward(t, flows, flight, backend', settled)
        BY <1>6, <2>1 DEF Consistent
      <3>2. \A s \in Slots : fs[s].kind \in {"accept", "decline"} =>
                               fs[s].call <= t.call \/ fs[s].call <= t.handled
        BY <1>2, <1>3, <1>5, <3>1 DEF Forward
      <3>3. Forward(t, fs, flight, backend', settled)
        BY <3>1, <3>2 DEF Forward
      <3> QED
        BY <1>6, <2>1, <3>3 DEF Consistent
    <2>2. CASE ~t.supported
      BY <1>6, <2>2 DEF Consistent
    <2> QED
      BY <2>1, <2>2
  <1> QED
    BY <1>1, <1>3, <1>7, Advancing

LEMMA UserStepsKeep ==
    ASSUME RingInv, OneLoop, UserStep
    PROVE  RingInv' /\ OneLoop'
  <1>1. /\ tab \in Tabs /\ flows \in FlowTables /\ flight \in Flights /\ backend \in Backends
        /\ Consistent(tab, flows, flight, backend, settled)
    BY DEF RingInv, Consistent
  <1>2. tab.call \in Nat /\ tab.handled \in Nat /\ tab.outgoing \in Nat /\ backend.in <= backend.in
    BY <1>1 DEF Tabs, Backends
  <1>3. NoNewAnswers(flows, flows)
    BY DEF NoNewAnswers
  <1>4. CASE PressAccept
    <2> DEFINE t == [tab EXCEPT !.phase = "accepting"]
    <2>1. Press("accept", tab.call, t) /\ backend' = backend /\ settled' = settled
      BY <1>4 DEF PressAccept
    <2>2. /\ t \in Tabs /\ t.call = tab.call /\ t.handled = tab.handled
          /\ t.supported = tab.supported /\ t.phase # "closed" /\ "accept" \in FlowKinds
      BY <1>1 DEF Tabs, RingPhases, FlowKinds
    <2> HIDE DEF t
    <2> QED
      BY <1>1, <1>2, <2>1, <2>2, Pressing
  <1>5. CASE PressDecline
    <2> DEFINE t == [tab EXCEPT !.phase = "declining"]
    <2>1. Press("decline", tab.call, t) /\ backend' = backend /\ settled' = settled
      BY <1>5 DEF PressDecline
    <2>2. /\ t \in Tabs /\ t.call = tab.call /\ t.handled = tab.handled
          /\ t.supported = tab.supported /\ t.phase # "closed" /\ "decline" \in FlowKinds
      BY <1>1 DEF Tabs, RingPhases, FlowKinds
    <2> HIDE DEF t
    <2> QED
      BY <1>1, <1>2, <2>1, <2>2, Pressing
  <1>6. CASE PressCancel
    <2> DEFINE t == [tab EXCEPT !.out = "cancelling"]
    <2>1. Press("cancel", tab.outgoing, t) /\ backend' = backend /\ settled' = settled
      BY <1>6 DEF PressCancel
    <2>2. /\ t \in Tabs /\ t.call = tab.call /\ t.handled = tab.handled
          /\ t.supported = tab.supported /\ t.phase = tab.phase /\ "cancel" \in FlowKinds
      BY <1>1 DEF Tabs, OutgoingPhases, FlowKinds
    <2> HIDE DEF t
    <2> QED
      BY <1>1, <1>2, <2>1, <2>2, Pressing
  <1>7. CASE PlaceCall
    <2>1. /\ Press("create", backend.out + 1, tab) /\ settled' = settled
          /\ backend' = [backend EXCEPT !.out = @ + 1, !.ring = "ringing"]
      BY <1>7 DEF PlaceCall
    <2>2. backend' \in Backends /\ backend'.in = backend.in /\ backend.out + 1 \in Nat
      <3> DEFINE b == [backend EXCEPT !.out = @ + 1]
      <3>1. b \in Backends /\ b.in = backend.in /\ backend.out + 1 \in Nat
        BY <1>1 DEF Backends
      <3>2. backend' = [b EXCEPT !.ring = "ringing"]
        BY <2>1
      <3> HIDE DEF b
      <3> QED
        BY <3>1, <3>2 DEF Backends, RingVerdicts
    <2> QED
      BY <1>1, <2>1, <2>2, Pressing
  <1>8. CASE Dismiss
    <2>1. /\ flight' = flight /\ backend' = backend /\ settled' = settled
          /\ \/ /\ tab.phase = "closed"
                /\ Dispatch([tab EXCEPT !.phase = "idle", !.call = 0], flows)
             \/ Dispatch([tab EXCEPT !.out = "idle", !.outgoing = 0], flows)
      BY <1>8 DEF Dismiss
    <2>2. CASE tab.phase = "closed" /\ Dispatch([tab EXCEPT !.phase = "idle", !.call = 0], flows)
      <3> DEFINE t == [tab EXCEPT !.phase = "idle", !.call = 0]
      <3>1. /\ t \in Tabs /\ t.call = 0 /\ t.handled = tab.handled
            /\ t.supported = tab.supported /\ t.phase = "idle"
        BY <1>1 DEF Tabs, RingPhases
      <3>2. Dispatch(t, flows)
        BY <2>2
      <3> HIDE DEF t
      <3>3. Consistent(t, flows, flight, backend, settled)
        <4>1. CASE tab.supported
          <5>1. Forward(tab, flows, flight, backend, settled)
            BY <1>1, <4>1 DEF Consistent
          <5>2. /\ backend.in \in Nat /\ flight.in \in Nat /\ \A s \in Slots : flows[s].call \in Nat
            BY <1>1 DEF Backends, Flights, FlowTables, Flows
          <5>3. tab.call <= tab.handled
            BY <2>2, <5>1 DEF Forward
          <5>4. \A s \in Slots : flows[s].kind \in {"accept", "decline"} =>
                                   flows[s].call <= t.call \/ flows[s].call <= t.handled
            BY <1>2, <3>1, <5>1, <5>2, <5>3 DEF Forward
          <5>5. Forward(t, flows, flight, backend, settled)
            BY <1>2, <3>1, <5>1, <5>2, <5>4 DEF Forward
          <5> QED
            BY <1>1, <3>1, <4>1, <5>5 DEF Consistent
        <4>2. CASE ~tab.supported
          BY <1>1, <3>1, <4>2 DEF Consistent
        <4> QED
          BY <4>1, <4>2
      <3> QED
        BY <1>1, <2>1, <3>1, <3>2, <3>3, Advancing
    <2>3. CASE Dispatch([tab EXCEPT !.out = "idle", !.outgoing = 0], flows)
      <3> DEFINE t == [tab EXCEPT !.out = "idle", !.outgoing = 0]
      <3>1. /\ t \in Tabs /\ t.call = tab.call /\ t.handled = tab.handled
            /\ t.supported = tab.supported /\ t.phase = tab.phase
        BY <1>1 DEF Tabs, OutgoingPhases
      <3>2. Dispatch(t, flows)
        BY <2>3
      <3> HIDE DEF t
      <3>3. Consistent(t, flows, flight, backend, settled)
        BY <1>1, <1>2, <1>3, <3>1, Keeping
      <3> QED
        BY <1>1, <2>1, <3>1, <3>2, <3>3, Advancing
    <2> QED
      BY <2>1, <2>2, <2>3
  <1>9. CASE SessionEnds
    <2>1. /\ flight' = flight /\ backend' = backend /\ settled' = settled
          /\ Dispatch(Resume(tab), flows)
      BY <1>9 DEF SessionEnds
    <2>2. /\ Resume(tab) \in Tabs /\ Resume(tab).call = tab.call
          /\ Resume(tab).handled = tab.handled /\ Resume(tab).supported = tab.supported
          /\ Resume(tab).phase = tab.phase
      BY <1>1, Reduced DEF Resume, Tabs
    <2>3. Consistent(Resume(tab), flows, flight, backend, settled)
      BY <1>1, <1>2, <1>3, <2>2, Keeping
    <2> QED
      BY <1>1, <2>1, <2>2, <2>3, Advancing
  <1> QED
    BY <1>4, <1>5, <1>6, <1>7, <1>8, <1>9 DEF UserStep

\* A function goes on, or is done.
LEMMA Proceeding ==
    ASSUME RingInv, NEW s \in Slots, NEW at \in FlowSteps
    PROVE  /\ Goes1(s, at) \in FlowTables /\ NoNewAnswers(flows, Goes1(s, at))
           /\ Ends1(s) \in FlowTables /\ NoNewAnswers(flows, Ends1(s))
  <1>1. flows \in FlowTables
    BY DEF RingInv
  <1>2. Free \in Flows /\ Free.kind = "none"
    BY DEF Free, Flows
  <1>3. flows[s] \in Flows
    BY <1>1 DEF FlowTables
  <1>4. [flows[s] EXCEPT !.at = at] \in Flows
    BY <1>3 DEF Flows
  <1>5. Goes1(s, at) \in FlowTables /\ NoNewAnswers(flows, Goes1(s, at))
    <2>1. Goes1(s, at) = [flows EXCEPT ![s] = [flows[s] EXCEPT !.at = at]]
      BY DEF Goes1
    <2>2. Goes1(s, at) \in FlowTables
      BY <1>1, <1>4, <2>1 DEF FlowTables
    <2>3. \A r \in Slots : Goes1(s, at)[r].kind = flows[r].kind /\ Goes1(s, at)[r].call = flows[r].call
      BY <1>1, <1>3, <2>1 DEF FlowTables, Flows
    <2> QED
      BY <2>2, <2>3 DEF NoNewAnswers
  <1>6. Ends1(s) \in FlowTables /\ NoNewAnswers(flows, Ends1(s))
    <2>1. Ends1(s) \in FlowTables
      BY <1>1, <1>2 DEF FlowTables, Ends1
    <2>2. \A r \in Slots : Ends1(s)[r] = IF r = s THEN Free ELSE flows[r]
      BY <1>1 DEF FlowTables, Ends1
    <2> QED
      BY <1>2, <2>1, <2>2 DEF NoNewAnswers
  <1> QED
    BY <1>5, <1>6

\* It leaves the offer as it is, open.
LEMMA FlowKeeps ==
    ASSUME RingInv, OneLoop, NEW t \in Tabs, NEW fs \in FlowTables, Dispatch(t, fs),
           NoNewAnswers(flows, fs), flight' = flight,
           t.call = tab.call, t.handled = tab.handled, t.supported = tab.supported,
           t.phase = "closed" => tab.phase = "closed",
           backend' \in Backends, backend'.in = backend.in, settled' \subseteq settled
    PROVE  RingInv' /\ OneLoop'
  <1>1. backend.in <= backend'.in
    BY DEF RingInv, Consistent, Backends
  <1>2. Consistent(t, fs, flight', backend', settled')
    BY <1>1, Keeping DEF RingInv
  <1> QED
    BY <1>2, Advancing

\* It closes the offer, and may settle its own call.
LEMMA FlowCloses ==
    ASSUME RingInv, OneLoop, NEW s \in Slots, NEW t \in Tabs, Dispatch(t, Ends1(s)), flight' = flight,
           t.call = tab.call, t.handled = HandledCall(tab), t.supported = tab.supported,
           backend' \in Backends, backend'.in = backend.in,
           flows[s].kind \in {"accept", "decline"}, Settles(s)
    PROVE  RingInv' /\ OneLoop'
  <1>1. Ends1(s) \in FlowTables /\ NoNewAnswers(flows, Ends1(s))
    BY Proceeding DEF FlowSteps
  <1>2. flows[s].call \in Nat /\ settled' = settled \cup {flows[s].call}
    BY DEF RingInv, FlowTables, Flows, Settles
  <1>3. tab.supported => flows[s].call <= tab.call \/ flows[s].call <= tab.handled
    BY DEF RingInv, Consistent, Forward
  <1>4. Consistent(t, Ends1(s), flight', backend', settled')
    BY <1>1, <1>2, <1>3, ClosingStep DEF RingInv
  <1> QED
    BY <1>1, <1>4, Advancing

\* What the reducer does to the offer.
LEMMA ReducedOffer ==
    ASSUME NEW t \in Tabs
    PROVE  /\ \A u \in {CloseIncoming(t), Accepted(t), Accepted(Resume(t))} :
                u.call = t.call /\ u.handled = HandledCall(t) /\ u.supported = t.supported
           /\ \A u \in {CloseOutgoing(t), AcceptFailed(t), Suspend(t), Joined(t), Joined(Resume(t))} :
                /\ u.call = t.call /\ u.handled = t.handled /\ u.supported = t.supported
                /\ u.phase = "closed" => t.phase = "closed"
           /\ Accepted(Resume(t)) \in Tabs /\ Joined(Resume(t)) \in Tabs
  <1>1. Resume(t) \in Tabs
    BY Reduced
  <1>2. /\ Resume(t).call = t.call /\ Resume(t).handled = t.handled /\ Resume(t).phase = t.phase
        /\ Resume(t).supported = t.supported
    BY DEF Resume, Tabs
  <1>3. \A r \in Tabs : /\ CloseIncoming(r).call = r.call /\ Accepted(r).call = r.call
                        /\ CloseIncoming(r).handled = HandledCall(r)
                        /\ Accepted(r).handled = HandledCall(r)
                        /\ CloseIncoming(r).supported = r.supported
                        /\ Accepted(r).supported = r.supported
    BY DEF CloseIncoming, Accepted, Tabs
  <1>4. \A r \in Tabs : /\ CloseOutgoing(r).call = r.call /\ Joined(r).call = r.call
                        /\ CloseOutgoing(r).handled = r.handled /\ Joined(r).handled = r.handled
                        /\ CloseOutgoing(r).phase = r.phase /\ Joined(r).phase = r.phase
                        /\ CloseOutgoing(r).supported = r.supported
                        /\ Joined(r).supported = r.supported
    BY DEF CloseOutgoing, Joined, Tabs
  <1>5. /\ AcceptFailed(t).call = t.call /\ Suspend(t).call = t.call
        /\ AcceptFailed(t).handled = t.handled /\ Suspend(t).handled = t.handled
        /\ AcceptFailed(t).phase # "closed" /\ Suspend(t).phase # "closed"
        /\ AcceptFailed(t).supported = t.supported /\ Suspend(t).supported = t.supported
    BY DEF AcceptFailed, Suspend, Tabs
  <1>6. HandledCall(Resume(t)) = HandledCall(t)
    BY <1>2 DEF HandledCall
  <1>7. Accepted(Resume(t)) \in Tabs /\ Joined(Resume(t)) \in Tabs
    BY <1>1, Reduced
  <1> QED
    BY <1>1, <1>2, <1>3, <1>4, <1>5, <1>6, <1>7

LEMMA FlowStepsKeep ==
    ASSUME RingInv, OneLoop, FlowStep
    PROVE  RingInv' /\ OneLoop'
  <1>1. /\ tab \in Tabs /\ flows \in FlowTables /\ backend \in Backends
        /\ Consistent(tab, flows, flight, backend, settled)
    BY DEF RingInv, Consistent
  <1>2. PICK s \in Slots : \/ AcceptReturns(s) \/ DeclineReturns(s) \/ CancelReturns(s)
                           \/ CreateReturns(s) \/ JoinReturns(s) \/ Connected1(s)
    BY DEF FlowStep
  <1>3. /\ Ends1(s) \in FlowTables /\ NoNewAnswers(flows, Ends1(s))
        /\ \A at \in FlowSteps : Goes1(s, at) \in FlowTables /\ NoNewAnswers(flows, Goes1(s, at))
    BY Proceeding DEF FlowSteps
  <1>4. \A c : StopsRinging(c) => backend' \in Backends /\ backend'.in = backend.in
    BY <1>1 DEF StopsRinging, Backends
  <1>5. Relents(s) => settled' \subseteq settled
    BY DEF Relents
  <1>6. backend.in <= backend.in /\ settled \subseteq Nat
    BY <1>1 DEF Backends, Consistent
  <1>7. CASE AcceptReturns(s)
    <2>1. flows[s].kind = "accept" /\ flight' = flight
      BY <1>7 DEF AcceptReturns, At1
    <2>2. CASE /\ StopsRinging(flows[s].call) /\ flows' = Goes1(s, "entering")
               /\ UNCHANGED <<tab, timer, gate, settled>>
      <3>1. flows' \in FlowTables /\ NoNewAnswers(flows, flows')
        BY <1>3, <2>2 DEF FlowSteps
      <3>2. backend' \in Backends /\ backend'.in = backend.in
        BY <1>4, <2>2
      <3>3. Consistent(tab, flows', flight, backend', settled)
        BY <1>1, <1>6, <3>1, <3>2, Keeping
      <3> QED
        BY <1>1, <2>1, <2>2, <3>1, <3>3 DEF RingInv, OneLoop, Polls
    <2>3. CASE Dispatch(CloseIncoming(tab), Ends1(s)) /\ Settles(s) /\ UNCHANGED backend
      BY <1>1, <2>1, <2>3, Reduced, ReducedOffer, FlowCloses
    <2>4. CASE /\ UNCHANGED backend \/ StopsRinging(flows[s].call)
               /\ Dispatch(AcceptFailed(tab), Ends1(s)) /\ Relents(s)
      <3>1. backend' \in Backends /\ backend'.in = backend.in
        BY <1>1, <1>4, <2>4
      <3> QED
        BY <1>1, <1>3, <1>5, <2>1, <2>4, <3>1, Reduced, ReducedOffer, FlowKeeps
    <2> QED
      BY <1>7, <2>2, <2>3, <2>4 DEF AcceptReturns
  <1>8. CASE DeclineReturns(s)
    <2>1. /\ flows[s].kind = "decline" /\ flight' = flight /\ Settles(s)
          /\ Dispatch(CloseIncoming(tab), Ends1(s))
          /\ backend' \in Backends /\ backend'.in = backend.in
      BY <1>1, <1>4, <1>8 DEF DeclineReturns, At1
    <2> QED
      BY <1>1, <2>1, Reduced, ReducedOffer, FlowCloses
  <1>9. CASE CancelReturns(s)
    <2>1. /\ flight' = flight /\ settled' = settled /\ Dispatch(CloseOutgoing(tab), Ends1(s))
          /\ UNCHANGED backend \/ backend' = [backend EXCEPT !.ring = "over"]
      BY <1>9 DEF CancelReturns, At1
    <2>2. backend' \in Backends /\ backend'.in = backend.in
      BY <1>1, <2>1 DEF Backends, RingVerdicts
    <2> QED
      BY <1>1, <1>3, <2>1, <2>2, Reduced, ReducedOffer, FlowKeeps
  <1>10. CASE CreateReturns(s)
    <2> DEFINE t == [tab EXCEPT !.outgoing = flows[s].call, !.out = "ringing"]
    <2>1. /\ flight' = flight /\ backend' = backend /\ settled' = settled
          /\ tab' = t /\ flows' = Ends1(s)
          /\ timer' = IF flight.state = "none" THEN Polls(t) ELSE timer
      BY <1>10 DEF CreateReturns, At1
    <2>2. flows[s].call \in Nat
      BY <1>1 DEF FlowTables, Flows
    <2>3. /\ t \in Tabs /\ t.call = tab.call /\ t.handled = tab.handled
          /\ t.supported = tab.supported /\ t.phase = tab.phase
      <3> DEFINE u == [tab EXCEPT !.outgoing = flows[s].call]
      <3>1. /\ u \in Tabs /\ u.call = tab.call /\ u.handled = tab.handled
            /\ u.supported = tab.supported /\ u.phase = tab.phase
        BY <1>1, <2>2 DEF Tabs
      <3>2. t = [u EXCEPT !.out = "ringing"]
        OBVIOUS
      <3> HIDE DEF u, t
      <3> QED
        BY <3>1, <3>2 DEF Tabs, OutgoingPhases
    <2> HIDE DEF t
    <2>4. Consistent(t, Ends1(s), flight, backend, settled)
      BY <1>1, <1>3, <1>6, <2>3, Keeping
    <2>5. OneLoop'
      BY <2>1 DEF OneLoop, Polls
    <2> QED
      BY <1>3, <2>1, <2>3, <2>4, <2>5 DEF RingInv
  <1>11. CASE JoinReturns(s)
    <2>1. flows[s].kind \in {"accept", "join"} /\ flight' = flight /\ backend' = backend
      BY <1>11 DEF JoinReturns, At1
    <2>2. CASE Dispatch(Suspend(tab), Goes1(s, "connecting")) /\ UNCHANGED settled
      <3>1. Goes1(s, "connecting") \in FlowTables /\ NoNewAnswers(flows, Goes1(s, "connecting"))
        BY <1>3 DEF FlowSteps
      <3> QED
        BY <1>1, <2>1, <2>2, <3>1, Reduced, ReducedOffer, FlowKeeps
    <2>3. CASE flows[s].kind = "accept" /\ Dispatch(CloseIncoming(tab), Ends1(s)) /\ Settles(s)
      BY <1>1, <2>1, <2>3, Reduced, ReducedOffer, FlowCloses
    <2>4. CASE Dispatch(AcceptFailed(tab), Ends1(s)) /\ Relents(s)
      BY <1>1, <1>3, <1>5, <2>1, <2>4, Reduced, ReducedOffer, FlowKeeps
    <2>5. CASE Dispatch(CloseOutgoing(tab), Ends1(s)) /\ UNCHANGED settled
      BY <1>1, <1>3, <2>1, <2>5, Reduced, ReducedOffer, FlowKeeps
    <2> QED
      BY <1>11, <2>2, <2>3, <2>4, <2>5 DEF JoinReturns
  <1>12. CASE Connected1(s)
    <2>1. /\ flows[s].kind \in {"accept", "join"} /\ flight' = flight /\ backend' = backend
          /\ IF flows[s].kind = "accept" THEN Settles(s) ELSE UNCHANGED <<pressed, settled>>
      BY <1>12 DEF Connected1, At1
    <2>2. PICK t \in {tab, Resume(tab)} : Dispatch(Entered(s, t), Ends1(s))
      BY <1>12 DEF Connected1
    <2>3. CASE flows[s].kind = "accept"
      <3>1. Entered(s, t) \in {Accepted(tab), Accepted(Resume(tab))}
        BY <2>2, <2>3 DEF Entered
      <3> QED
        BY <1>1, <2>1, <2>2, <2>3, <3>1, Reduced, ReducedOffer, FlowCloses
    <2>4. CASE flows[s].kind = "join"
      <3>1. Entered(s, t) \in {Joined(tab), Joined(Resume(tab))}
        BY <2>2, <2>4 DEF Entered
      <3> QED
        BY <1>1, <1>3, <2>1, <2>2, <2>4, <3>1, Reduced, ReducedOffer, FlowKeeps
    <2> QED
      BY <2>1, <2>3, <2>4
  <1> QED
    BY <1>2, <1>7, <1>8, <1>9, <1>10, <1>11, <1>12

\* The backend only rings forward.
LEMMA BackendStepsKeep ==
    ASSUME RingInv, OneLoop, BackendMoves
    PROVE  RingInv' /\ OneLoop'
  <1>1. /\ tab \in Tabs /\ backend \in Backends /\ settled \subseteq Nat
        /\ Consistent(tab, flows, flight, backend, settled)
    BY DEF RingInv, Consistent
  <1>2. UNCHANGED <<tab, timer, flight, flows, settled>>
    BY DEF BackendMoves
  <1>3. backend' \in Backends /\ backend.in <= backend'.in
    <2>1. CASE backend' = [backend EXCEPT !.in = @ + 1, !.rings = TRUE]
      <3> DEFINE b == [backend EXCEPT !.in = @ + 1]
      <3>1. b \in Backends /\ backend.in <= b.in
        BY <1>1 DEF Backends
      <3>2. backend' = [b EXCEPT !.rings = TRUE]
        BY <2>1
      <3> HIDE DEF b
      <3> QED
        BY <3>1, <3>2 DEF Backends
    <2>2. CASE backend' = [backend EXCEPT !.rings = FALSE]
      <3>1. backend' \in Backends /\ backend'.in = backend.in /\ backend.in \in Nat
        BY <1>1, <2>2 DEF Backends
      <3> QED
        BY <3>1
    <2>3. CASE \E r \in RingVerdicts : backend' = [backend EXCEPT !.ring = r]
      BY <1>1, <2>3 DEF Backends
    <2>4. \/ backend' = [backend EXCEPT !.in = @ + 1, !.rings = TRUE]
          \/ backend' = [backend EXCEPT !.rings = FALSE]
          \/ \E r \in RingVerdicts : backend' = [backend EXCEPT !.ring = r]
      BY ZenonT(30) DEF BackendMoves, RingVerdicts
    <2> QED
      BY <2>1, <2>2, <2>3, <2>4
  <1>4. NoNewAnswers(flows, flows')
    BY <1>2 DEF NoNewAnswers
  <1>5. Consistent(tab, flows, flight, backend', settled)
    BY <1>1, <1>2, <1>3, <1>4, Keeping
  <1> QED
    BY <1>2, <1>5 DEF RingInv, OneLoop, Polls

LEMMA RingInvariant == RingClientSpec => [](RingInv /\ OneLoop)
  <1>1. RingInv /\ OneLoop /\ [RingClientNext]_ringVars => RingInv' /\ OneLoop'
    <2> SUFFICES ASSUME RingInv, OneLoop, [RingClientNext]_ringVars
                 PROVE  RingInv' /\ OneLoop'
      OBVIOUS
    <2>1. CASE RingClientNext
      BY <2>1, PollStepsKeep, UserStepsKeep, FlowStepsKeep, BackendStepsKeep DEF RingClientNext
    <2>2. CASE UNCHANGED ringVars
      BY <2>2 DEF ringVars, RingInv, OneLoop, Polls
    <2> QED
      BY <2>1, <2>2
  <1> QED
    BY <1>1, Starting, PTL DEF RingClientSpec

----------------------------------------------------------------------------
(* The theorems. *)

\* ringpoll.ts and main.ts: with any number of rings, calls and functions in hand, a tab
\* that polls has one timer or one poll in flight, never both and never neither.
THEOREM OneLoopRuns == RingClientSpec => []OneLoop
  BY RingInvariant, PTL

\* A call that was pressed and not put away: done with, older than the call on offer, or on
\* offer with its panel up.
Pressed(t, p) ==
    \A c \in p : \/ c <= t.handled \/ c < t.call
                 \/ c = t.call /\ t.phase \in {"accepting", "declining", "ringing"}

PressInv == pressed \subseteq Nat /\ (tab.supported => Pressed(tab, pressed))

\* A step that takes a tab from t to u does not offer again what was pressed or settled.
OffersNoneOf(t, u, p) ==
    \A c \in p : u.phase = "ringing" /\ u.call = c => t.phase = "ringing" /\ t.call = c

\* The panel of a call on offer is not put away.
StillUp(t, u) == u.phase \in {t.phase, "accepting", "declining", "ringing"} \/ t.call = 0

\* What closes the panel, takes the press back, or leaves the panel alone.
LEMMA PressesLast ==
    ASSUME NEW t \in Tabs, NEW u \in Tabs, NEW p \in SUBSET Nat, Pressed(t, p),
           t.call = 0 \/ t.handled <= t.call,
           \/ u.call = t.call /\ u.handled = HandledCall(t)
           \/ u.call = t.call /\ u.handled = t.handled /\ StillUp(t, u)
           \/ u.handled = t.handled /\ t.phase = "closed" /\ t.call <= t.handled
    PROVE  Pressed(u, p)
  <1>1. t.call \in Nat /\ t.handled \in Nat /\ u.call \in Nat /\ u.handled \in Nat
    BY DEF Tabs
  <1> SUFFICES ASSUME NEW c \in p
               PROVE  \/ c <= u.handled \/ c < u.call
                      \/ c = u.call /\ u.phase \in {"accepting", "declining", "ringing"}
    BY DEF Pressed
  <1>2. /\ c \in Nat
        /\ \/ c <= t.handled \/ c < t.call
           \/ c = t.call /\ t.phase \in {"accepting", "declining", "ringing"}
    BY DEF Pressed
  <1>3. CASE u.call = t.call /\ u.handled = HandledCall(t)
    <2>1. t.call <= u.handled /\ t.handled <= u.handled
      BY <1>1, <1>3 DEF HandledCall
    <2> QED
      BY <1>1, <1>2, <2>1
  <1>4. CASE u.handled = t.handled /\ t.phase = "closed" /\ t.call <= t.handled
    BY <1>1, <1>2, <1>4
  <1>5. CASE u.call = t.call /\ u.handled = t.handled /\ StillUp(t, u)
    BY <1>1, <1>2, <1>5 DEF StillUp
  <1> QED
    BY <1>3, <1>4, <1>5

\* What is left of the presses is left by the dispatch.
LEMMA PressesDispatched ==
    ASSUME NEW t \in Tabs, NEW fs \in FlowTables, Dispatch(t, fs), NEW p \in SUBSET Nat,
           t.supported => Pressed(t, p), pressed' \subseteq p
    PROVE  PressInv'
  <1>1. SameOffer(t, tab') /\ tab' \in Tabs
    BY Dispatching
  <1> QED
    BY <1>1 DEF PressInv, Pressed, SameOffer

\* Neither the panel nor the phase is touched: no offer.
LEMMA NothingOffered ==
    ASSUME NEW t \in Tabs, NEW fs \in FlowTables, Dispatch(t, fs), NEW p,
           t.phase # "ringing" \/ (t.phase = tab.phase /\ t.call = tab.call)
    PROVE  OffersNoneOf(tab, tab', p)
  <1>1. SameOffer(t, tab')
    BY Dispatching
  <1> QED
    BY <1>1 DEF OffersNoneOf, SameOffer

LEMMA PressesStay ==
    ASSUME RingInv, PressInv, NEW t \in Tabs, NEW fs \in FlowTables, Dispatch(t, fs),
           t.supported = tab.supported, pressed' \subseteq pressed,
           \/ t.call = tab.call /\ t.handled = HandledCall(tab)
           \/ t.call = tab.call /\ t.handled = tab.handled /\ StillUp(tab, t)
           \/ t.handled = tab.handled /\ tab.phase = "closed"
    PROVE  PressInv'
  <1>1. /\ tab \in Tabs /\ pressed \in SUBSET Nat
        /\ tab.supported => /\ Pressed(tab, pressed)
                            /\ tab.call = 0 \/ tab.handled <= tab.call
                            /\ tab.phase = "closed" => tab.call <= tab.handled
    BY DEF RingInv, Consistent, Forward, PressInv
  <1>2. t.supported => Pressed(t, pressed)
    BY <1>1, PressesLast
  <1> QED
    BY <1>1, <1>2, PressesDispatched

LEMMA PollsPress ==
    ASSUME RingInv, OneLoop, PressInv, PollStep
    PROVE  PressInv' /\ OffersNoneOf(tab, tab', pressed \cup settled)
  <1>1. /\ tab \in Tabs /\ flows \in FlowTables /\ pressed \in SUBSET Nat
        /\ settled \subseteq Nat /\ flight \in Flights
        /\ tab.supported => Pressed(tab, pressed) /\ Forward(tab, flows, flight, backend, settled)
        /\ ~tab.supported => flight.state = "none"
    BY DEF RingInv, Consistent, PressInv
  <1>2. CASE Fire \/ Answer
    <2>1. tab' = tab /\ pressed' = pressed
      BY <1>2 DEF Fire, Answer
    <2> QED
      BY <2>1 DEF PressInv, Pressed, OffersNoneOf
  <1>3. CASE PollLands
    <2> DEFINE w == ApplyIncoming(tab, flight.in)
               u == Polled(tab, flight)
    <2>1. flight.state = "answered" /\ Dispatch(u, flows) /\ pressed' = pressed
      BY <1>3 DEF PollLands
    <2>2. /\ tab.supported /\ Pressed(tab, pressed)
          /\ Forward(tab, flows, flight, backend, settled)
      BY <1>1, <2>1
    <2>3. flight.in \in Nat /\ flight.out \in Nat /\ flight.ring \in RingVerdicts
          /\ tab.call \in Nat /\ tab.handled \in Nat
      BY <1>1 DEF Flights, Tabs
    <2>4. /\ w \in Tabs /\ w.supported = tab.supported
          /\ \/ SameOffer(tab, w)
             \/ w.phase = "closed" /\ w.call = tab.call /\ w.handled = HandledCall(tab)
             \/ /\ flight.in # 0 /\ flight.in # tab.handled
                /\ w.phase = "ringing" /\ w.call = flight.in /\ w.handled = tab.handled
      BY <1>1, <2>3, IncomingApplied
    <2>5. u \in Tabs /\ SameOffer(w, u)
      BY <2>3, <2>4, OutgoingApplied DEF Polled
    <2>6. tab.phase \in {"accepting", "declining"} => w = tab
      BY DEF ApplyIncoming
    <2>7. Pressed(w, pressed) /\ OffersNoneOf(tab, w, pressed \cup settled)
      <3>1. CASE SameOffer(tab, w)
        BY <2>2, <3>1 DEF Pressed, SameOffer, OffersNoneOf
      <3>2. CASE w.phase = "closed" /\ w.call = tab.call /\ w.handled = HandledCall(tab)
        <4>1. Pressed(w, pressed)
          BY <1>1, <2>2, <2>4, <3>2, PressesLast DEF Forward
        <4> QED
          BY <3>2, <4>1 DEF OffersNoneOf
      <3>3. CASE /\ flight.in # 0 /\ flight.in # tab.handled
                 /\ w.phase = "ringing" /\ w.call = flight.in /\ w.handled = tab.handled
        <4>1. tab.call <= flight.in /\ tab.handled < flight.in
          BY <2>1, <2>2, <2>3, <3>3 DEF Forward
        <4>2. ASSUME NEW c \in pressed
              PROVE  /\ c <= w.handled \/ c < w.call \/ (c = w.call /\ w.phase = "ringing")
                     /\ w.call = c => tab.phase = "ringing" /\ tab.call = c
          <5>1. /\ c \in Nat
                /\ \/ c <= tab.handled \/ c < tab.call
                   \/ c = tab.call /\ tab.phase \in {"accepting", "declining", "ringing"}
            BY <1>1, <2>2 DEF Pressed
          <5>2. CASE c <= tab.handled \/ c < tab.call
            BY <2>3, <3>3, <4>1, <5>1, <5>2
          <5>3. CASE c = tab.call /\ tab.phase = "ringing"
            BY <2>3, <3>3, <4>1, <5>1, <5>3
          <5>4. CASE c = tab.call /\ tab.phase \in {"accepting", "declining"}
            <6>1. w = tab
              BY <2>6, <5>4
            <6> QED
              BY <3>3, <5>4, <6>1
          <5> QED
            BY <5>1, <5>2, <5>3, <5>4
        <4>3. ASSUME NEW c \in settled PROVE w.call # c
          <5>1. c \in Nat /\ c <= tab.handled
            BY <1>1, <2>2 DEF Forward
          <5> QED
            BY <2>3, <3>3, <4>1, <5>1
        <4>4. Pressed(w, pressed)
          BY <4>2 DEF Pressed
        <4> QED
          BY <4>2, <4>3, <4>4 DEF OffersNoneOf
      <3> QED
        BY <2>4, <3>1, <3>2, <3>3
    <2> HIDE DEF w, u
    <2>8. Pressed(u, pressed) /\ OffersNoneOf(tab, u, pressed \cup settled)
      BY <2>5, <2>7 DEF Pressed, OffersNoneOf, SameOffer
    <2>9. SameOffer(u, tab')
      BY <1>1, <2>1, <2>5, Dispatching
    <2>10. OffersNoneOf(tab, tab', pressed \cup settled)
      BY <2>8, <2>9 DEF OffersNoneOf, SameOffer
    <2> QED
      BY <1>1, <2>1, <2>5, <2>8, <2>10, PressesDispatched
  <1>4. CASE PollFails
    <2>1. Dispatch(tab, flows) \/ Dispatch(Unsupported(tab), flows)
      BY <1>4 DEF PollFails
    <2>2. pressed' \subseteq pressed
      BY <1>4 DEF PollFails
    <2>3. CASE Dispatch(tab, flows)
      BY <1>1, <2>2, <2>3, PressesDispatched, NothingOffered
    <2>4. CASE Dispatch(Unsupported(tab), flows)
      <3>1. /\ Unsupported(tab) \in Tabs /\ Unsupported(tab).phase = "idle"
            /\ ~Unsupported(tab).supported
        BY <1>1, Reduced DEF Unsupported, Tabs
      <3> QED
        BY <1>1, <2>2, <2>4, <3>1, PressesDispatched, NothingOffered
    <2> QED
      BY <2>1, <2>3, <2>4
  <1> QED
    BY <1>2, <1>3, <1>4 DEF PollStep

LEMMA UsersPress ==
    ASSUME RingInv, PressInv, UserStep
    PROVE  PressInv' /\ OffersNoneOf(tab, tab', pressed \cup settled)
  <1>1. /\ tab \in Tabs /\ flows \in FlowTables /\ pressed \in SUBSET Nat
        /\ tab.call \in Nat /\ tab.outgoing \in Nat
    BY DEF RingInv, PressInv, Tabs
  <1>2. ASSUME NEW kind \in FlowKinds \cup {"create"}, NEW call \in Nat, NEW t, Press(kind, call, t)
        PROVE  \E fs \in FlowTables : Dispatch(t, fs)
    <2>1. [kind |-> kind, at |-> "request", call |-> call] \in Flows
      BY DEF Flows, FlowSteps
    <2> QED
      BY <1>1, <1>2, <2>1, Launching DEF Press
  <1>3. CASE PressAccept \/ PressDecline
    <2>1. PICK kind \in {"accept", "decline"}, ph \in {"accepting", "declining"} :
            Press(kind, tab.call, [tab EXCEPT !.phase = ph])
      BY <1>3 DEF PressAccept, PressDecline
    <2> DEFINE t == [tab EXCEPT !.phase = ph]
    <2>2. pressed' = pressed \cup {tab.call} /\ tab.phase = "ringing"
      BY <1>3 DEF PressAccept, PressDecline
    <2>3. /\ t \in Tabs /\ t.call = tab.call /\ t.handled = tab.handled
          /\ t.supported = tab.supported /\ t.phase \in {"accepting", "declining"}
      BY <1>1, <2>1 DEF Tabs, RingPhases
    <2>4. \E fs \in FlowTables : Dispatch(t, fs)
      BY <1>1, <1>2, <2>1 DEF FlowKinds
    <2> HIDE DEF t
    <2>5. t.supported => Pressed(t, pressed')
      <3> SUFFICES ASSUME tab.supported, NEW c \in pressed \cup {tab.call}
                   PROVE  \/ c <= t.handled \/ c < t.call
                          \/ c = t.call /\ t.phase \in {"accepting", "declining", "ringing"}
        BY <2>2, <2>3 DEF Pressed
      <3>1. CASE c = tab.call
        BY <2>3, <3>1
      <3>2. CASE c \in pressed
        BY <2>3, <3>2 DEF PressInv, Pressed
      <3> QED
        BY <3>1, <3>2
    <2>6. pressed' \in SUBSET Nat
      BY <1>1, <2>2
    <2> QED
      BY <2>3, <2>4, <2>5, <2>6, PressesDispatched, NothingOffered
  <1>4. CASE PressCancel
    <2> DEFINE t == [tab EXCEPT !.out = "cancelling"]
    <2>1. Press("cancel", tab.outgoing, t) /\ pressed' = pressed
      BY <1>4 DEF PressCancel
    <2>2. /\ t \in Tabs /\ t.call = tab.call /\ t.handled = tab.handled
          /\ t.supported = tab.supported /\ t.phase = tab.phase /\ "cancel" \in FlowKinds
      BY <1>1 DEF Tabs, OutgoingPhases, FlowKinds
    <2> HIDE DEF t
    <2>3. \E fs \in FlowTables : Dispatch(t, fs)
      BY <1>1, <1>2, <2>1, <2>2
    <2> QED
      BY <2>1, <2>2, <2>3, PressesStay, NothingOffered DEF StillUp
  <1>5. CASE PlaceCall
    <2>1. Press("create", backend.out + 1, tab) /\ pressed' = pressed
      BY <1>5 DEF PlaceCall
    <2>2. backend.out + 1 \in Nat
      BY DEF RingInv, Consistent, Backends
    <2>3. \E fs \in FlowTables : Dispatch(tab, fs)
      BY <1>2, <2>1, <2>2
    <2> QED
      BY <1>1, <2>1, <2>3, PressesStay, NothingOffered DEF StillUp
  <1>6. CASE Dismiss
    <2>1. /\ pressed' = pressed
          /\ \/ /\ tab.phase = "closed"
                /\ Dispatch([tab EXCEPT !.phase = "idle", !.call = 0], flows)
             \/ Dispatch([tab EXCEPT !.out = "idle", !.outgoing = 0], flows)
      BY <1>6 DEF Dismiss
    <2>2. CASE tab.phase = "closed" /\ Dispatch([tab EXCEPT !.phase = "idle", !.call = 0], flows)
      <3> DEFINE t == [tab EXCEPT !.phase = "idle", !.call = 0]
      <3>1. /\ t \in Tabs /\ t.handled = tab.handled
            /\ t.supported = tab.supported /\ t.phase = "idle"
        BY <1>1 DEF Tabs, RingPhases
      <3>2. Dispatch(t, flows)
        BY <2>2
      <3> HIDE DEF t
      <3> QED
        BY <1>1, <2>1, <2>2, <3>1, <3>2, PressesStay, NothingOffered
    <2>3. CASE Dispatch([tab EXCEPT !.out = "idle", !.outgoing = 0], flows)
      <3> DEFINE t == [tab EXCEPT !.out = "idle", !.outgoing = 0]
      <3>1. /\ t \in Tabs /\ t.call = tab.call /\ t.handled = tab.handled
            /\ t.supported = tab.supported /\ t.phase = tab.phase
        BY <1>1 DEF Tabs, OutgoingPhases
      <3>2. Dispatch(t, flows)
        BY <2>3
      <3> HIDE DEF t
      <3> QED
        BY <1>1, <2>1, <3>1, <3>2, PressesStay, NothingOffered DEF StillUp
    <2> QED
      BY <2>1, <2>2, <2>3
  <1>7. CASE SessionEnds
    <2>1. Dispatch(Resume(tab), flows) /\ pressed' = pressed
      BY <1>7 DEF SessionEnds
    <2>2. /\ Resume(tab) \in Tabs /\ Resume(tab).call = tab.call
          /\ Resume(tab).handled = tab.handled /\ Resume(tab).supported = tab.supported
          /\ Resume(tab).phase = tab.phase
      BY <1>1, Reduced DEF Resume, Tabs
    <2> QED
      BY <1>1, <2>1, <2>2, PressesStay, NothingOffered DEF StillUp
  <1> QED
    BY <1>3, <1>4, <1>5, <1>6, <1>7 DEF UserStep

\* A call that is answered or refused may be on offer again when an accept fails.
AcceptEnds == \E s \in Slots : flows[s].kind = "accept" /\ flows'[s] # flows[s]

LEMMA FlowsPress ==
    ASSUME RingInv, PressInv, FlowStep
    PROVE  PressInv' /\ (AcceptEnds \/ OffersNoneOf(tab, tab', pressed \cup settled))
  <1>1. /\ tab \in Tabs /\ flows \in FlowTables /\ pressed \in SUBSET Nat
    BY DEF RingInv, PressInv
  <1>2. PICK s \in Slots : \/ AcceptReturns(s) \/ DeclineReturns(s) \/ CancelReturns(s)
                           \/ CreateReturns(s) \/ JoinReturns(s) \/ Connected1(s)
    BY DEF FlowStep
  <1>3. /\ Ends1(s) \in FlowTables /\ Ends1(s)[s] = Free
        /\ \A at \in FlowSteps : Goes1(s, at) \in FlowTables
    BY <1>1, Proceeding DEF FlowSteps, Ends1, FlowTables
  <1>4. (Settles(s) \/ Relents(s)) => pressed' \subseteq pressed
    BY DEF Settles, Relents
  <1>5. ASSUME Dispatch(CloseIncoming(tab), Ends1(s)), pressed' \subseteq pressed
        PROVE  PressInv' /\ OffersNoneOf(tab, tab', pressed \cup settled)
    <2>1. CloseIncoming(tab) \in Tabs /\ CloseIncoming(tab).phase = "closed"
      BY <1>1, Reduced DEF CloseIncoming, Tabs
    <2> QED
      BY <1>1, <1>3, <1>5, <2>1, ReducedOffer, PressesStay, NothingOffered
  <1>6. ASSUME Dispatch(CloseOutgoing(tab), Ends1(s)), pressed' = pressed
        PROVE  PressInv' /\ OffersNoneOf(tab, tab', pressed \cup settled)
    <2>1. CloseOutgoing(tab) \in Tabs /\ CloseOutgoing(tab).phase = tab.phase
      BY <1>1, Reduced DEF CloseOutgoing, Tabs
    <2> QED
      BY <1>1, <1>3, <1>6, <2>1, ReducedOffer, PressesStay, NothingOffered DEF StillUp
  <1>7. ASSUME flows[s].kind = "accept", Dispatch(AcceptFailed(tab), Ends1(s)), Relents(s)
        PROVE  PressInv' /\ AcceptEnds
    <2>1. AcceptFailed(tab) \in Tabs /\ StillUp(tab, AcceptFailed(tab))
      BY <1>1, Reduced DEF AcceptFailed, StillUp, Tabs
    <2>2. PressInv'
      BY <1>1, <1>3, <1>4, <1>7, <2>1, ReducedOffer, PressesStay
    <2>3. flows'[s] = Ends1(s)[s] \/ flows'[s].kind = "join"
      BY <1>3, <1>7, <2>1, Dispatching
    <2>4. Free.kind = "none"
      BY DEF Free
    <2>5. flows'[s] # flows[s]
      BY <1>3, <1>7, <2>3, <2>4
    <2> QED
      BY <1>7, <2>2, <2>5 DEF AcceptEnds
  <1>8. CASE AcceptReturns(s)
    <2>1. CASE UNCHANGED <<tab, pressed>>
      BY <2>1 DEF PressInv, Pressed, OffersNoneOf
    <2>2. CASE Dispatch(CloseIncoming(tab), Ends1(s)) /\ Settles(s)
      BY <1>4, <1>5, <2>2
    <2>3. CASE flows[s].kind = "accept" /\ Dispatch(AcceptFailed(tab), Ends1(s)) /\ Relents(s)
      BY <1>7, <2>3
    <2> QED
      BY <1>8, <2>1, <2>2, <2>3 DEF AcceptReturns, At1
  <1>9. CASE DeclineReturns(s)
    BY <1>4, <1>5, <1>9 DEF DeclineReturns
  <1>10. CASE CancelReturns(s)
    BY <1>6, <1>10 DEF CancelReturns
  <1>11. CASE CreateReturns(s)
    <2> DEFINE t == [tab EXCEPT !.outgoing = flows[s].call, !.out = "ringing"]
    <2>1. tab' = t /\ pressed' = pressed
      BY <1>11 DEF CreateReturns
    <2>2. t.call = tab.call /\ t.handled = tab.handled /\ t.supported = tab.supported
          /\ t.phase = tab.phase
      BY <1>1 DEF Tabs
    <2> HIDE DEF t
    <2> QED
      BY <2>1, <2>2 DEF PressInv, Pressed, OffersNoneOf
  <1>12. CASE JoinReturns(s)
    <2>1. CASE Dispatch(Suspend(tab), Goes1(s, "connecting")) /\ pressed' = {}
      <3>1. Suspend(tab) \in Tabs /\ Suspend(tab).phase = "idle"
        BY <1>1, Reduced DEF Suspend, Tabs
      <3>2. Goes1(s, "connecting") \in FlowTables
        BY <1>3 DEF FlowSteps
      <3>3. OffersNoneOf(tab, tab', pressed \cup settled)
        BY <2>1, <3>1, <3>2, NothingOffered
      <3>4. PressInv'
        BY <2>1 DEF PressInv, Pressed
      <3> QED
        BY <3>3, <3>4
    <2>2. CASE Dispatch(CloseIncoming(tab), Ends1(s)) /\ Settles(s)
      BY <1>4, <1>5, <2>2
    <2>3. CASE flows[s].kind = "accept" /\ Dispatch(AcceptFailed(tab), Ends1(s)) /\ Relents(s)
      BY <1>7, <2>3
    <2>4. CASE Dispatch(CloseOutgoing(tab), Ends1(s)) /\ pressed' = pressed
      BY <1>6, <2>4
    <2> QED
      BY <1>12, <2>1, <2>2, <2>3, <2>4 DEF JoinReturns
  <1>13. CASE Connected1(s)
    <2>1. PICK t \in {tab, Resume(tab)} : Dispatch(Entered(s, t), Ends1(s))
      BY <1>13 DEF Connected1
    <2>2. flows[s].kind \in {"accept", "join"} /\ pressed' \subseteq pressed
      BY <1>4, <1>13 DEF Connected1, At1
    <2>3. CASE flows[s].kind = "accept"
      <3> DEFINE u == Entered(s, t)
      <3>1. u \in {Accepted(tab), Accepted(Resume(tab))}
        BY <2>1, <2>3 DEF Entered
      <3>2. \A r \in Tabs : Accepted(r).phase = "idle"
        BY Reduced DEF Accepted, CloseIncoming, Tabs
      <3>3. /\ u \in Tabs /\ u.call = tab.call /\ u.handled = HandledCall(tab)
            /\ u.supported = tab.supported
        BY <1>1, <3>1, Reduced, ReducedOffer
      <3>4. u.phase = "idle"
        BY <1>1, <3>1, <3>2, Reduced
      <3>5. Dispatch(u, Ends1(s))
        BY <2>1
      <3> HIDE DEF u
      <3> QED
        BY <1>3, <2>2, <3>3, <3>4, <3>5, PressesStay, NothingOffered
    <2>4. CASE flows[s].kind = "join"
      <3> DEFINE u == Entered(s, t)
      <3>1. u \in {Joined(tab), Joined(Resume(tab))}
        BY <2>1, <2>4 DEF Entered
      <3>2. \A r \in Tabs : Joined(r).phase = r.phase /\ Resume(r).phase = r.phase
        BY Reduced DEF Joined, CloseOutgoing, Resume, Tabs
      <3>3. /\ u \in Tabs /\ u.call = tab.call /\ u.handled = tab.handled
            /\ u.supported = tab.supported
        BY <1>1, <3>1, Reduced, ReducedOffer
      <3>4. u.phase = tab.phase
        BY <1>1, <3>1, <3>2, Reduced
      <3>5. Dispatch(u, Ends1(s))
        BY <2>1
      <3> HIDE DEF u
      <3> QED
        BY <1>3, <2>2, <3>3, <3>4, <3>5, PressesStay, NothingOffered DEF StillUp
    <2> QED
      BY <2>2, <2>3, <2>4
  <1> QED
    BY <1>2, <1>8, <1>9, <1>10, <1>11, <1>12, <1>13

LEMMA PressesKept ==
    ASSUME RingInv, OneLoop, PressInv, [RingClientNext]_ringVars
    PROVE  PressInv' /\ (AcceptEnds \/ OffersNoneOf(tab, tab', pressed \cup settled))
  <1>1. CASE UNCHANGED ringVars \/ BackendMoves
    <2>1. tab' = tab /\ pressed' = pressed
      BY <1>1 DEF ringVars, BackendMoves
    <2> QED
      BY <2>1 DEF PressInv, Pressed, OffersNoneOf
  <1> QED
    BY <1>1, PollsPress, UsersPress, FlowsPress DEF RingClientNext

\* ring.ts: "A poll that lands mid-accept/mid-decline must not undo the user's press".  With
\* any number of rings, polls and functions in hand, from the press on no step but the end of
\* an accept offers the call again, unless a call was entered since the press and before the
\* answer to it: `pressed' is emptied then.
THEOREM SettledIsNeverOffered == RingClientSpec => SettledIsNotOffered
  <1>1. RingClientInit => PressInv
    BY DEF RingClientInit, PressInv, Pressed
  <1>2. AcceptEnds \/ OffersNoneOf(tab, tab', pressed \cup settled) =>
          \A c \in pressed \cup settled :
             tab'.phase = "ringing" /\ tab'.call = c =>
               \/ tab.phase = "ringing" /\ tab.call = c
               \/ \E s \in Slots : flows[s].kind = "accept" /\ flows'[s] # flows[s]
    BY DEF AcceptEnds, OffersNoneOf
  <1> QED
    BY <1>1, <1>2, PressesKept, RingInvariant, PTL DEF RingClientSpec, SettledIsNotOffered

----------------------------------------------------------------------------
(* Types: a number of a call that rings is not taken for one that is placed. *)

BoundTabs == [phase : RingPhases, call : Incoming, handled : Incoming, out : OutgoingPhases,
              outgoing : Outgoing, outHandled : Outgoing, suspended : BOOLEAN, supported : BOOLEAN]

Gates == [call : Outgoing, attempts : 0 .. MaxAttempts, placed : SUBSET Outgoing,
          abandoned : SUBSET Outgoing]

\* What a function of main.ts has in hand is a call of its own direction.
BoundFlows ==
    {f \in [kind : FlowKinds \cup {"create", "none"}, at : FlowSteps \cup {"none"},
            call : Incoming \cup Outgoing] :
       f.call \in IF f.kind \in {"accept", "decline"} THEN Incoming ELSE Outgoing}

BoundFlights == [state : {"none", "sent", "answered"}, in : Incoming, out : Outgoing,
                 ring : RingVerdicts]

TabTyped ==
    /\ tab \in BoundTabs /\ timer \in BOOLEAN /\ gate \in Gates /\ flows \in [Slots -> BoundFlows]

RestTyped ==
    /\ session \in BOOLEAN /\ flight \in BoundFlights
    /\ backend \in [in : Incoming, rings : BOOLEAN, out : Outgoing, ring : RingVerdicts]
    /\ pressed \subseteq Incoming /\ settled \subseteq Incoming

RingTyped == TabTyped /\ RestTyped

LEMMA Zero == 0 \in Incoming /\ 0 \in Outgoing /\ 0 \in 0 .. MaxAttempts
BY RingClientAssumption DEF Incoming, Outgoing

LEMMA ReducedInBounds ==
    ASSUME NEW t \in BoundTabs
    PROVE  /\ CloseIncoming(t) \in BoundTabs /\ CloseOutgoing(t) \in BoundTabs
           /\ Unsupported(t) \in BoundTabs /\ Accepted(t) \in BoundTabs /\ Joined(t) \in BoundTabs
           /\ Abandoned(t) \in BoundTabs /\ Suspend(t) \in BoundTabs /\ Resume(t) \in BoundTabs
           /\ AcceptFailed(t) \in BoundTabs
BY Zero DEF CloseIncoming, CloseOutgoing, Unsupported, Accepted, Joined, Abandoned, Suspend, Resume,
            AcceptFailed, HandledCall, HandledOut, BoundTabs, RingPhases, OutgoingPhases

LEMMA PollsInBounds ==
    ASSUME NEW t \in BoundTabs, NEW poll \in BoundFlights
    PROVE  Polled(t, poll) \in BoundTabs
<1> DEFINE u == ApplyIncoming(t, poll.in)
<1>1. poll.in \in Incoming /\ poll.out \in Outgoing
  BY DEF BoundFlights
<1>2. u \in BoundTabs
  BY <1>1, ReducedInBounds DEF ApplyIncoming, BoundTabs, RingPhases
<1> HIDE DEF u
<1>3. ApplyOutgoing(u, poll.out, poll.ring) \in BoundTabs
  <2>1. [u EXCEPT !.outgoing = poll.out] \in BoundTabs /\ [u EXCEPT !.outHandled = poll.out] \in BoundTabs
    BY <1>1, <1>2 DEF BoundTabs
  <2>2. \A out \in {"answered", "ringing"} :
          [u EXCEPT !.outgoing = poll.out, !.out = out] \in BoundTabs
    BY <1>1, <1>2 DEF BoundTabs, OutgoingPhases
  <2> QED BY <1>2, <2>1, <2>2, ReducedInBounds DEF ApplyOutgoing
<1> QED BY <1>3 DEF Polled, u

LEMMA PaintedInBounds ==
    ASSUME TabTyped, NEW t \in BoundTabs, NEW d \in Painted(t)
    PROVE  d.tab \in BoundTabs /\ d.gate \in Gates /\ d.joins \in Outgoing
<1> DEFINE id == t.outgoing
           attempts == IF id = gate.call THEN gate.attempts ELSE 0
           last == [gate EXCEPT !.call = id, !.attempts = attempts + 1]
<1>1. /\ \/ d.tab = Abandoned(t) /\ d.gate = Abandon(id)
         \/ d.tab = t /\ d.gate = gate
         \/ d.tab = [t EXCEPT !.out = "joining"] /\ d.gate = last /\ ~(attempts >= MaxAttempts)
      /\ d.joins \in {0, id}
  BY DEF Painted, Decide
<1>2. id \in Outgoing /\ attempts \in 0 .. MaxAttempts /\ gate \in Gates
  BY Zero DEF TabTyped, BoundTabs, Gates
<1>3. Abandon(id) \in Gates
  BY <1>2 DEF Abandon, Gates
<1>4. ASSUME ~(attempts >= MaxAttempts) PROVE last \in Gates
  <2>1. attempts + 1 \in 0 .. MaxAttempts
    BY <1>2, <1>4, RingClientAssumption
  <2> QED BY <1>2, <2>1 DEF Gates
<1>5. [t EXCEPT !.out = "joining"] \in BoundTabs
  BY DEF BoundTabs, OutgoingPhases
<1> HIDE DEF id, attempts, last
<1> QED BY <1>1, <1>2, <1>3, <1>4, <1>5, ReducedInBounds, Zero

LEMMA LaunchedInBounds ==
    ASSUME NEW fs \in [Slots -> BoundFlows], FreeSlots(fs) # {}, NEW flow \in BoundFlows
    PROVE  Launch(fs, flow) \in [Slots -> BoundFlows]
BY DEF Launch, FreeSlots

LEMMA DispatchInBounds ==
    ASSUME TabTyped, NEW t \in BoundTabs, NEW fs \in [Slots -> BoundFlows], Dispatch(t, fs)
    PROVE  TabTyped'
<1>1. PICK d \in Painted(t) :
         /\ tab' = d.tab /\ gate' = d.gate
         /\ timer' = IF flight'.state = "none" THEN Polls(d.tab) ELSE timer
         /\ IF d.joins = 0 THEN flows' = fs
            ELSE /\ FreeSlots(fs) # {}
                 /\ flows' = Launch(fs, [kind |-> "join", at |-> "entering", call |-> d.joins])
  BY DEF Dispatch
<1>2. d.tab \in BoundTabs /\ d.gate \in Gates /\ d.joins \in Outgoing
  BY PaintedInBounds
<1>3. [kind |-> "join", at |-> "entering", call |-> d.joins] \in BoundFlows
  BY <1>2 DEF BoundFlows, FlowKinds, FlowSteps
<1>4. flows' \in [Slots -> BoundFlows]
  BY <1>1, <1>3, LaunchedInBounds
<1>5. timer' \in BOOLEAN
  BY <1>1 DEF TabTyped, Polls
<1> QED BY <1>1, <1>2, <1>4, <1>5 DEF TabTyped

LEMMA FlowsInBounds ==
    ASSUME TabTyped, NEW s \in Slots
    PROVE  /\ \A at \in FlowSteps : Goes1(s, at) \in [Slots -> BoundFlows]
           /\ Ends1(s) \in [Slots -> BoundFlows]
           /\ flows[s].kind \in {"accept", "decline"} => flows[s].call \in Incoming
           /\ flows[s].kind \notin {"accept", "decline"} => flows[s].call \in Outgoing
<1>1. flows[s] \in BoundFlows /\ flows \in [Slots -> BoundFlows]
  BY DEF TabTyped
<1>2. Free \in BoundFlows
  BY Zero DEF Free, BoundFlows, FlowKinds, FlowSteps
<1>3. \A at \in FlowSteps : [flows[s] EXCEPT !.at = at] \in BoundFlows
  BY <1>1 DEF BoundFlows
<1>4. \A at \in FlowSteps : Goes1(s, at) = [flows EXCEPT ![s] = [flows[s] EXCEPT !.at = at]]
  BY <1>1 DEF Goes1
<1> QED BY <1>1, <1>2, <1>3, <1>4 DEF Ends1, BoundFlows

LEMMA PollsKeepTypes == RingTyped /\ PollStep => RingTyped'
<1> SUFFICES ASSUME RingTyped, PollStep PROVE RingTyped'
  OBVIOUS
<1> USE DEF RingTyped
<1>1. NoFlight \in BoundFlights /\ [NoFlight EXCEPT !.state = "sent"] \in BoundFlights
  BY Zero DEF NoFlight, BoundFlights, RingVerdicts
<1>2. tab \in BoundTabs /\ flight \in BoundFlights /\ flows \in [Slots -> BoundFlows]
  BY DEF TabTyped, RestTyped
<1>3. CASE Fire
  BY <1>1, <1>3 DEF Fire, TabTyped, RestTyped
<1>4. CASE Answer
  <2>1. flight' \in BoundFlights
    BY <1>4, Zero DEF Answer, RestTyped, BoundFlights
  <2> QED BY <1>4, <2>1 DEF Answer, TabTyped, RestTyped
<1>5. CASE PollLands
  <2>1. TabTyped'
    BY <1>2, <1>5, PollsInBounds, DispatchInBounds DEF PollLands
  <2> QED BY <1>1, <1>5, <2>1 DEF PollLands, RestTyped
<1>6. CASE PollFails
  <2>1. TabTyped'
    BY <1>2, <1>6, ReducedInBounds, DispatchInBounds DEF PollFails
  <2> QED BY <1>1, <1>6, <2>1 DEF PollFails, RestTyped
<1> QED BY <1>3, <1>4, <1>5, <1>6 DEF PollStep

LEMMA PressesKeepTypes ==
    ASSUME TabTyped, NEW kind \in FlowKinds \cup {"create"}, NEW call, NEW t \in BoundTabs,
           call \in IF kind \in {"accept", "decline"} THEN Incoming ELSE Outgoing,
           Press(kind, call, t)
    PROVE  TabTyped'
<1> DEFINE flow == [kind |-> kind, at |-> "request", call |-> call]
<1>1. flow \in BoundFlows
  BY DEF BoundFlows, FlowSteps
<1>2. Launch(flows, flow) \in [Slots -> BoundFlows]
  BY <1>1, LaunchedInBounds DEF Press, TabTyped
<1> QED BY <1>2, DispatchInBounds DEF Press

LEMMA UsersKeepTypes == RingTyped /\ UserStep => RingTyped'
<1> SUFFICES ASSUME RingTyped, UserStep PROVE RingTyped'
  OBVIOUS
<1> USE DEF RingTyped
<1>1. /\ tab \in BoundTabs /\ flows \in [Slots -> BoundFlows] /\ tab.call \in Incoming
      /\ tab.outgoing \in Outgoing
  BY DEF TabTyped, BoundTabs
<1>2. \A ph \in RingPhases : [tab EXCEPT !.phase = ph] \in BoundTabs
                             /\ [tab EXCEPT !.phase = ph, !.call = 0] \in BoundTabs
  BY <1>1, Zero DEF BoundTabs
<1>3. \A ph \in OutgoingPhases : [tab EXCEPT !.out = ph] \in BoundTabs
                                 /\ [tab EXCEPT !.out = ph, !.outgoing = 0] \in BoundTabs
  BY <1>1, Zero DEF BoundTabs
<1>4. {"accepting", "declining", "idle"} \subseteq RingPhases /\ {"cancelling", "idle"} \subseteq OutgoingPhases
      /\ {"accept", "decline", "cancel"} \subseteq FlowKinds
  BY DEF RingPhases, OutgoingPhases, FlowKinds
<1>5. CASE PressAccept
  <2>1. TabTyped'
    BY <1>1, <1>2, <1>4, <1>5, PressesKeepTypes DEF PressAccept
  <2> QED BY <1>1, <1>5, <2>1 DEF PressAccept, Press, RestTyped
<1>6. CASE PressDecline
  <2>1. TabTyped'
    BY <1>1, <1>2, <1>4, <1>6, PressesKeepTypes DEF PressDecline
  <2> QED BY <1>1, <1>6, <2>1 DEF PressDecline, Press, RestTyped
<1>7. CASE PressCancel
  <2>1. TabTyped'
    BY <1>1, <1>3, <1>4, <1>7, PressesKeepTypes DEF PressCancel
  <2> QED BY <1>7, <2>1 DEF PressCancel, Press, RestTyped
<1>8. CASE PlaceCall
  <2>1. backend.out + 1 \in Outgoing
    BY <1>8, RingClientAssumption DEF PlaceCall, RestTyped, Outgoing
  <2>2. TabTyped'
    BY <1>1, <1>8, <2>1, PressesKeepTypes DEF PlaceCall
  <2>3. backend' \in [in : Incoming, rings : BOOLEAN, out : Outgoing, ring : RingVerdicts]
    <3>1. backend' = [backend EXCEPT !.out = backend.out + 1, !.ring = "ringing"]
      BY <1>8 DEF PlaceCall
    <3> QED BY <2>1, <3>1 DEF RestTyped, RingVerdicts
  <2> QED BY <1>8, <2>2, <2>3 DEF PlaceCall, Press, RestTyped
<1>9. CASE Dismiss
  <2>1. TabTyped'
    BY <1>1, <1>2, <1>3, <1>4, <1>9, DispatchInBounds DEF Dismiss
  <2> QED BY <1>9, <2>1 DEF Dismiss, RestTyped
<1>10. CASE SessionEnds
  <2>1. TabTyped'
    BY <1>1, <1>10, ReducedInBounds, DispatchInBounds DEF SessionEnds
  <2> QED BY <1>10, <2>1 DEF SessionEnds, RestTyped
<1> QED BY <1>5, <1>6, <1>7, <1>8, <1>9, <1>10 DEF UserStep

LEMMA FunctionsKeepTypes == RingTyped /\ FlowStep => RingTyped'
<1> SUFFICES ASSUME RingTyped, NEW s \in Slots,
                    \/ AcceptReturns(s) \/ DeclineReturns(s) \/ CancelReturns(s)
                    \/ CreateReturns(s) \/ JoinReturns(s) \/ Connected1(s)
             PROVE  RingTyped'
  BY DEF FlowStep
<1> USE DEF RingTyped
<1>1. /\ tab \in BoundTabs /\ "entering" \in FlowSteps /\ "connecting" \in FlowSteps
      /\ "over" \in RingVerdicts
  BY DEF TabTyped, FlowSteps, RingVerdicts
<1>2. /\ Goes1(s, "entering") \in [Slots -> BoundFlows] /\ Goes1(s, "connecting") \in [Slots -> BoundFlows]
      /\ Ends1(s) \in [Slots -> BoundFlows]
  BY <1>1, FlowsInBounds
<1>3. ASSUME flows[s].kind \in {"accept", "decline"}, Settles(s) \/ Relents(s)
      PROVE  pressed' \subseteq Incoming /\ settled' \subseteq Incoming
  BY <1>3, FlowsInBounds DEF Settles, Relents, RestTyped
<1>4. ASSUME NEW c, UNCHANGED backend \/ StopsRinging(c)
      PROVE  backend' \in [in : Incoming, rings : BOOLEAN, out : Outgoing, ring : RingVerdicts]
  BY <1>4 DEF StopsRinging, RestTyped
<1>5. CASE AcceptReturns(s)
  <2>1. flows[s].kind = "accept" /\ flight' = flight /\ session' = session
    BY <1>5 DEF AcceptReturns, At1
  <2>2. TabTyped'
    BY <1>1, <1>2, <1>5, ReducedInBounds, DispatchInBounds DEF AcceptReturns, TabTyped
  <2>3. pressed' \subseteq Incoming /\ settled' \subseteq Incoming
    BY <1>3, <1>5, <2>1 DEF AcceptReturns, RestTyped
  <2>4. backend' \in [in : Incoming, rings : BOOLEAN, out : Outgoing, ring : RingVerdicts]
    BY <1>4, <1>5 DEF AcceptReturns
  <2> QED BY <2>1, <2>2, <2>3, <2>4 DEF RestTyped
<1>6. CASE DeclineReturns(s)
  <2>1. flows[s].kind = "decline" /\ flight' = flight /\ session' = session
    BY <1>6 DEF DeclineReturns, At1
  <2>2. TabTyped'
    BY <1>1, <1>2, <1>6, ReducedInBounds, DispatchInBounds DEF DeclineReturns
  <2>3. pressed' \subseteq Incoming /\ settled' \subseteq Incoming
    BY <1>3, <1>6, <2>1 DEF DeclineReturns
  <2>4. backend' \in [in : Incoming, rings : BOOLEAN, out : Outgoing, ring : RingVerdicts]
    BY <1>4, <1>6 DEF DeclineReturns
  <2> QED BY <2>1, <2>2, <2>3, <2>4 DEF RestTyped
<1>7. CASE CancelReturns(s)
  <2>1. TabTyped'
    BY <1>1, <1>2, <1>7, ReducedInBounds, DispatchInBounds DEF CancelReturns
  <2>2. backend' \in [in : Incoming, rings : BOOLEAN, out : Outgoing, ring : RingVerdicts]
    BY <1>1, <1>7 DEF CancelReturns, RestTyped
  <2> QED BY <1>7, <2>1, <2>2 DEF CancelReturns, At1, RestTyped
<1>8. CASE CreateReturns(s)
  <2> DEFINE t == [tab EXCEPT !.outgoing = flows[s].call, !.out = "ringing"]
  <2>1. flows[s].call \in Outgoing
    BY <1>8, FlowsInBounds DEF CreateReturns, At1
  <2>2. t \in BoundTabs
    BY <1>1, <2>1 DEF BoundTabs, OutgoingPhases
  <2>3. gate' \in Gates
    BY <1>8, <2>1 DEF CreateReturns, TabTyped, Gates
  <2>4. timer' \in BOOLEAN /\ tab' = t /\ flows' = Ends1(s)
    BY <1>8 DEF CreateReturns, TabTyped, Polls
  <2>5. TabTyped'
    BY <1>2, <2>2, <2>3, <2>4 DEF TabTyped
  <2> QED BY <1>8, <2>5 DEF CreateReturns, At1, RestTyped
<1>9. CASE JoinReturns(s)
  <2>1. TabTyped'
    BY <1>1, <1>2, <1>9, ReducedInBounds, DispatchInBounds DEF JoinReturns
  <2>2. pressed' \subseteq Incoming /\ settled' \subseteq Incoming
    <3>1. \/ flows[s].kind = "accept" /\ (Settles(s) \/ Relents(s))
          \/ pressed' \in {{}, pressed} /\ settled' = settled
      BY <1>9 DEF JoinReturns
    <3> QED BY <1>3, <3>1 DEF RestTyped
  <2>3. session' \in BOOLEAN
    BY <1>9 DEF JoinReturns, RestTyped
  <2> QED BY <1>9, <2>1, <2>2, <2>3 DEF JoinReturns, At1, RestTyped
<1>10. CASE Connected1(s)
  <2>1. TabTyped'
    BY <1>1, <1>2, <1>10, ReducedInBounds, DispatchInBounds DEF Connected1, Entered
  <2>2. pressed' \subseteq Incoming /\ settled' \subseteq Incoming
    BY <1>3, <1>10 DEF Connected1, RestTyped
  <2>3. session' \in BOOLEAN
    BY <1>10 DEF Connected1, RestTyped
  <2> QED BY <1>10, <2>1, <2>2, <2>3 DEF Connected1, At1, RestTyped
<1> QED BY <1>5, <1>6, <1>7, <1>8, <1>9, <1>10

LEMMA BackendKeepsTypes == RingTyped /\ BackendMoves => RingTyped'
<1> SUFFICES ASSUME RingTyped, BackendMoves PROVE RingTyped'
  OBVIOUS
<1> USE DEF RingTyped
<1>1. backend' \in [in : Incoming, rings : BOOLEAN, out : Outgoing, ring : RingVerdicts]
  <2>1. CASE backend.in < MaxIn /\ backend' = [backend EXCEPT !.in = @ + 1, !.rings = TRUE]
    <3>1. backend.in + 1 \in Incoming
      BY <2>1, RingClientAssumption DEF RestTyped, Incoming
    <3>2. backend' = [backend EXCEPT !.in = backend.in + 1, !.rings = TRUE]
      BY <2>1
    <3> QED BY <3>1, <3>2 DEF RestTyped
  <2>2. CASE backend' = [backend EXCEPT !.rings = FALSE]
    BY <2>2 DEF RestTyped
  <2>3. ASSUME NEW r \in {"accepted", "over", "none"}, backend' = [backend EXCEPT !.ring = r]
        PROVE  backend' \in [in : Incoming, rings : BOOLEAN, out : Outgoing, ring : RingVerdicts]
    BY <2>3 DEF RestTyped, RingVerdicts
  <2> QED BY <2>1, <2>2, <2>3 DEF BackendMoves
<1> QED BY <1>1 DEF BackendMoves, TabTyped, RestTyped

LEMMA TypesBegin == RingClientInit => RingTyped
<1> SUFFICES ASSUME RingClientInit PROVE RingTyped
  OBVIOUS
<1>1. tab \in BoundTabs /\ timer \in BOOLEAN /\ session \in BOOLEAN /\ pressed = {} /\ settled = {}
  BY Zero DEF RingClientInit, BoundTabs, RingPhases, OutgoingPhases
<1>2. gate \in Gates /\ flight \in BoundFlights
  BY Zero DEF RingClientInit, Gates, NoFlight, BoundFlights, RingVerdicts
<1>3. flows \in [Slots -> BoundFlows]
  <2>1. Free \in BoundFlows
    BY Zero DEF Free, BoundFlows
  <2> QED BY <2>1 DEF RingClientInit
<1>4. backend \in [in : Incoming, rings : BOOLEAN, out : Outgoing, ring : RingVerdicts]
  <2>1. MaxOut > 0 => 1 \in Outgoing
    BY RingClientAssumption DEF Outgoing
  <2>2. CASE backend = [in |-> 0, rings |-> FALSE, out |-> 0, ring |-> "none"]
    BY <2>2, Zero DEF RingVerdicts
  <2>3. CASE MaxOut > 0 /\ backend = [in |-> 0, rings |-> FALSE, out |-> 1, ring |-> "accepted"]
    BY <2>1, <2>3, Zero DEF RingVerdicts
  <2> QED BY <2>2, <2>3 DEF RingClientInit
<1> QED BY <1>1, <1>2, <1>3, <1>4 DEF RingTyped, TabTyped, RestTyped

LEMMA TypesKept == RingTyped /\ [RingClientNext]_ringVars => RingTyped'
<1>1. RingTyped /\ UNCHANGED ringVars => RingTyped'
  BY DEF ringVars, RingTyped, TabTyped, RestTyped
<1> QED
  BY <1>1, PollsKeepTypes, UsersKeepTypes, FunctionsKeepTypes, BackendKeepsTypes DEF RingClientNext

LEMMA TypedRing == RingTyped => RingClientTypeOK
<1>1. BoundFlows \subseteq [kind : FlowKinds \cup {"create", "none"}, at : FlowSteps \cup {"none"},
                            call : Incoming \cup Outgoing]
  BY DEF BoundFlows
<1> QED BY <1>1 DEF RingTyped, TabTyped, RestTyped, BoundTabs, Gates, BoundFlights, RingClientTypeOK

\* Whatever crosses in a tab, its records keep their types: it never tries a call more often
\* than the gate allows, and no function settles an outgoing call for an incoming one.
THEOREM RingTypes == RingClientSpec => []RingClientTypeOK
BY TypesBegin, TypesKept, TypedRing, PTL DEF RingClientSpec
=============================================================================
