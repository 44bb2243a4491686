----------------------- MODULE CallLifecycleProofs -----------------------
(***************************************************************************)
(* Proofs about CallLifecycle, for any users, ids, limits and clock, and   *)
(* whether or not the token signer yields.                                 *)
(*                                                                         *)
(* Everything but createCall changes one call object through a setter, and *)
(* every setter leaves it well formed (Sound) and only lets it move on     *)
(* (Evolves).  The inductive invariant then needs, of the sweeper, only    *)
(* that what it archives and forgets is over.                              *)
(*                                                                         *)
(* In the terms of CallProtocol, every step leaves the state and the ring  *)
(* of every call alone, or is one transition of one call (ProtocolTurn).   *)
(* That the deadline spares who has joined, and that nobody is let into a  *)
(* call that is over, needs an invariant of its own (SweptApart): no       *)
(* handler that answers or enters a call is half way through while a sweep *)
(* is in flight.  It holds when the token is signed within the turn of the *)
(* event loop.                                                             *)
(***************************************************************************)
EXTENDS CallLifecycle, TLAPS

\* A well formed call: endedAt says whether it is over, a verdict has ended it.
Sound(call) ==
    /\ call \in Call
    /\ call.endedAt = NoTime <=> call.state # "ended"
    /\ call.ring \in DeadRings => call.state = "ended"

\* How far a call object can move while a handler or the sweeper holds it.
Evolves(old, new) ==
    /\ new.createdAt = old.createdAt /\ new.caller = old.caller /\ new.callee = old.callee
    /\ old.state = "ended" => new.state = "ended" /\ new.endedAt = old.endedAt
    /\ old.state # "unborn" => new.state # "unborn"
    /\ old.state = "unborn" => new.state = "unborn"
    /\ new.state = "created" => old.state = "created"
    /\ new.ring = "none" <=> old.ring = "none"
    /\ new.ring = "ringing" => old.ring = "ringing" /\ new.expiresAt = old.expiresAt
    /\ old.ring \in DeadRings => new.ring = old.ring /\ new.respondedAt = old.respondedAt

MovesOn(old, new) == Sound(new) /\ Evolves(old, new)

----------------------------------------------------------------------------
(* Each setter, and each handler's use of the setters, moves a call on. *)

\* What SetCallState and SetRingState write, and what they leave alone.
LEMMA SetCallStateFields ==
    ASSUME NEW call \in Call, NEW t \in Nat, NEW s \in CallStates
    PROVE  LET n == SetCallState(call, s, t)
           IN  /\ n \in Call
               /\ n.state = s /\ n.ring = call.ring
               /\ n.createdAt = call.createdAt
               /\ n.caller = call.caller /\ n.callee = call.callee
               /\ n.expiresAt = call.expiresAt /\ n.respondedAt = call.respondedAt
               /\ n.endedAt = IF s = "ended" /\ call.endedAt = NoTime
                              THEN t ELSE call.endedAt
<1>1. SetCallState(call, s, t) \in Call
  <2>1. (IF s = "ended" /\ call.endedAt = NoTime THEN t ELSE call.endedAt) \in Stamp
    BY DEF Call, Stamp
  <2> QED BY <2>1 DEF SetCallState, Call
<1> QED BY <1>1 DEF SetCallState, Call

LEMMA SetRingStateFields ==
    ASSUME NEW call \in Call, NEW t \in Nat, NEW g \in RingStates
    PROVE  LET n == SetRingState(call, g, t)
           IN  /\ n \in Call
               /\ n.state = call.state /\ n.ring = g
               /\ n.createdAt = call.createdAt
               /\ n.caller = call.caller /\ n.callee = call.callee
               /\ n.expiresAt = call.expiresAt /\ n.respondedAt = t
               /\ n.endedAt = call.endedAt
<1>1. SetRingState(call, g, t) \in Call
  BY DEF SetRingState, Call, Stamp
<1> QED BY <1>1 DEF SetRingState, Call

LEMMA HangUpMovesOn ==
    ASSUME NEW call, Sound(call), NEW t \in Nat, call.state # "unborn"
    PROVE  /\ MovesOn(call, SetCallState(call, "ended", t))
           /\ SetCallState(call, "ended", t).state = "ended"
<1> DEFINE n == SetCallState(call, "ended", t)
<1>1. /\ n \in Call /\ n.state = "ended" /\ n.ring = call.ring
      /\ n.createdAt = call.createdAt /\ n.caller = call.caller /\ n.callee = call.callee
      /\ n.expiresAt = call.expiresAt /\ n.respondedAt = call.respondedAt
      /\ n.endedAt = IF call.endedAt = NoTime THEN t ELSE call.endedAt
  BY SetCallStateFields DEF Sound, CallStates
<1>2. t # NoTime
  BY DEF NoTime
<1> HIDE DEF n
<1>3. MovesOn(call, n)
  BY <1>1, <1>2 DEF Sound, MovesOn, Evolves
<1> QED BY <1>1, <1>3 DEF n

LEMMA EndCallMovesOn ==
    ASSUME NEW call, Sound(call), NEW t \in Nat, call.state # "unborn"
    PROVE  MovesOn(call, EndCall(call, t)) /\ EndCall(call, t).state = "ended"
BY HangUpMovesOn DEF EndCall, MovesOn, Evolves

\* The label goes on a live ring only, and the call ends under it.
LEMMA EndRingMovesOn ==
    ASSUME NEW call, Sound(call), NEW t \in Nat, call.state # "unborn",
           NEW why \in DeadRings
    PROVE  MovesOn(call, EndRing(call, why, t)) /\ EndRing(call, why, t).state = "ended"
<1>1. CASE call.ring \notin LiveRings
  BY <1>1, EndCallMovesOn DEF EndRing
<1>2. CASE call.ring \in LiveRings
  <2> DEFINE labelled == SetRingState(call, why, t)
  <2>0. call \in Call /\ why \in RingStates
    BY DEF Sound, RingStates
  <2>1. /\ labelled \in Call /\ labelled.state = call.state /\ labelled.ring = why
        /\ labelled.createdAt = call.createdAt
        /\ labelled.caller = call.caller /\ labelled.callee = call.callee
        /\ labelled.endedAt = call.endedAt
    BY <2>0, SetRingStateFields
  <2>2. EndRing(call, why, t) = EndCall(labelled, t)
    BY <1>2 DEF EndRing
  <2> HIDE DEF labelled
  <2>3. CASE call.state = "ended"
    <3>1. EndRing(call, why, t) = labelled
      BY <2>1, <2>2, <2>3 DEF EndCall
    <3> QED BY <1>2, <2>1, <2>3, <3>1
            DEF Sound, MovesOn, Evolves, DeadRings, LiveRings
  <2>4. CASE call.state # "ended"
    <3> DEFINE over == SetCallState(labelled, "ended", t)
    <3>1. EndRing(call, why, t) = over
      BY <2>1, <2>2, <2>4 DEF EndCall
    <3>2. /\ over \in Call /\ over.state = "ended" /\ over.ring = why
          /\ over.createdAt = call.createdAt
          /\ over.caller = call.caller /\ over.callee = call.callee
          /\ over.endedAt = IF call.endedAt = NoTime THEN t ELSE call.endedAt
      <4>1. "ended" \in CallStates
        BY DEF CallStates
      <4>2. labelled \in Call /\ labelled.ring = why /\ labelled.createdAt = call.createdAt
            /\ labelled.caller = call.caller
            /\ labelled.callee = call.callee /\ labelled.endedAt = call.endedAt
        BY <2>1
      <4> QED BY ONLY <4>1, <4>2, SetCallStateFields, t \in Nat DEF over
    <3>3. t # NoTime
      BY DEF NoTime
    <3> HIDE DEF over
    <3>4. MovesOn(call, over) /\ over.state = "ended"
      BY <1>2, <2>4, <3>2, <3>3 DEF Sound, MovesOn, Evolves, DeadRings, LiveRings
    <3> QED BY <3>1, <3>4
  <2> QED BY <2>3, <2>4
<1> QED BY <1>1, <1>2

LEMMA AcceptMovesOn ==
    ASSUME NEW call, Sound(call), NEW t \in Nat, call.ring = "ringing"
    PROVE  MovesOn(call, AcceptRing(call, t))
<1> DEFINE answered == SetRingState(call, "accepted", t)
<1>1. /\ answered \in Call /\ answered.state = call.state /\ answered.ring = "accepted"
      /\ answered.createdAt = call.createdAt
      /\ answered.caller = call.caller /\ answered.callee = call.callee
      /\ answered.endedAt = call.endedAt
  BY SetRingStateFields DEF Sound, RingStates, LiveRings
<1>2. t + call.timeout \in Nat
  BY DEF Sound, Call
<1>3. AcceptRing(call, t) = [answered EXCEPT !.expiresAt = t + call.timeout]
  BY DEF AcceptRing
<1> HIDE DEF answered
<1>4. LET n == AcceptRing(call, t)
      IN  /\ n \in Call /\ n.state = call.state /\ n.ring = "accepted"
          /\ n.createdAt = call.createdAt
          /\ n.caller = call.caller /\ n.callee = call.callee /\ n.endedAt = call.endedAt
  BY <1>1, <1>2, <1>3 DEF Call
<1> QED BY <1>4 DEF Sound, MovesOn, Evolves, DeadRings

LEMMA TouchMovesOn ==
    ASSUME NEW call, Sound(call), NEW t \in Nat
    PROVE  MovesOn(call, TouchCall(call, t))
BY DEF Sound, MovesOn, Evolves, TouchCall, Call, Stamp, NoTime, DeadRings

LEMMA ModeMovesOn ==
    ASSUME NEW call, Sound(call), NEW t \in Nat, NEW m \in Modes
    PROVE  MovesOn(call, SetCallMode(call, m, t))
BY DEF Sound, MovesOn, Evolves, SetCallMode, Call, Stamp, NoTime, DeadRings

LEMMA AgentMovesOn ==
    ASSUME NEW call, Sound(call), NEW q \in BOOLEAN, NEW d \in BOOLEAN
    PROVE  MovesOn(call, SetCallAgent(call, q, d))
BY DEF Sound, MovesOn, Evolves, SetCallAgent, Call, Stamp, NoTime, DeadRings

LEMMA StaysPut ==
    ASSUME NEW call, Sound(call)
    PROVE  MovesOn(call, call)
BY DEF MovesOn, Evolves

LEMMA MovesOnTwice ==
    ASSUME NEW a, NEW b, NEW c, MovesOn(a, b), MovesOn(b, c)
    PROVE  MovesOn(a, c)
BY DEF MovesOn, Evolves, Sound

LEMMA JoinMovesOn ==
    ASSUME NEW call, Sound(call), NEW t \in Nat, NEW u, call.state # "unborn"
    PROVE  MovesOn(call, JoinCall(call, u, t))
<1> DEFINE answered == IF call.ring = "ringing" /\ u = call.callee
                       THEN SetRingState(call, "accepted", t) ELSE call
           entered  == IF answered.state = "created"
                       THEN SetCallState(answered, "active", t) ELSE answered
<1>1. MovesOn(call, answered) /\ answered.state = call.state
  <2>1. CASE call.ring = "ringing" /\ u = call.callee
    <3>1. answered = SetRingState(call, "accepted", t)
      BY <2>1
    <3>2. /\ answered \in Call /\ answered.state = call.state /\ answered.ring = "accepted"
          /\ answered.createdAt = call.createdAt
          /\ answered.caller = call.caller /\ answered.callee = call.callee
          /\ answered.endedAt = call.endedAt
      BY <3>1, SetRingStateFields DEF Sound, RingStates, LiveRings
    <3> HIDE DEF answered
    <3> QED BY <2>1, <3>2 DEF Sound, MovesOn, Evolves, DeadRings
  <2> QED BY <2>1, StaysPut
<1> HIDE DEF answered
<1>2. MovesOn(answered, entered)
  <2>1. CASE answered.state = "created"
    <3>1. entered = SetCallState(answered, "active", t)
      BY <2>1
    <3>2. /\ entered \in Call /\ entered.state = "active" /\ entered.ring = answered.ring
          /\ entered.createdAt = answered.createdAt
          /\ entered.caller = answered.caller /\ entered.callee = answered.callee
          /\ entered.expiresAt = answered.expiresAt
          /\ entered.respondedAt = answered.respondedAt
          /\ entered.endedAt = answered.endedAt
      <4>1. "active" \in CallStates /\ answered \in Call
        BY <1>1 DEF CallStates, MovesOn, Sound
      <4> QED BY ONLY <3>1, <4>1, SetCallStateFields, t \in Nat
    <3> HIDE DEF entered
    <3> QED BY <1>1, <2>1, <3>2 DEF Sound, MovesOn, Evolves, DeadRings
  <2> QED BY <1>1, <2>1, StaysPut DEF MovesOn
<1>3. JoinCall(call, u, t) = TouchCall(entered, t)
  BY DEF JoinCall, answered
<1> HIDE DEF entered
<1>4. MovesOn(entered, TouchCall(entered, t))
  BY <1>2, TouchMovesOn DEF MovesOn
<1> QED BY <1>1, <1>2, <1>3, <1>4, MovesOnTwice

LEMMA CreatedIsSound ==
    ASSUME NEW u \in Users \cup {NoUser}, NEW v \in Users \cup {NoUser},
           NEW m \in Modes, NEW s \in Nat, NEW t \in Nat
    PROVE  /\ Sound(CreateCall(u, v, m, s, t))
           /\ CreateCall(u, v, m, s, t).state = "created"
BY DEF Sound, CreateCall, Call, CallStates, Stamp, NoTime, DeadRings, LiveRings,
       RingStates, Modes

----------------------------------------------------------------------------
(* The inductive invariant. *)

Born(c) == calls[c].state # "unborn"
Over(c) == calls[c].state = "ended"

CallsOK ==
    /\ calls \in [CallIds -> Call]
    /\ \A c \in CallIds : Sound(calls[c])

MapOK ==
    /\ live \subseteq CallIds /\ archived \subseteq CallIds
    /\ \A c \in live : Born(c)
    /\ ForgottenIsArchived

TasksOK ==
    /\ task \in [Tasks -> TaskType]
    /\ \A t \in Tasks : task[t].pc \in Holding => task[t].call \in CallIds /\ Born(task[t].call)

SweepType == [at : Nat, phase : Phases, queue : SUBSET CallIds, stored : SUBSET CallIds]

\* What the sweep lists exists; what it archives, or is about to forget, is over.
SweepOK ==
    /\ sweep \in SweepType
    /\ \A c \in sweep.queue : Born(c)
    /\ sweep.phase = "archive" => \A c \in sweep.queue : Over(c)
    /\ \A c \in sweep.stored : Over(c) /\ c \in archived
    /\ task[Sweeper].pc = "putting" => Over(task[Sweeper].call)

IInv == now \in Nat /\ CallsOK /\ MapOK /\ TasksOK /\ SweepOK /\ OneRingPerUser

\* The effect of every step but createCall on the call objects.
CallsMove ==
    /\ calls' \in [CallIds -> Call]
    /\ \A c \in CallIds : MovesOn(calls[c], calls'[c])

\* What a step must do: keep the invariant, and undo nothing of a call.
LegalStep ==
    /\ IInv'
    /\ \A c \in CallIds : Born(c) => Evolves(calls[c], calls'[c])

\* The tasks other than t are as they were, and t is not the sweeper in a put.
OnlyTask(t) ==
    /\ \A s \in Tasks : s # t => task'[s] = task[s]
    /\ task'[t].pc # "putting"

LEMMA WriteMoves ==
    ASSUME CallsOK, NEW c \in CallIds, NEW n, MovesOn(calls[c], n), Write(c, n)
    PROVE  CallsMove
<1>1. n \in Call
  BY DEF MovesOn, Sound
<1>2. \A d \in CallIds : MovesOn(calls[d], calls[d])
  BY StaysPut DEF CallsOK
<1> QED BY <1>1, <1>2 DEF CallsMove, Write, CallsOK

LEMMA SameCallsMove ==
    ASSUME CallsOK, calls' = calls
    PROVE  CallsMove
BY StaysPut DEF CallsMove, CallsOK

LEMMA FinishTasks ==
    ASSUME TasksOK, CallsMove, NEW t \in Tasks, Finish(t)
    PROVE  TasksOK' /\ OnlyTask(t)
<1>1. IdleTask \in TaskType /\ [IdleTask EXCEPT !.pc = "run"] \in TaskType
  BY DEF IdleTask, TaskType, PCs, Ops, Modes
<1>2. /\ IdleTask.pc = "idle"
      /\ [IdleTask EXCEPT !.pc = "run"].pc = "run"
  BY DEF IdleTask
<1>3. /\ task' \in [Tasks -> TaskType]
      /\ \A s \in Tasks : s # t => task'[s] = task[s]
      /\ task'[t].pc \in {"idle", "run"}
  BY <1>1, <1>2 DEF Finish, TasksOK
<1> QED BY <1>3 DEF TasksOK, OnlyTask, CallsMove, MovesOn, Evolves, Born, Holding

LEMMA AwaitTasks ==
    ASSUME TasksOK, CallsMove, NEW t \in Tasks, NEW c \in CallIds, Born(c),
           NEW pc \in PCs, Await(t, pc, c)
    PROVE  /\ TasksOK'
           /\ \A s \in Tasks : s # t => task'[s] = task[s]
           /\ task'[t].pc = pc /\ task'[t].call = c
<1>1. /\ task' \in [Tasks -> TaskType]
      /\ \A s \in Tasks : s # t => task'[s] = task[s]
      /\ task'[t].pc = pc /\ task'[t].call = c
  BY DEF Await, TasksOK, TaskType
<1> QED BY <1>1 DEF TasksOK, CallsMove, MovesOn, Evolves, Born

LEMMA EndReleasingMoves ==
    ASSUME CallsOK, TasksOK, NEW t \in Tasks, NEW c \in CallIds, Born(c),
           NEW n, MovesOn(calls[c], n), EndReleasingAgent(t, c, n)
    PROVE  CallsMove /\ TasksOK' /\ OnlyTask(t)
<1>1. CallsMove
  BY WriteMoves DEF EndReleasingAgent
<1>2. CASE Await(t, "stopping", c)
  <2>1. "stopping" \in PCs
    BY DEF PCs
  <2> QED BY <1>1, <1>2, <2>1, AwaitTasks DEF OnlyTask
<1>3. CASE Finish(t)
  BY <1>1, <1>3, FinishTasks
<1> QED BY <1>1, <1>2, <1>3 DEF EndReleasingAgent

\* A task's step leaves the sweep's claims true.
LEMMA SweepStands ==
    ASSUME SweepOK, TasksOK, MapOK, CallsMove, archived' = archived, sweep' = sweep,
           NEW t \in Tasks, OnlyTask(t)
    PROVE  SweepOK'
<1>1. \A c \in CallIds : (Born(c) => Born(c)') /\ (Over(c) => Over(c)')
  BY DEF CallsMove, MovesOn, Evolves, Born, Over
<1>2. Sweeper \in Tasks
  BY DEF Tasks
<1>3. task'[Sweeper].pc = "putting" =>
        task'[Sweeper] = task[Sweeper] /\ task[Sweeper].call \in CallIds
  BY <1>2 DEF OnlyTask, TasksOK, Holding
<1> QED BY <1>1, <1>3 DEF SweepOK, SweepType, Over, Born

\* Rings only close: no step that moves calls on rings anybody a second time.
LEMMA RingsStayApart ==
    ASSUME now \in Nat, now' \in Nat, now' >= now, CallsOK, CallsMove,
           live \subseteq CallIds, live' \subseteq live, OneRingPerUser
    PROVE  OneRingPerUser'
<1>1. ASSUME NEW u \in Users, NEW c \in live', calls'[c].ring = "ringing",
             RingBlocks(calls'[c], u, now')
      PROVE  c \in live /\ calls[c].ring = "ringing" /\ RingBlocks(calls[c], u, now)
  <2>1. /\ c \in CallIds /\ calls[c].expiresAt \in Nat
        /\ Evolves(calls[c], calls'[c])
    BY DEF CallsMove, MovesOn, CallsOK, Call
  <2>2. calls[c].ring = "ringing" /\ calls'[c].expiresAt = calls[c].expiresAt
        /\ calls[c].state = "created" /\ Participants(calls'[c]) = Participants(calls[c])
    BY <1>1, <2>1 DEF Evolves, RingBlocks, Participants
  <2>3. calls[c].expiresAt > now
    BY <1>1, <2>1, <2>2 DEF RingBlocks
  <2> QED BY <1>1, <2>2, <2>3 DEF RingBlocks, LiveRings
<1> QED BY <1>1 DEF OneRingPerUser, RingsFor

\* A step that forgets nothing keeps the Map in order.
LEMMA MapStands ==
    ASSUME MapOK, CallsMove, live' = live, archived \subseteq archived',
           archived' \subseteq CallIds
    PROVE  MapOK'
<1>1. \A c \in CallIds : /\ (Born(c) <=> Born(c)')
                         /\ (Over(c) => Over(c)')
  BY DEF CallsMove, MovesOn, Evolves, Born, Over
<1> QED BY <1>1 DEF MapOK, ForgottenIsArchived, Born, Over

----------------------------------------------------------------------------
(* The steps, one lemma per shape of handler segment. *)

\* A segment that moves calls on and leaves the store and the sweep alone.
LEMMA TaskStep ==
    ASSUME IInv, NEW t \in Tasks, CallsMove, TasksOK', OnlyTask(t),
           UNCHANGED <<now, live, archived, sweep>>
    PROVE  LegalStep
<1>1. CallsOK'
  BY DEF CallsMove, MovesOn, CallsOK
<1>2. MapOK'
  BY MapStands DEF IInv, MapOK
<1>3. SweepOK'
  BY SweepStands DEF IInv
<1>4. OneRingPerUser'
  BY RingsStayApart DEF IInv, MapOK
<1>5. \A c \in CallIds : Evolves(calls[c], calls'[c])
  BY DEF CallsMove, MovesOn
<1> QED BY <1>1, <1>2, <1>3, <1>4, <1>5 DEF IInv, LegalStep

\* A segment that answers without writing anything.
LEMMA AnswerStep ==
    ASSUME IInv, NEW t \in Tasks, Finish(t), UNCHANGED <<now, calls, live, archived, sweep>>
    PROVE  LegalStep
<1>1. CallsMove
  BY SameCallsMove DEF IInv
<1> QED BY <1>1, FinishTasks, TaskStep DEF IInv

\* A segment that writes one call and answers.
LEMMA WriteStep ==
    ASSUME IInv, NEW t \in Tasks, NEW c \in CallIds, NEW n, MovesOn(calls[c], n),
           Write(c, n), Finish(t), UNCHANGED <<now, live, archived, sweep>>
    PROVE  LegalStep
<1>1. CallsMove
  BY WriteMoves DEF IInv
<1> QED BY <1>1, FinishTasks, TaskStep DEF IInv

\* A segment that writes one call, or none, and awaits something about it.
LEMMA AwaitStep ==
    ASSUME IInv, NEW t \in Tasks, NEW c \in CallIds, Born(c), NEW n, MovesOn(calls[c], n),
           Write(c, n) \/ UNCHANGED calls, NEW pc \in PCs \ {"putting"}, Await(t, pc, c),
           UNCHANGED <<now, live, archived, sweep>>
    PROVE  LegalStep
<1>1. CallsMove
  BY WriteMoves, SameCallsMove DEF IInv
<1>2. TasksOK' /\ OnlyTask(t)
  BY <1>1, AwaitTasks DEF IInv, OnlyTask
<1> QED BY <1>1, <1>2, TaskStep

\* A segment that ends one call, and releases its agent if it has one.
LEMMA EndStep ==
    ASSUME IInv, NEW t \in Tasks, NEW c \in CallIds, Born(c), NEW n, MovesOn(calls[c], n),
           EndReleasingAgent(t, c, n), UNCHANGED <<now, live, archived, sweep>>
    PROVE  LegalStep
BY EndReleasingMoves, TaskStep DEF IInv

\* createCall: the new call is on nobody's rings, or on those of two users that
\* no ring blocks.
LEMMA AddCallStep ==
    ASSUME IInv, NEW r \in Reqs, NEW c \in CallIds,
           NEW u \in Users \cup {NoUser}, NEW v \in Users \cup {NoUser},
           NEW m \in Modes, NEW s \in Nat,
           AddCall(r, c, CreateCall(u, v, m, s, now)),
           s # 0 => \A w \in {u, v} : ~Busy(calls, live, w, now),
           UNCHANGED <<now, archived, sweep>>
    PROVE  LegalStep
<1> DEFINE new == CreateCall(u, v, m, s, now)
<1>1. Sound(new) /\ new.state = "created" /\ new.caller = u /\ new.callee = v
      /\ (new.ring = "ringing" => s # 0)
  BY CreatedIsSound DEF IInv, CreateCall
<1> HIDE DEF new
<1>2. /\ calls' = [calls EXCEPT ![c] = new] /\ live' = live \cup {c} /\ ~Born(c)
      /\ Finish(r) \/ Await(r, "signing", c)
  BY DEF AddCall, NextId, Born, new
<1>3. /\ CallsOK' /\ Born(c)'
      /\ \A d \in CallIds : d # c => calls'[d] = calls[d]
  BY <1>1, <1>2 DEF IInv, CallsOK, Sound, Born
<1>4. MapOK'
  BY <1>2, <1>3 DEF IInv, MapOK, ForgottenIsArchived, Born
<1>5. r \in Tasks /\ r # Sweeper
  BY SweeperAssumption DEF Tasks
<1>6. TasksOK' /\ task'[Sweeper] = task[Sweeper]
  <2>1. CASE Finish(r)
    <3>1. IdleTask \in TaskType /\ IdleTask.pc \notin Holding
      BY DEF IdleTask, TaskType, PCs, Ops, Modes, Holding
    <3>2. task' = [task EXCEPT ![r] = IdleTask]
      BY <1>5, <2>1 DEF Finish
    <3> QED BY <1>2, <1>3, <1>5, <3>1, <3>2 DEF IInv, TasksOK, Born, Tasks
  <2>2. CASE Await(r, "signing", c)
    <3>1. "signing" \in PCs
      BY DEF PCs
    <3>2. /\ task' \in [Tasks -> TaskType]
          /\ \A t \in Tasks : t # r => task'[t] = task[t]
          /\ task'[r].call = c
      BY <1>5, <2>2, <3>1 DEF IInv, TasksOK, Await, TaskType
    <3> QED BY <1>2, <1>3, <1>5, <3>2 DEF IInv, TasksOK, Born, Tasks
  <2> QED BY <1>2, <2>1, <2>2
<1>7. SweepOK'
  BY <1>2, <1>3, <1>5, <1>6
  DEF IInv, SweepOK, SweepType, TasksOK, Holding, Over, Born, Tasks
<1>8. OneRingPerUser'
  <2>1. ASSUME NEW w \in Users, NEW d \in CallIds, d \in RingsFor(w)'
        PROVE  d \in RingsFor(w) \/ (d = c /\ RingsFor(w) = {})
    <3>1. CASE d # c
      BY <1>2, <1>3, <2>1, <3>1 DEF RingsFor
    <3>2. CASE d = c
      <4>1. calls'[c] = new
        BY <1>2 DEF IInv, CallsOK
      <4>2. new.ring = "ringing" /\ w \in {u, v}
        BY <1>1, <2>1, <3>2, <4>1 DEF RingsFor, RingBlocks, Participants
      <4>3. ~Busy(calls, live, w, now)
        BY <1>1, <4>2
      <4> QED BY <3>2, <4>3 DEF Busy, RingsFor
    <3> QED BY <3>1, <3>2
  <2>2. \A w \in Users : RingsFor(w)' \subseteq CallIds
    BY <1>4 DEF RingsFor, MapOK
  <2> QED BY <2>1, <2>2 DEF IInv, OneRingPerUser
<1>9. \A d \in CallIds : Born(d) => Evolves(calls[d], calls'[d])
  BY <1>2, <1>3 DEF Evolves
<1> QED BY <1>3, <1>4, <1>6, <1>7, <1>8, <1>9 DEF IInv, LegalStep

\* What `await sweeper.sweep()` does: r waits for the sweep in flight, starts one
\* if it finds none, or goes on at once when nothing is due.
LEMMA AwaitSweepTasks ==
    ASSUME TasksOK, NEW r \in Reqs, NEW w \in TaskType, AwaitSweep(r, w)
    PROVE  /\ task' \in [Tasks -> TaskType]
           /\ \A t \in Tasks : t \notin {r, Sweeper} => task'[t] = task[t]
           /\ \/ /\ task'[r].pc = "resumed" /\ task[Sweeper].pc = "idle"
                 /\ task'[Sweeper] = task[Sweeper] /\ sweep' = sweep
              \/ /\ task'[r].pc = "sweeping" /\ task[Sweeper].pc # "idle"
                 /\ task'[Sweeper] = task[Sweeper] /\ sweep' = sweep
              \/ /\ task'[r].pc = "sweeping" /\ task[Sweeper].pc = "idle"
                 /\ task'[Sweeper].pc = "run" /\ sweep' = StartedSweep
<1>1. r \in Tasks /\ Sweeper \in Tasks /\ r # Sweeper
  BY SweeperAssumption DEF Tasks
<1>2. \A pc \in {"resumed", "sweeping"} :
        [w EXCEPT !.pc = pc] \in TaskType /\ [w EXCEPT !.pc = pc].pc = pc
  BY DEF TaskType, PCs
<1>3. \A x \in TaskType : [x EXCEPT !.pc = "run"] \in TaskType
                          /\ [x EXCEPT !.pc = "run"].pc = "run"
  BY DEF TaskType, PCs
<1>4. CASE task[Sweeper].pc = "idle" /\ NothingDue
  <2>1. task' = [task EXCEPT ![r] = [w EXCEPT !.pc = "resumed"]] /\ sweep' = sweep
    BY <1>4 DEF AwaitSweep
  <2> QED BY <1>1, <1>2, <1>4, <2>1 DEF TasksOK
<1>5. CASE task[Sweeper].pc = "idle" /\ ~NothingDue
  <2>1. /\ task' = [task EXCEPT ![r] = [w EXCEPT !.pc = "sweeping"],
                                ![Sweeper].pc = "run"]
        /\ sweep' = StartedSweep
    BY <1>5 DEF AwaitSweep
  <2> DEFINE x == [w EXCEPT !.pc = "sweeping"]
             y == [task[Sweeper] EXCEPT !.pc = "run"]
  <2>2. task' = [[task EXCEPT ![r] = x] EXCEPT ![Sweeper] = y]
    BY <1>1, <2>1 DEF TasksOK
  <2>3. x \in TaskType /\ x.pc = "sweeping" /\ y \in TaskType /\ y.pc = "run"
    BY <1>1, <1>2, <1>3 DEF TasksOK
  <2> HIDE DEF x, y
  <2> QED BY <1>1, <1>5, <2>1, <2>2, <2>3 DEF TasksOK
<1>6. CASE task[Sweeper].pc # "idle"
  <2>1. task' = [task EXCEPT ![r] = [w EXCEPT !.pc = "sweeping"]] /\ sweep' = sweep
    BY <1>6 DEF AwaitSweep
  <2> QED BY <1>1, <1>2, <1>6, <2>1 DEF TasksOK
<1> QED BY <1>4, <1>5, <1>6

\* Waiting for the sweep keeps the invariant: a new one lists calls of the Map only.
LEMMA AwaitSweepStep ==
    ASSUME IInv, NEW r \in Reqs, NEW w \in TaskType, AwaitSweep(r, w),
           UNCHANGED <<now, calls, live, archived>>
    PROVE  LegalStep
<1>1. r \in Tasks /\ Sweeper \in Tasks /\ r # Sweeper
  BY SweeperAssumption DEF Tasks
<1>2. /\ StartedSweep \in SweepType /\ StartedSweep.phase = "rings"
      /\ StartedSweep.stored = {} /\ StartedSweep.queue \subseteq live
  BY DEF StartedSweep, SweepType, Phases, DueRingCalls, IInv, MapOK
<1>3. /\ task' \in [Tasks -> TaskType]
      /\ \A t \in Tasks : t \notin {r, Sweeper} => task'[t] = task[t]
      /\ task'[r].pc \in {"resumed", "sweeping"}
      /\ \/ task'[Sweeper] = task[Sweeper] /\ sweep' = sweep
         \/ task'[Sweeper].pc = "run" /\ sweep' = StartedSweep
  BY AwaitSweepTasks DEF IInv
<1>4. TasksOK'
  BY <1>1, <1>3 DEF IInv, TasksOK, Holding, Born
<1>5. SweepOK'
  BY <1>1, <1>2, <1>3 DEF IInv, SweepOK, MapOK, Over, Born
<1>6. CallsOK' /\ MapOK' /\ OneRingPerUser'
  BY DEF IInv, CallsOK, MapOK, Born, ForgottenIsArchived, OneRingPerUser, RingsFor
<1>7. \A c \in CallIds : Evolves(calls[c], calls'[c])
  BY DEF Evolves
<1> QED BY <1>4, <1>5, <1>6, <1>7 DEF IInv, LegalStep

----------------------------------------------------------------------------
(* One lemma per part of the next-state relation. *)

LEMMA StartIsTask ==
    ASSUME NEW op \in Ops, NEW u \in Users \cup {NoUser}
    PROVE  /\ Start(op, u) \in TaskType
           /\ \A c \in CallIds : [Start(op, u) EXCEPT !.call = c] \in TaskType
           /\ \A v \in Users : [Start(op, u) EXCEPT !.peer = v] \in TaskType
<1>1. Start(op, u) \in TaskType
  BY DEF Start, IdleTask, TaskType, PCs, Modes
<1> HIDE DEF Start
<1> QED BY <1>1 DEF TaskType

LEMMA RequestStep ==
    ASSUME IInv, NEW r \in Reqs, Request(r)
    PROVE  LegalStep
<1> USE DEF IInv
<1>1. r \in Tasks
  BY DEF Tasks
<1>2. {"create", "poll", "join"} \cup RingOps \subseteq Ops
  BY DEF Ops
<1>3. ASSUME NEW u \in Users, NEW v \in Users, RequestCreate(r, u, v) PROVE LegalStep
  <2>1. [Start("create", u) EXCEPT !.peer = v] \in TaskType
    BY <1>2, StartIsTask
  <2> QED BY <1>3, <2>1, AwaitSweepStep DEF RequestCreate
<1>4. ASSUME NEW c \in CallIds, NEW u \in Users, NEW v \in Users, NEW m \in Resolvable,
             CreateInvite(r, c, u, v, m)
      PROVE  LegalStep
  <2>1. m \in Modes /\ 0 \in Nat
    BY BoundAssumption
  <2> QED BY <1>4, <2>1, AddCallStep DEF CreateInvite
<1>5. ASSUME NEW c \in CallIds, NEW u \in Users, NEW op \in RingOps \cup {"join"},
             RequestOnCall(r, op, c, u)
      PROVE  LegalStep
  <2>1. [Start(op, u) EXCEPT !.call = c] \in TaskType
    BY <1>2, StartIsTask
  <2> QED BY <1>5, <2>1, AwaitSweepStep DEF RequestOnCall
<1>6. ASSUME NEW c \in CallIds, NEW u \in Users, End(r, c, u) PROVE LegalStep
  <2> DEFINE why == IF u = calls[c].caller THEN "cancelled" ELSE "declined"
             over == IF calls[c].state = "created" /\ calls[c].ring \in LiveRings
                     THEN EndRing(calls[c], why, now)
                     ELSE SetCallState(calls[c], "ended", now)
  <2>1. Sound(calls[c]) /\ Born(c)
    BY <1>6 DEF End, CallsOK, MapOK
  <2>2. why \in DeadRings
    BY DEF DeadRings
  <2> HIDE DEF why
  <2>3. MovesOn(calls[c], over)
    BY <2>1, <2>2, EndRingMovesOn, HangUpMovesOn DEF Born
  <2>4. EndReleasingAgent(r, c, over) /\ UNCHANGED <<now, live, archived, sweep>>
    BY <1>6 DEF End, why
  <2> HIDE DEF over
  <2> QED BY <1>1, <2>1, <2>3, <2>4, EndStep
<1>7. ASSUME NEW c \in CallIds, NEW u \in Users, Verdict(r, c, u) PROVE LegalStep
  <2>1. MovesOn(calls[c], TouchCall(calls[c], now))
    BY TouchMovesOn DEF CallsOK
  <2>2. CallsMove
    BY <1>7, <2>1, WriteMoves DEF Verdict
  <2>3. task' = task /\ task[r].pc = "idle"
    BY <1>7 DEF Verdict, Arrives
  <2>4. TasksOK' /\ OnlyTask(r)
    BY <2>2, <2>3 DEF TasksOK, OnlyTask, CallsMove, MovesOn, Evolves, Born
  <2> QED BY <1>1, <1>7, <2>2, <2>4, TaskStep DEF Verdict
<1>8. ASSUME NEW c \in CallIds, NEW u \in Users, NEW m \in Resolvable, SetMode(r, c, u, m)
      PROVE  LegalStep
  <2> DEFINE call == SetCallMode(calls[c], m, now)
             plain == SetCallAgent(call, FALSE, FALSE)
  <2>1. m \in Modes /\ Sound(calls[c]) /\ Born(c)
    BY <1>8, BoundAssumption DEF SetMode, CallsOK, MapOK
  <2>2. MovesOn(calls[c], call)
    BY <2>1, ModeMovesOn
  <2>3. MovesOn(calls[c], plain)
    BY <2>2, AgentMovesOn, MovesOnTwice DEF MovesOn
  <2>4. /\ UNCHANGED <<now, live, archived, sweep>>
        /\ \/ Write(c, call) /\ Await(r, "signing", c)
           \/ Write(c, call) /\ Await(r, "unmode", c)
           \/ Write(c, plain) /\ Finish(r)
    BY <1>8 DEF SetMode
  <2> HIDE DEF call, plain
  <2>5. {"signing", "unmode"} \subseteq PCs \ {"putting"}
    BY DEF PCs
  <2>6. CASE Write(c, plain) /\ Finish(r)
    BY <1>1, <2>3, <2>4, <2>6, WriteStep
  <2>7. CASE Write(c, call) /\ Await(r, "signing", c)
    BY <1>1, <2>1, <2>2, <2>4, <2>5, <2>7, AwaitStep
  <2>8. CASE Write(c, call) /\ Await(r, "unmode", c)
    BY <1>1, <2>1, <2>2, <2>4, <2>5, <2>8, AwaitStep
  <2> QED BY <2>4, <2>6, <2>7, <2>8
<1>9. ASSUME RequestPoll(r) PROVE LegalStep
  <2>1. Start("poll", NoUser) \in TaskType
    BY <1>2, StartIsTask
  <2> QED BY <1>9, <2>1, AwaitSweepStep DEF RequestPoll
<1> HIDE DEF IInv
<1> QED BY <1>3, <1>4, <1>5, <1>6, <1>7, <1>8, <1>9 DEF Request

LEMMA ContinueStep ==
    ASSUME IInv, NEW r \in Reqs, Continue(r)
    PROVE  LegalStep
<1> DEFINE c == task[r].call
<1>1. /\ r \in Tasks
      /\ task[r].user \in Users \cup {NoUser} /\ task[r].peer \in Users \cup {NoUser}
      /\ now \in Nat
  BY DEF IInv, TasksOK, TaskType, Tasks
<1>2. c \in live => c \in CallIds /\ Born(c) /\ Sound(calls[c])
  BY DEF IInv, MapOK, CallsOK
<1>3. task[r].pc \in Holding => c \in CallIds /\ Born(c) /\ Sound(calls[c])
  BY <1>1 DEF IInv, TasksOK, CallsOK
<1> HIDE DEF c
<1>4. ASSUME NEW k \in CallIds, NEW m \in Resolvable, NEW s \in RingTimeouts,
             CreateRing(r, k, m, s)
      PROVE  LegalStep
  <2>1. m \in Modes /\ s \in Nat
    BY BoundAssumption, TimeoutAssumption
  <2> QED BY <1>1, <1>4, <2>1, AddCallStep DEF CreateRing
<1>5. ASSUME CreateBusy(r) \/ AnswerUnchanged(r) PROVE LegalStep
  BY <1>1, <1>5, AnswerStep DEF CreateBusy, AnswerUnchanged
<1>6. ASSUME Join(r) PROVE LegalStep
  <2>1. c \in live /\ Await(r, "minting", c) /\ UNCHANGED <<now, calls, live, archived, sweep>>
    BY <1>6 DEF Join, JoinAllowed, c
  <2>2. MovesOn(calls[c], calls[c]) /\ "minting" \in PCs \ {"putting"}
    BY <1>2, <2>1, StaysPut DEF PCs
  <2> QED BY <1>1, <1>2, <2>1, <2>2, AwaitStep
<1>7. ASSUME JoinMinted(r) PROVE LegalStep
  <2>1. /\ task[r].pc = "minting"
        /\ Write(c, JoinCall(calls[c], task[r].user, now)) /\ Finish(r)
        /\ UNCHANGED <<now, live, archived, sweep>>
    BY <1>7 DEF JoinMinted, c
  <2>2. MovesOn(calls[c], JoinCall(calls[c], task[r].user, now))
    BY <1>1, <1>3, <2>1, JoinMovesOn DEF Holding, Born
  <2> QED BY <1>1, <1>3, <2>1, <2>2, WriteStep DEF Holding
<1>8. ASSUME Accept(r) PROVE LegalStep
  <2>1. /\ c \in live /\ calls[c].ring = "ringing"
        /\ Write(c, AcceptRing(calls[c], now)) /\ Finish(r)
        /\ UNCHANGED <<now, live, archived, sweep>>
    BY <1>8 DEF Accept, AcceptAllowed, c
  <2> QED BY <1>1, <1>2, <2>1, AcceptMovesOn, WriteStep
<1>9. ASSUME Decline(r) \/ Cancel(r) PROVE LegalStep
  <2>1. PICK why \in DeadRings :
           /\ c \in live /\ EndReleasingAgent(r, c, EndRing(calls[c], why, now))
           /\ UNCHANGED <<now, live, archived, sweep>>
    BY <1>9 DEF Decline, Cancel, DeclineAllowed, CancelAllowed, DeadRings, c
  <2>2. MovesOn(calls[c], EndRing(calls[c], why, now))
    BY <1>1, <1>2, <2>1, EndRingMovesOn DEF Born
  <2> QED BY <1>1, <1>2, <2>1, <2>2, EndStep
<1>10. ASSUME SendJob(r) PROVE LegalStep
  <2>1. /\ task[r].pc = "signing" /\ UNCHANGED <<now, calls, live, archived, sweep>>
        /\ task' = [task EXCEPT ![r].pc = "dispatching", ![r].job = calls[c].mode]
    BY <1>10 DEF SendJob, c
  <2>2. calls[c].mode \in Modes
    BY <1>3, <2>1 DEF Sound, Call, Holding
  <2>3. /\ task' \in [Tasks -> TaskType]
        /\ \A t \in Tasks : t # r => task'[t] = task[t]
        /\ task'[r].pc = "dispatching" /\ task'[r].call = c
    <3> DEFINE x == [task[r] EXCEPT !.pc = "dispatching", !.job = calls[c].mode]
    <3>1. task' = [task EXCEPT ![r] = x]
      BY <1>1, <2>1 DEF IInv, TasksOK
    <3>2. x \in TaskType /\ x.pc = "dispatching" /\ x.call = c
      BY <1>1, <2>2 DEF IInv, TasksOK, TaskType, PCs, c
    <3> HIDE DEF x
    <3> QED BY <1>1, <3>1, <3>2 DEF IInv, TasksOK
  <2>4. CallsMove
    BY <2>1, SameCallsMove DEF IInv
  <2>5. TasksOK' /\ OnlyTask(r)
    BY <1>3, <2>1, <2>3 DEF IInv, TasksOK, OnlyTask, Holding, Born
  <2> QED BY <1>1, <2>1, <2>4, <2>5, TaskStep
<1>11. ASSUME NEW d \in BOOLEAN, DispatchReturns(r, d) PROVE LegalStep
  <2>1. /\ task[r].pc = "dispatching"
        /\ Write(c, SetCallAgent(calls[c], TRUE, d)) /\ Finish(r)
        /\ UNCHANGED <<now, live, archived, sweep>>
    BY <1>11 DEF DispatchReturns, c
  <2>2. MovesOn(calls[c], SetCallAgent(calls[c], TRUE, d))
    BY <1>3, <2>1, AgentMovesOn DEF Holding
  <2> QED BY <1>1, <1>3, <2>1, <2>2, WriteStep DEF Holding
<1> QED BY <1>4, <1>5, <1>6, <1>7, <1>8, <1>9, <1>10, <1>11 DEF Continue

LEMMA StopStep ==
    ASSUME IInv, NEW t \in Tasks, StopReturns(t)
    PROVE  LegalStep
<1> DEFINE c == task[t].call
<1>1. PICK q \in BOOLEAN :
         /\ task[t].pc \in {"stopping", "unmode"}
         /\ Write(c, SetCallAgent(calls[c], q, FALSE)) /\ Finish(t)
         /\ UNCHANGED <<now, live, archived, sweep>>
  <2>1. task[t].pc = "stopping" => calls[c].required \in BOOLEAN
    BY DEF IInv, TasksOK, CallsOK, Call, Holding
  <2> QED BY <2>1 DEF StopReturns
<1>2. c \in CallIds /\ Sound(calls[c])
  BY <1>1 DEF IInv, TasksOK, CallsOK, Holding
<1> HIDE DEF c
<1> QED BY <1>1, <1>2, AgentMovesOn, WriteStep

\* A step of the sweep: besides what TaskStep asks, the new sweep must be in order.
LEMMA SweepingStep ==
    ASSUME IInv, CallsMove, TasksOK', SweepOK', now' = now, live' = live,
           archived \subseteq archived', archived' \subseteq CallIds
    PROVE  LegalStep
<1>1. CallsOK' /\ \A c \in CallIds : Evolves(calls[c], calls'[c])
  BY DEF CallsMove, MovesOn, CallsOK
<1>2. MapOK'
  BY MapStands DEF IInv
<1>3. OneRingPerUser'
  BY RingsStayApart DEF IInv, MapOK
<1> QED BY <1>1, <1>2, <1>3 DEF IInv, LegalStep

\* The sweep drops one call from its queue and ends it, or finds it gone.
LEMMA SweepOneStep ==
    ASSUME IInv, NEW c \in CallIds, CallsMove, TasksOK', OnlyTask(Sweeper),
           sweep' = [sweep EXCEPT !.queue = @ \ {c}], UNCHANGED <<now, live, archived>>
    PROVE  LegalStep
<1>1. \A d \in CallIds : (Born(d) => Born(d)') /\ (Over(d) => Over(d)')
  BY DEF CallsMove, MovesOn, Evolves, Born, Over
<1>2. /\ sweep' \in SweepType /\ sweep'.queue \subseteq sweep.queue
      /\ sweep'.phase = sweep.phase /\ sweep'.stored = sweep.stored
  BY DEF IInv, SweepOK, SweepType
<1>3. SweepOK'
  BY <1>1, <1>2 DEF IInv, SweepOK, SweepType, OnlyTask, Born, Over
<1> QED BY <1>3, SweepingStep DEF IInv, MapOK

LEMMA SweepStepStep ==
    ASSUME IInv, SweepStep
    PROVE  LegalStep
<1>1. Sweeper \in Tasks /\ now \in Nat
  BY DEF IInv, Tasks
<1>2. ASSUME NEW c \in CallIds, SweepRing(c) PROVE LegalStep
  <2>1. /\ sweep' = [sweep EXCEPT !.queue = @ \ {c}] /\ UNCHANGED <<now, live, archived>>
        /\ Born(c) /\ Sound(calls[c])
    BY <1>2 DEF SweepRing, NextInQueue, IInv, SweepOK, CallsOK
  <2>2. CASE EndReleasingAgent(Sweeper, c, EndRing(calls[c], "timeout", now))
    <3>1. MovesOn(calls[c], EndRing(calls[c], "timeout", now))
      BY <1>1, <2>1, EndRingMovesOn DEF Born, DeadRings
    <3>2. CallsMove /\ TasksOK' /\ OnlyTask(Sweeper)
      BY <1>1, <2>1, <2>2, <3>1, EndReleasingMoves DEF IInv
    <3> QED BY <2>1, <3>2, SweepOneStep
  <2>3. CASE UNCHANGED <<calls, task>>
    <3>1. CallsMove
      BY <2>3, SameCallsMove DEF IInv
    <3>2. TasksOK' /\ OnlyTask(Sweeper)
      BY <1>2, <2>3 DEF IInv, TasksOK, OnlyTask, SweepRing, Born
    <3> QED BY <2>1, <3>1, <3>2, SweepOneStep
  <2> QED BY <1>2, <2>2, <2>3 DEF SweepRing
<1>3. ASSUME NEW c \in CallIds, SweepDead(c) PROVE LegalStep
  <2>1. /\ sweep' = [sweep EXCEPT !.queue = @ \ {c}] /\ UNCHANGED <<now, live, archived>>
        /\ Born(c) /\ Sound(calls[c]) /\ EndReleasingAgent(Sweeper, c, EndCall(calls[c], now))
    BY <1>3 DEF SweepDead, NextInQueue, IInv, SweepOK, CallsOK
  <2>2. MovesOn(calls[c], EndCall(calls[c], now))
    BY <1>1, <2>1, EndCallMovesOn DEF Born
  <2>3. CallsMove /\ TasksOK' /\ OnlyTask(Sweeper)
    BY <1>1, <2>1, <2>2, EndReleasingMoves DEF IInv
  <2> QED BY <2>1, <2>3, SweepOneStep
<1>4. ASSUME NEW c \in CallIds, SweepPut(c) PROVE LegalStep
  <2>1. /\ Await(Sweeper, "putting", c) /\ UNCHANGED <<now, calls, live, archived, sweep>>
        /\ Born(c) /\ Over(c)
    BY <1>4 DEF SweepPut, NextInQueue, IInv, SweepOK
  <2>2. CallsMove /\ "putting" \in PCs
    BY <2>1, SameCallsMove DEF IInv, PCs
  <2>3. TasksOK' /\ task'[Sweeper].call = c
    BY <1>1, <2>1, <2>2, AwaitTasks DEF IInv
  <2>4. SweepOK'
    BY <2>1, <2>3 DEF IInv, SweepOK, SweepType, Born, Over
  <2> QED BY <2>1, <2>2, <2>3, <2>4, SweepingStep DEF IInv, MapOK
<1>5. ASSUME SweepAdvance PROVE LegalStep
  <2>1. UNCHANGED <<now, calls, live, archived, task>> /\ task[Sweeper].pc = "run"
    BY <1>5 DEF SweepAdvance
  <2>2. /\ DeadCalls(calls, live, sweep.at) \subseteq live
        /\ ArchivableCalls(calls, live, sweep.at) \subseteq {c \in live : Over(c)}
    BY DEF DeadCalls, ArchivableCalls, Over
  <2>3. /\ sweep' \in SweepType /\ sweep'.stored = sweep.stored /\ sweep'.queue \subseteq live
        /\ sweep'.phase = "archive" => sweep'.queue \subseteq {c \in live : Over(c)}
    BY <1>5, <2>2 DEF SweepAdvance, IInv, SweepOK, SweepType, Phases, MapOK
  <2>4. SweepOK'
    BY <2>1, <2>3 DEF IInv, SweepOK, MapOK, Born, Over
  <2>5. CallsMove /\ TasksOK'
    BY <2>1, SameCallsMove DEF IInv, TasksOK, Born
  <2> QED BY <2>1, <2>4, <2>5, SweepingStep DEF IInv, MapOK
<1>6. ASSUME SweepEnd PROVE LegalStep
  <2> DEFINE woken(t) == IF t = Sweeper THEN IdleTask
                         ELSE IF task[t].pc = "sweeping" THEN [task[t] EXCEPT !.pc = "resumed"]
                         ELSE task[t]
  <2>1. /\ live' = live \ sweep.stored /\ sweep' = NoSweep
        /\ task' = [t \in Tasks |-> woken(t)] /\ UNCHANGED <<now, calls, archived>>
    BY <1>6 DEF SweepEnd
  <2>2. \A t \in Tasks : /\ woken(t) \in TaskType
                         /\ woken(t).pc \in Holding => woken(t) = task[t]
    <3>1. IdleTask \in TaskType /\ IdleTask.pc \notin Holding
      BY DEF IdleTask, TaskType, PCs, Ops, Modes, Holding
    <3>2. \A x \in TaskType : [x EXCEPT !.pc = "resumed"] \in TaskType
                              /\ [x EXCEPT !.pc = "resumed"].pc \notin Holding
      BY DEF TaskType, PCs, Holding
    <3> QED BY <3>1, <3>2 DEF IInv, TasksOK
  <2>3. woken(Sweeper).pc = "idle"
    BY DEF IdleTask
  <2> HIDE DEF woken
  <2>4. TasksOK' /\ task'[Sweeper].pc = "idle"
    BY <1>1, <2>1, <2>2, <2>3 DEF IInv, TasksOK, Born
  <2>5. SweepOK'
    BY <2>1, <2>4 DEF SweepOK, SweepType, NoSweep, Phases, IInv
  <2>6. MapOK'
    BY <2>1 DEF IInv, MapOK, SweepOK, ForgottenIsArchived, Born, Over
  <2>7. CallsOK' /\ OneRingPerUser' /\ \A c \in CallIds : Evolves(calls[c], calls'[c])
    BY <2>1 DEF IInv, CallsOK, OneRingPerUser, RingsFor, Evolves
  <2> QED BY <2>1, <2>4, <2>5, <2>6, <2>7 DEF IInv, LegalStep
<1> QED BY <1>2, <1>3, <1>4, <1>5, <1>6 DEF SweepStep

LEMMA TimerStep ==
    ASSUME IInv, SweepTimer
    PROVE  LegalStep
<1>1. Sweeper \in Tasks /\ UNCHANGED <<now, calls, live, archived>> /\ sweep' = StartedSweep
  BY DEF SweepTimer, Tasks
<1>2. TasksOK' /\ task'[Sweeper].pc = "run"
  BY <1>1 DEF SweepTimer, IInv, TasksOK, TaskType, PCs, Holding, Born
<1>3. SweepOK'
  BY <1>1, <1>2 DEF IInv, SweepOK, SweepType, StartedSweep, Phases, DueRingCalls, MapOK, Born
<1>4. CallsMove
  BY <1>1, SameCallsMove DEF IInv
<1> QED BY <1>1, <1>2, <1>3, <1>4, SweepingStep DEF IInv, MapOK

LEMMA PutStep ==
    ASSUME IInv, NEW ok \in BOOLEAN, PutReturns(ok)
    PROVE  LegalStep
<1> DEFINE c == task[Sweeper].call
<1>1. /\ Sweeper \in Tasks /\ Finish(Sweeper) /\ UNCHANGED <<now, calls, live>>
      /\ archived' = IF ok THEN archived \cup {c} ELSE archived
      /\ sweep' = [sweep EXCEPT !.queue = @ \ {c}, !.stored = IF ok THEN @ \cup {c} ELSE @]
      /\ task[Sweeper].pc = "putting"
  BY DEF PutReturns, Tasks
<1>2. c \in CallIds /\ Over(c)
  BY <1>1 DEF IInv, TasksOK, SweepOK, Holding
<1> HIDE DEF c
<1>3. CallsMove
  BY <1>1, SameCallsMove DEF IInv
<1>4. TasksOK' /\ task'[Sweeper].pc # "putting"
  BY <1>1, <1>3, FinishTasks DEF IInv, OnlyTask
<1>5. /\ sweep' \in SweepType /\ sweep'.phase = sweep.phase
      /\ sweep'.queue \subseteq sweep.queue
      /\ sweep'.stored \subseteq IF ok THEN sweep.stored \cup {c} ELSE sweep.stored
  BY <1>1, <1>2 DEF IInv, SweepOK, SweepType
<1>6. SweepOK'
  BY <1>1, <1>2, <1>4, <1>5 DEF IInv, SweepOK, Born, Over
<1> QED BY <1>1, <1>2, <1>3, <1>4, <1>6, SweepingStep DEF IInv, MapOK

LEMMA TickStep ==
    ASSUME IInv, Tick
    PROVE  LegalStep
<1>1. now' \in Nat /\ now' >= now /\ UNCHANGED <<calls, live, archived, task, sweep>>
  BY DEF Tick, IInv
<1>2. CallsMove
  BY <1>1, SameCallsMove DEF IInv
<1>3. OneRingPerUser'
  BY <1>1, <1>2, RingsStayApart DEF IInv, MapOK
<1> QED BY <1>1, <1>2, <1>3
    DEF IInv, LegalStep, CallsOK, MapOK, TasksOK, SweepOK, ForgottenIsArchived, Born, Over,
        CallsMove, MovesOn

LEMMA InitEstablishes ==
    ASSUME Init
    PROVE  IInv
<1>1. UnbornCall.state = "unborn" /\ Sound(UnbornCall)
  <2> DEFINE first == CreateCall(NoUser, NoUser, "DIRECT", 0, 0)
  <2>1. first \in Call /\ first.endedAt = NoTime /\ first.ring = "none"
    BY CreatedIsSound DEF Sound, CreateCall, Modes
  <2>2. UnbornCall = [first EXCEPT !.state = "unborn"]
    BY DEF UnbornCall
  <2> HIDE DEF first
  <2> QED BY <2>1, <2>2 DEF Sound, Call, CallStates, DeadRings
<1>2. IdleTask \in TaskType /\ IdleTask.pc = "idle"
  BY DEF IdleTask, TaskType, PCs, Ops, Modes
<1>3. CallsOK /\ \A c \in CallIds : ~Born(c)
  <2>1. UnbornCall \in Call
    BY <1>1 DEF Sound
  <2> QED BY <1>1, <2>1 DEF Init, CallsOK, Born
<1>4. MapOK
  BY <1>3 DEF Init, MapOK, ForgottenIsArchived, Born
<1>5. TasksOK /\ \A t \in Tasks : task[t].pc = "idle"
  BY <1>2 DEF Init, TasksOK, Holding
<1>6. SweepOK
  BY <1>5 DEF Init, SweepOK, SweepType, NoSweep, Phases, Tasks
<1>7. OneRingPerUser
  BY DEF Init, OneRingPerUser, RingsFor
<1> QED BY <1>3, <1>4, <1>5, <1>6, <1>7 DEF Init, IInv

LEMMA NextStep ==
    ASSUME IInv, [Next]_vars
    PROVE  LegalStep
<1>1. CASE UNCHANGED vars
  <2>1. CallsMove
    BY <1>1, SameCallsMove DEF IInv, vars
  <2> QED BY <1>1, <2>1
      DEF IInv, LegalStep, CallsOK, MapOK, TasksOK, SweepOK, OneRingPerUser, RingsFor,
          ForgottenIsArchived, Born, Over, CallsMove, MovesOn, vars
<1>2. CASE Next
  BY <1>2, TickStep, TimerStep, SweepStepStep, PutStep, StopStep, RequestStep, ContinueStep
  DEF Next
<1> QED BY <1>1, <1>2

\* The inductive invariant holds in every reachable state: the calls are well
\* formed, the Map has forgotten only what is archived, tasks hold calls that
\* exist, the sweep's lists are about finished calls where they must be, and no
\* user is on two rings.
THEOREM InductiveInvariant == Spec => []IInv
<1>1. Init => IInv
  BY InitEstablishes
<1>2. IInv /\ [Next]_vars => IInv'
  BY NextStep DEF LegalStep
<1> QED BY <1>1, <1>2, PTL DEF Spec

\* Types, endedAt exactly on ended calls, and no handler holding a call that does
\* not exist (store.ts, routes/calls.ts).
THEOREM TypesHold == Spec => []TypeOK
<1>1. IInv => TypeOK
  BY DEF IInv, CallsOK, MapOK, TasksOK, SweepOK, SweepType, TypeOK, Sound, Born
<1> QED BY <1>1, InductiveInvariant, PTL

\* A declined, cancelled or timed-out ring has ended its call, and no join, accept
\* or sweep that was under way brings it back (ringing.ts endRing).
THEOREM VerdictsEndCalls == Spec => []VerdictEndsCall
<1>1. IInv => VerdictEndsCall
  BY DEF IInv, CallsOK, Sound, VerdictEndsCall
<1> QED BY <1>1, InductiveInvariant, PTL

\* forgetCalls drops a call only when it is over and archive.put stored it.
THEOREM NothingIsLost == Spec => []ForgottenIsArchived
<1>1. IInv => ForgottenIsArchived
  BY DEF IInv, MapOK
<1> QED BY <1>1, InductiveInvariant, PTL

\* No user is on two unexpired rings, however many creates wait for the same sweep
\* (routes/calls.ts, findBusyCall).
THEOREM NobodyIsRungTwice == Spec => []OneRingPerUser
<1>1. IInv => OneRingPerUser
  BY DEF IInv
<1> QED BY <1>1, InductiveInvariant, PTL

\* An ended call stays ended at the time it ended, and a verdict is final, whatever
\* handlers still hold the call (store.ts setters, ringing.ts endRing).
THEOREM NothingIsUndone == Spec => Settled
<1> DEFINE Kept == \A c \in CallIds :
        /\ calls[c].state = "ended" =>
             calls'[c].state = "ended" /\ calls'[c].endedAt = calls[c].endedAt
        /\ calls[c].ring \in DeadRings =>
             calls'[c].ring = calls[c].ring /\ calls'[c].respondedAt = calls[c].respondedAt
<1>1. IInv /\ [Next]_vars => Kept
  <2> SUFFICES ASSUME IInv, [Next]_vars, NEW c \in CallIds
               PROVE  /\ calls[c].state = "ended" =>
                           calls'[c].state = "ended" /\ calls'[c].endedAt = calls[c].endedAt
                      /\ calls[c].ring \in DeadRings =>
                           calls'[c].ring = calls[c].ring
                           /\ calls'[c].respondedAt = calls[c].respondedAt
    OBVIOUS
  <2>1. LegalStep
    BY NextStep
  <2>2. calls[c].ring \in DeadRings => calls[c].state = "ended"
    BY DEF IInv, CallsOK, Sound
  <2> QED BY <2>1, <2>2 DEF LegalStep, Evolves, Born
<1>2. Kept => [Kept]_vars
  OBVIOUS
<1> QED BY <1>1, InductiveInvariant, PTL DEF Spec, Settled

----------------------------------------------------------------------------
(* CallProtocol: what the setters do to the two fields a client can see. *)

LEMMA EndCallFields ==
    ASSUME NEW call, Sound(call), NEW t \in Nat
    PROVE  /\ EndCall(call, t).state = "ended"
           /\ EndCall(call, t).ring = call.ring
<1>1. "ended" \in CallStates /\ call \in Call
  BY DEF CallStates, Sound
<1> QED BY <1>1, SetCallStateFields DEF EndCall

LEMMA EndRingFields ==
    ASSUME NEW call, Sound(call), NEW t \in Nat, NEW why \in DeadRings
    PROVE  /\ EndRing(call, why, t).state = "ended"
           /\ EndRing(call, why, t).ring = IF call.ring \in LiveRings THEN why ELSE call.ring
<1> DEFINE labelled == SetRingState(call, why, t)
<1>0. "ended" \in CallStates /\ call \in Call /\ why \in RingStates
  BY DEF CallStates, Sound, RingStates
<1>1. labelled \in Call /\ labelled.state = call.state /\ labelled.ring = why
  BY <1>0, SetRingStateFields
<1>2. CASE call.ring \in LiveRings
  <2>1. EndRing(call, why, t) = EndCall(labelled, t)
    BY <1>2 DEF EndRing
  <2> HIDE DEF labelled
  <2> QED BY <1>0, <1>1, <1>2, <2>1, SetCallStateFields DEF EndCall
<1>3. CASE call.ring \notin LiveRings
  BY <1>3, EndCallFields DEF EndRing
<1> QED BY <1>2, <1>3

LEMMA AcceptFields ==
    ASSUME NEW call, Sound(call), NEW t \in Nat
    PROVE  /\ AcceptRing(call, t).state = call.state
           /\ AcceptRing(call, t).ring = "accepted"
<1> DEFINE answered == SetRingState(call, "accepted", t)
<1>1. answered \in Call /\ answered.state = call.state /\ answered.ring = "accepted"
  BY SetRingStateFields DEF Sound, RingStates, LiveRings
<1>2. AcceptRing(call, t) = [answered EXCEPT !.expiresAt = t + call.timeout]
  BY DEF AcceptRing
<1> HIDE DEF answered
<1> QED BY <1>1, <1>2 DEF Call

LEMMA JoinFields ==
    ASSUME NEW call, Sound(call), NEW t \in Nat, NEW u
    PROVE  /\ JoinCall(call, u, t).state =
                IF call.state = "created" THEN "active" ELSE call.state
           /\ JoinCall(call, u, t).ring =
                IF call.ring = "ringing" /\ u = call.callee THEN "accepted" ELSE call.ring
<1> DEFINE answered == IF call.ring = "ringing" /\ u = call.callee
                       THEN SetRingState(call, "accepted", t) ELSE call
           entered  == IF answered.state = "created"
                       THEN SetCallState(answered, "active", t) ELSE answered
<1>0. call \in Call /\ "accepted" \in RingStates /\ "active" \in CallStates
  BY DEF Sound, RingStates, LiveRings, CallStates
<1>1. /\ answered \in Call /\ answered.state = call.state
      /\ answered.ring = IF call.ring = "ringing" /\ u = call.callee
                         THEN "accepted" ELSE call.ring
  BY <1>0, SetRingStateFields
<1> HIDE DEF answered
<1>2. /\ entered \in Call /\ entered.ring = answered.ring
      /\ entered.state = IF answered.state = "created" THEN "active" ELSE answered.state
  BY <1>0, <1>1, SetCallStateFields
<1>3. JoinCall(call, u, t) = TouchCall(entered, t)
  BY DEF JoinCall, answered
<1> HIDE DEF entered
<1> QED BY <1>1, <1>2, <1>3 DEF TouchCall, Call

\* Touching a call, changing its mode or its agent shows on neither field.
LEMMA TouchFields ==
    ASSUME NEW call \in Call, NEW t
    PROVE  TouchCall(call, t).state = call.state /\ TouchCall(call, t).ring = call.ring
BY DEF TouchCall, Call

LEMMA ModeFields ==
    ASSUME NEW call \in Call, NEW m, NEW t
    PROVE  SetCallMode(call, m, t).state = call.state /\ SetCallMode(call, m, t).ring = call.ring
BY DEF SetCallMode, Call

LEMMA AgentFields ==
    ASSUME NEW call \in Call, NEW q \in BOOLEAN, NEW d \in BOOLEAN
    PROVE  SetCallAgent(call, q, d).state = call.state /\ SetCallAgent(call, q, d).ring = call.ring
BY DEF SetCallAgent, Call

----------------------------------------------------------------------------
(* The invariant of the sweep in flight. *)

\* A request that has resumed, or that is about to let somebody in.
Entering == {"resumed", "minting"}

\* Nobody is let in or answers while a sweep is in flight.
Untouched == task[Sweeper].pc # "idle" => \A r \in Reqs : task[r].pc \notin Entering

\* Who is about to be let in does not enter a call hung up while it rang.
Fresh ==
    \A r \in Reqs : task[r].pc = "minting" =>
        ~(Over(task[r].call) /\ calls[task[r].call].ring = "ringing")

\* The rings listed as overdue may have got a verdict since; none was joined.
RingsListed ==
    task[Sweeper].pc # "idle" /\ sweep.phase = "rings" =>
        \A c \in sweep.queue :
            /\ calls[c].ring # "none"
            /\ calls[c].ring = "accepted" => calls[c].state = "created"

\* The calls listed as outlived may be over; otherwise no ring governs them, and
\* one that people are in has reached its ceiling.
DeadListed ==
    task[Sweeper].pc # "idle" /\ sweep.phase = "dead" =>
        \A c \in sweep.queue : Over(c) \/
            /\ ~RingStillGoverns(calls[c])
            /\ calls[c].state = "active" => now - calls[c].createdAt >= MaxLifetime

SweptApart == sweep.at <= now /\ Untouched /\ Fresh /\ RingsListed /\ DeadListed

----------------------------------------------------------------------------
(* A step in the terms of the protocol. *)

states == [c \in CallIds |-> calls[c].state]
rings  == [c \in CallIds |-> calls[c].ring]

Becomes(c, s, g) == /\ states' = [states EXCEPT ![c] = s]
                    /\ rings' = [rings EXCEPT ![c] = g]

Refused(c) == \/ Protocol!Refuse(c, "declined") \/ Protocol!Refuse(c, "cancelled")
              \/ Protocol!Expire(c)
Opened(c) == Protocol!Answer(c) \/ Protocol!Enter(c) \/ Protocol!EnterAnswering(c)

\* Only a request that has resumed opens a call; only a request that has just
\* arrived, or the sweeper, hangs one up without a verdict.
ProtocolTurn ==
    \/ UNCHANGED <<states, rings>>
    \/ \E c \in CallIds : Protocol!Place(c)
    \/ \E c \in CallIds : Refused(c)
    \/ \E c \in CallIds : (Quiet \/ task[Sweeper].pc = "run") /\ Protocol!HangUp(c)
    \/ \E c \in CallIds, r \in Reqs : task[r].pc \in Entering /\ Opened(c)

\* The call that ends in this step is released if it had an agent.
Releases ==
    \A c \in CallIds :
        calls[c].state \in {"created", "active"} /\ calls[c].dispatched
          /\ calls'[c].state = "ended" => Releasing(c)'

Turn == Releases /\ (SweptApart => ProtocolTurn)

LEMMA SameTurn ==
    ASSUME calls' = calls
    PROVE  Turn
BY DEF Turn, Releases, ProtocolTurn, states, rings

LEMMA WriteBecomes ==
    ASSUME CallsOK, NEW c \in CallIds, NEW n \in Call, Write(c, n)
    PROVE  UNCHANGED <<states, rings>> \/ Becomes(c, n.state, n.ring)
BY DEF CallsOK, Write, Becomes, states, rings

\* The transitions of the protocol, by what becomes of the two fields.
LEMMA Refusal ==
    ASSUME NEW c \in CallIds, NEW s, NEW g, Becomes(c, s, g), s = "ended",
           \/ g \in {"declined", "cancelled"} /\ calls[c].ring \in LiveRings
           \/ g = "timeout" /\ RingStillGoverns(calls[c])
    PROVE  Refused(c)
BY DEF Becomes, states, rings, Refused, RingStillGoverns, LiveRings, Protocol!Live,
       Protocol!Refuse, Protocol!Expire, Protocol!Become

LEMMA HangingUp ==
    ASSUME NEW c \in CallIds, NEW s, NEW g, Becomes(c, s, g), s = "ended", g = calls[c].ring,
           calls[c].state = "active" \/ (calls[c].state = "created" /\ calls[c].ring = "none")
    PROVE  Protocol!HangUp(c)
BY DEF Becomes, states, rings, Protocol!HangUp, Protocol!Become

LEMMA Opening ==
    ASSUME NEW c \in CallIds, NEW n \in Call, Becomes(c, n.state, n.ring),
           calls[c].state # "ended",
           \/ /\ calls[c].ring = "ringing" /\ n.ring = "accepted"
              /\ n.state = calls[c].state
           \/ /\ calls[c].state \in {"created", "active"} /\ n.state = "active"
              /\ calls[c].ring = "ringing" /\ n.ring = "accepted"
           \/ /\ calls[c].state = "created" /\ n.state = "active"
              /\ n.ring = calls[c].ring
    PROVE  Opened(c)
BY DEF Becomes, states, rings, Opened, Protocol!Answer, Protocol!Enter,
       Protocol!EnterAnswering, Protocol!Become

\* A write that shows on neither field.
LEMMA PlainTurn ==
    ASSUME CallsOK, NEW c \in CallIds, NEW n \in Call, Write(c, n),
           n.state = calls[c].state, n.ring = calls[c].ring
    PROVE  Turn
<1>1. \A d \in CallIds : calls'[d].state = calls[d].state /\ calls'[d].ring = calls[d].ring
  BY DEF CallsOK, Write
<1> QED BY <1>1 DEF Turn, Releases, ProtocolTurn, states, rings

\* A call ends, and the agent is released.
LEMMA EndTurn ==
    ASSUME CallsOK, TasksOK, NEW t \in Tasks, NEW c \in CallIds, NEW n \in Call,
           EndReleasingAgent(t, c, n),
           SweptApart /\ Becomes(c, n.state, n.ring) => ProtocolTurn
    PROVE  Turn
<1>1. Write(c, n)
  BY DEF EndReleasingAgent
<1>2. ASSUME NEW d \in CallIds, ~Over(d), Over(d)', calls[d].dispatched
      PROVE  Releasing(d)'
  <2>1. d = c
    BY <1>1, <1>2 DEF Write, CallsOK, Over
  <2>2. Await(t, "stopping", c)
    BY <1>2, <2>1 DEF EndReleasingAgent
  <2>3. task'[t].pc = "stopping" /\ task'[t].call = c
    BY <2>2 DEF Await, TasksOK, TaskType
  <2> QED BY <2>1, <2>3 DEF Releasing
<1>3. Releases
  BY <1>2 DEF Releases, Over
<1>4. SweptApart => ProtocolTurn
  BY <1>1, WriteBecomes DEF ProtocolTurn
<1> QED BY <1>3, <1>4 DEF Turn

\* createCall: a fresh id is placed, and nothing else changes.
LEMMA AddCallTurn ==
    ASSUME CallsOK, NEW r, NEW c \in CallIds, NEW u, NEW v, NEW m, NEW s, NEW t,
           AddCall(r, c, CreateCall(u, v, m, s, t))
    PROVE  Turn
<1> DEFINE new == CreateCall(u, v, m, s, t)
<1>1. new.state = "created" /\ new.ring \in {"none", "ringing"}
  BY DEF CreateCall
<1>2. calls' = [calls EXCEPT ![c] = new] /\ calls[c].state = "unborn"
  BY DEF AddCall, NextId
<1> HIDE DEF new
<1>3. Protocol!Place(c)
  BY <1>1, <1>2 DEF Protocol!Place, Protocol!Become, CallsOK
<1>4. Releases
  BY <1>1, <1>2 DEF Releases, CallsOK
<1> QED BY <1>3, <1>4 DEF Turn, ProtocolTurn

LEMMA RequestTurn ==
    ASSUME IInv, NEW r \in Reqs, Request(r)
    PROVE  Turn
<1>0. r \in Tasks /\ now \in Nat /\ CallsOK /\ TasksOK
  BY DEF IInv, Tasks
<1>1. ASSUME NEW u \in Users, NEW v \in Users, RequestCreate(r, u, v) PROVE Turn
  BY <1>1, SameTurn DEF RequestCreate
<1>2. ASSUME NEW c \in CallIds, NEW u \in Users, NEW op, RequestOnCall(r, op, c, u)
      PROVE  Turn
  BY <1>2, SameTurn DEF RequestOnCall
<1>3. ASSUME RequestPoll(r) PROVE Turn
  BY <1>3, SameTurn DEF RequestPoll
<1>4. ASSUME NEW c \in CallIds, NEW u \in Users, NEW v \in Users, NEW m,
             CreateInvite(r, c, u, v, m)
      PROVE  Turn
  BY <1>0, <1>4, AddCallTurn DEF CreateInvite
<1>5. ASSUME NEW c \in CallIds, NEW u \in Users, Verdict(r, c, u) PROVE Turn
  <2> DEFINE n == TouchCall(calls[c], now)
  <2>1. Write(c, n) /\ calls[c] \in Call /\ Sound(calls[c])
    BY <1>0, <1>5 DEF Verdict, CallsOK
  <2>2. n.state = calls[c].state /\ n.ring = calls[c].ring
    BY <2>1, TouchFields
  <2>3. n \in Call
    BY <1>0, <2>1, TouchMovesOn DEF MovesOn, Sound
  <2> HIDE DEF n
  <2> QED BY <1>0, <2>1, <2>2, <2>3, PlainTurn
<1>6. ASSUME NEW c \in CallIds, NEW u \in Users, NEW m \in Resolvable, SetMode(r, c, u, m)
      PROVE  Turn
  <2> DEFINE call  == SetCallMode(calls[c], m, now)
             plain == SetCallAgent(call, FALSE, FALSE)
  <2>1. /\ Write(c, call) \/ Write(c, plain)
        /\ calls[c] \in Call /\ Sound(calls[c]) /\ m \in Modes
    BY <1>0, <1>6, BoundAssumption DEF SetMode, CallsOK
  <2>2. call \in Call /\ Sound(call)
    BY <1>0, <2>1, ModeMovesOn DEF MovesOn, Sound
  <2>3. call.state = calls[c].state /\ call.ring = calls[c].ring
    BY <2>1, ModeFields
  <2>4. plain \in Call
    BY <2>2, AgentMovesOn DEF MovesOn, Sound
  <2>5. plain.state = call.state /\ plain.ring = call.ring
    BY <2>2, AgentFields
  <2> HIDE DEF call, plain
  <2> QED BY <1>0, <2>1, <2>2, <2>3, <2>4, <2>5, PlainTurn
<1>7. ASSUME NEW c \in CallIds, NEW u \in Users, End(r, c, u) PROVE Turn
  <2> DEFINE why  == IF u = calls[c].caller THEN "cancelled" ELSE "declined"
             over == IF calls[c].state = "created" /\ calls[c].ring \in LiveRings
                     THEN EndRing(calls[c], why, now)
                     ELSE SetCallState(calls[c], "ended", now)
  <2>1. EndReleasingAgent(r, c, over) /\ Quiet
    BY <1>7 DEF End, Arrives
  <2>2. Sound(calls[c]) /\ Born(c) /\ calls[c] \in Call
    BY <1>0, <1>7 DEF End, IInv, MapOK, CallsOK
  <2>3. why \in DeadRings /\ why \in {"cancelled", "declined"}
    BY DEF DeadRings
  <2> HIDE DEF why
  <2>4. CASE calls[c].state = "created" /\ calls[c].ring \in LiveRings
    <3>1. over.state = "ended" /\ over.ring = why /\ over \in Call
      BY <1>0, <2>2, <2>3, <2>4, EndRingFields, EndRingMovesOn DEF MovesOn, Sound, Born
    <3> HIDE DEF over
    <3>2. Becomes(c, over.state, over.ring) => Refused(c)
      BY <2>3, <2>4, <3>1, Refusal
    <3>3. Becomes(c, over.state, over.ring) => ProtocolTurn
      BY <3>2 DEF ProtocolTurn
    <3> QED BY <1>0, <2>1, <3>1, <3>3, EndTurn
  <2>5. CASE ~(calls[c].state = "created" /\ calls[c].ring \in LiveRings)
    <3>1. over.state = "ended" /\ over.ring = calls[c].ring /\ over \in Call
      BY <1>0, <2>2, <2>5, SetCallStateFields DEF CallStates
    <3> HIDE DEF over
    <3>2. CASE calls[c].state = "ended"
      <4>1. Write(c, over)
        BY <2>1 DEF EndReleasingAgent
      <4> QED BY <1>0, <3>1, <3>2, <4>1, PlainTurn
    <3>3. CASE calls[c].state # "ended"
      <4>1. calls[c].state = "active" \/ (calls[c].state = "created" /\ calls[c].ring = "none")
        BY <2>2, <2>5, <3>3
        DEF Sound, Born, Call, CallStates, RingStates, LiveRings, DeadRings
      <4>2. Becomes(c, over.state, over.ring) => Protocol!HangUp(c)
        BY <3>1, <4>1, HangingUp
      <4>3. Becomes(c, over.state, over.ring) => ProtocolTurn
        BY <2>1, <4>2 DEF ProtocolTurn
      <4> QED BY <1>0, <2>1, <3>1, <4>3, EndTurn
    <3> QED BY <3>2, <3>3
  <2> QED BY <2>4, <2>5
<1> QED BY <1>1, <1>2, <1>3, <1>4, <1>5, <1>6, <1>7 DEF Request

LEMMA ContinueTurn ==
    ASSUME IInv, NEW r \in Reqs, Continue(r)
    PROVE  Turn
<1>0. r \in Tasks /\ now \in Nat /\ CallsOK /\ TasksOK /\ live \subseteq CallIds
  BY DEF IInv, Tasks, MapOK
<1> SUFFICES ASSUME NEW c \in CallIds \cup {NoCall}, c = task[r].call
             PROVE  Turn
  BY <1>0 DEF TasksOK, TaskType
<1> DEFINE call == calls[c]
<1>1. c \in live \/ task[r].pc \in Holding =>
        /\ c \in CallIds /\ Sound(call) /\ call \in Call
        /\ call.state # "unborn"
  BY <1>0 DEF TasksOK, CallsOK, Born, IInv, MapOK
<1>2. ASSUME NEW k \in CallIds, NEW m, NEW s, CreateRing(r, k, m, s) PROVE Turn
  BY <1>0, <1>2, AddCallTurn DEF CreateRing
<1>3. ASSUME CreateBusy(r) \/ Join(r) \/ AnswerUnchanged(r) \/ SendJob(r) PROVE Turn
  BY <1>3, SameTurn DEF CreateBusy, Join, AnswerUnchanged, SendJob
<1>4. ASSUME JoinMinted(r) PROVE Turn
  <2> DEFINE n == JoinCall(call, task[r].user, now)
  <2>1. Write(c, n) /\ task[r].pc = "minting"
    BY <1>4 DEF JoinMinted
  <2>2. c \in CallIds /\ Sound(call) /\ call \in Call /\ call.state # "unborn"
    BY <1>1, <2>1 DEF Holding
  <2>3. /\ n.state = IF call.state = "created" THEN "active" ELSE call.state
        /\ \/ n.ring = "accepted" /\ call.ring = "ringing"
           \/ n.ring = call.ring
    BY <1>0, <2>2, JoinFields
  <2>4. n \in Call
    BY <1>0, <2>2, JoinMovesOn DEF MovesOn, Sound
  <2> HIDE DEF n
  <2>5. Releases
    BY <1>0, <2>1, <2>2, <2>3, <2>4 DEF Releases, Write, CallsOK
  <2>6. ASSUME SweptApart PROVE ProtocolTurn
    <3>1. CASE n.state = call.state /\ n.ring = call.ring
      BY <1>0, <2>1, <2>2, <2>4, <3>1, PlainTurn, <2>6 DEF Turn
    <3>2. CASE Becomes(c, n.state, n.ring)
      <4>1. CASE n.ring = "accepted" /\ call.ring = "ringing"
        <5>1. call.state \in {"created", "active"}
          BY <2>1, <2>2, <2>6, <4>1 DEF SweptApart, Fresh, Over, Call, CallStates
        <5>2. Opened(c)
          BY <2>2, <2>3, <2>4, <3>2, <4>1, <5>1, Opening
        <5> QED BY <2>1, <2>2, <5>2 DEF ProtocolTurn, Entering
      <4>2. CASE n.ring = call.ring /\ call.state = "created"
        <5>1. Opened(c)
          BY <2>2, <2>3, <2>4, <3>2, <4>2, Opening
        <5> QED BY <2>1, <2>2, <5>1 DEF ProtocolTurn, Entering
      <4>3. CASE n.ring = call.ring /\ call.state # "created"
        BY <2>3, <3>1, <4>3
      <4> QED BY <2>3, <4>1, <4>2, <4>3
    <3> QED BY <1>0, <2>1, <2>2, <2>4, <3>1, <3>2, WriteBecomes
            DEF ProtocolTurn
  <2> QED BY <2>5, <2>6 DEF Turn
<1>5. ASSUME Accept(r) PROVE Turn
  <2> DEFINE n == AcceptRing(call, now)
  <2>1. /\ c \in live /\ call.ring = "ringing" /\ call.state # "ended"
        /\ Write(c, n) /\ task[r].pc = "resumed"
    BY <1>5 DEF Accept, AcceptAllowed, Resumes
  <2>2. c \in CallIds /\ n.state = call.state /\ n.ring = "accepted"
    BY <1>0, <1>1, <2>1, AcceptFields
  <2>3. n \in Call
    BY <1>0, <1>1, <2>1, AcceptMovesOn DEF MovesOn, Sound
  <2> HIDE DEF n
  <2>4. Releases
    BY <1>0, <2>1, <2>2, <2>3 DEF Releases, Write, CallsOK
  <2>5. Becomes(c, n.state, n.ring) => Opened(c)
    BY <2>1, <2>2, <2>3, Opening
  <2>6. ProtocolTurn
    BY <1>0, <2>1, <2>2, <2>3, <2>5, WriteBecomes
    DEF ProtocolTurn, Entering
  <2> QED BY <2>4, <2>6 DEF Turn
<1>6. ASSUME Decline(r) \/ Cancel(r) PROVE Turn
  <2>1. PICK why \in {"declined", "cancelled"} :
           /\ c \in live /\ call.ring \in LiveRings
           /\ EndReleasingAgent(r, c, EndRing(call, why, now))
    BY <1>6 DEF Decline, Cancel, DeclineAllowed, CancelAllowed, LiveRings
  <2> DEFINE n == EndRing(call, why, now)
  <2>2. why \in DeadRings
    BY DEF DeadRings
  <2>3. c \in CallIds /\ n.state = "ended" /\ n.ring = why
    BY <1>0, <1>1, <2>1, <2>2, EndRingFields
  <2>4. n \in Call
    BY <1>0, <1>1, <2>1, <2>2, EndRingMovesOn DEF MovesOn, Sound
  <2>5. EndReleasingAgent(r, c, n)
    BY <2>1
  <2> HIDE DEF n
  <2>6. Becomes(c, n.state, n.ring) => Refused(c)
    BY <2>1, <2>3, Refusal
  <2>7. Becomes(c, n.state, n.ring) => ProtocolTurn
    BY <2>3, <2>6 DEF ProtocolTurn
  <2> QED BY <1>0, <2>3, <2>4, <2>5, <2>7, EndTurn
<1>7. ASSUME NEW d \in BOOLEAN, DispatchReturns(r, d) PROVE Turn
  <2> DEFINE n == SetCallAgent(call, TRUE, d)
  <2>1. Write(c, n) /\ task[r].pc = "dispatching"
    BY <1>7 DEF DispatchReturns
  <2>2. c \in CallIds /\ Sound(call) /\ call \in Call
    BY <1>1, <2>1 DEF Holding
  <2>3. n.state = call.state /\ n.ring = call.ring
    BY <2>2, AgentFields
  <2>4. n \in Call
    BY <2>2, AgentMovesOn DEF MovesOn, Sound
  <2> HIDE DEF n
  <2> QED BY <1>0, <2>1, <2>2, <2>3, <2>4, PlainTurn
<1> QED BY <1>2, <1>3, <1>4, <1>5, <1>6, <1>7 DEF Continue

LEMMA StopTurn ==
    ASSUME IInv, NEW t \in Tasks, StopReturns(t)
    PROVE  Turn
<1>0. CallsOK /\ TasksOK
  BY DEF IInv
<1> SUFFICES ASSUME NEW c \in CallIds \cup {NoCall}, c = task[t].call
             PROVE  Turn
  BY <1>0 DEF TasksOK, TaskType
<1>1. PICK q \in BOOLEAN :
         task[t].pc \in {"stopping", "unmode"} /\ Write(c, SetCallAgent(calls[c], q, FALSE))
  <2>1. task[t].pc = "stopping" => calls[c].required \in BOOLEAN
    BY <1>0 DEF TasksOK, CallsOK, Call, Holding
  <2> QED BY <2>1 DEF StopReturns
<1>2. c \in CallIds /\ Sound(calls[c]) /\ calls[c] \in Call
  BY <1>0, <1>1 DEF TasksOK, CallsOK, Holding
<1> DEFINE n == SetCallAgent(calls[c], q, FALSE)
<1>3. n.state = calls[c].state /\ n.ring = calls[c].ring
  BY <1>2, AgentFields
<1>4. n \in Call /\ Write(c, n)
  BY <1>1, <1>2, AgentMovesOn DEF MovesOn, Sound
<1> HIDE DEF n
<1> QED BY <1>0, <1>2, <1>3, <1>4, PlainTurn

\* The sweep labels a ring that nobody has joined, and hangs up what no ring governs.
LEMMA SweepTurn ==
    ASSUME IInv, SweepStep
    PROVE  Turn
<1>0. /\ Sweeper \in Tasks /\ now \in Nat /\ CallsOK /\ TasksOK
      /\ \A c \in sweep.queue : Born(c)
  BY DEF IInv, Tasks, SweepOK
<1>1. ASSUME NEW c \in CallIds, SweepRing(c) PROVE Turn
  <2> DEFINE n == EndRing(calls[c], "timeout", now)
  <2>1. /\ task[Sweeper].pc = "run" /\ sweep.phase = "rings" /\ c \in sweep.queue
        /\ EndReleasingAgent(Sweeper, c, n) \/ calls' = calls
    BY <1>1 DEF SweepRing, NextInQueue
  <2>2. Sound(calls[c]) /\ Born(c) /\ calls[c] \in Call /\ "timeout" \in DeadRings
    BY <1>0, <2>1 DEF CallsOK, DeadRings
  <2>3. /\ n.state = "ended"
        /\ n.ring = IF calls[c].ring \in LiveRings THEN "timeout" ELSE calls[c].ring
    BY <1>0, <2>2, EndRingFields
  <2>4. n \in Call
    BY <1>0, <2>2, EndRingMovesOn DEF MovesOn, Sound, Born
  <2> HIDE DEF n
  <2>5. ASSUME SweptApart, Becomes(c, n.state, n.ring) PROVE ProtocolTurn
    <3>1. calls[c].ring # "none" /\ (calls[c].ring = "accepted" => calls[c].state = "created")
      BY <2>1, <2>5 DEF SweptApart, RingsListed
    <3>2. CASE calls[c].ring \in LiveRings
      <4>1. n.ring = "timeout" /\ RingStillGoverns(calls[c])
        BY <2>3, <3>1, <3>2 DEF RingStillGoverns, LiveRings
      <4>2. Refused(c)
        BY <2>3, <2>5, <4>1, Refusal
      <4> QED BY <4>2 DEF ProtocolTurn
    <3>3. CASE calls[c].ring \notin LiveRings
      <4>1. n.state = calls[c].state /\ n.ring = calls[c].ring
        BY <2>2, <2>3, <3>1, <3>3 DEF Sound, Call, RingStates
      <4> QED BY <2>5, <4>1 DEF ProtocolTurn, Becomes, states, rings, CallsOK
    <3> QED BY <3>2, <3>3
  <2> QED BY <1>0, <2>1, <2>4, <2>5, SameTurn, EndTurn
<1>2. ASSUME NEW c \in CallIds, SweepDead(c) PROVE Turn
  <2> DEFINE n == EndCall(calls[c], now)
  <2>1. /\ task[Sweeper].pc = "run" /\ sweep.phase = "dead" /\ c \in sweep.queue
        /\ EndReleasingAgent(Sweeper, c, n)
    BY <1>2 DEF SweepDead, NextInQueue
  <2>2. Sound(calls[c]) /\ Born(c) /\ calls[c] \in Call
    BY <1>0, <2>1 DEF CallsOK
  <2>3. n.state = "ended" /\ n.ring = calls[c].ring
    BY <1>0, <2>2, EndCallFields
  <2>4. n \in Call
    BY <1>0, <2>2, EndCallMovesOn DEF MovesOn, Sound, Born
  <2> HIDE DEF n
  <2>5. ASSUME SweptApart, Becomes(c, n.state, n.ring) PROVE ProtocolTurn
    <3>1. Over(c) \/ ~RingStillGoverns(calls[c])
      BY <2>1, <2>5 DEF SweptApart, DeadListed
    <3>2. CASE Over(c)
      BY <2>3, <2>5, <3>2 DEF ProtocolTurn, Becomes, states, rings, Over
    <3>3. CASE ~Over(c)
      <4>1. calls[c].state = "active" \/ (calls[c].state = "created" /\ calls[c].ring = "none")
        BY <2>2, <3>1, <3>3
        DEF Sound, Call, CallStates, RingStates, LiveRings, DeadRings, RingStillGoverns, Over, Born
      <4>2. Protocol!HangUp(c)
        BY <2>3, <2>5, <4>1, HangingUp
      <4> QED BY <2>1, <4>2 DEF ProtocolTurn
    <3> QED BY <3>2, <3>3
  <2> QED BY <1>0, <2>1, <2>4, <2>5, EndTurn
<1>3. ASSUME \/ \E c \in CallIds : SweepPut(c)
             \/ SweepAdvance
             \/ SweepEnd
      PROVE  Turn
  BY <1>3, SameTurn DEF SweepPut, SweepAdvance, SweepEnd
<1> QED BY <1>1, <1>2, <1>3 DEF SweepStep

LEMMA NextTurn ==
    ASSUME IInv, [Next]_vars
    PROVE  Turn
<1>1. ASSUME Tick \/ SweepTimer \/ (\E ok \in BOOLEAN : PutReturns(ok)) \/ UNCHANGED vars
      PROVE  Turn
  BY <1>1, SameTurn DEF Tick, SweepTimer, PutReturns, vars
<1> QED BY <1>1, SweepTurn, StopTurn, RequestTurn, ContinueTurn DEF Next

\* Whatever ends a call, joined or not, tells the agent in its room to leave: the
\* sweeper, a ring button or the hang-up (routes/calls.ts endCallReleasingAgent).
THEOREM EndingsRelease == Spec => EndingReleases
<1>1. IInv /\ [Next]_vars => Releases
  BY NextTurn DEF Turn
<1>2. Releases => [Releases]_vars
  OBVIOUS
<1> QED BY <1>1, <1>2, InductiveInvariant, PTL DEF Spec, EndingReleases, Releases

----------------------------------------------------------------------------
(* The invariant of the sweep is kept when signing does not yield. *)

\* While no request is about to answer or enter, calls only end.
LEMMA ClosedTurn ==
    ASSUME CallsOK, ProtocolTurn, CallsOK', NEW c \in CallIds, Born(c),
           \A r \in Reqs : task[r].pc \notin Entering
    PROVE  \/ calls'[c].state = calls[c].state /\ calls'[c].ring = calls[c].ring
           \/ Over(c)' /\ calls'[c].ring \in DeadRings
           \/ /\ Over(c)' /\ calls'[c].ring = calls[c].ring
              /\ calls[c].state = "active" \/ calls[c].ring = "none"
<1>1. ASSUME UNCHANGED <<states, rings>>
      PROVE  calls'[c].state = calls[c].state /\ calls'[c].ring = calls[c].ring
  <2>1. states'[c] = states[c] /\ rings'[c] = rings[c]
    BY <1>1
  <2> QED BY <2>1 DEF states, rings
<1>2. ASSUME NEW d \in CallIds, Protocol!Place(d)
      PROVE  calls'[c].state = calls[c].state /\ calls'[c].ring = calls[c].ring
  BY <1>2 DEF Protocol!Place, Protocol!Become, Born
<1>3. ASSUME NEW d \in CallIds, Refused(d)
      PROVE  \/ calls'[c].state = calls[c].state /\ calls'[c].ring = calls[c].ring
             \/ Over(c)' /\ calls'[c].ring \in DeadRings
  BY <1>3 DEF Refused, Protocol!Refuse, Protocol!Expire, Protocol!Become, DeadRings, Over
<1>4. ASSUME NEW d \in CallIds, Protocol!HangUp(d)
      PROVE  \/ calls'[c].state = calls[c].state /\ calls'[c].ring = calls[c].ring
             \/ /\ Over(c)' /\ calls'[c].ring = calls[c].ring
                /\ calls[c].state = "active" \/ calls[c].ring = "none"
  BY <1>4 DEF Protocol!HangUp, Protocol!Become, Over
<1> QED BY <1>1, <1>2, <1>3, <1>4 DEF ProtocolTurn

LEMMA ListsStand ==
    ASSUME IInv, LegalStep, SweptApart, ProtocolTurn, task[Sweeper].pc # "idle",
           now' >= now, sweep'.phase = sweep.phase, sweep'.queue \subseteq sweep.queue
    PROVE  RingsListed' /\ DeadListed'
<1>1. \A r \in Reqs : task[r].pc \notin Entering
  BY DEF SweptApart, Untouched
<1>2. ASSUME NEW c \in sweep.queue
      PROVE  /\ c \in CallIds /\ Born(c) /\ Evolves(calls[c], calls'[c])
             /\ \/ calls'[c].state = calls[c].state /\ calls'[c].ring = calls[c].ring
                \/ Over(c)' /\ calls'[c].ring \in DeadRings
                \/ /\ Over(c)' /\ calls'[c].ring = calls[c].ring
                   /\ calls[c].state = "active" \/ calls[c].ring = "none"
  <2>1. c \in CallIds /\ Born(c)
    BY DEF IInv, SweepOK, SweepType
  <2> QED BY <1>1, <2>1, ClosedTurn DEF IInv, LegalStep
<1>3. RingsListed'
  <2>1. ASSUME NEW c \in sweep'.queue, sweep'.phase = "rings"
        PROVE  /\ calls'[c].ring # "none"
               /\ calls'[c].ring = "accepted" => calls'[c].state = "created"
    BY <1>2, <2>1 DEF SweptApart, RingsListed, Evolves, DeadRings
  <2> QED BY <2>1 DEF RingsListed
<1>4. DeadListed'
  <2>1. ASSUME NEW c \in sweep'.queue, sweep'.phase = "dead", ~Over(c)'
        PROVE  /\ ~RingStillGoverns(calls'[c])
               /\ calls'[c].state = "active" => now' - calls'[c].createdAt >= MaxLifetime
    <3>1. /\ c \in CallIds /\ ~Over(c)
          /\ calls'[c].state = calls[c].state /\ calls'[c].ring = calls[c].ring
          /\ calls'[c].createdAt = calls[c].createdAt
      BY <1>2, <2>1 DEF Evolves, Over
    <3>2. /\ now \in Nat /\ now' \in Nat /\ calls[c].createdAt \in Nat /\ MaxLifetime \in Nat
      BY <3>1, LimitAssumption DEF IInv, LegalStep, CallsOK, Call
    <3>3. /\ ~RingStillGoverns(calls[c])
          /\ calls[c].state = "active" => now - calls[c].createdAt >= MaxLifetime
      BY <2>1, <3>1 DEF SweptApart, DeadListed
    <3> QED BY <3>1, <3>2, <3>3 DEF RingStillGoverns
  <2> QED BY <2>1 DEF DeadListed
<1> QED BY <1>3, <1>4

\* Between the check of join and its token only requests that resumed with it run.
LEMMA FreshStays ==
    ASSUME Signing = "microtask", IInv, SweptApart, ProtocolTurn, CallsOK',
           NEW r \in Reqs, task[r].pc = "minting", task'[r] = task[r]
    PROVE  ~(/\ calls'[task'[r].call].state = "ended"
             /\ calls'[task'[r].call].ring = "ringing")
<1>0. r \in Tasks
  BY DEF Tasks
<1>1. ~Quiet /\ task[Sweeper].pc = "idle"
  BY <1>0 DEF Quiet, Runnable, SweptApart, Untouched, Entering
<1> SUFFICES ASSUME NEW c \in CallIds, c = task[r].call
             PROVE  ~(calls'[c].state = "ended" /\ calls'[c].ring = "ringing")
  BY <1>0 DEF IInv, TasksOK, Holding
<1>2. Born(c) /\ ~(calls[c].state = "ended" /\ calls[c].ring = "ringing")
  BY <1>0 DEF IInv, TasksOK, Holding, SweptApart, Fresh, Over
<1>3. ASSUME UNCHANGED <<states, rings>>
      PROVE  calls'[c].state = calls[c].state /\ calls'[c].ring = calls[c].ring
  <2>1. states'[c] = states[c] /\ rings'[c] = rings[c]
    BY <1>3
  <2> QED BY <2>1 DEF states, rings
<1>4. ASSUME NEW d \in CallIds, Protocol!Place(d)
      PROVE  calls'[c].state = calls[c].state /\ calls'[c].ring = calls[c].ring
  BY <1>2, <1>4 DEF Protocol!Place, Protocol!Become, Born
<1>5. ASSUME NEW d \in CallIds, Refused(d)
      PROVE  \/ calls'[c].state = calls[c].state /\ calls'[c].ring = calls[c].ring
             \/ calls'[c].ring # "ringing"
  BY <1>5 DEF Refused, Protocol!Refuse, Protocol!Expire, Protocol!Become
<1>6. ASSUME NEW d \in CallIds, Opened(d)
      PROVE  \/ calls'[c].state = calls[c].state /\ calls'[c].ring = calls[c].ring
             \/ calls'[c].ring # "ringing"
             \/ calls'[c].state # "ended"
  BY <1>6 DEF Opened, Protocol!Answer, Protocol!Enter, Protocol!EnterAnswering, Protocol!Become
<1>7. \/ UNCHANGED <<states, rings>>
      \/ \E d \in CallIds : Protocol!Place(d) \/ Refused(d) \/ Opened(d)
  BY <1>1 DEF ProtocolTurn
<1> QED BY <1>2, <1>3, <1>4, <1>5, <1>6, <1>7

\* The turn of a task that neither resumes a request nor starts a sweep.
LEMMA TaskKeepsApart ==
    ASSUME Signing = "microtask", IInv, LegalStep, SweptApart, ProtocolTurn,
           NEW t \in Tasks, \A s \in Tasks : s # t => task'[s] = task[s],
           task'[t].pc \notin Entering \/ task'[t] = task[t],
           t = Sweeper => task[Sweeper].pc # "idle",
           now' = now, sweep'.at = sweep.at, sweep'.phase = sweep.phase,
           sweep'.queue \subseteq sweep.queue
    PROVE  SweptApart'
<1>0. Sweeper \in Tasks /\ Reqs \subseteq Tasks /\ Sweeper \notin Reqs
  BY SweeperAssumption DEF Tasks
<1>1. Untouched'
  BY <1>0 DEF SweptApart, Untouched
<1>2. Fresh'
  <2>1. ASSUME NEW r \in Reqs, task'[r].pc = "minting"
        PROVE  ~(/\ calls'[task'[r].call].state = "ended"
                 /\ calls'[task'[r].call].ring = "ringing")
    <3>1. task'[r] = task[r]
      BY <1>0, <2>1 DEF Entering
    <3> QED BY <2>1, <3>1, FreshStays DEF LegalStep, IInv
  <2> QED BY <2>1 DEF Fresh, Over
<1>3. RingsListed' /\ DeadListed'
  <2>1. CASE task[Sweeper].pc = "idle"
    <3>1. task'[Sweeper].pc = "idle"
      BY <1>0, <2>1
    <3> QED BY <3>1 DEF RingsListed, DeadListed
  <2>2. CASE task[Sweeper].pc # "idle"
    BY <2>2, ListsStand DEF IInv
  <2> QED BY <2>1, <2>2
<1> QED BY <1>1, <1>2, <1>3 DEF SweptApart

\* A sweep begins: nobody is half way through, and what it lists is overdue now.
LEMMA StartKeepsApart ==
    ASSUME IInv, SweptApart, UNCHANGED <<now, calls>>, sweep' = StartedSweep,
           \A r \in Reqs : task'[r].pc \notin Entering
    PROVE  SweptApart'
<1>1. sweep'.at = now /\ sweep'.phase = "rings"
      /\ sweep'.queue = {c \in live : RingDue(calls[c], now)}
  BY DEF StartedSweep, DueRingCalls
<1>2. RingsListed'
  BY <1>1 DEF RingsListed, RingDue
<1>3. now' \in Nat /\ sweep'.at <= now'
  BY <1>1 DEF IInv
<1> QED BY <1>1, <1>2, <1>3 DEF SweptApart, Untouched, Fresh, DeadListed, Entering

LEMMA AwaitKeepsApart ==
    ASSUME Signing = "microtask", IInv, SweptApart, Quiet, NEW r \in Reqs, NEW w \in TaskType,
           AwaitSweep(r, w), UNCHANGED <<now, calls, live, archived>>
    PROVE  SweptApart'
<1>0. Sweeper \in Tasks /\ Reqs \subseteq Tasks /\ Sweeper \notin Reqs
  BY SweeperAssumption DEF Tasks
<1>1. \A s \in Reqs : task[s].pc \notin Entering
  BY <1>0 DEF Quiet, Runnable, Entering
<1>2. /\ \A s \in Reqs : s # r => task'[s] = task[s]
      /\ \/ /\ task'[r].pc = "resumed" /\ task'[Sweeper] = task[Sweeper]
            /\ task[Sweeper].pc = "idle" /\ sweep' = sweep
         \/ /\ task'[r].pc = "sweeping" /\ task'[Sweeper] = task[Sweeper]
            /\ sweep' = sweep
         \/ task'[r].pc = "sweeping" /\ sweep' = StartedSweep
  BY <1>0, AwaitSweepTasks DEF IInv
<1>3. CASE sweep' = StartedSweep /\ task'[r].pc = "sweeping"
  BY <1>1, <1>2, <1>3, StartKeepsApart DEF Entering
<1>4. CASE sweep' = sweep /\ task'[Sweeper] = task[Sweeper]
           /\ task'[r].pc \in {"resumed", "sweeping"}
           /\ (task'[r].pc = "resumed" => task[Sweeper].pc = "idle")
  <2>1. Untouched' /\ Fresh'
    BY <1>1, <1>2, <1>4 DEF Untouched, Fresh, Entering
  <2>2. RingsListed' /\ DeadListed'
    BY <1>4 DEF SweptApart, RingsListed, DeadListed, Over
  <2> QED BY <1>4, <2>1, <2>2 DEF SweptApart
<1> QED BY <1>2, <1>3, <1>4

LEMMA RequestKeepsApart ==
    ASSUME Signing = "microtask", IInv, SweptApart, NEW r \in Reqs, Request(r)
    PROVE  SweptApart'
<1>0. r \in Tasks /\ r # Sweeper /\ LegalStep /\ ProtocolTurn
      /\ {"create", "poll", "join"} \cup RingOps \subseteq Ops
  BY SweeperAssumption, RequestStep, RequestTurn DEF Tasks, Turn, Ops
<1>1. ASSUME \A s \in Tasks : s # r => task'[s] = task[s], task'[r].pc \notin Entering,
             UNCHANGED <<now, sweep>>
      PROVE  SweptApart'
  BY <1>0, <1>1, TaskKeepsApart
<1>2. ASSUME Finish(r) \/ (\E pc \in PCs \ Entering : \E c : Await(r, pc, c)) \/ UNCHANGED task,
             Quiet, UNCHANGED <<now, sweep>>
      PROVE  SweptApart'
  <2>1. \A s \in Tasks : s # r => task'[s] = task[s]
    BY <1>2 DEF Finish, Await, IInv, TasksOK
  <2>2. task'[r].pc \notin Entering
    <3>1. CASE Finish(r)
      BY <1>0, <3>1 DEF Finish, IInv, TasksOK, IdleTask, Entering
    <3>2. CASE \E pc \in PCs \ Entering : \E c : Await(r, pc, c)
      BY <1>0, <3>2 DEF Await, IInv, TasksOK, TaskType
    <3>3. CASE UNCHANGED task
      BY <1>0, <1>2, <3>3 DEF Quiet, Runnable, Entering
    <3> QED BY <1>2, <3>1, <3>2, <3>3
  <2> QED BY <1>1, <1>2, <2>1, <2>2
<1>3. {"signing", "unmode", "stopping"} \subseteq PCs \ Entering
  BY DEF PCs, Entering
<1>4. ASSUME NEW u \in Users, NEW v \in Users, RequestCreate(r, u, v) PROVE SweptApart'
  <2>1. [Start("create", u) EXCEPT !.peer = v] \in TaskType
    BY <1>0, StartIsTask
  <2> QED BY <1>4, <2>1, AwaitKeepsApart DEF RequestCreate, Arrives
<1>5. ASSUME NEW c \in CallIds, NEW u \in Users, NEW op \in RingOps \cup {"join"},
             RequestOnCall(r, op, c, u)
      PROVE  SweptApart'
  <2>1. [Start(op, u) EXCEPT !.call = c] \in TaskType
    BY <1>0, StartIsTask
  <2> QED BY <1>5, <2>1, AwaitKeepsApart DEF RequestOnCall, Arrives
<1>6. ASSUME RequestPoll(r) PROVE SweptApart'
  <2>1. Start("poll", NoUser) \in TaskType
    BY <1>0, StartIsTask
  <2> QED BY <1>6, <2>1, AwaitKeepsApart DEF RequestPoll
<1>7. ASSUME NEW c \in CallIds, NEW u \in Users, NEW v \in Users, NEW m,
             CreateInvite(r, c, u, v, m)
      PROVE  SweptApart'
  BY <1>2, <1>3, <1>7 DEF CreateInvite, AddCall, Arrives
<1>8. ASSUME NEW c \in CallIds, NEW u \in Users, End(r, c, u) \/ Verdict(r, c, u)
      PROVE  SweptApart'
  BY <1>2, <1>3, <1>8 DEF End, Verdict, EndReleasingAgent, Arrives
<1>9. ASSUME NEW c \in CallIds, NEW u \in Users, NEW m, SetMode(r, c, u, m)
      PROVE  SweptApart'
  BY <1>2, <1>3, <1>9 DEF SetMode, Arrives
<1> QED BY <1>4, <1>5, <1>6, <1>7, <1>8, <1>9 DEF Request

LEMMA ContinueKeepsApart ==
    ASSUME Signing = "microtask", IInv, SweptApart, NEW r \in Reqs, Continue(r)
    PROVE  SweptApart'
<1>0. r \in Tasks /\ Sweeper \in Tasks /\ r # Sweeper /\ LegalStep /\ ProtocolTurn
  BY SweeperAssumption, ContinueStep, ContinueTurn DEF Tasks, Turn
<1>1. ASSUME Finish(r) \/ (\E pc \in PCs \ Entering : \E c : Await(r, pc, c)),
             UNCHANGED <<now, sweep>>
      PROVE  SweptApart'
  <2>1. \A s \in Tasks : s # r => task'[s] = task[s]
    BY <1>1 DEF Finish, Await, IInv, TasksOK
  <2>2. task'[r].pc \notin Entering
    <3>1. CASE Finish(r)
      BY <1>0, <3>1 DEF Finish, IInv, TasksOK, IdleTask, Entering
    <3>2. CASE \E pc \in PCs \ Entering : \E c : Await(r, pc, c)
      BY <1>0, <3>2 DEF Await, IInv, TasksOK, TaskType
    <3> QED BY <1>1, <3>1, <3>2
  <2> QED BY <1>0, <1>1, <2>1, <2>2, TaskKeepsApart
<1>2. {"signing", "stopping"} \subseteq PCs \ Entering
  BY DEF PCs, Entering
<1>3. ASSUME NEW c \in CallIds, NEW m, NEW s, CreateRing(r, c, m, s) PROVE SweptApart'
  BY <1>1, <1>2, <1>3 DEF CreateRing, AddCall
<1>4. ASSUME \/ CreateBusy(r) \/ AnswerUnchanged(r) \/ JoinMinted(r) \/ Accept(r)
             \/ \E d \in BOOLEAN : DispatchReturns(r, d)
      PROVE  SweptApart'
  BY <1>1, <1>4 DEF CreateBusy, AnswerUnchanged, JoinMinted, Accept, DispatchReturns
<1>5. ASSUME Decline(r) \/ Cancel(r) PROVE SweptApart'
  BY <1>1, <1>2, <1>5 DEF Decline, Cancel, EndReleasingAgent
<1>6. ASSUME SendJob(r) PROVE SweptApart'
  <2> DEFINE x == [task[r] EXCEPT !.pc = "dispatching", !.job = calls[task[r].call].mode]
  <2>1. task' = [task EXCEPT ![r] = x] /\ UNCHANGED <<now, sweep>>
    BY <1>0, <1>6 DEF SendJob, IInv, TasksOK
  <2>2. x.pc = "dispatching"
    BY <1>0 DEF IInv, TasksOK, TaskType
  <2> HIDE DEF x
  <2>3. task'[r] = x /\ \A s \in Tasks : s # r => task'[s] = task[s]
    BY <1>0, <2>1 DEF IInv, TasksOK
  <2> QED BY <1>0, <2>1, <2>2, <2>3, TaskKeepsApart DEF Entering
<1>7. ASSUME Join(r) PROVE SweptApart'
  <2>1. /\ task[r].pc = "resumed" /\ JoinAllowed(task[r].call)
        /\ UNCHANGED <<now, calls, live, archived, sweep>>
        /\ Await(r, "minting", task[r].call)
    BY <1>7 DEF Join, Resumes
  <2>2. /\ \A s \in Tasks : s # r => task'[s] = task[s]
        /\ task'[r].pc = "minting" /\ task'[r].call = task[r].call
    BY <1>0, <2>1 DEF Await, IInv, TasksOK, TaskType
  <2>3. task[Sweeper].pc = "idle" /\ task'[Sweeper] = task[Sweeper]
    BY <1>0, <2>1, <2>2 DEF SweptApart, Untouched, Entering
  <2>4. Untouched' /\ RingsListed' /\ DeadListed'
    BY <2>3 DEF Untouched, RingsListed, DeadListed
  <2>5. Fresh'
    BY <2>1, <2>2 DEF SweptApart, Fresh, Over, JoinAllowed, Tasks
  <2> QED BY <2>1, <2>4, <2>5 DEF SweptApart
<1> QED BY <1>3, <1>4, <1>5, <1>6, <1>7 DEF Continue

LEMMA StopKeepsApart ==
    ASSUME Signing = "microtask", IInv, SweptApart, NEW t \in Tasks, StopReturns(t)
    PROVE  SweptApart'
<1>1. LegalStep /\ ProtocolTurn
  BY StopStep, StopTurn DEF Turn
<1>2. Finish(t) /\ UNCHANGED <<now, sweep>> /\ task[t].pc # "idle"
  BY DEF StopReturns
<1>3. /\ \A s \in Tasks : s # t => task'[s] = task[s]
      /\ task'[t].pc \notin Entering
  BY <1>2 DEF Finish, IInv, TasksOK, IdleTask, Entering
<1> QED BY <1>1, <1>2, <1>3, TaskKeepsApart

LEMMA SweepKeepsApart ==
    ASSUME Signing = "microtask", IInv, SweptApart, SweepStep
    PROVE  SweptApart'
<1>0. /\ Sweeper \in Tasks /\ LegalStep /\ ProtocolTurn /\ task[Sweeper].pc = "run"
      /\ now \in Nat /\ sweep \in SweepType
  BY SweepStepStep, SweepTurn
  DEF Tasks, Turn, SweepStep, SweepRing, SweepDead, SweepPut, SweepAdvance, SweepEnd,
      IInv, SweepOK
<1>1. ASSUME \/ Finish(Sweeper) \/ (\E pc \in PCs \ Entering : \E c : Await(Sweeper, pc, c))
             \/ UNCHANGED task,
             now' = now,
             \/ UNCHANGED sweep
             \/ \E c \in CallIds : sweep' = [sweep EXCEPT !.queue = @ \ {c}]
      PROVE  SweptApart'
  <2>1. \A s \in Tasks : s # Sweeper => task'[s] = task[s]
    BY <1>1 DEF Finish, Await, IInv, TasksOK
  <2>2. task'[Sweeper].pc \notin Entering
    <3>1. CASE Finish(Sweeper)
      BY <1>0, <3>1 DEF Finish, IInv, TasksOK, IdleTask, Entering
    <3>2. CASE \E pc \in PCs \ Entering : \E c : Await(Sweeper, pc, c)
      BY <1>0, <3>2 DEF Await, IInv, TasksOK, TaskType
    <3>3. CASE UNCHANGED task
      BY <1>0, <3>3 DEF Entering
    <3> QED BY <1>1, <3>1, <3>2, <3>3
  <2>3. /\ sweep'.at = sweep.at /\ sweep'.phase = sweep.phase
        /\ sweep'.queue \subseteq sweep.queue
    BY <1>0, <1>1 DEF SweepType
  <2> QED BY <1>0, <1>1, <2>1, <2>2, <2>3, TaskKeepsApart
<1>2. {"stopping", "putting"} \subseteq PCs \ Entering
  BY DEF PCs, Entering
<1>3. ASSUME NEW c \in CallIds, SweepRing(c) \/ SweepDead(c) PROVE SweptApart'
  BY <1>1, <1>2, <1>3 DEF SweepRing, SweepDead, EndReleasingAgent
<1>4. ASSUME NEW c \in CallIds, SweepPut(c) PROVE SweptApart'
  BY <1>1, <1>2, <1>4 DEF SweepPut
<1>5. ASSUME SweepAdvance PROVE SweptApart'
  <2>1. UNCHANGED <<now, calls, task>> /\ sweep'.at = sweep.at
        /\ \/ sweep'.phase = "dead" /\ sweep'.queue = DeadCalls(calls, live, sweep.at)
           \/ sweep'.phase = "archive"
    BY <1>0, <1>5 DEF SweepAdvance, SweepType
  <2>2. ASSUME NEW c \in DeadCalls(calls, live, sweep.at)
        PROVE  /\ ~RingStillGoverns(calls[c])
               /\ calls[c].state = "active" => now - calls[c].createdAt >= MaxLifetime
    <3>1. /\ ~RingStillGoverns(calls[c]) /\ c \in CallIds
          /\ calls[c].state = "active" => sweep.at - calls[c].createdAt >= MaxLifetime
      BY <2>2 DEF DeadCalls, OutlivedBounds, IInv, MapOK
    <3>2. sweep.at <= now /\ sweep.at \in Nat /\ calls[c].createdAt \in Nat
          /\ MaxLifetime \in Nat
      BY <1>0, <3>1, LimitAssumption DEF SweptApart, SweepType, IInv, CallsOK, Call
    <3> QED BY <1>0, <3>1, <3>2
  <2>3. DeadListed'
    BY <2>1, <2>2 DEF DeadListed, Over
  <2>4. RingsListed' /\ Untouched' /\ Fresh'
    BY <2>1 DEF SweptApart, RingsListed, Untouched, Fresh, Over
  <2> QED BY <2>1, <2>3, <2>4 DEF SweptApart
<1>6. ASSUME SweepEnd PROVE SweptApart'
  <2>1. /\ UNCHANGED <<now, calls>> /\ sweep'.at = 0
        /\ task'[Sweeper].pc = "idle"
        /\ \A r \in Reqs : task'[r] = task[r] \/ task'[r].pc = "resumed"
    BY <1>0, <1>6, SweeperAssumption
    DEF SweepEnd, NoSweep, IdleTask, IInv, TasksOK, TaskType, Tasks
  <2>2. Untouched' /\ RingsListed' /\ DeadListed'
    BY <2>1 DEF Untouched, RingsListed, DeadListed
  <2>3. Fresh'
    BY <2>1 DEF SweptApart, Fresh, Over
  <2> QED BY <1>0, <2>1, <2>2, <2>3 DEF SweptApart
<1> QED BY <1>3, <1>4, <1>5, <1>6 DEF SweepStep

LEMMA NextKeepsApart ==
    ASSUME Signing = "microtask", IInv, SweptApart, [Next]_vars
    PROVE  SweptApart'
<1>0. Sweeper \in Tasks /\ Reqs \subseteq Tasks /\ Sweeper \notin Reqs /\ LegalStep /\ ProtocolTurn
  BY SweeperAssumption, NextStep, NextTurn DEF Tasks, Turn
<1>1. ASSUME UNCHANGED vars PROVE SweptApart'
  BY <1>1 DEF SweptApart, Untouched, Fresh, RingsListed, DeadListed, Over, vars
<1>2. ASSUME Tick PROVE SweptApart'
  <2>1. now' >= now /\ UNCHANGED <<calls, task, sweep>> /\ now' \in Nat /\ now \in Nat
        /\ sweep.at \in Nat
    BY <1>2 DEF Tick, IInv, SweepOK, SweepType
  <2>2. sweep'.at <= now'
    BY <2>1 DEF SweptApart
  <2>3. RingsListed' /\ DeadListed'
    <3>1. CASE task[Sweeper].pc = "idle"
      BY <2>1, <3>1 DEF RingsListed, DeadListed
    <3>2. CASE task[Sweeper].pc # "idle"
      BY <1>0, <2>1, <3>2, ListsStand
    <3> QED BY <3>1, <3>2
  <2> QED BY <2>1, <2>2, <2>3 DEF SweptApart, Untouched, Fresh, Over
<1>3. ASSUME SweepTimer PROVE SweptApart'
  <2>1. \A r \in Reqs : task'[r] = task[r] /\ task[r].pc \notin Entering
    BY <1>0, <1>3 DEF SweepTimer, Quiet, Runnable, Entering, IInv, TasksOK
  <2> QED BY <1>3, <2>1, StartKeepsApart DEF SweepTimer
<1>4. ASSUME NEW ok \in BOOLEAN, PutReturns(ok) PROVE SweptApart'
  <2>1. /\ \A s \in Tasks : s # Sweeper => task'[s] = task[s]
        /\ task'[Sweeper].pc \notin Entering /\ task[Sweeper].pc # "idle"
    BY <1>0, <1>4 DEF PutReturns, Finish, IInv, TasksOK, IdleTask, Entering
  <2>2. /\ sweep'.at = sweep.at /\ sweep'.phase = sweep.phase
        /\ sweep'.queue \subseteq sweep.queue /\ now' = now
    BY <1>4 DEF PutReturns, IInv, SweepOK, SweepType
  <2> QED BY <1>0, <2>1, <2>2, TaskKeepsApart
<1> QED BY <1>1, <1>2, <1>3, <1>4, SweepKeepsApart, StopKeepsApart, RequestKeepsApart,
           ContinueKeepsApart DEF Next

LEMMA InitApart ==
    ASSUME Init
    PROVE  SweptApart
<1>1. Sweeper \in Tasks /\ Reqs \subseteq Tasks /\ IdleTask.pc = "idle"
      /\ NoSweep.at = 0 /\ NoSweep.phase = "rings" /\ NoSweep.queue = {}
  BY DEF Tasks, IdleTask, NoSweep
<1> QED BY <1>1 DEF Init, SweptApart, Untouched, Fresh, RingsListed, DeadListed, Entering

\* While the sweeper works from its lists no request lets anybody in or answers:
\* every handler that does waits for the sweep, and only a signer that gives up the
\* thread could leave one half way (routes/calls.ts, `await sweeper.sweep()`).
THEOREM SweepIsApart ==
    ASSUME Signing = "microtask"
    PROVE  Spec => []SweptApart
<1>1. Init => SweptApart
  BY InitApart
<1>2. IInv /\ SweptApart /\ [Next]_vars => SweptApart'
  BY NextKeepsApart
<1> QED BY <1>1, <1>2, InductiveInvariant, PTL DEF Spec

----------------------------------------------------------------------------
(* What the sweeper may do, and the refinement. *)

LEMMA SweeperSpares ==
    ASSUME Signing = "microtask", IInv, SweptApart, [Next]_vars, NEW c \in CallIds,
           calls[c].state = "active", calls[c].ring # "ringing", calls'[c].state = "ended",
           task[Sweeper].pc = "run"
    PROVE  calls'[c].ring = calls[c].ring /\ now - calls[c].createdAt >= MaxLifetime
<1>0. /\ Sweeper \in Tasks /\ Reqs \subseteq Tasks /\ ~Quiet /\ now \in Nat
      /\ CallsOK /\ Sound(calls[c]) /\ calls[c] \in Call
      /\ \A r \in Reqs : task[r].pc \notin Entering
  BY DEF Tasks, Quiet, Runnable, IInv, CallsOK, SweptApart, Untouched
<1>1. calls' # calls
  OBVIOUS
<1>2. ~(\E r \in Reqs : Continue(r))
  BY <1>0, <1>1
  DEF Continue, CreateRing, CreateBusy, Join, JoinMinted, Accept, Decline, Cancel,
      AnswerUnchanged, SendJob, DispatchReturns, Resumes, Entering
<1>3. ~(\E r \in Reqs : Request(r))
  BY <1>0
  DEF Request, RequestCreate, CreateInvite, RequestOnCall, End, Verdict, SetMode, RequestPoll,
      Arrives
<1>4. SweepStep
  BY <1>0, <1>1, <1>2, <1>3 DEF Next, Tick, SweepTimer, PutReturns, StopReturns, vars
<1>5. ASSUME NEW d \in CallIds, SweepRing(d) PROVE FALSE
  <2>1. d \in live /\ EndReleasingAgent(Sweeper, d, EndRing(calls[d], "timeout", now))
        /\ d \in sweep.queue /\ sweep.phase = "rings"
    BY <1>1, <1>5 DEF SweepRing, NextInQueue
  <2>2. d = c
    BY <1>0, <2>1 DEF EndReleasingAgent, Write, CallsOK
  <2>3. calls[c].ring # "none" /\ calls[c].ring # "accepted"
    BY <2>1, <2>2 DEF SweptApart, RingsListed
  <2>4. calls[c].ring \in DeadRings
    BY <1>0, <2>3 DEF Call, RingStates, LiveRings
  <2> QED BY <1>0, <2>4 DEF Sound
<1>6. ASSUME NEW d \in CallIds, SweepDead(d)
      PROVE  calls'[c].ring = calls[c].ring /\ now - calls[c].createdAt >= MaxLifetime
  <2>1. EndReleasingAgent(Sweeper, d, EndCall(calls[d], now))
        /\ d \in sweep.queue /\ sweep.phase = "dead"
    BY <1>6 DEF SweepDead, NextInQueue
  <2>2. d = c /\ calls'[c] = EndCall(calls[c], now)
    BY <1>0, <2>1 DEF EndReleasingAgent, Write, CallsOK
  <2>3. calls'[c].ring = calls[c].ring
    BY <1>0, <2>2, EndCallFields
  <2> QED BY <2>1, <2>2, <2>3 DEF SweptApart, DeadListed, Over
<1>7. ~(\E d \in CallIds : SweepPut(d)) /\ ~SweepAdvance /\ ~SweepEnd
  BY <1>1 DEF SweepPut, SweepAdvance, SweepEnd
<1> QED BY <1>4, <1>5, <1>6, <1>7 DEF SweepStep

\* The sweeper neither times out an answered ring somebody joined nor ends a call in
\* use before its ceiling, however old its lists are (ringing.ts, store.ts
\* deadCalls).
THEOREM TheJoinedAreSpared ==
    ASSUME Signing = "microtask"
    PROVE  Spec => SweeperSparesTheJoined
<1> DEFINE Spared == \A c \in CallIds :
        calls[c].state = "active" /\ calls[c].ring # "ringing" /\ calls'[c].state = "ended"
          /\ task[Sweeper].pc = "run"
          => calls'[c].ring = calls[c].ring /\ now - calls[c].createdAt >= MaxLifetime
<1>1. IInv /\ SweptApart /\ [Next]_vars => Spared
  BY SweeperSpares
<1>2. Spared => [Spared]_vars
  OBVIOUS
<1> QED BY <1>1, <1>2, InductiveInvariant, SweepIsApart, PTL DEF Spec, SweeperSparesTheJoined

\* Every handler, and the sweeper, moves a call only along the diagram of types.ts:
\* the call half of the backend implements CallProtocol.
THEOREM ProtocolIsImplemented ==
    ASSUME Signing = "microtask"
    PROVE  Spec => ImplementsProtocol
<1>1. Init => Protocol!PInit
  <2>1. UnbornCall.state = "unborn" /\ UnbornCall.ring = "none"
    <3> DEFINE first == CreateCall(NoUser, NoUser, "DIRECT", 0, 0)
    <3>1. first \in Call /\ first.ring = "none"
      BY CreatedIsSound DEF Sound, CreateCall, Modes
    <3>2. UnbornCall = [first EXCEPT !.state = "unborn"]
      BY DEF UnbornCall
    <3> HIDE DEF first
    <3> QED BY <3>1, <3>2 DEF Call
  <2> QED BY <2>1 DEF Init, Protocol!PInit
<1>2. IInv /\ SweptApart /\ [Next]_vars => [Protocol!PNext]_(Protocol!pvars)
  <2> SUFFICES ASSUME IInv, SweptApart, [Next]_vars
               PROVE  [Protocol!PNext]_(Protocol!pvars)
    OBVIOUS
  <2>1. ProtocolTurn
    BY NextTurn DEF Turn
  <2>2. CASE UNCHANGED <<states, rings>>
    BY <2>2 DEF Protocol!pvars, states, rings
  <2>3. CASE ~UNCHANGED <<states, rings>>
    BY <2>1, <2>3 DEF ProtocolTurn, Refused, Opened, Protocol!PNext
  <2> QED BY <2>2, <2>3
<1> QED BY <1>1, <1>2, InductiveInvariant, SweepIsApart, PTL
        DEF Spec, ImplementsProtocol, Protocol!PSpec
============================================================================
