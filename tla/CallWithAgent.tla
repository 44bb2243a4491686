-------------------------- MODULE CallWithAgent --------------------------
(***************************************************************************)
(* One call of the backend and the agent that serves it, over HTTP that    *)
(* loses, delays and gives up: dispatchAgent and stopAgent of              *)
(* backend/src/agentClient.ts against the job routes of AgentService.      *)
(* The call is what CallLifecycle makes of it, reduced to what the agent   *)
(* can tell: over, joined by somebody, believed to have an agent.          *)
(***************************************************************************)
EXTENDS AgentService

CONSTANTS
    Window,         \* how long a call nobody joined may last, in polls
    MaxStarts       \* bound: dispatches
ASSUME WindowAssumption == Window \in Nat /\ MaxStarts \in Nat

VARIABLES
    over,           \* call.state = "ended"
    joined,         \* call.state # "created"
    dispatched,     \* call.agent.dispatched
    age,            \* of a call nobody has joined
    asking,         \* what the backend awaits in each of its requests
    wire,           \* requests not delivered yet
    starts          \* how often it was dispatched, for the bound

bvars == <<over, joined, dispatched, age, asking, wire, starts>>
vars == <<routed, relay, registered, handler, humans,
          over, joined, dispatched, age, asking, wire, starts>>

Requests == {"none", "start", "stop"}

Init ==
    /\ SInit
    /\ over = FALSE /\ joined = FALSE /\ dispatched = FALSE /\ age = 0 /\ starts = 0
    /\ asking = [h \in Handlers |-> "none"]
    /\ wire = [h \in Handlers |-> "none"]

\* A connection the backend may use: nothing of it is left at the agent.
Free(h) == asking[h] = "none" /\ wire[h] = "none" /\ handler[h] = IdleHandler

Send(h, request) ==
    /\ Free(h)
    /\ asking' = [asking EXCEPT ![h] = request]
    /\ wire' = [wire EXCEPT ![h] = request]

----------------------------------------------------------------------------
(* The backend. *)

\* POST /api/calls, and POST .../mode again while nobody has joined.
Dispatch(h) ==
    /\ ~over /\ ~joined /\ starts < MaxStarts /\ Send(h, "start")
    /\ starts' = starts + 1
    /\ UNCHANGED <<svars, over, joined, dispatched, age>>

\* POST .../mode comes to DIRECT.
Undispatch(h) ==
    /\ ~over /\ ~joined /\ dispatched /\ Send(h, "stop")
    /\ UNCHANGED <<svars, over, joined, dispatched, age, starts>>

\* Any end of the call: the agent it is believed to have is stopped.
End(h) ==
    /\ ~over /\ over' = TRUE
    /\ IF dispatched THEN Send(h, "stop") ELSE UNCHANGED <<asking, wire>>
    /\ UNCHANGED <<svars, joined, dispatched, age, starts>>

\* A second hang-up while the first one's stop is in flight, or after a late dispatch.
EndAgain(h) ==
    /\ over /\ dispatched /\ Send(h, "stop")
    /\ UNCHANGED <<svars, over, joined, dispatched, age, starts>>

\* POST .../join and the room: the first to enter makes the call active.
Join ==
    /\ ~over /\ Enter
    /\ joined' = TRUE
    /\ UNCHANGED <<over, dispatched, age, asking, wire, starts>>

LeaveRoom == Leave /\ UNCHANGED bvars

\* 202 and 409 alike are an agent; after a stop there is none, whatever it said.
Hear(h) ==
    /\ asking[h] # "none" /\ handler[h].pc \in Answers
    /\ dispatched' = (handler[h].pc \in {"accepted", "already_running"})
    /\ asking' = [asking EXCEPT ![h] = "none"]
    /\ Answered(h)
    /\ UNCHANGED <<over, joined, age, wire, starts>>

\* TIMEOUT_MS, or a connection that fails: the request is lost, or the agent is at
\* it, or about to be.
GiveUp(h) ==
    /\ asking[h] # "none"
    /\ dispatched' = FALSE
    /\ asking' = [asking EXCEPT ![h] = "none"]
    /\ \/ UNCHANGED wire
       \/ wire[h] # "none" /\ wire' = [wire EXCEPT ![h] = "none"]
    /\ UNCHANGED <<svars, over, joined, age, starts>>

----------------------------------------------------------------------------
(* The network. *)

Deliver(h) ==
    /\ \/ wire[h] = "start" /\ ReceiveStart(h)
       \/ wire[h] = "stop" /\ ReceiveStop(h)
    /\ wire' = [wire EXCEPT ![h] = "none"]
    /\ UNCHANGED <<over, joined, dispatched, age, asking, starts>>

\* Nobody waits for this answer any more.
Forget(h) == asking[h] = "none" /\ Answered(h) /\ UNCHANGED bvars

----------------------------------------------------------------------------
(* The agent, and time. *)

AgentStep ==
    /\ \/ \E i \in Relays : RelayStep(i) \/ Dropped(i)
       \/ \E h \in Handlers : HandlerStep(h)
    /\ UNCHANGED bvars

AgentRestart == Restart /\ UNCHANGED bvars

\* Mutant: a call nobody joins is kept.
TickUnswept ==
    /\ WatchTick
    /\ age' = IF over \/ joined \/ age > Window THEN age ELSE age + 1
    /\ UNCHANGED <<over, joined, dispatched, asking, wire, starts>>

\* A call nobody joined is ended by its ring's deadline, or by the idle limit.
Tick ==
    /\ WatchTick
    /\ over \/ joined \/ age < Window
    /\ age' = IF over \/ joined THEN age ELSE age + 1
    /\ UNCHANGED <<over, joined, dispatched, asking, wire, starts>>

Next ==
    \/ \E h \in Handlers : \/ Dispatch(h) \/ Undispatch(h) \/ End(h) \/ EndAgain(h)
                           \/ Hear(h) \/ GiveUp(h)
                           \/ Deliver(h) \/ Forget(h)
    \/ Join \/ LeaveRoom
    \/ AgentStep \/ AgentRestart \/ Tick

Spec == Init /\ [][Next]_vars

\* What awaits at the agent comes to an end, a request arrives unless it is given up
\* and lost, the watchdog polls, and people leave the room of a call that is over.
\* A request is served one step after the other: one condition for each will do.
Fairness ==
    /\ \A i \in Relays : WF_vars(RelayStep(i) /\ UNCHANGED bvars)
    /\ \A h \in Handlers : WF_vars(Deliver(h) \/ (HandlerStep(h) /\ UNCHANGED bvars))
    /\ WF_vars(Tick)
    /\ WF_vars(over /\ LeaveRoom)

FairSpec == Spec /\ Fairness

----------------------------------------------------------------------------
(* Properties. *)

\* Every variable has its type, and an agent's handler works on what was sent.
TypeOK ==
    /\ ServiceTypeOK
    /\ over \in BOOLEAN /\ joined \in BOOLEAN /\ dispatched \in BOOLEAN
    /\ age \in 0 .. Window /\ starts \in 0 .. MaxStarts
    /\ asking \in [Handlers -> Requests] /\ wire \in [Handlers -> Requests]
    /\ \A h \in Handlers : wire[h] # "none" => handler[h] = IdleHandler

\* relay.py: the watchdog's grace "must comfortably exceed the whole ring window,
\* because the agent is dispatched when the call is CREATED and the room is
\* legitimately empty until somebody answers".  It never gives up on a call that
\* is still waiting for its first participant.
WaitsForTheAnswer ==
    [][\A i \in Relays :
        Tick /\ relay'[i].stopped /\ ~relay[i].stopped => over \/ joined]_vars

\* Once its call is over no agent stays in the room for ever, not when its stop is
\* lost, late or never sent, not when two relays were started for the call: but for
\* those whose aclose() broke off or hangs, which nothing will close.
AgentLeaves ==
    over ~> [](\A i \in Relays : relay[i].inRoom => relay[i].phase \in {"broken", "hung"})
==========================================================================
