--------------------------- MODULE AgentService ---------------------------
(***************************************************************************)
(* The agent process, for one call: AgentService and its job routes        *)
(* (agent/src/speakeasy_agent/main.py) and the life of its relays          *)
(* (relay.py).  Everything the service keeps is keyed by the call id, so   *)
(* one call is enough.  Whoever sends the requests is in CallWithAgent.    *)
(*                                                                         *)
(* One asyncio loop: each action runs up to the next await that suspends.  *)
(* A room is LiveKit's: one participant per identity, so a relay that      *)
(* connects puts out the one that was there.                               *)
(***************************************************************************)
EXTENDS Integers

CONSTANTS
    Relays,         \* Relay objects
    NoRelay,        \* no entry in the dictionaries
    Handlers,       \* HTTP requests being served at the same time
    MaxHumans,      \* bound: people in the room
    Grace,          \* EMPTY_ROOM_TIMEOUT_S in watchdog polls
    Deployments     \* subset of BOOLEAN: is an orchestrator configured?

ASSUME RelayAssumption == NoRelay \notin Relays
ASSUME GraceAssumption == Grace \in Nat \ {0} /\ MaxHumans \in Nat
ASSUME DeploymentAssumption == Deployments \subseteq BOOLEAN

VARIABLES
    routed,         \* whether an orchestrator is configured; never changes
    relay,          \* the Relay objects and their supervisor tasks
    registered,     \* _relays and _tasks at this call id
    handler,        \* the job requests being served
    humans          \* people in the LiveKit room

svars == <<routed, relay, registered, handler, humans>>

Phases == {"none",          \* not started, or done and out of the room
           "connecting", "preparing",   \* run() up to agent_ready
           "serving",       \* awaiting _stopped
           "closing",       \* aclose()
           "aborting",      \* aclose() of a relay that never entered the room
           "hung",          \* aclose() awaits an STT flush that cannot return
           "broken"}        \* aclose() broke off: the task is done, the room is not left
Answers == {"accepted", "already_running", "error", "stopped", "not_found"}
PCs == {"idle",
        "resolving",        \* start_job awaiting resolve_for_call
        "waiting",          \* stop_job awaiting the task, for 5 s
        "killing"}          \* stop_job awaiting the task it cancelled
       \cup Answers

GoneRelay == [phase |-> "none", stopped |-> FALSE, inRoom |-> FALSE, unseen |-> 0]
IdleHandler == [pc |-> "idle", relay |-> NoRelay]

SInit ==
    /\ routed \in Deployments
    /\ relay = [i \in Relays |-> GoneRelay]
    /\ registered = NoRelay
    /\ handler = [h \in Handlers |-> IdleHandler]
    /\ humans = 0

\* Its supervisor task is not done.
Alive(i) == relay[i].phase \notin {"none", "broken"}

\* An object nobody holds any more, to stand for a new one.
Unused(i) == /\ relay[i] = GoneRelay
             /\ \A h \in Handlers : handler[h].relay # i

\* The event run() awaits; the watchdog has nothing more to tell.
Stopped(r) == [r EXCEPT !.stopped = TRUE, !.unseen = 0]

\* A relay in aclose(): nothing looks at its flag or its clock.  One that was still
\* connecting has neither readers nor directions to close.
Closing(i) ==
    [Stopped(relay[i]) EXCEPT !.phase = IF @ = "connecting" THEN "aborting" ELSE "closing"]

\* The room without r in it: nothing is left of a relay that was broken.
PutOut(r) == IF r.phase = "broken" THEN GoneRelay ELSE [r EXCEPT !.inRoom = FALSE]

Respond(h, answer) == handler' = [handler EXCEPT ![h] = [IdleHandler EXCEPT !.pc = answer]]

----------------------------------------------------------------------------
(* POST /jobs *)

\* Relay(...), the two entries and the supervisor task.
Register(h, i) ==
    /\ Unused(i)
    /\ relay' = [relay EXCEPT ![i].phase = "connecting"]
    /\ registered' = i
    /\ Respond(h, "accepted")

\* Mutant: the job is accepted whatever is running.
ReceiveStartUnchecked(h) ==
    /\ handler[h].pc = "idle"
    /\ IF routed
       THEN /\ handler' = [handler EXCEPT ![h].pc = "resolving"]
            /\ UNCHANGED <<relay, registered>>
       ELSE \E i \in Relays : Register(h, i)
    /\ UNCHANGED <<routed, humans>>

\* Without an orchestrator resolve_for_call does not suspend.
ReceiveStart(h) ==
    /\ handler[h].pc = "idle"
    /\ \/ /\ registered # NoRelay
          /\ Respond(h, "already_running")
          /\ UNCHANGED <<relay, registered>>
       \/ /\ registered = NoRelay /\ routed
          /\ handler' = [handler EXCEPT ![h].pc = "resolving"]
          /\ UNCHANGED <<relay, registered>>
       \/ /\ registered = NoRelay /\ ~routed
          /\ \E i \in Relays : Register(h, i)
    /\ UNCHANGED <<routed, humans>>

\* The engine is known, or given up on: the entries are written unconditionally.
Resolved(h) ==
    /\ handler[h].pc = "resolving"
    /\ \E i \in Relays : Register(h, i)
    /\ UNCHANGED <<routed, humans>>

\* A provider of the chosen engine cannot be built.
ResolvedToError(h) ==
    /\ handler[h].pc = "resolving"
    /\ Respond(h, "error")
    /\ UNCHANGED <<routed, relay, registered, humans>>

----------------------------------------------------------------------------
(* POST /jobs/{call_id}/stop *)

ReceiveStop(h) ==
    /\ handler[h].pc = "idle"
    /\ IF registered = NoRelay
       THEN /\ Respond(h, "not_found")
            /\ UNCHANGED relay
       ELSE /\ relay' = [relay EXCEPT ![registered] = Stopped(@)]
            /\ handler' = [handler EXCEPT ![h] = [pc |-> "waiting", relay |-> registered]]
    /\ UNCHANGED <<routed, registered, humans>>

\* The answer keeps the relay it speaks of until the client has it.
StopDone(h) ==
    /\ handler[h].pc \in {"waiting", "killing"} /\ ~Alive(handler[h].relay)
    /\ handler' = [handler EXCEPT ![h].pc = "stopped"]
    /\ UNCHANGED <<routed, relay, registered, humans>>

\* _supervise's last step: the entries of the call id go, whoever's they are.
Unregister(i, r) ==
    /\ relay' = [relay EXCEPT ![i] = r]
    /\ registered' = NoRelay

\* aclose() is left by an exception and is not entered again (_closed is set): the
\* room is not disconnected, and what is left of the relay keeps its place in it.
BrokenOff(i) ==
    IF relay[i].inRoom THEN [GoneRelay EXCEPT !.phase = "broken", !.inRoom = TRUE] ELSE GoneRelay

\* task.cancel(): run() goes on to aclose(); a cancellation that reaches aclose()
\* itself ends it where it is, unless it is swallowed there (while the watchdog or a
\* reader is awaited).
Cancelled(i) ==
    \/ /\ relay[i].phase \in {"connecting", "preparing", "serving"}
       /\ relay' = [relay EXCEPT ![i] = Closing(i)]
       /\ UNCHANGED registered
    \/ /\ relay[i].phase \in {"closing", "aborting", "hung"}
       /\ Unregister(i, BrokenOff(i))
    \/ /\ relay[i].phase \in {"closing", "aborting"}
       /\ UNCHANGED <<relay, registered>>

\* Mutant: the task is cancelled and not awaited.
StopKillsAtOnce(h) ==
    /\ handler[h].pc = "waiting" /\ Alive(handler[h].relay)
    /\ handler' = [handler EXCEPT ![h].pc = "stopped"]
    /\ Cancelled(handler[h].relay)
    /\ UNCHANGED <<routed, humans>>

\* After 5 s the task is cancelled and awaited, this time without a limit.
StopKills(h) ==
    /\ handler[h].pc = "waiting" /\ Alive(handler[h].relay)
    /\ handler' = [handler EXCEPT ![h].pc = "killing"]
    /\ Cancelled(handler[h].relay)
    /\ UNCHANGED <<routed, humans>>

----------------------------------------------------------------------------
(* Relay.run and aclose *)

Connected(i) ==
    /\ relay[i].phase = "connecting"
    /\ relay' = [j \in Relays |->
                   IF j = i THEN [relay[i] EXCEPT !.phase = "preparing", !.inRoom = TRUE]
                            ELSE PutOut(relay[j])]
    /\ UNCHANGED <<routed, registered, handler, humans>>

\* Tracks published, directions started, watchdog running.
Ready(i) ==
    /\ relay[i].phase = "preparing"
    /\ relay' = [relay EXCEPT ![i].phase = "serving"]
    /\ UNCHANGED <<routed, registered, handler, humans>>

\* The connection times out, a track or an STT session cannot be had.
Fails(i) ==
    /\ relay[i].phase \in {"connecting", "preparing"}
    /\ relay' = [relay EXCEPT ![i] = Closing(i)]
    /\ UNCHANGED <<routed, registered, handler, humans>>

\* The room's disconnected event, of a relay that another one put out of the room.
Evicted(i) ==
    /\ relay[i].phase \in {"preparing", "serving"} /\ ~relay[i].inRoom
    /\ ~relay[i].stopped
    /\ relay' = [relay EXCEPT ![i] = Stopped(@)]
    /\ UNCHANGED <<routed, registered, handler, humans>>

\* The same event, when the server lets go of the relay.
Dropped(i) ==
    /\ relay[i].inRoom
    /\ relay' = [relay EXCEPT ![i] = PutOut(Stopped(relay[i]))]
    /\ UNCHANGED <<routed, registered, handler, humans>>

Closes(i) ==
    /\ relay[i].phase = "serving" /\ relay[i].stopped
    /\ relay' = [relay EXCEPT ![i] = Closing(i)]
    /\ UNCHANGED <<routed, registered, handler, humans>>

\* aclose() is through: out of the room, and _supervise is done.
Ends(i) ==
    /\ relay[i].phase \in {"closing", "aborting"}
    /\ Unregister(i, GoneRelay)
    /\ UNCHANGED <<routed, handler, humans>>

\* Somebody comes or goes while aclose() awaits a reader: the loop over the readers
\* raises, and nothing behind it is done.
Breaks(i) ==
    /\ relay[i].phase = "closing" /\ relay[i].inRoom
    /\ Unregister(i, BrokenOff(i))
    /\ UNCHANGED <<routed, handler, humans>>

\* The flush of a direction whose STT sender is dead: only a cancellation ends it.
Hangs(i) ==
    /\ relay[i].phase = "closing"
    /\ relay' = [relay EXCEPT ![i].phase = "hung"]
    /\ UNCHANGED <<routed, registered, handler, humans>>

\* Mutant: the watchdog has no patience with a room nobody came to yet.
ObserveAtOnce(r) == IF r.phase = "serving" /\ humans = 0 THEN Stopped(r) ELSE r

\* Mutant: every poll counts as having seen somebody.
ObserveResets(r) == IF r.phase = "serving" THEN [r EXCEPT !.unseen = 0] ELSE r

\* One watchdog poll.  The time runs from the construction of the relay; a relay
\* that is not serving yet does not look, one that was stopped need not.
Observe(r) ==
    IF r.phase \notin {"connecting", "preparing", "serving"} \/ r.stopped THEN r
    ELSE IF r.phase = "serving" /\ humans > 0 THEN [r EXCEPT !.unseen = 0]
    ELSE IF r.phase = "serving" /\ r.unseen + 1 >= Grace THEN Stopped(r)
    ELSE [r EXCEPT !.unseen = IF @ + 1 < Grace THEN @ + 1 ELSE @]

WatchTick ==
    /\ relay' = [i \in Relays |-> Observe(relay[i])]
    /\ UNCHANGED <<routed, registered, handler, humans>>

\* The process dies and comes back: nothing is kept.
Restart ==
    /\ relay' = [i \in Relays |-> GoneRelay]
    /\ registered' = NoRelay
    /\ handler' = [h \in Handlers |-> IdleHandler]
    /\ UNCHANGED <<routed, humans>>

----------------------------------------------------------------------------
(* People, and whoever hears the answers. *)

Enter == humans < MaxHumans /\ humans' = humans + 1
         /\ UNCHANGED <<routed, relay, registered, handler>>
Leave == humans > 0 /\ humans' = humans - 1
         /\ UNCHANGED <<routed, relay, registered, handler>>

Answered(h) ==
    /\ handler[h].pc \in Answers
    /\ handler' = [handler EXCEPT ![h] = IdleHandler]
    /\ UNCHANGED <<routed, relay, registered, humans>>

RelayStep(i) ==
    Connected(i) \/ Ready(i) \/ Fails(i) \/ Evicted(i) \/ Closes(i)
    \/ Ends(i) \/ Breaks(i) \/ Hangs(i)

HandlerStep(h) == Resolved(h) \/ ResolvedToError(h) \/ StopDone(h) \/ StopKills(h)

SNext ==
    \/ \E h \in Handlers : ReceiveStart(h) \/ ReceiveStop(h) \/ HandlerStep(h) \/ Answered(h)
    \/ \E i \in Relays : RelayStep(i) \/ Dropped(i)
    \/ WatchTick \/ Restart \/ Enter \/ Leave

SSpec == SInit /\ [][SNext]_svars

----------------------------------------------------------------------------
(* Properties of the service. *)

RelayType == [phase : Phases, stopped : BOOLEAN, inRoom : BOOLEAN, unseen : 0 .. Grace - 1]

\* Every variable has its type.
ServiceTypeOK ==
    /\ routed \in BOOLEAN
    /\ relay \in [Relays -> RelayType]
    /\ registered \in Relays \cup {NoRelay}
    /\ handler \in [Handlers -> [pc : PCs, relay : Relays \cup {NoRelay}]]
    /\ humans \in 0 .. MaxHumans

\* A stop finds every relay there is, and there is one at most: unless an
\* orchestrator is asked between the check of POST /jobs and the registration.
AliveIsRegistered ==
    ~routed => \A i \in Relays : Alive(i) => registered = i

\* Who is told "stopped" speaks of a relay that is over, however the stop and the
\* closing overlapped: its task is done, nothing is registered for it, and it is out
\* of the room unless its aclose() broke off, by itself or cut by the stop.
StoppedIsOver ==
    \A h \in Handlers : handler[h].pc = "stopped" /\ handler[h].relay # NoRelay =>
        LET i == handler[h].relay IN
        /\ ~Alive(i) /\ registered # i
        /\ relay[i].inRoom => relay[i].phase = "broken"
============================================================================
