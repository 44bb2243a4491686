-------------------------- MODULE CallLifecycle --------------------------
(***************************************************************************)
(* The call half of the backend: routes/calls.ts, ringing.ts and the live  *)
(* Map of store.ts, run by one Node event loop.                            *)
(*                                                                         *)
(* A task is a request being served, or the sweeper.  Each action is what  *)
(* a task does between two awaits, in full.  An await on the network or on *)
(* a file ends the task's turn of the event loop; an await that needs no   *)
(* I/O (the sweep promise once it is settled, a finished sweep step) only  *)
(* goes to the microtask queue, which the loop empties before anything     *)
(* else happens: Microtask below.  Whether the token signer gives up the   *)
(* thread is a property of a library, so it is a constant: Signing.        *)
(***************************************************************************)
EXTENDS CallStore

CONSTANTS
    Reqs,           \* slots for requests being served at the same time
    Sweeper,        \* the one background task
    Signing,        \* "microtask" or "yields": how `await mint...Token` resolves
    SlowIO,         \* whether an answer of the network or a disk may take ticks
    Arriving,       \* bound: the kinds of request clients make
    Resolvable,     \* bound: the modes resolveCall comes to
    LastArrival,    \* bound: no mutating request arrives after this tick
    MaxNow          \* bound: the clock stops here

ASSUME SweeperAssumption == Sweeper \notin Reqs
ASSUME SigningAssumption == Signing \in {"microtask", "yields"}
ASSUME SlowIOAssumption == SlowIO \in BOOLEAN
ASSUME BoundAssumption == LastArrival \in Nat /\ MaxNow \in Nat /\ Resolvable \subseteq Modes

VARIABLES
    now,        \* Date.now()
    calls,      \* the call objects; handlers hold references across awaits
    live,       \* keys of the Map: the calls getCall can find
    archived,   \* calls whose record put() has written
    task,       \* what each request slot, and the sweeper, is waiting for
    sweep       \* the locals of the sweep in flight

vars == <<now, calls, live, archived, task, sweep>>

Tasks == Reqs \cup {Sweeper}
RingOps == {"accept", "decline", "cancel"}
Ops == {"none", "create", "join", "mode", "end", "poll"} \cup RingOps
PCs == {"idle",       \* slot free, or no sweep in flight
        "sweeping",   \* awaiting the sweep in flight
        "resumed",    \* that promise settled: runs in this turn of the loop
        "minting",    \* join awaiting mintHumanToken
        "signing",    \* dispatchForCall awaiting mintAgentToken
        "dispatching",\* awaiting dispatchAgent
        "stopping",   \* awaiting stopAgent to release an ended call
        "unmode",     \* awaiting stopAgent because the mode became DIRECT
        "run",        \* the sweeper between two awaits
        "putting"}    \* the sweeper awaiting archive.put

NoCall == 0
IdleTask == [pc |-> "idle", op |-> "none", call |-> NoCall,
             user |-> NoUser, peer |-> NoUser, job |-> "DIRECT"]
Phases == {"rings", "dead", "archive"}
NoSweep == [at |-> 0, phase |-> "rings", queue |-> {}, stored |-> {}]

Init ==
    /\ now = 0
    /\ calls = [c \in CallIds |-> UnbornCall]
    /\ live = {} /\ archived = {}
    /\ task = [t \in Tasks |-> IdleTask]
    /\ sweep = NoSweep

----------------------------------------------------------------------------
(* The event loop. *)

Runnable(t) ==
    \/ task[t].pc \in {"resumed", "run"}
    \/ Signing = "microtask" /\ task[t].pc \in {"minting", "signing"}

\* The loop takes no new event while a microtask is queued.
Quiet == \A t \in Tasks : ~Runnable(t)

\* Setters go through the Map, so they do nothing to a forgotten call.
Write(c, call) ==
    calls' = IF c \in live THEN [calls EXCEPT ![c] = call] ELSE calls

\* The end of a task's turn: the request is answered, the sweep goes on.
Finish(t) ==
    task' = [task EXCEPT ![t] = IF t = Sweeper THEN [IdleTask EXCEPT !.pc = "run"]
                                               ELSE IdleTask]

Await(t, pc, c) == task' = [task EXCEPT ![t].pc = pc, ![t].call = c]

\* endCallReleasingAgent: the call is over at once, the agent after an await.
\* The flag is read off the object the task holds, which may be forgotten.
EndReleasingAgent(t, c, over) ==
    /\ Write(c, over)
    /\ IF calls[c].dispatched THEN Await(t, "stopping", c) ELSE Finish(t)

----------------------------------------------------------------------------
(* The sweep: createCallSweeper. *)

NothingDue == /\ DueRingCalls(calls, live, now) = {}
              /\ DeadCalls(calls, live, now) = {}
              /\ ArchivableCalls(calls, live, now) = {}

\* run()'s first turn: nowMs and the overdue rings are read once, here.
StartedSweep == [at |-> now, phase |-> "rings",
                 queue |-> DueRingCalls(calls, live, now), stored |-> {}]

\* `await sweeper.sweep()`: joins the sweep in flight, or starts one; one that
\* finds nothing to do settles within this turn.
AwaitSweep(r, waiting) ==
    IF task[Sweeper].pc = "idle" /\ NothingDue
    THEN /\ task' = [task EXCEPT ![r] = [waiting EXCEPT !.pc = "resumed"]]
         /\ UNCHANGED sweep
    ELSE IF task[Sweeper].pc = "idle"
    THEN /\ task' = [task EXCEPT ![r] = [waiting EXCEPT !.pc = "sweeping"],
                                 ![Sweeper].pc = "run"]
         /\ sweep' = StartedSweep
    ELSE /\ task' = [task EXCEPT ![r] = [waiting EXCEPT !.pc = "sweeping"]]
         /\ UNCHANGED sweep

\* The interval.  A tick with nothing due, or during a sweep, changes nothing.
SweepTimer ==
    /\ Quiet /\ task[Sweeper].pc = "idle" /\ ~NothingDue
    /\ task' = [task EXCEPT ![Sweeper].pc = "run"]
    /\ sweep' = StartedSweep
    /\ UNCHANGED <<now, calls, live, archived>>

NextInQueue(c) == c \in sweep.queue /\ \A d \in sweep.queue : c <= d

\* endRing(timeout) for one overdue ring; getCall may no longer find it.
SweepRing(c) ==
    /\ task[Sweeper].pc = "run" /\ sweep.phase = "rings" /\ NextInQueue(c)
    /\ sweep' = [sweep EXCEPT !.queue = @ \ {c}]
    /\ IF c \in live
       THEN EndReleasingAgent(Sweeper, c, EndRing(calls[c], "timeout", now))
       ELSE UNCHANGED <<calls, task>>
    /\ UNCHANGED <<now, live, archived>>

\* One call that outlived its bounds when the reaper looked.
SweepDead(c) ==
    /\ task[Sweeper].pc = "run" /\ sweep.phase = "dead" /\ NextInQueue(c)
    /\ sweep' = [sweep EXCEPT !.queue = @ \ {c}]
    /\ EndReleasingAgent(Sweeper, c, EndCall(calls[c], now))
    /\ UNCHANGED <<now, live, archived>>

SweepPut(c) ==
    /\ task[Sweeper].pc = "run" /\ sweep.phase = "archive" /\ NextInQueue(c)
    /\ Await(Sweeper, "putting", c)
    /\ UNCHANGED <<now, calls, live, archived, sweep>>

\* Mutant: a failed write is reported as stored.
PutReturnsAsStored(ok) ==
    LET c == task[Sweeper].call IN
    /\ Quiet /\ task[Sweeper].pc = "putting"
    /\ archived' = IF ok THEN archived \cup {c} ELSE archived
    /\ sweep' = [sweep EXCEPT !.queue = @ \ {c}, !.stored = @ \cup {c}]
    /\ Finish(Sweeper)
    /\ UNCHANGED <<now, calls, live>>

\* archive.put resolves; false leaves the call where it is until the next pass.
PutReturns(ok) ==
    LET c == task[Sweeper].call IN
    /\ Quiet /\ task[Sweeper].pc = "putting"
    /\ archived' = IF ok THEN archived \cup {c} ELSE archived
    /\ sweep' = [sweep EXCEPT !.queue = @ \ {c},
                              !.stored = IF ok THEN @ \cup {c} ELSE @]
    /\ Finish(Sweeper)
    /\ UNCHANGED <<now, calls, live>>

\* The next loop of run() takes its list.
SweepAdvance ==
    /\ task[Sweeper].pc = "run" /\ sweep.queue = {}
    /\ \/ /\ sweep.phase = "rings"
          /\ sweep' = [sweep EXCEPT !.phase = "dead",
                                    !.queue = DeadCalls(calls, live, sweep.at)]
       \/ /\ sweep.phase = "dead"
          /\ sweep' = [sweep EXCEPT !.phase = "archive",
                                    !.queue = ArchivableCalls(calls, live, sweep.at)]
    /\ UNCHANGED <<now, calls, live, archived, task>>

\* Mutant: the promise settles only when something was archived.
SweepEndIfStored ==
    /\ task[Sweeper].pc = "run" /\ sweep.queue = {} /\ sweep.phase = "archive"
    /\ sweep.stored # {}
    /\ live' = live \ sweep.stored
    /\ sweep' = NoSweep
    /\ task' = [t \in Tasks |->
                  IF t = Sweeper THEN IdleTask
                  ELSE IF task[t].pc = "sweeping" THEN [task[t] EXCEPT !.pc = "resumed"]
                  ELSE task[t]]
    /\ UNCHANGED <<now, calls, archived>>

\* forgetCalls, then the promise settles and every waiter is queued.
SweepEnd ==
    /\ task[Sweeper].pc = "run" /\ sweep.queue = {} /\ sweep.phase = "archive"
    /\ live' = live \ sweep.stored
    /\ sweep' = NoSweep
    /\ task' = [t \in Tasks |->
                  IF t = Sweeper THEN IdleTask
                  ELSE IF task[t].pc = "sweeping" THEN [task[t] EXCEPT !.pc = "resumed"]
                  ELSE task[t]]
    /\ UNCHANGED <<now, calls, archived>>

----------------------------------------------------------------------------
(* Requests.  A task starts at its HTTP route; u is the authenticated actor. *)

Start(op, u) == [IdleTask EXCEPT !.op = op, !.user = u]

Arrives(r, kind) ==
    Quiet /\ task[r].pc = "idle" /\ now <= LastArrival /\ kind \in Arriving

\* Routes that await the sweeper first: create with a ring, join, the ring
\* buttons, and the reads (GET call, presence heartbeat, ring poll).
RequestCreate(r, u, v) ==
    /\ Arrives(r, "create") /\ u # v
    /\ AwaitSweep(r, [Start("create", u) EXCEPT !.peer = v])
    /\ UNCHANGED <<now, calls, live, archived>>

\* The users a route serves; anybody else is refused after the sweep, as if he
\* had polled.
Served(op, call) == CASE op = "join"   -> Participants(call)
                      [] op = "cancel" -> {call.caller}
                      [] OTHER         -> {call.callee}

\* Mutant: join does not wait for the sweep in flight.
RequestOnCallUnswept(r, op, c, u) ==
    /\ Arrives(r, op) /\ calls[c].state # "unborn" /\ u \in Served(op, calls[c])
    /\ IF op = "join"
       THEN /\ task' = [task EXCEPT ![r] = [Start(op, u) EXCEPT !.call = c, !.pc = "resumed"]]
            /\ UNCHANGED sweep
       ELSE AwaitSweep(r, [Start(op, u) EXCEPT !.call = c])
    /\ UNCHANGED <<now, calls, live, archived>>

RequestOnCall(r, op, c, u) ==
    /\ Arrives(r, op) /\ calls[c].state # "unborn" /\ u \in Served(op, calls[c])
    /\ AwaitSweep(r, [Start(op, u) EXCEPT !.call = c])
    /\ UNCHANGED <<now, calls, live, archived>>

RequestPoll(r) ==
    /\ Quiet /\ task[r].pc = "idle"
    /\ AwaitSweep(r, Start("poll", NoUser))
    /\ UNCHANGED <<now, calls, live, archived>>

NextId(c) == calls[c].state = "unborn" /\ \A d \in CallIds : d < c => calls[d].state # "unborn"

\* createCall, then dispatchForCall unless the mode is DIRECT.  No await
\* separates the busy check from here.
AddCall(r, c, call) ==
    /\ NextId(c)
    /\ calls' = [calls EXCEPT ![c] = call]
    /\ live' = live \cup {c}
    /\ IF call.mode = "DIRECT" THEN Finish(r) ELSE Await(r, "signing", c)

\* POST /api/calls with ring: false, the invite link: nothing is awaited first.
CreateInvite(r, c, u, v, mode) ==
    /\ Arrives(r, "invite") /\ u # v
    /\ AddCall(r, c, CreateCall(u, v, mode, 0, now))
    /\ UNCHANGED <<now, archived, sweep>>

Resumes(r, op) == task[r].pc = "resumed" /\ task[r].op = op

\* Mutant: a user may be called while placing a call, and place one while called.
CreateRingInGlare(r, c, mode, timeout) ==
    LET u == task[r].user
        v == task[r].peer
    IN  /\ Resumes(r, "create")
        /\ ~\E d \in live : RingBlocks(calls[d], u, now) /\ calls[d].caller = u
        /\ AddCall(r, c, CreateCall(u, v, mode, timeout, now))
        /\ UNCHANGED <<now, archived, sweep>>

\* POST /api/calls with ring: true, once the sweep is over.
CreateRing(r, c, mode, timeout) ==
    LET u == task[r].user
        v == task[r].peer
    IN  /\ Resumes(r, "create")
        /\ \A w \in {u, v} : ~Busy(calls, live, w, now)
        /\ AddCall(r, c, CreateCall(u, v, mode, timeout, now))
        /\ UNCHANGED <<now, archived, sweep>>

\* 409 busy; also how the model stops at MaxCallId calls.
CreateBusy(r) ==
    /\ Resumes(r, "create")
    /\ \/ \E w \in {task[r].user, task[r].peer} : Busy(calls, live, w, now)
       \/ \A c \in CallIds : calls[c].state # "unborn"
    /\ Finish(r)
    /\ UNCHANGED <<now, calls, live, archived, sweep>>

\* What a resumed handler checks of its call: getCall, then the state.
JoinAllowed(c) == c \in live /\ calls[c].state # "ended"
AcceptAllowed(c) == c \in live /\ calls[c].ring = "ringing" /\ calls[c].state # "ended"
DeclineAllowed(c) == c \in live /\ calls[c].ring = "ringing"
CancelAllowed(c) == c \in live /\ calls[c].ring \in LiveRings

\* join up to its await: what it has checked may be stale once it resumes.
Join(r) ==
    /\ Resumes(r, "join") /\ JoinAllowed(task[r].call)
    /\ Await(r, "minting", task[r].call)
    /\ UNCHANGED <<now, calls, live, archived, sweep>>

\* The rest of join.  The token is returned whatever became of the call.
JoinMinted(r) ==
    LET c == task[r].call IN
    /\ task[r].pc = "minting"
    /\ Signing = "yields" => Quiet
    /\ Write(c, JoinCall(calls[c], task[r].user, now))
    /\ Finish(r)
    /\ UNCHANGED <<now, live, archived, sweep>>

Accept(r) ==
    LET c == task[r].call IN
    /\ Resumes(r, "accept") /\ AcceptAllowed(task[r].call)
    /\ Write(c, AcceptRing(calls[c], now))
    /\ Finish(r)
    /\ UNCHANGED <<now, live, archived, sweep>>

Decline(r) ==
    LET c == task[r].call IN
    /\ Resumes(r, "decline") /\ DeclineAllowed(task[r].call)
    /\ EndReleasingAgent(r, c, EndRing(calls[c], "declined", now))
    /\ UNCHANGED <<now, live, archived, sweep>>

Cancel(r) ==
    LET c == task[r].call IN
    /\ Resumes(r, "cancel") /\ CancelAllowed(task[r].call)
    /\ EndReleasingAgent(r, c, EndRing(calls[c], "cancelled", now))
    /\ UNCHANGED <<now, live, archived, sweep>>

\* Polls, and the 403, 404, 409 and already-done answers.
AnswerUnchanged(r) ==
    /\ \/ Resumes(r, "poll")
       \/ Resumes(r, "join")    /\ ~JoinAllowed(task[r].call)
       \/ Resumes(r, "accept")  /\ ~AcceptAllowed(task[r].call)
       \/ Resumes(r, "decline") /\ ~DeclineAllowed(task[r].call)
       \/ Resumes(r, "cancel")  /\ ~CancelAllowed(task[r].call)
    /\ Finish(r)
    /\ UNCHANGED <<now, calls, live, archived, sweep>>

\* Mutant: hanging up a joined call forgets the agent.
EndWithoutStop(r, c, u) ==
    /\ Arrives(r, "end") /\ c \in live /\ u \in Participants(calls[c])
    /\ Write(c, SetCallState(calls[c], "ended", now))
    /\ Finish(r)
    /\ UNCHANGED <<now, live, archived, sweep>>

\* POST .../end: one route for every way of hanging up.
End(r, c, u) ==
    LET call == calls[c]
        why  == IF u = call.caller THEN "cancelled" ELSE "declined"
        over == IF call.state = "created" /\ call.ring \in LiveRings
                THEN EndRing(call, why, now)
                ELSE SetCallState(call, "ended", now)
    IN  /\ Arrives(r, "end") /\ c \in live /\ u \in Participants(call)
        /\ EndReleasingAgent(r, c, over)
        /\ UNCHANGED <<now, live, archived, sweep>>

\* POST .../mode: the new mode comes from two profiles, two cards and body.force.
SetMode(r, c, u, mode) ==
    LET call  == SetCallMode(calls[c], mode, now)
    IN  /\ Arrives(r, "mode") /\ c \in live
        /\ u \in Participants(calls[c]) /\ calls[c].state = "created"
        /\ IF mode # "DIRECT"
           THEN Write(c, call) /\ Await(r, "signing", c)
           ELSE IF calls[c].dispatched
           THEN Write(c, call) /\ Await(r, "unmode", c)
           ELSE Write(c, SetCallAgent(call, FALSE, FALSE)) /\ Finish(r)
        /\ UNCHANGED <<now, live, archived, sweep>>

\* POST .../verdict touches the call and changes nothing after its await.
Verdict(r, c, u) ==
    /\ Arrives(r, "verdict") /\ c \in live /\ u \in Participants(calls[c])
    /\ calls[c].mode # "DIRECT" /\ calls[c].dispatched
    /\ Write(c, TouchCall(calls[c], now))
    /\ UNCHANGED <<now, live, archived, task, sweep>>

----------------------------------------------------------------------------
(* What a request finds when the network answers. *)

\* dispatchForCall builds the job from the call as it is after the signature.
SendJob(r) ==
    LET c == task[r].call IN
    /\ task[r].pc = "signing"
    /\ Signing = "yields" => Quiet
    /\ task' = [task EXCEPT ![r].pc = "dispatching", ![r].job = calls[c].mode]
    /\ UNCHANGED <<now, calls, live, archived, sweep>>

\* 202 or 409 is dispatched; a refusal, an error or the 2 s timeout is not.
\* The agent refuses a DIRECT job.
DispatchReturns(r, dispatched) ==
    LET c == task[r].call IN
    /\ Quiet /\ task[r].pc = "dispatching"
    /\ task[r].job = "DIRECT" => ~dispatched
    /\ Write(c, SetCallAgent(calls[c], TRUE, dispatched))
    /\ Finish(r)
    /\ UNCHANGED <<now, live, archived, sweep>>

\* stopAgent never throws: stopped, unknown, refused and timed out end alike.
StopReturns(t) ==
    LET c == task[t].call IN
    /\ Quiet
    /\ \/ /\ task[t].pc = "stopping"
          /\ Write(c, SetCallAgent(calls[c], calls[c].required, FALSE))
       \/ /\ task[t].pc = "unmode"
          /\ Write(c, SetCallAgent(calls[c], FALSE, FALSE))
    /\ Finish(t)
    /\ UNCHANGED <<now, live, archived, sweep>>

\* With SlowIO = FALSE a tick is longer than TIMEOUT_MS of agentClient.ts.
Tick ==
    /\ Quiet /\ now < MaxNow
    /\ ~SlowIO => \A t \in Tasks : task[t].pc \in {"idle", "sweeping"}
    /\ now' = now + 1
    /\ UNCHANGED <<calls, live, archived, task, sweep>>

----------------------------------------------------------------------------
SweepStep ==
    \/ \E c \in CallIds : SweepRing(c) \/ SweepDead(c) \/ SweepPut(c)
    \/ SweepAdvance
    \/ SweepEnd

Request(r) ==
    \/ \E u, v \in Users : RequestCreate(r, u, v)
    \/ \E c \in CallIds, u, v \in Users, m \in Resolvable : CreateInvite(r, c, u, v, m)
    \/ \E c \in CallIds, u \in Users, op \in RingOps \cup {"join"} : RequestOnCall(r, op, c, u)
    \/ \E c \in CallIds, u \in Users : End(r, c, u) \/ Verdict(r, c, u)
    \/ \E c \in CallIds, u \in Users, m \in Resolvable : SetMode(r, c, u, m)
    \/ RequestPoll(r)

Continue(r) ==
    \/ \E c \in CallIds, m \in Resolvable, s \in RingTimeouts : CreateRing(r, c, m, s)
    \/ CreateBusy(r)
    \/ Join(r) \/ JoinMinted(r)
    \/ Accept(r) \/ Decline(r) \/ Cancel(r)
    \/ AnswerUnchanged(r)
    \/ SendJob(r)
    \/ \E d \in BOOLEAN : DispatchReturns(r, d)

Next ==
    \/ Tick
    \/ SweepTimer
    \/ SweepStep
    \/ \E ok \in BOOLEAN : PutReturns(ok)
    \/ \E t \in Tasks : StopReturns(t)
    \/ \E r \in Reqs : Request(r) \/ Continue(r)

Spec == Init /\ [][Next]_vars

\* What is queued runs; time passes, the interval fires, fetches are aborted after
\* 2 s and files get written or refused.  The loop takes its events in order, so an
\* event that is ready whenever no microtask is queued is not passed over for ever:
\* SF.  The disk is not full for ever.
Fairness ==
    /\ WF_vars(SweepStep) /\ SF_vars(Tick) /\ SF_vars(SweepTimer)
    /\ SF_vars(\E ok \in BOOLEAN : PutReturns(ok)) /\ SF_vars(PutReturns(TRUE))
    /\ \A t \in Tasks : SF_vars(StopReturns(t))
    /\ \A r \in Reqs : SF_vars(Continue(r))

FairSpec == Spec /\ Fairness

----------------------------------------------------------------------------
(* Properties. *)

TaskType == [pc : PCs, op : Ops, call : CallIds \cup {NoCall},
             user : Users \cup {NoUser}, peer : Users \cup {NoUser}, job : Modes]

Holding == {"minting", "signing", "dispatching", "stopping", "unmode", "putting"}

\* Every variable has its type; a call has an endedAt exactly when it is over;
\* a task in the middle of a handler holds a call that exists.
TypeOK ==
    /\ now \in Nat
    /\ calls \in [CallIds -> Call]
    /\ live \subseteq CallIds /\ archived \subseteq CallIds
    /\ task \in [Tasks -> TaskType]
    /\ sweep \in [at : Nat, phase : Phases, queue : SUBSET CallIds, stored : SUBSET CallIds]
    /\ \A c \in CallIds : calls[c].endedAt = NoTime <=> calls[c].state # "ended"
    /\ \A t \in Tasks : task[t].pc \in Holding =>
          task[t].call \in CallIds /\ calls[task[t].call].state # "unborn"

RingsFor(u) == {c \in live : calls[c].ring = "ringing" /\ RingBlocks(calls[c], u, now)}

\* Nobody is rung, or rings, twice at a time: of the unexpired rings waiting for
\* an answer in a call nobody joined, each user is on at most one.  The busy
\* check of POST /api/calls and createCall must see the same store.
OneRingPerUser ==
    \A u \in Users : \A c, d \in RingsFor(u) : c = d

\* A ring that got a verdict (declined, cancelled, timeout) has ended its call:
\* no join resuming late, and no sweep working from an old list, undoes it.
VerdictEndsCall ==
    \A c \in CallIds : calls[c].ring \in DeadRings => calls[c].state = "ended"

\* A call leaves memory only when it is over and its record is on disk.
ForgottenIsArchived ==
    \A c \in CallIds : calls[c].state # "unborn" /\ c \notin live
                         => calls[c].state = "ended" /\ c \in archived

Releasing(c) == \E t \in Tasks : task[t].pc = "stopping" /\ task[t].call = c

\* Nothing is undone: an ended call stays ended with its endedAt, and a ring
\* with a verdict keeps the verdict and its time, whatever is still in flight.
Settled ==
    [][\A c \in CallIds :
        /\ calls[c].state = "ended" =>
             calls'[c].state = "ended" /\ calls'[c].endedAt = calls[c].endedAt
        /\ calls[c].ring \in DeadRings =>
             calls'[c].ring = calls[c].ring /\ calls'[c].respondedAt = calls[c].respondedAt
      ]_vars

\* An agent known to be in the room when its call ends is being told to leave:
\* the task that ended the call is the one that waits for the stop.
EndingReleases ==
    [][\A c \in CallIds :
        calls[c].state \in {"created", "active"} /\ calls[c].dispatched
          /\ calls'[c].state = "ended" => Releasing(c)']_vars

\* The sweeper never ends a call that people are in before its ceiling, nor times
\* out an answered ring somebody joined, however long ago it listed the call.
SweeperSparesTheJoined ==
    [][\A c \in CallIds :
        calls[c].state = "active" /\ calls[c].ring # "ringing" /\ calls'[c].state = "ended"
          /\ task[Sweeper].pc = "run"
          => calls'[c].ring = calls[c].ring /\ now - calls[c].createdAt >= MaxLifetime]_vars

\* The detailed specification implements the protocol a client relies on.
Protocol == INSTANCE CallProtocol WITH
              state <- [c \in CallIds |-> calls[c].state],
              ring  <- [c \in CallIds |-> calls[c].ring]
ImplementsProtocol == Protocol!PSpec

\* No call is immortal, and no finished one is kept for ever: whatever its clients
\* do or stop doing, it ends, is archived and leaves memory.
NothingIsImmortal ==
    \A c \in CallIds : calls[c].state = "created" ~> c \in archived /\ c \notin live

\* Every request that waits for the sweep in flight is answered.
WaitersAnswered == \A r \in Reqs : task[r].pc = "sweeping" ~> task[r].pc = "idle"

----------------------------------------------------------------------------
(* What comments and tests say of the code and the code does not do. *)

\* routes/calls.ts: "ONE code path responsible for stopping the agent, so no exit
\* can leak one."  An ended call that reports an agent in its room is being
\* released by somebody.
NoExitLeaksTheAgent ==
    \A c \in CallIds : calls[c].state = "ended" /\ calls[c].dispatched => Releasing(c)

\* smoke.test.ts: "hanging up a call that was actually answered does NOT relabel
\* it as cancelled".  An answered call that was joined keeps its ring as it is.
AnsweredIsNeverRelabelled ==
    [][\A c \in CallIds : calls[c].ring = "accepted" /\ calls[c].state \in {"active", "ended"}
        => calls'[c].ring = "accepted" /\ calls'[c].respondedAt = calls[c].respondedAt]_vars

\* ringing.ts: with the sweep "at the top of every ring-facing handler" there is "no
\* stale Accept".  No ring is answered once its deadline has passed.
NoStaleAccept ==
    [][\A c \in CallIds : calls[c].ring = "ringing" /\ calls'[c].ring = "accepted"
        => calls[c].expiresAt > now]_vars
============================================================================
