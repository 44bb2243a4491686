# SameVoice: verification development

SameVoice connects two people by phone-like calls over LiveKit and, when their
languages differ, puts a translating agent in the room. This directory holds TLA+
models of the program, TLC configurations that check them on small instances, and
proofs that the TLA+ proof system checks for every instance.

Modules are translated from the source; `PROJECT.json` maps every definition to the
lines it stands for. Nothing here is generated from documentation.

## 1. Inventory

### Backend (`backend/src`, one Node process, one event loop)

| part | state | operations | hard behaviour |
|---|---|---|---|
| calls and rings (`routes/calls.ts`, `ringing.ts`) | none of its own; handlers hold references to call objects across awaits | create, join, mode, end, ring accept / decline / cancel, verdict | every handler is cut by awaits: on the sweep, the token signature, the agent, so what it checked may be stale when it goes on |
| sweeper (`ringing.ts`) | the promise in flight and the lists of the pass | expire rings, reap dead calls, archive and forget ended ones | collapsed with every request that asks for it; each pass may wait on the network and the disk |
| live call map (`store.ts` 743-1057) | the calls, in insertion order | setters, which do nothing for a forgotten id; queries by deadline, idleness, age, ceiling | the only memory of what is going on |
| archive (`archive.ts`) | one file per call and an index | put, load, get, list | a write fails and the call must stay in memory |
| agent client (`agentClient.ts`) | none | dispatch, stop, verdict, each with a 2 s timeout | the answer to a request that took effect may be lost |
| presence (`routes/presence.ts`) | last seen time per user | heartbeat and ring poll; both run the sweep first | the poll is what expires rings on time |
| mode decision (`mode.ts`, contacts and users routes) | profiles and contact cards | which of DIRECT, TRANSLATED, FORCED a call gets | read anew by `/mode` |
| identity store (`store.ts` 44-741) | users, phones, contacts, a JSON snapshot | create, edit, link; save by rename; merge of foreign writes | two processes on one directory, a crash before a deferred save |
| registration and sessions (`auth.ts`, `session.ts`, `phoneVerification.ts`, `routes/auth.ts`, `routes/passkeys.ts`) | challenges, attempt budgets, registration tokens, passkey file | start, verify, register, login | budgets at their boundary; load - await - save of a whole file |

### Agent (`agent/src/speakeasy_agent`, one asyncio process)

| part | state | operations | hard behaviour |
|---|---|---|---|
| service (`main.py`) | relays, tasks and failures by call id | start, stop, supervise, stop all | an await between "is it running" and the registration; a finished relay pops the entry of its id |
| relay (`relay.py`) | two directions, track readers, the stopped flag, the empty-room watchdog | attach and detach tracks, barge-in wiring, shutdown | a lost stop; a republished microphone |
| direction (`direction.py`) | unit queue, epoch, active unit task, history | STT loop, tick, process unit (MT, subtitle, TTS), cancel output, drain | barge-in cancels between any two awaits; one record per unit is promised |
| chunker (`chunker.py`) | hypothesis, stable and committed words | partial, final, tick, reset | revisions of what was already spoken |
| prediction shadow (`speculation.py`, `acoustic_shadow.py`) | epochs and pending predictions | observe, emit, abandon | stale predictions must never be used |
| eval log and subtitles (`evallog.py`, `subtitles.py`) | bounded queue and writer; sequence numbers and final segments | append, close; send; a judge's verdict | a full queue at close; a torn line; a final segment used twice |
| recogniser session (`providers/stt_runpod.py`) | bounded queue of audio, sender and receiver tasks | push, flush, close | a sender that dies with frames queued |

### GPU services (`gpu`), web client (`web/src`), evaluation (`scripts`, `agent/scripts`)

| part | state | operations | hard behaviour |
|---|---|---|---|
| GPU queue (`gpu/queueing.py`) | a semaphore per card | run one inference in a thread | the caller is cancelled while the thread keeps the card |
| recogniser (`gpu/acoustic`) | a pool of VAD models, streams, utterances, one generation lock | accept, feed, flush, close | a client that leaves at any await; threads that cannot be cancelled |
| lazily loaded models (`gpu/predictor`, `mt`, `tts`, `acoustic`) | the model, the device, a lock | load, infer | several threads find no model at once |
| replay benchmark and gate (`acoustic-replay-bench.py`, `benchmark_gate.py`) | counters per language and window | run samples, decide PROMOTE, HOLD, REJECT | a rate over the wrong denominator, a None compared |
| reviewers of a call (`review_call.py`, two of them) | none | count, group, flag rows of an eval log | logs of three ages |
| ring client (`ring.ts`, `ringpoll.ts`, `autojoin.ts`) | reducer state, one timer, one poll in flight, join attempts | poll, buttons, suspend, stop and start | a poll that lands after a press; a loop that must never stop polling |

Parts interact by HTTP (web to backend, backend to agent, agent to GPU), by LiveKit
rooms (web and agent), and inside the backend by the shared call map and by the
promise of the sweep in flight.

What makes them correct:

* calls: a verdict ends the call and is never undone; nobody is rung twice; no call
  is immortal and none is forgotten before it is on disk; no agent is left behind;
  the sweeper leaves a joined call alone until its ceiling; every request is answered;
* agent service: one relay per call, a stop ends its task, a lost stop is made up for; an
  `aclose()` that breaks off or hangs keeps its place in the room (section 5);
* direction: nothing of an old epoch is played, one record per unit, and once the flush has
  returned the queue drains by its deadline;
* chunker: what is spoken stays a prefix of what is agreed on, and a final longer than that is
  said from there to its end;
* eval log: no row vanishes; a verdict is about something its judge heard;
* GPU queue: one inference per card, every permit given back once;
* recogniser: a VAD model belongs to one stream, and comes back; events are in order;
* ring client: exactly one poll loop while it runs; a poll, however old, does not undo a press,
  unless a call was entered before the press had its answer;
* evaluation: every sample is counted once, and a report accounts for every utterance;
* identity store: a writer that has seen the snapshot on disk takes nothing off it, and a number
  keeps its owner unless two processes gave it a profile each;
* verification: no more guesses than the budget.

`PROJECT.json` lists the hazards of each at their lines, with the properties that
cover them or the reason why none does yet.

## 2. Modules

| module | what it is |
|---|---|
| `CallStore` | the call record, every setter, every query of `store.ts`, the synchronous parts of `ringing.ts`, as operators without state |
| `CallLifecycle` | the backend's call half: event loop, requests, sweeper; properties |
| `CallProtocol` | the abstract specification of one call, as `types.ts` draws it |
| `MCCallLifecycle` | symmetry for TLC |
| `CallLifecycleProofs` | the inductive invariant and six theorems; what a step is in terms of `CallProtocol`, what the sweeper may rely on, and four more |
| `AgentService` | the agent process for one call: job routes, supervision, life of a relay, watchdog |
| `CallWithAgent` | that service, the backend's dispatch and stop, and the HTTP between them |
| `MCCallWithAgent` | symmetry for TLC |
| `AgentProofs` | the service's inductive invariant and six theorems |
| `Direction` | one speaker to listener pipeline: STT loop, ticker, worker, barge-in, subtitles, drain and close |
| `Chunker` | LocalAgreement-2 and the commit policy |
| `SttLink` | the session to the self-hosted recogniser: queue of audio, sender, flush, close |
| `RelayRoom` | the relay between its room and its directions: readers of microphones, `aclose` |
| `EvalLog` | the file of one call: queue, writer, thread, crashes, verdicts |
| `PredictionShadow`, `AcousticShadow` | the evaluators of the next-word predictor and of the acoustic pruner |
| `Shadows` | the two of them together, and what their rows have in common |
| `RelayProofs` | of `Direction`, `RelayRoom` and `SttLink`: an inductive invariant for each and eight theorems |
| `TranscriptProofs` | of `Chunker`, `Shadows`, `EvalLog` and `Evaluation`: the same, and twelve theorems |
| `GpuQueue` | admission to a card under cancellation |
| `AsrService` | the recogniser's websocket service: VAD pool, utterances, generation lock |
| `LazyEngine` | models loaded by the first thread that needs them |
| `GpuProofs` | of the last three: their inductive invariants and nine theorems |
| `RingClient`, `RingClientProofs` | one browser tab: reducer, poll loop, automatic join, the functions of `main.ts`; three theorems |
| `IdentityStore` | backend processes on one `IDENTITY_DIR`: load, change, merge, save, death |
| `PhoneVerification` | codes for a number, the budget of guesses, the proof a registration consumes |
| `IdentityProofs` | the inductive invariants of these two and two theorems about each |
| `Tally` | how many rows of a kind a list holds |
| `ReplayGate` | the benchmark from a sample to the verdict |
| `ReviewReport` | both reviewers of a call's log |
| `Evaluation` | the last two together, and what makes them honest |
| `MCComponents` | the fifteen components from `Direction` on side by side, one in focus |
| `ComponentsProofs` | that each of them behaves there as it does alone, and their types |

`CallLifecycle` EXTENDS `CallStore` and refines `CallProtocol`; `CallWithAgent` EXTENDS
`AgentService` and is proved to implement `SSpec`, the service under any client. The
two halves meet in `agent.dispatched`: `CallLifecycle` lets a dispatch or a stop
answer anything, `CallWithAgent` says what the agent did meanwhile.

### State

`calls` is the call objects and `live` the keys of the Map: a handler keeps its
reference to an object that `forgetCalls` dropped, while setters go through the Map
and then do nothing (`Write`). `archived` is what `put` has written. `task` has one
record per request slot and one for the sweeper: its program counter says which
await it is in, the rest is its locals. `sweep` is the locals of the pass in flight:
the time it started, the list it is working on and what it stored. `now` is
`Date.now()` in ticks; the timestamps of a call are ticks.

A call made by invite link has ring "none", and an id not handed out is "unborn".
Ids are handed out in order, which is the insertion order of the Map. FORCED drives
the same control as TRANSLATED and is one value with it.

### Steps

An action is what runs between two awaits. Awaits are of two kinds.

* On the network or the disk (dispatch, stop, archive write): the task leaves the
  event loop, and its return is an event of its own (`DispatchReturns`,
  `StopReturns`, `PutReturns`), possible only when no microtask is queued (`Quiet`).
* On something already settled (the sweep promise, the next step of a pass): the
  task is `Runnable`, and everything runnable runs before any event is taken.
  Without this distinction the model would show races between two requests that
  resume from one sweep that the event loop rules out.

Signing a token is a third: the library may or may not give up the thread, so
`Signing` is a constant and both values are used. `calls_race` has "yields", the
harsher, `calls_rings` "microtask". The theorems of `CallLifecycleProofs` and
`EndingsRelease` hold for both; `TheJoinedAreSpared` and `ProtocolIsImplemented` say
"microtask", and must: with "yields" a join that was let through before a sweep began
comes back from its signature in the middle of it, and TLC shows both properties
violated. The lock file pins `jose` 5.10.0 under `livekit-server-sdk` 2.18.0, which computes
an HMAC in the turn it is asked; an update that signs elsewhere would lose both.

A request that a route refuses before its first await (400, 401, 404 at once) is no
step. Refusals after an await are `AnswerUnchanged` and `CreateBusy`.

`SlowIO = FALSE` makes a tick longer than every network call, as the 2 s timeout
is shorter than the limits it is compared with; liveness is checked there.
Elsewhere ticks may pass during any await.

### Identities

`IdentityStore` has for each process its `memory` of users, phone index and contacts, and for
all of them the snapshot on `disk` with a stamp that stands for mtime and size. A process is
synchronous, so the model cuts a load and a save only at the system calls, where another process may
run or this one die: `saving` says at which of stat, read, rename and stamp it is, which edit the
save is for, and whether a deferred save is pending (two pending ones find the same memory and are one).
A row is who wrote it last, which is what a lost or reverted edit shows; contact settings are left
out, as an edit of them is saved like one of a profile. `seen` and `doubled` are history: the snapshot a process
has read or written last, and the numbers that were registered by a process that did not know of the profile which the
disk, or another process, had for them. `CreateUserFromPhone` joins the newcomer to the seed and to the companions
there are (`Welcome`).

`PhoneVerification` names a challenge by its place in the order of creation and its token of proof by
the challenge; a code is right or wrong. `guesses` and `registered` are history: `guesses` counts the codes
compared up to each time, so a stretch of time holds the difference of two counts. A restart empties every map
of it and is left out: it would begin a new behaviour with a fresh budget, which the code accepts.

### The agent

Everything the agent keeps is keyed by the call id, so `AgentService` has one call.
`relay` is the Relay objects with their supervisor tasks: how far `run()` or `aclose()`
is, `_stopped`, whether LiveKit has it in the room, and the polls for which the
watchdog would say nobody was seen. `registered` is the entry of `_relays` and
`_tasks`; `handler` the job requests in service. `routed` is fixed at the start: with
an orchestrator configured, `resolve_for_call` suspends between the check and the
registration, without one it does not. An object nobody holds any more stands for the
next one (`Unused`).

`Connected` puts out any other relay, as LiveKit does with a second participant of one
identity; the event reaches the loser later (`Evicted`). `Dropped` is the same event
for no reason of ours. `Fails` is a connection, track or STT session that cannot be
had; a relay that was still connecting has nothing to close ("aborting").

`aclose()` may end in three ways. `Ends` is through: the room is left and `_supervise` takes
the entries away. `Breaks` is the loop over the readers that raises (`relay.py:255`): `_supervise` takes
the entries away all the same, and the relay stays in the room ("broken", until LiveKit lets go of it, since `_closed` is set).
`Hangs` is a flush that never returns ("hung"): only a cancellation ends it. `StopKills` is that
cancellation, after 5 s, wherever the task is (`Cancelled`): before `aclose()` it begins it; inside, it
cuts it where it is, with the room connected, or is swallowed where the watchdog or a reader is awaited.
The stop then awaits the task without a limit ("killing"). `Breaks` and `Hangs` are what the runs
`relay_close` and `stt_flush` show of `RelayRoom` and `SttLink`, so nothing here assumes that they do not happen.

In `CallWithAgent` a request is on the `wire` until delivered or lost, which also
stands for the time the backend takes to sign the agent's token after its checks. The
backend may stop waiting at any moment (`GiveUp`: 2 s, or a failed connection), with
the agent not reached yet, at it, or done. Time is the watchdog's: a tick is a poll
of every watchdog, and the age of a call nobody has joined.

### Inside the agent

`Direction` cuts each task at the awaits that suspend: `work` is where the unit's task
is, `worker` where its consumer is, `close` where `aclose` is. A cancellation is a
mark on the task; `Cancelled` is the step in which the task sees it, at any await it
may be at, also before its first one. Words are not modelled: `utt.chunk` is what the chunker
could still commit and how much it commits is a choice; `Chunker` has the rules. `sink` holds the
epochs of the frames that are in the audio source, `heard` the units of which a frame
was captured and that have no row yet, `lost` the units whose task ended without a row,
which the code allows when the listener heard nothing. `aclose` awaits the session's flush first
(`Hangup`, `FlushReturns`), for as long as that takes, and takes its deadline after it ("draining").

`Chunker` has a word as a model value with a class (plain, function word, before a
strong or a weak boundary), since that is what the policy tells apart; time is counted
in the thresholds of `tick()` that have passed, so `Elapse` goes from one to the next.
`spoken` is what the listener was given in this utterance; `ended` is the last final with what was stable
and spoken when it came, and what had been said when it had been dealt with.

`SttLink` numbers the frames. `unfinished` is what `_audio.join()` waits for;
`sender` the task that writes to the socket, `hang` the close of the direction around it.
`RelayRoom` has a track for each time a speaker publishes a microphone; `table` is
`_reader_tasks`, and `aclose` walks it with the size it had when it began, as a Python
dictionary does: a callback that adds or removes a reader makes the next turn raise. The directions are there
from the first step of `_start_directions` and are started over the awaits that follow (`DirectionsStart`,
`RelayReady`), so a microphone may be attached by its event, by the relay, or by both. A reader ends
when its track does, is cancelled, or fails (`ReaderFails`).

`EvalLog` numbers the rows; a line of the file is whole or spoiled, spoiled being one
that was glued to the torn line before it. A batch is appended by a worker thread that
no cancellation stops. The verdict is asked, resolved against the file, and appended, three steps with
everything else in between; the process may die between any two.

`PredictionShadow` has hypotheses as sequences over a small vocabulary, since stability is
about their common prefix; requests are tasks and answer in any order. In
`AcousticShadow` an arm has its audio, its scorer and its word in any order, and
what an STT event means for it is a choice.

### GPU services

`GpuQueue` has the semaphore of asyncio as it is: `release` hands the permit to the
first waiter, which takes it when its task next runs, and may be cancelled in between.
A request whose caller was cancelled keeps the card ("running" to its thread's end).
`LazyEngine` has one thread per request with assignments as its atomic steps, and the
five engines as the values of `kind`, which differ in where they test, lock and assign.
`AsrService` has for each utterance the state of the recogniser's work on it, and the
lock of the Russian model with its holder; a thread that is stuck keeps it. Features that cannot be
extracted end the utterance with an error and the loop goes on (`FinishFails`), or, when they are the tail that a
flush feeds, the loop (`TailFails`); the generation thread waits for more either way.

### The browser and the evaluation

`RingClient` has `RingState` as the record `tab`, the functions behind the buttons as
`flows` cut at each await, and the backend as what a poll may say of the
newest ring each way. `Dispatch` is the reducer, the repaint with its automatic join and
the planning of the next poll, as in the code; it reads `flight'` since the poll in flight
is cleared by the same step that dispatches its answer. Two sets are history: a call is in `pressed` from the
press of accept or decline until the press has its outcome or a call is entered (`suspend`), and in `settled` from the outcome on; an accept that failed and may be
pressed again (`Relents`) is in neither.

`ReplayGate` keeps the results, and `ReviewReport` the rows, as a bag: a function from a
row to how often it is there, whose copies `Tally` counts as a set. Beams collapse to candidates by the rules of
`predictor/text.py`, sounds re-rank them by the rules of `pruner.py`; a metric is a set
with at most one number, so that None cannot be mistaken for one; rates and percentiles are rounded as the
code rounds. `ReviewReport` has rows with an utterance key that is missing, shared or unique, and with a
latency or, where a unit had no speech start or no audio, without one (`timed`).

### Correspondence

`RequestCreate`, `RequestOnCall` and `RequestPoll` are the routes up to
`await sweeper.sweep()`, and `CreateRing`, `Join`, `Accept`, `Decline`, `Cancel`,
`AnswerUnchanged` what follows it; `CreateInvite`, `End`, `SetMode` and `Verdict` are
routes that do not wait for the sweep. `SendJob` and `DispatchReturns` are
`dispatchForCall`. `SweepTimer` is the interval, `SweepRing`, `SweepDead`,
`SweepPut`, `PutReturns`, `SweepAdvance`, `SweepEnd` one pass. Each updates the call
with the setters of `CallStore`, in the order of the code.

## 3. What the runs check

The `calls_` runs use `MCCallLifecycle`, those of jobs and the agent `MCCallWithAgent`,
`components` `MCComponents`, the last two their component itself. Two users, since a call has two; tick limits 1 and 2 so
that a ring and an idle call expire at 1, a joined call at 2.

| run | instance | properties |
|---|---|---|
| `calls_race` | 1 call, 2 requests, all routes, ticks 0-3, slow I/O, signer yields | `TypeOK`, `VerdictEndsCall`, `ForgottenIsArchived`, `EndingReleases` |
| `calls_rings` | 2 calls, 2 requests, create, join, ring buttons and hang-up, ticks 0-2 | `OneRingPerUser`, `Settled`, `ImplementsProtocol`, `SweeperSparesTheJoined` |
| `calls_live` | 1 call, 1 request, ticks 0-3, requests stop arriving after 1 | `NothingIsImmortal`, `WaitersAnswered` |
| `agent_jobs` | 2 requests at a time, 2 relays, 1 person, with and without orchestrator, grace 2 polls, window 1 | `TypeOK`, `AliveIsRegistered`, `StoppedIsOver`, `WaitsForTheAnswer` |
| `agent_leaves` | the same with an orchestrator, grace 1, window 0, 2 dispatches, fair | `AgentLeaves` |
| `components` | fifteen components, one in focus in each behaviour; bounds below | `ComponentsTypeOK` and the 24 properties of the second list below |
| `calls_leak`, `calls_relabel`, `calls_stale`, `jobs_invite`, `relay_close`, `stt_flush` | see findings | one property each, violated |

Why the bounds are enough. A hazard of one call needs two actors racing on it and
the sweeper as a third: `calls_race` has them, with every pair of routes. A hazard
between calls (busy, a sweep waiting on another call, the ceiling) needs a second
call: `calls_rings` and `calls_stale` have it. Three ticks let a ring be created,
accepted at its last tick, expire again, and its call be archived. `MaxCallId`,
`LastArrival`, `MaxNow`, `Arriving` and `Resolvable` are the bounds, and all are in
guards; polls have none, since they are what triggers a sweep. At the agent, two
requests make every overlap of a start with a start or a stop, and two relays are what
two overlapping starts can make; more of either wait for a free connection or object.
A call is dispatched up to `MaxStarts` times, three in `agent_jobs` and two, all it takes
for two relays, in `agent_leaves`; stops are not counted. `MaxHumans`, `Relays`,
`Handlers` and `MaxStarts` are the bounds. A grace one longer than the window
is the tightest the watchdog can have; the theorem has any.

* `VerdictEndsCall`, `Settled`: the label and the end are two writes, made by four
  routes and the sweeper around an await. No interleaving undoes either.
* `ForgottenIsArchived`: with any put failing, a call leaves the Map only when it is
  over and on disk.
* `EndingReleases`: an agent known to be there when its call ends is being stopped.
  What is not known yet is the first finding.
* `OneRingPerUser`: the busy check sees every ring, although two creates may wait on
  one sweep.
* `SweeperSparesTheJoined`: lists grow stale during a pass, but a join waits for the
  pass in flight, and that is what keeps the list true. The mutant that drops the
  wait breaks it.
* `ImplementsProtocol`: the refinement to `CallProtocol`, the state and the ring of
  each call mapped to themselves. It allows what the code does after an answered
  call is joined (a later cancel); the second finding says who disagrees.
* `NothingIsImmortal`, `WaitersAnswered`: see fairness.

* `AliveIsRegistered`: a stop works through the entry of the call id, so a relay
  without one is beyond reach. True without an orchestrator only: with one, two starts
  that resolve together make two relays, the first to end takes the entry of the other
  along, and only eviction or the watchdog ends that one.
* `StoppedIsOver`: "stopped" is said only when the task of the relay of that stop is done and that relay is not
  registered, with two stops, a failure, an eviction and a closing that
  breaks off, hangs or is cut in any order; the relay is then out of the room unless its `aclose()` was broken.
  It does not say that the room is left: that is false of the program (section 5).
* `WaitsForTheAnswer`: the watchdog and the backend's deadlines count apart.
* `AgentLeaves`: stops lost, given up on, never sent because the dispatch had been
  given up on, or finding nothing: in the end no agent is in the room all the same, but those whose `aclose()`
  broke off or hangs in a flush. These two are excepted by name, since they stay, and they are the findings
  `relay_close` and `stt_flush`; the mutant, a watchdog whose clock is reset by each poll, breaks what is left.

`components` is one run for components that do not touch each other's variables: `focus`
picks the one that moves, the others stay as they began, so its states are the sum
of theirs and not the product. The bounds, all in guards:

| component | bounds | why they are enough |
|---|---|---|
| direction | 2 units, 1 chunk each, 1 barge-in | a unit in hand and one queued when the listener speaks, and the utterance after |
| chunker | 2 words in a hypothesis, one of each class | a revision needs one word said and one that changes; a final as long as the stable words, with others, and a longer one |
| ring | 1 call each way, 2 functions at a time, 1 automatic attempt | polls overlap presses in every order; a settled call and its stale poll; a press beside a late answer of another |
| evallog | queue of 2, 3 rows, 2 relays, 1 crash, 1 judge | a full queue with the stop mark missing, a batch in its thread at a crash, a second log on one file |
| gpu | 4 requests, 2 permits | two on the card, one handed a permit, one behind it |
| shadow | 2 attempts, hypotheses of 2 of 2 words | a prefix, its word, a revision of either |
| acoustic | 2 arms, 1 active, 2 windows | one arm after another, a cut between two windows |
| asr | a Russian and a Hebrew stream, 1 VAD model, 2 utterances | one stream waits for the model of the other |
| relay | 2 speakers, 2 microphones each | a microphone again while its reader is not done, before, while and after the directions start |
| stt | queue of 2, 4 frames | a full queue, a dead sender, a dropped frame |
| replay | 2 languages, 2 rivals, ranks up to 3, 2 samples, round trips 100 and 600 ms | each fate of a sample beside each other one, in one language and in two, on both sides of the limits; any number of either is the theorem's |
| review | 3 rows, 2 keys, each with or without a latency | a shared key needs two rows, its neighbour a third |
| engine | 3 threads | one loads, one waits, one has passed |
| identity | 2 processes, a seed user and 2 more ids, 1 of them a companion, 1 number, 3 writes, 2 changes, 1 death | both register one number, one merges the other, one dies between any two calls |
| phone | 1 number, 3 challenges of which 2 live, 2 guesses a code and a window, codes and windows of 2 ticks, proofs of 1, ticks 0-3 | the end of one window meets the start of the next, a challenge is crowded out or swept |

Their properties:

* `HeardIsLogged`, `NothingStalePlays`, `UnitsAreToldApart` (Direction):
  barge-in, errors and hanging up cut a unit at any await; it leaves its row if anything of it
  was heard, nothing of an older epoch stays in the audio source, and the key and segment
  of an utterance do not leak into the next. `UnitsSettle`, `HangupEnds`: the worker goes on,
  and from the deadline on, that is once the flush has returned, the drain has an end. That the flush
  returns is not claimed: `stt_flush` is the finding.
* `SpokenStands`, `NoWordWaits` (Chunker): what was said is never taken back; a final longer than the stable
  words is said word for word from where the listener was, and of one that is no longer the stable words are said,
  not its own (section 5); a word that is stable is said in the end.
* `OneLoop`, `SettledIsNotOffered` (RingClient): the tab that polls has one timer or one
  poll, never both or neither; from the press of accept or decline on, a ring is not shown again by a poll, however
  old, nor by anything else but what the property names: an accept that fails, late or not, and a poll that lands
  when a call was entered after the press and before its answer (section 5). The mutant suspends without keeping the call.
* `NoRowVanishes`, `VerdictNamesTheHeard` (EvalLog): each row is in one place, a log
  closed in time leaves none behind, and a verdict comes after a whole line of the utterance
  it names.
* `ShadowRowsAddUp`, `TruthIsStable` (shadows): the statistics count
  rows, so one each, with the word that was really said.
* `CardNeverShared`, `NoLostWakeup` (GpuQueue), `LoadedOnce` (LazyEngine), `VadNeverShared`
  (AsrService): what there is one of is used by one, also when its user is cancelled; and it
  comes back (`StreamsComeToAnEnd`). `UtterancesInOrder`: no partial follows its final.
* `MicrophoneIsRead` (RelayRoom), `FlushFollowsAudio` (SttLink): published audio is read until its stream
  fails, but for a microphone that came while the speaker's earlier reader was still at work, which is never read (the
  property says both; section 5); and the order to finish does not overtake audio.
* `EvaluationIsHonest` (Evaluation): PROMOTE only when every language, counted from the samples
  themselves, lost one word in twenty at most of those it was supplied with (up to rounding), whether demoted,
  vanished or never answered for; REJECT only on enough samples; in a report the samples of the
  utterance's delay, the utterances it calls missing and the first chunks that were heard without a number make up its
  utterances, and its counts agree with the older tool's on an older log. It has a mutant in each of `ReplayGate` and `ReviewReport`.
* `SavesAreUnions` (IdentityStore): a process that has seen the snapshot it overwrites takes no profile and no contact off
  the disk and leaves each number with its owner unless it was registered twice; it does not revert the edit it is
  saving, and writes nothing that points at nobody. What it has not seen, and numbers with two profiles, are in section 5.
* `GuessesAreBounded` (PhoneVerification): fresh, expired, swept and crowded-out challenges buy no budget;
  the guesses in any stretch of one window are less than two budgets, which is tight, and one code
  makes one profile.

Every property has a mutant of the code, next to the original definition, that
breaks it under the run's own configuration.

### Fairness

Microtasks run (weak fairness on the pass). The event loop takes its events in
order, so an event that is ready each time the loop is free is taken: strong
fairness on the clock, the interval, and the returns of each await. Fetches are
aborted after 2 s and thus return; a file write returns, and does not fail for
ever (`SF` on `PutReturns(TRUE)`): with a disk full for ever a call is rightly kept
in memory. No fairness on clients: the claims hold whatever they stop doing.

The temporal properties of `components` name their fairness as a premise, so that one
specification serves all. `DirectionFairness`: the event loop runs what is ready, and the
drain's deadline passes once it is taken; `UnitsSettle` also assumes `ProvidersAnswer`, that vendors
answer and their audio ends, which `HangupEnds` does not. `ChunkerFairness`: the ticker
runs and time passes. `AsrFairness`: snapshots and callbacks come to an end, waits for
a thread have a timeout (30 s in the code) and a client leaves at last; it does not assume that a
Russian generation ends, nor that one whose features failed does. `relay_close` and `stt_flush` assume that the loop runs what is
ready (`RelayFairSpec`, `LinkFairSpec`), and of a socket that has not broken that it
takes what is sent; both are violated under it.

`AgentLeaves` assumes of the agent that its tasks and requests go on, and no more of `aclose()` than that it ends,
breaks off or comes to hang: its awaits of readers, flushes and the disconnection are not all limited. It also assumes that a request neither lost nor given up is
delivered, and that the watchdog polls; of people, that they leave the room of a call that is
over, as the client does when told. It does not assume that LiveKit ever drops a
relay: `Dropped` is not fair. A person who stays keeps the agent, by design.

## 4. What is proved

`CallLifecycleProofs`, for all users, ids, requests, limits, clocks, modes and both
kinds of signer:

| theorem | states |
|---|---|
| `InductiveInvariant` | `Spec => []IInv` |
| `TypesHold` | `Spec => []TypeOK` |
| `VerdictsEndCalls` | `Spec => []VerdictEndsCall` |
| `NothingIsLost` | `Spec => []ForgottenIsArchived` |
| `NobodyIsRungTwice` | `Spec => []OneRingPerUser` |
| `NothingIsUndone` | `Spec => Settled` |

Assumptions: those named in `CallStore` and `CallLifecycle` on the constants, no
others. TLC evaluates them in every run.

The argument. A call object changes only through a setter. `Sound(call)` says it is
well formed (type, endedAt exactly when over, a verdict only on an ended call) and
`Evolves(old, new)` how far it may move while others hold it (ended stays ended with
its time, a verdict stays, a ring is never rung again, nobody is replaced). Each
setter, and each handler's use of setters, is a `MovesOn` lemma; this is where the
code of each handler is looked at. Every action is then a `LegalStep`: all calls
move on, one task changes. The invariant is

    IInv == now \in Nat /\ CallsOK /\ MapOK /\ TasksOK /\ SweepOK /\ OneRingPerUser

`ForgottenIsArchived` alone is not inductive: `SweepEnd` forgets what the pass calls
stored, so `SweepOK` adds that everything stored is archived and over, and that
everything on the archiving list is over; `Evolves` keeps that true while other
tasks run between two writes. `TasksOK` is what lets a resumed handler use its call.
`OneRingPerUser` is kept by every step that moves calls on, since a ring that is
still ringing was ringing before with the same deadline and people, and by creation
because no await separates the busy check from `createCall`. `Settled` follows from
`Evolves` at each step.

Of the protocol, under the same assumptions:

| theorem | states |
|---|---|
| `EndingsRelease` | `Spec => EndingReleases` |
| `SweepIsApart` | `Signing = "microtask"` implies `Spec => []SweptApart` |
| `TheJoinedAreSpared` | `Signing = "microtask"` implies `Spec => SweeperSparesTheJoined` |
| `ProtocolIsImplemented` | `Signing = "microtask"` implies `Spec => ImplementsProtocol` |

A step is a stutter or one transition of one call, a `ProtocolTurn`: a lemma for each setter
says what it does to the two fields a client sees, and one for each handler which transition
that is. Two transitions are only legal at the right moment, which no step knows by itself: a
join is not let into a call hung up while it rang, and what the sweeper lists has not been
answered or joined since. `SweptApart` is that invariant. `Untouched` says that while a sweep is in
flight no request is past it; then `RingsListed` and `DeadListed` keep the lists true, as only
the sweeper itself, and routes that end calls, run meanwhile. `IInv` alone is too weak: it
knows of the lists only what forgetting needs.

`AgentProofs`, for any number of relays, requests and people, any grace, with or
without an orchestrator:

| theorem | states |
|---|---|
| `ServiceInvariant` | `SSpec => []SInv` |
| `StopsFindTheirRelay` | `SSpec => []AliveIsRegistered` |
| `StoppedIsTrue` | `SSpec => []StoppedIsOver` |
| `CallsUseTheService` | `Spec => SSpec` |
| `CallTypes` | `Spec => []TypeOK` |
| `PatienceSuffices` | `Window < Grace` implies `Spec => WaitsForTheAnswer` |

`SInv` adds to the three properties of the service that what is registered has a task
(else a stop would mark a relay that is gone), that no request resolves without an
orchestrator (so check and registration are one step), that a request awaiting a task
holds a relay, that a relay whose task is done is registered no more, and that it is in the room only when its
`aclose()` was broken. Steps that only move
relays on are one lemma, `RelaysKeep`; registration and unregistration have their
own. `PatienceSuffices` rests on `Patience`: while nobody has joined, no relay has
been alone for longer than the call has waited. `jobs_invite` is its converse.

`GpuProofs`. The queue, for any number of requests and permits (`Limit` at least 1):

| theorem | states |
|---|---|
| `QueueInvariant` | `GpuSpec => []GInv` |
| `QueueTypes` | `GpuSpec => []GpuTypeOK` |
| `CardIsNeverShared` | `GpuSpec => []CardNeverShared` |
| `WakeupsAreNeverLost` | `GpuSpec => []NoLostWakeup` |

`CardNeverShared` is not inductive, since a permit that was handed to a waiter is
neither free nor in use. `GInv` counts it: permits free, permits handed over and requests on the
card add up to `Limit`, and a permit is free beside a waiter only while somebody is about
to run. `HandOver` is the lemma about the semaphore, `Counting` the one about cardinalities
of a set that gains or loses a member.

The models, for any finite number of threads (`loads` counts them):

| theorem | states |
|---|---|
| `WeightsAreLoadedOnce` | `EngineSpec => []LoadedOnce` |
| `EngineTypes` | `EngineSpec => []EngineTypeOK` |

Its invariant: the lock is with the one thread that is inside it (`LockOK`), and the model is
there exactly when it was loaded, but for the thread that is loading it (`ModelOK`). The second
test under the lock is what keeps it; the mutant drops that test.

The recogniser, for any streams, models and numbers of utterances, with no model called "none":

| theorem | states |
|---|---|
| `VadModelsAreNeverShared` | `AsrSpec => []VadNeverShared` |
| `EventsComeInOrder` | `AsrSpec => UtterancesInOrder` |
| `AsrTypes` | `AsrSpec => []AsrTypeOK` |

`VadInv` says where each model is, and that who waits for one has none, so that none is lost when one is taken.
`InStep` ties the last event of a stream to the utterance that is spoken or being ended; neither
depends on what the recognisers do, which is the point.

`RelayProofs`. A direction, for any numbers of units, chunks and barge-ins:

| theorem | states |
|---|---|
| `WhatIsHeardIsLogged` | `DirectionSpec => []HeardIsLogged` |
| `NothingOldIsPlayed` | `DirectionSpec => []NothingStalePlays` |
| `UnitsAreTold` | `DirectionSpec => []UnitsAreToldApart` |
| `DirectionTypes` | `DirectionSpec => []DirectionTypeOK` |

A unit is committed, queued, in work or over; `QueueOK` and `WorkOK` say that only one that is over
has a row, so no two of barge-in, cancellation and the task itself record it. `WorkOK` also says
that nothing was heard of a unit before its synthesis: that is why a cancellation before the first step, or at
the caption's await, which leaves no row, loses nothing that was heard. `EpochOK` says that a
task that is not cancelled is of the present epoch; `FrameTaken` does not ask, and needs it.
`GoingOn` and `GettingOver` are the two things a task may do.

`UnitsInv` is added for the third: no two units have a segment (`SegmentsOK`), a key is the place of the first
unit that has it, and the key in use is of the speech start in use (`KeysOK`), and a unit
whose caption is still to come has no final one (`CaptionsOK`). `TellingOneApart` is the step that
commits a unit; `SegmentsLeft` counts, since a segment not yet used is what makes it possible.
The types need both invariants: a unit is in `Units` because a segment was left for it, and the queue is
no longer than the units there are because it holds none of them twice (`QueueIsShort`, by cardinality).

The room, for any speakers and microphones, and the link, for any queue and number of frames:

| theorem | states |
|---|---|
| `EveryMicrophoneIsRead` | `RelaySpec => []MicrophoneIsRead` |
| `FlushIsBehind` | `LinkSpec => []FlushFollowsAudio` |
| `RelayTypes` | `RelaySpec => []RelayTypeOK` |
| `LinkTypes` | `LinkSpec => []LinkTypeOK` |

`RoomInv`: what is published is the newest microphone and nothing later has a reader (`MicOK`); before the
directions are there nobody reads (`StartOK`); an entry of the table is of a reader that was
started (`EntriesOK`), so a microphone that comes again finds an entry that is done with, unless the
reader before is still at work. `late` records that, and then the entry stays with the earlier track and the new one gets no
reader (`ReadOK`, which also says that what the directions' start has still to attach has no entry yet). `LinkInv`: what `join()` waits for is what the queue has
and the sender holds (`UnfinishedOK`), so a count of zero means that every frame has gone out (`TakenOK`), or its
sender died; nothing but the session's own close stops the sender (`StopOK`); and the order has not
overtaken it at any step of the hang-up (`WireOK`).

`TranscriptProofs`, for any vocabulary, thresholds and bounds:

| theorem | states |
|---|---|
| `SpokenWordsStand` | `ChunkerSpec => []SpokenStands` |
| `AttemptsAreCounted` | `ShadowSpec => []OneRowPerAttempt` |
| `TheTruthIsStable` | `ShadowSpec => TruthIsStable` |
| `ArmsAreWhole` | `AcousticSpec => []RowsAreWhole` |
| `ShadowsAddUp` | `ShadowSpec /\ AcousticSpec => []ShadowRowsAddUp` |
| `EveryRowIsAccountedFor` | `EvalSpec => []NoRowVanishes` |
| `VerdictsNameTheHeard` | `EvalSpec => []VerdictNamesTheHeard` |
| `EvaluationStaysHonest` | `ReplaySpec /\ LogSpec => []EvaluationIsHonest` |
| `ChunkerTypes`, `ShadowTypes` | `ChunkerSpec => []ChunkerTypeOK`, `ShadowSpec => []ShadowTypeOK` |
| `AcousticTypes`, `EvalTypes` | `AcousticSpec => []AcousticTypeOK`, `EvalSpec => []EvalTypeOK` |

It begins with what the models do to sequences: the common prefix of two hypotheses is a prefix of both and the longest
one (`AgreedPrefix`), and `Max` of a set with a bound is in it (`Greatest`, by well-founded descent, since the
definition is a CHOOSE).

*Chunker.* `CarriesOn(sp, s)` says of the locals `s` of a handler that what was spoken before it, with what
it has emitted so far, is the committed part of the stable words. Each helper (`Emit`, `EmitAll`,
`TryCommit`, `ExtendStable`, `Drain`) has its lemma that it carries on, and a handler is their composition;
`ChunkerInv` is `CarriesOn` between handlers, with what the last final was said as (`FinalIsSaid`, word by word and
not by length). Its types say that what it holds fits a hypothesis (`Short`). A
final that revises spoken words is the one case that is not plain: it keeps what was said and appends the rest
of the final behind as many words, which is no longer than the final.

*Shadows.* An attempt is a record that only moves on (`Advances`): a row is written once, for what was answered or failed
and has its outcome (`AttemptStarted`), and as soon as both are there (`AttemptOK`), whichever of answer, word and close is
last. `ShadowInv` adds that after the close nothing is asked and everything is settled; `TruthOK` is the action
property in terms of the last two hypotheses. An arm has more that is awaited, and
the same shape: `ArmStarted`, `ArmOK`, `ArmClosed` in `AcousticInv`.

*Eval log.* `NoRowVanishes` counts the places of a row and cannot be carried by itself. `EvalInv` is a ledger
(`LedgerOK`): every row is in the queue, in the hands of a thread, in the file or missed, and no two of these
share one; each of them has it once (`OnceOK`). `LedgerTakes`, `LedgerHands`, `LedgerLands`, `LedgerCrashes` are the
four ways a row changes place, on sets, and every action is one of them. `WriterOK` ties the writer's task to its thread and to
the state of the log, and says that the stop is the last thing in the queue and that a log closed in time
has left nothing: that needs the order of queue, batch and stop, and is where the mutant
bites. `VerdictOK` holds between the read of the file and the append: lines that are whole stay so,
since a torn end spoils only what is glued to it.

*Evaluation.* A rate is a quotient of counts, and counts are proved as cardinalities: the copies of the rows of a
list are a finite set (`CopiesAreFinite`), a kind of row that implies another is counted at most as often
(`FewerRows`), two that exclude each other add up (`ApartRows`, `WithoutRows`). The results of a
language are the words kept and the words lost, so the gate's rates have the denominator they should (`PassedIsKept`), and
`RateBound` turns a rounded rate that passes into a bound on the words lost. Each
test for REJECT asks for enough samples of a kind (`RejectedIsSeen`). Of a report, a key is missing or `Found`; each found one has a
first chunk (`EachFoundHasAFirst`, a surjection), and one only when none is duplicated (`NoneExcess`, an
injection), so the first chunks and the missing make up the utterances (`FirstsAndUtterances`). The first chunks are the
samples and those without a latency (`FirstsAreTimedOrNot`), and the fates of a row exclude each other (`FatesApart`).
The invariants of the specifications (`ReplayInv`, `LogInv`) only say that the lists are
finite bags of rows of the right shape; all the rest is about the code's arithmetic.

`RingClientProofs`, for any number of calls each way, automatic attempts and functions of `main.ts`
in progress at once:

| theorem | states |
|---|---|
| `OneLoopRuns` | `RingClientSpec => []OneLoop` |
| `SettledIsNeverOffered` | `RingClientSpec => SettledIsNotOffered` |
| `RingTypes` | `RingClientSpec => []RingClientTypeOK` |

Calls are numbered in the order they ring. `Consistent` says that the tab is never ahead of the
backend, nor its memory of the call handled last ahead of the call it shows; that no answer in flight, of a
poll or of a button, is about a call the backend has not had; and that what the user has settled is
at most what the tab has handled. A poll shows a ring only when it is newer than the one handled, so one that was
settled is not shown by it. `PressInv` does the same for the press: a call that was pressed is handled, older than the one on
offer, or on offer with its panel up, which a poll leaves alone. `suspend` is the one step that puts the panel away without
handling the call; it empties `pressed`, which is the exception the property names. `Dispatching` is the lemma about the reducer with the planning of the next
poll, `Keeping` and `Closing` those about the functions behind the buttons, `Advancing` the
one about the backend going on.

`IdentityProofs`, for any processes, seed, numbers, companions, challenges, budgets, windows and bounds (`MaxWrites` at
least 1, as a directory that was used before has been written once):

| theorem | states |
|---|---|
| `SavesReplaceNothing` | `IdentitySpec => SavesAreUnions` |
| `GuessesStayBounded` | `VerificationSpec => []GuessesAreBounded` |
| `StoreTypes` | `IdentitySpec => []IdentityTypeOK` |
| `PhoneTypes` | `VerificationSpec => []VerificationTypeOK` |

The first is about one step, the rename; `StoreInv` is what makes it true there. Every snapshot
is well formed, on disk, in memory and while it is loaded (`AllWellFormed`); a process whose `seen` is the
stamp of the disk holds all that is on it (`SeenIsHeld`); and the edit being saved is a row of its
own in memory (`EditStands`). Owners have an invariant of their own: of a number that was not registered twice, the
disk and every memory that has an owner have the same one (`OwnersAgree`), since all but a registration copies a row. A load keeps what it read, a route only adds, a merge takes in what is missing and
an edited row is not, so all that happens to a memory is growth: `Grows` with `GrowingKeeps` is one lemma
for all of them, and each operator on snapshots has its own (`Joining` to `Grid`).

For the second, what the code keeps of a number is only the start of its window and how many guesses were made in
it; `BudgetOK` says what this tells about the history. The window begins with a guess, has as many as its
budget says, and none came after its end; and a stretch of one window that reaches back before it had less
than a budget left when it began (`WindowOK`). Without a window a stretch that ends now has less than
a budget (`RestOK`). A window that ends is at rest (`WindowCloses`), since the guess it began with is then
outside every stretch that counts: that is where twice the budget less one comes from. `GuessFits` is the guess,
`TimeGoesOn` the clock. A sweep drops only budgets whose window is over, so it is `WindowCloses` again. A proof is used
once because a challenge is open, proved or consumed, one at a time (`ProofsOK`).

`ComponentsProofs`, for any values of all constants:

| theorem | states |
|---|---|
| `ComponentsTypes` | `Spec => []ComponentsTypeOK` |

`Spec` is here the one of `MCComponents`, whose runs check the components. `ComponentsApart` shows that it
implements the specification of each component, in focus or not: a step of another one is a stutter of it. So
every theorem above about a component holds of what the run `components` checks, and the types of all of them together are
`ComponentsTypes`.

Every invariant and every safety property that a run checks is thereby a theorem. Only
model-checked is liveness, out of the prover's reach: `NothingIsImmortal`, `WaitersAnswered`,
`AgentLeaves`, `UnitsSettle`, `HangupEnds`, `NoWordWaits`, `StreamsComeToAnEnd`.

## 5. Findings

1. `calls_leak`. A ring refused while its dispatch is in flight ends with
   `dispatched` false, so nothing is stopped; the dispatch then writes true on the
   ended call, which no pass looks at again. `routes/calls.ts:380` says no exit can
   leak an agent.
2. `calls_relabel`. `/ring/cancel` accepts an answered and joined call, or one
   already over, relabels it and overwrites the accept time. `/end` has the guard,
   and `test/smoke.test.ts:1322` the expectation.
3. `calls_stale`. A request that joins a sweep already in flight, or whose own sweep
   waits on I/O past a deadline, goes on with an expired ring; `ring/accept` does not
   look at the deadline. `ringing.ts:170` says "no stale Accept".
4. `jobs_invite`. `relay.py:49-52` takes 90 s for the longest a call may wait; an
   invite link may wait 10 minutes and a ring 300 s. The agent, dispatched at creation,
   leaves after 120 s and nothing dispatches it again.
5. `relay_close`. `Relay.aclose()` awaits inside its loop over the readers while the room
   is still connected; a reader that comes or goes makes the loop raise, and directions, room and
   eval log stay open. `relay.py:277` promises that the log is closed last and loses nothing.
6. `stt_flush`. `RunPodSttSession.flush()` waits without a limit for a queue whose sender may
   be dead, before the drain takes its deadline. `docs/05-providers.md:334` says the wait is short.

What the two last mean for the agent's service is in `AgentService`: `_supervise` forgets a relay whose `aclose()`
raised (`main.py:99-104`) and a stop is then answered "not_found", or "stopped" if it was waiting, with the room connected;
a flush that hangs is cancelled by a stop after 5 s, which passes through the `suppress(Exception)` of `aclose()`, finds
`_closed` set, and does not reach `room.disconnect()`; without a stop it stays. No property claims that such a
relay leaves: `StoppedIsOver` and `AgentLeaves` except it by name.

Met while modelling, and no run's subject: the tail of the input resampler is not flushed when a
unit is cut (`direction.py:535`); the ring client stays suspended when `session.start()` fails
after the join and its caller goes on (`main.ts:925`); a generation lock is held for ever when feature extraction
raises before the end mark (`engines.py`, `FeatureFails`), and when it raises on the tail that a close still feeds, the
session's sender is not cancelled; a microphone published again while the reader of the speaker's earlier one is not done is
not attached, then or later (`relay.py:453`, stated by `MicrophoneIsRead`); a verdict appended to a torn line is
answered 202 and cannot be read back (`evallog.py:100`); a settled prediction outcome may be resolved by a
later utterance (`speculation.py:219`); the predictor's unlocked fast path sees the model before
its device (`predictor/app.py:112`), an error answer and no second load.

In the chunker: `chunker.py:200` says of a final that it is "stable by definition; commit whatever is left", but
`_extend_stable` returns at once for one that is no longer than the stable words (`chunker.py:297`). A final with other words in
their places is then not said: the stable ones are (`SpokenStands`, third conjunct of `FinalIsSaid`).

In the reviewers: `review_call.py:517` has the two counts of anomalies there because an `n` that disagrees with the
utterances is unexplainable without them, and the note at line 393 blames the missing first chunks alone. A delivered first
chunk without a number (no speech start, `direction.py:616`; no audio, `direction.py:565`) lowers `n` and appears in neither:
it is the term `Untimed` of `ReportsAddUp`.

In the gate: the comment at `benchmark_gate.py:443` calls the summed miss rate exactly one minus the retention,
but each rate is rounded to four digits by itself, as the comment at line 215 says. Rounding also moves
the limit: 51 of 1019 words lost is a retention of 0.9500 and passes. `VerdictIsEarned` allows that and no more.

In the ring client: an accept that fails late re-rings a call that was declined since, when two
functions of `main.ts` are under way (`ring.ts:299`); and a poll sent before the press that lands after
`suspend` shows the ring again while a call is being entered (`ring.ts:374-388`), though `ring.ts:177` says that it must not.
`SettledIsNotOffered` names both and excludes every other way.

In the identity store: `loadIdentityStore` stamps the file after it has read it (`store.ts:384`) and
`saveIdentities` after the rename (`store.ts:566`), so a foreign write in between is taken for the
process's own and overwritten by its next save; the comment at `store.ts:488` names another window. A merge only adds, so
the next save of another process reverts an edit it has never seen. A number that two processes register at once gets two
profiles, and since a merge keeps the owner it knows (`store.ts:455`) each save puts its own owner in the place of the
other's, although the write is called a union and the phone index "stops one number minting a second profile"
(`store.ts:486` and 541); `doubled` is the set of these numbers, which `SavesAreUnions` excepts. A contact pair saved with `defer` is
answered before it is on disk (`store.ts:704`). The attempt windows are fixed, so a stretch of one hour may hold 39
guesses where `phoneVerification.ts:27` says twenty. A passkey login saves the copy of the file that it
loaded before its await (`routes/passkeys.ts:228`).

## 6. Plan

In this order; proofs where there is a safety invariant.

1. `PasskeyFile`: load - await - save of a whole file, by two logins.
2. A DIRECT call has no agent: `/mode` against a dispatch in flight; the abstract specification of
   the agent's room and `CallWithAgent` shown to implement it.
3. Compositions: `SttLink` with `AsrService` over a socket; `RelayRoom` with two `Direction`s.
4. Retries of the translation providers, whose failures are a choice in `Direction`.
5. Proofs of what the modules of 1 to 4 will promise. No module to be proved about uses RECURSIVE.

## 7. Not modelled

Signal processing and vendor HTTP clients of the agent, the models on the GPU,
DOM and media in the web client, cryptography of tokens and passkeys, the panel, shell
scripts and deployment: no protocol of their own, or pure I/O. Response bodies, wording
and logs of the modelled parts are left out too.

Of identities: passkeys and session cookies, the parsing of an old schema and the temporary file of a
save, the restart of phone verification, and the sending of a code.

At the agent: the memory of failures that `/stats` shows, `stop_all` at shutdown, numbering of
subtitle messages within a segment, metrics. Whether the LiveKit library drops the connection of a relay whose
`aclose()` was cut is not in this repository: `Dropped` may happen and is not fair.
