---------------------------- MODULE CallStore ----------------------------
(***************************************************************************)
(* The call section of backend/src/store.ts: what one call record is, what *)
(* each setter does to it and what each query selects.  No state here: the *)
(* Map and its concurrent users are in CallLifecycle.                      *)
(*                                                                         *)
(* Ids are handed out in increasing order, so the insertion order of the   *)
(* Map is the order of the ids.  Times are ticks of one clock.  FORCED     *)
(* drives exactly the control that TRANSLATED does and is not told apart.  *)
(***************************************************************************)
EXTENDS Integers, FiniteSets

CONSTANTS
    Users,          \* identities that may call each other
    NoUser,         \* nobody
    MaxCallId,      \* bound: calls ever created
    RingTimeouts,   \* values of ringTimeoutSeconds a request may ask for
    IdleLimit,      \* CallLifetimeLimits.idleMs
    MaxLifetime,    \* CallLifetimeLimits.maxLifetimeMs
    ArchiveAfter,   \* ArchiveLimits.archiveAfterMs
    MaxCalls        \* ArchiveLimits.maxCalls

ASSUME NoUserAssumption == NoUser \notin Users
ASSUME CallIdAssumption == MaxCallId \in Nat \ {0}
ASSUME TimeoutAssumption == RingTimeouts \subseteq Nat \ {0}
ASSUME LimitAssumption == {IdleLimit, MaxLifetime, ArchiveAfter, MaxCalls} \subseteq Nat

CallIds == 1 .. MaxCallId
NoTime == -1                      \* a JavaScript null timestamp
Stamp == Nat \cup {NoTime}

Modes == {"DIRECT", "TRANSLATED"}
LiveRings == {"ringing", "accepted"}
DeadRings == {"declined", "cancelled", "timeout"}
RingStates == {"none"} \cup LiveRings \cup DeadRings
CallStates == {"unborn", "created", "active", "ended"}

(* A call: ring = "none" is a null ring, "unborn" an id not yet used. *)
Call == [state : CallStates, mode : Modes,
         caller : Users \cup {NoUser}, callee : Users \cup {NoUser},
         createdAt : Nat, lastActivityAt : Nat, endedAt : Stamp,
         required : BOOLEAN, dispatched : BOOLEAN,
         ring : RingStates, expiresAt : Nat, respondedAt : Stamp, timeout : Nat]

Participants(call) == {call.caller, call.callee}

----------------------------------------------------------------------------
(* Setters.  t is the Date.now() of the setter. *)

\* createCall with newRing(timeout, t), or with a null ring when timeout = 0.
CreateCall(u, v, mode, timeout, t) ==
    [state |-> "created", mode |-> mode, caller |-> u, callee |-> v,
     createdAt |-> t, lastActivityAt |-> t, endedAt |-> NoTime,
     required |-> mode # "DIRECT", dispatched |-> FALSE,
     ring |-> IF timeout = 0 THEN "none" ELSE "ringing",
     expiresAt |-> t + timeout, respondedAt |-> NoTime, timeout |-> timeout]

UnbornCall ==
    [CreateCall(NoUser, NoUser, "DIRECT", 0, 0) EXCEPT !.state = "unborn"]

TouchCall(call, t) == [call EXCEPT !.lastActivityAt = t]

\* Mutant: the end of a call is not stamped.
SetCallStateUnstamped(call, state, t) ==
    [call EXCEPT !.state = state, !.lastActivityAt = t]

\* Mutant: ending a call again moves its end.
SetCallStateRestamped(call, state, t) ==
    [call EXCEPT !.state = state, !.lastActivityAt = t,
                 !.endedAt = IF state = "ended" THEN t ELSE @]

SetCallState(call, state, t) ==
    [call EXCEPT !.state = state, !.lastActivityAt = t,
                 !.endedAt = IF state = "ended" /\ @ = NoTime THEN t ELSE @]

SetCallMode(call, mode, t) ==
    [call EXCEPT !.mode = mode, !.required = mode # "DIRECT", !.lastActivityAt = t]

SetRingState(call, state, t) ==
    [call EXCEPT !.ring = state, !.respondedAt = t, !.lastActivityAt = t]

SetCallAgent(call, required, dispatched) ==
    [call EXCEPT !.required = required, !.dispatched = dispatched]

(* The synchronous parts of ringing.ts and of the join and accept handlers. *)

\* endCallReleasingAgent up to its await.
EndCall(call, t) ==
    IF call.state # "ended" THEN SetCallState(call, "ended", t) ELSE call

\* Mutant: endRing relabels a ring that already has a verdict.
EndRingAgain(call, why, t) ==
    EndCall(IF call.ring # "none" THEN SetRingState(call, why, t) ELSE call, t)

\* endRing up to its await: the label first, then the call.
EndRing(call, why, t) ==
    EndCall(IF call.ring \in LiveRings THEN SetRingState(call, why, t) ELSE call, t)

\* accept: the deadline is pushed forward, not cleared.
AcceptRing(call, t) ==
    [SetRingState(call, "accepted", t) EXCEPT !.expiresAt = t + call.timeout]

\* Mutant: join activates the call without looking at its state again.
JoinCallUnchecked(call, u, t) ==
    LET answered == IF call.ring = "ringing" /\ u = call.callee
                    THEN SetRingState(call, "accepted", t) ELSE call
    IN  TouchCall(SetCallState(answered, "active", t), t)

\* join after its token: the callee's join is her answer, the first join activates.
JoinCall(call, u, t) ==
    LET answered == IF call.ring = "ringing" /\ u = call.callee
                    THEN SetRingState(call, "accepted", t) ELSE call
        entered  == IF answered.state = "created"
                    THEN SetCallState(answered, "active", t) ELSE answered
    IN  TouchCall(entered, t)

----------------------------------------------------------------------------
(* Queries over the live map: calls[c] for c \in live.  t is nowMs. *)

\* Mutant: an accepted ring expires even after somebody joined.
RingDueAlways(call, t) ==
    call.state # "ended" /\ call.expiresAt <= t /\ call.ring \in LiveRings

\* dueRingCalls's filter, for one call.
RingDue(call, t) ==
    /\ call.state # "ended"
    /\ call.expiresAt <= t
    /\ \/ call.ring = "ringing"
       \/ call.ring = "accepted" /\ call.state = "created"

DueRingCalls(calls, live, t) == {c \in live : RingDue(calls[c], t)}

\* Mutant: an answered ring governs its call for ever.
RingGovernsForEver(call) == call.ring \in LiveRings

RingStillGoverns(call) ==
    \/ call.ring = "ringing"
    \/ call.ring = "accepted" /\ call.state = "created"

OutlivedBounds(call, t) ==
    IF call.state = "created" THEN t - call.lastActivityAt >= IdleLimit
                              ELSE t - call.createdAt >= MaxLifetime

DeadCalls(calls, live, t) ==
    {c \in live : /\ calls[c].state # "ended"
                  /\ ~RingStillGoverns(calls[c])
                  /\ OutlivedBounds(calls[c], t)}

\* Past their window, and, over the ceiling, the oldest of the other ended calls.
ArchivableCalls(calls, live, t) ==
    LET ended == {c \in live : calls[c].state = "ended"}
        due   == {c \in ended : t - calls[c].endedAt >= ArchiveAfter}
        rest  == ended \ due
        over  == Cardinality(live) - Cardinality(due) - MaxCalls
    IN  due \cup {c \in rest : Cardinality({d \in rest : d < c}) < over}

\* findBusyCall: only a live, unexpired ring on a call nobody joined blocks.
RingBlocks(call, u, t) ==
    /\ call.ring \in LiveRings
    /\ call.state = "created"
    /\ call.expiresAt > t
    /\ u \in Participants(call)

Busy(calls, live, u, t) == \E c \in live : RingBlocks(calls[c], u, t)
============================================================================
