------------------------------ MODULE GpuQueue ------------------------------
(***************************************************************************)
(* queueing.py: admission to the GPU of one service (the predictor, the    *)
(* pruner).  Each request of their handlers is one call of GpuQueue.run:   *)
(* it waits for the semaphore, hands its inference to a thread and awaits  *)
(* it behind a shield.  The caller may be cancelled at either await; the   *)
(* thread cannot be.                                                       *)
(*                                                                         *)
(* The semaphore is asyncio's: a release hands the permit to the first who *)
(* waits, who takes it when its task runs next.                            *)
(***************************************************************************)
EXTENDS Integers, FiniteSets

CONSTANTS
    Requests,   \* bound: the requests, each of which comes once
    Limit       \* PREDICTOR_GPU_CONCURRENCY, ACOUSTIC_PRUNER_GPU_CONCURRENCY

ASSUME GpuAssumption == IsFiniteSet(Requests) /\ Limit \in Nat \ {0}

VARIABLES
    phase,      \* where the handler of each request is
    arrival,    \* the order in which requests came to wait
    permits,    \* _value of the semaphore
    card,       \* requests whose inference runs on a thread
    waiting     \* _waiting

gpuVars == <<phase, arrival, permits, card, waiting>>

GpuPhases == {"new", "queued",
              "handed",     \* the permit is its own, its task has not run yet
              "served",     \* awaits the thread
              "over"}       \* answered, or cancelled

GpuInit ==
    /\ phase = [r \in Requests |-> "new"]
    /\ arrival = [r \in Requests |-> 0]
    /\ permits = Limit /\ card = {} /\ waiting = 0

----------------------------------------------------------------------------
(* asyncio.Semaphore *)

InPhase(ph, p) == {r \in Requests : ph[r] = p}
Queued == InPhase(phase, "queued")
Handed == InPhase(phase, "handed")

CameFirst(ph, r) ==
    r \in InPhase(ph, "queued") /\ \A q \in InPhase(ph, "queued") : arrival[r] <= arrival[q]

\* _wake_up_next, if there is a permit to hand and somebody who waits for it.
WakeNext(ph, free) ==
    \/ /\ free > 0
       /\ \E r \in Requests : CameFirst(ph, r) /\ phase' = [ph EXCEPT ![r] = "handed"]
       /\ permits' = free - 1
    \/ /\ free = 0 \/ InPhase(ph, "queued") = {}
       /\ phase' = ph /\ permits' = free

Locked == permits = 0 \/ Queued # {} \/ Handed # {}

----------------------------------------------------------------------------
(* GpuQueue.run *)

\* A free card is taken at once; the others wait and are counted.
Arrive(r) ==
    /\ phase[r] = "new"
    /\ \/ /\ ~Locked
          /\ permits' = permits - 1
          /\ phase' = [phase EXCEPT ![r] = "served"]
          /\ card' = card \cup {r}
          /\ UNCHANGED <<arrival, waiting>>
       \/ /\ Locked
          /\ phase' = [phase EXCEPT ![r] = "queued"]
          /\ arrival' = [arrival EXCEPT ![r] = Cardinality({q \in Requests : arrival[q] # 0}) + 1]
          /\ waiting' = waiting + 1
          /\ UNCHANGED <<permits, card>>

\* The task of the one that was handed the permit runs: its thread starts.
Admitted(r) ==
    /\ phase[r] = "handed"
    /\ WakeNext([phase EXCEPT ![r] = "served"], permits)
    /\ card' = card \cup {r}
    /\ waiting' = waiting - 1
    /\ UNCHANGED arrival

\* Mutant: the permit of a waiter cancelled after it was handed one is lost.
CancelledWaitingKeeping(r) ==
    /\ phase[r] \in {"queued", "handed"}
    /\ phase' = [phase EXCEPT ![r] = "over"]
    /\ waiting' = waiting - 1
    /\ UNCHANGED <<arrival, card, permits>>

\* Cancelled in acquire(): a permit it was handed goes to the next.
CancelledWaiting(r) ==
    /\ \/ /\ phase[r] = "queued"
          /\ phase' = [phase EXCEPT ![r] = "over"] /\ UNCHANGED permits
       \/ /\ phase[r] = "handed"
          /\ WakeNext([phase EXCEPT ![r] = "over"], permits + 1)
    /\ waiting' = waiting - 1
    /\ UNCHANGED <<arrival, card>>

\* Mutant: the permit is released when the coroutine ends.
CancelledServedReleasing(r) ==
    /\ phase[r] = "served"
    /\ WakeNext([phase EXCEPT ![r] = "over"], permits + 1)
    /\ UNCHANGED <<arrival, card, waiting>>

\* Cancelled behind the shield: nothing is released, the forward pass goes on.
CancelledServed(r) ==
    /\ phase[r] = "served"
    /\ phase' = [phase EXCEPT ![r] = "over"]
    /\ UNCHANGED <<arrival, permits, card, waiting>>

\* The thread is off the card, with a result or an error: the done callback releases
\* the permit, and a handler that still awaits it answers.
InferenceDone(r) ==
    /\ r \in card
    /\ card' = card \ {r}
    /\ WakeNext([phase EXCEPT ![r] = "over"], permits + 1)
    /\ UNCHANGED <<arrival, waiting>>

GpuRuns == \E r \in Requests : Admitted(r) \/ InferenceDone(r)

GpuNext == \/ GpuRuns
           \/ \E r \in Requests : Arrive(r) \/ CancelledWaiting(r) \/ CancelledServed(r)

GpuSpec == GpuInit /\ [][GpuNext]_gpuVars

----------------------------------------------------------------------------
(* Properties. *)

\* Every variable has its type.
GpuTypeOK ==
    /\ phase \in [Requests -> GpuPhases]
    /\ arrival \in [Requests -> 0 .. Cardinality(Requests)]
    /\ permits \in 0 .. Limit
    /\ card \subseteq Requests
    /\ waiting \in 0 .. Cardinality(Requests)

\* queueing.py: "one 4090 cannot serve two inferences at the same time": never more
\* than Limit forward passes, also those of callers who are gone.
CardNeverShared == Cardinality(card) <= Limit

\* Nobody waits for a card that is free: whoever waits, every permit is on the card
\* or in the hands of one about to use it.
NoLostWakeup ==
    Queued # {} => Handed # {} \/ Cardinality(card) = Limit
============================================================================
