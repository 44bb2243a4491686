------------------------------ MODULE GpuProofs ------------------------------
(***************************************************************************)
(* Proofs about the GPU services.  The queue of a card: no more inferences *)
(* run than the card takes, and nobody waits for a card that is free, for  *)
(* any number of requests, any limit and any pattern of cancellations.  An *)
(* engine loads its model once, whoever asks for it at the same time.  The *)
(* recogniser: a VAD model has one user at most and is never lost, and the *)
(* events of a stream come in order.                                       *)
(***************************************************************************)
EXTENDS GpuQueue, LazyEngine, AsrService, FiniteSetTheorems, TLAPS

(* GpuQueue: the queue of a card. *)

\* Every permit is free, in the hands of a request about to run, or on the card.
PermitsOK ==
    /\ permits \in Nat
    /\ permits + Cardinality(Handed) + Cardinality(card) = Limit

\* Who has a thread on the card was admitted, and may since have gone.
CardOK == card \subseteq Requests /\ \A r \in card : phase[r] \in {"served", "over"}

\* A permit stays free only while nobody waits, or somebody is about to take one.
WakeupOK == Queued # {} /\ Handed = {} => permits = 0

\* Who has not come has no place, and those who wait are counted.
ArrivalOK ==
    /\ arrival \in [Requests -> 0 .. Cardinality(Requests)]
    /\ \A r \in Requests : phase[r] = "new" => arrival[r] = 0
    /\ waiting = Cardinality(Queued \cup Handed)

\* The inductive invariant.
GInv ==
    /\ phase \in [Requests -> GpuPhases]
    /\ PermitsOK /\ CardOK /\ WakeupOK /\ ArrivalOK

----------------------------------------------------------------------------
(* Counting requests. *)

LEMMA Counting ==
    ASSUME NEW S \in SUBSET Requests, NEW r \in Requests
    PROVE  /\ Cardinality(S) \in Nat /\ Cardinality(S) \in 0 .. Cardinality(Requests)
           /\ r \in S => Cardinality(S \ {r}) = Cardinality(S) - 1
           /\ r \notin S => /\ Cardinality(S \cup {r}) = Cardinality(S) + 1
                            /\ Cardinality(S) < Cardinality(Requests)
  <1>1. IsFiniteSet(S) /\ IsFiniteSet(Requests)
    BY GpuAssumption, FS_Subset
  <1>2. Cardinality(S) \in Nat /\ Cardinality(Requests) \in Nat
    BY <1>1, FS_CardinalityType
  <1>3. Cardinality(S) <= Cardinality(Requests)
    BY <1>1, FS_Subset
  <1>4. r \notin S => Cardinality(S \cup {r}) <= Cardinality(Requests)
    BY <1>1, FS_Subset
  <1>5. Cardinality(S \cup {r}) = IF r \in S THEN Cardinality(S) ELSE Cardinality(S) + 1
    BY <1>1, FS_AddElement
  <1>6. Cardinality(S \ {r}) = IF r \in S THEN Cardinality(S) - 1 ELSE Cardinality(S)
    BY <1>1, FS_RemoveElement
  <1> QED
    BY <1>2, <1>3, <1>4, <1>5, <1>6

\* The semaphore's hand-over loses no permit and no waiter, and leaves a permit free
\* only when nobody waits for it or somebody is about to take one.
LEMMA HandOver ==
    ASSUME NEW ph \in [Requests -> GpuPhases], NEW free \in Nat, WakeNext(ph, free)
    PROVE  /\ phase' \in [Requests -> GpuPhases]
           /\ permits' \in Nat
           /\ permits' + Cardinality(Handed') = free + Cardinality(InPhase(ph, "handed"))
           /\ WakeupOK'
           /\ Queued' \cup Handed' = InPhase(ph, "queued") \cup InPhase(ph, "handed")
           /\ \A q \in Requests : ph[q] # "queued" => phase'[q] = ph[q]
           /\ \A q \in Requests : phase'[q] = "new" => ph[q] = "new"
  <1>1. CASE /\ free = 0 \/ InPhase(ph, "queued") = {}
             /\ phase' = ph /\ permits' = free
    <2>1. Queued' = InPhase(ph, "queued") /\ Handed' = InPhase(ph, "handed")
      BY <1>1 DEF Queued, Handed, InPhase
    <2> QED
      BY <1>1, <2>1 DEF WakeupOK
  <1>2. ASSUME free > 0, permits' = free - 1,
               NEW r \in Requests, CameFirst(ph, r), phase' = [ph EXCEPT ![r] = "handed"]
        PROVE  /\ phase' \in [Requests -> GpuPhases]
               /\ permits' \in Nat
               /\ permits' + Cardinality(Handed') = free + Cardinality(InPhase(ph, "handed"))
               /\ WakeupOK'
               /\ Queued' \cup Handed' = InPhase(ph, "queued") \cup InPhase(ph, "handed")
               /\ \A q \in Requests : ph[q] # "queued" => phase'[q] = ph[q]
               /\ \A q \in Requests : phase'[q] = "new" => ph[q] = "new"
    <2>1. ph[r] = "queued" /\ r \in InPhase(ph, "queued") /\ r \notin InPhase(ph, "handed")
      BY <1>2 DEF CameFirst, InPhase
    <2>2. Handed' = InPhase(ph, "handed") \cup {r}
      BY <1>2 DEF Handed, InPhase
    <2>3. Queued' = InPhase(ph, "queued") \ {r}
      BY <1>2 DEF Queued, InPhase
    <2>4. Cardinality(InPhase(ph, "handed")) \in Nat
          /\ Cardinality(Handed') = Cardinality(InPhase(ph, "handed")) + 1
      <3>1. InPhase(ph, "handed") \in SUBSET Requests
        BY DEF InPhase
      <3> QED
        BY <2>1, <2>2, <3>1, Counting
    <2>5. phase' \in [Requests -> GpuPhases]
      BY <1>2 DEF GpuPhases
    <2> QED
      BY <1>2, <2>1, <2>2, <2>3, <2>4, <2>5 DEF WakeupOK
  <1> QED
    BY <1>1, <1>2 DEF WakeNext

----------------------------------------------------------------------------
(* The inductive invariant. *)

\* What the sets of the invariant are, and what one request more or less makes of them.
LEMMA SetsOfRequests ==
    ASSUME CardOK
    PROVE  /\ Queued \in SUBSET Requests /\ Handed \in SUBSET Requests
           /\ Queued \cup Handed \in SUBSET Requests /\ card \in SUBSET Requests
           /\ \A r \in Queued : phase[r] = "queued"
           /\ \A r \in Handed : phase[r] = "handed"
  BY DEF Queued, Handed, InPhase, CardOK

LEMMA Initially == GpuInit => GInv
  <1> SUFFICES ASSUME GpuInit PROVE GInv
    OBVIOUS
  <1>1. Queued = {} /\ Handed = {} /\ card = {}
    BY DEF GpuInit, Queued, Handed, InPhase
  <1>2. Cardinality({}) = 0 /\ Cardinality(Requests) \in Nat
    BY GpuAssumption, FS_EmptySet, FS_CardinalityType
  <1>3. Queued \cup Handed = {}
    BY <1>1
  <1>4. phase \in [Requests -> GpuPhases]
    BY DEF GpuInit, GpuPhases
  <1>5. PermitsOK
    BY <1>1, <1>2, GpuAssumption DEF GpuInit, PermitsOK
  <1>6. ArrivalOK
    <2>1. 0 \in 0 .. Cardinality(Requests)
      BY <1>2
    <2>2. arrival \in [Requests -> 0 .. Cardinality(Requests)]
      BY <2>1 DEF GpuInit
    <2>3. waiting = Cardinality(Queued \cup Handed)
      BY <1>2, <1>3 DEF GpuInit
    <2> QED
      BY <2>2, <2>3 DEF GpuInit, ArrivalOK
  <1> QED
    BY <1>1, <1>4, <1>5, <1>6 DEF GInv, CardOK, WakeupOK

LEMMA ArrivePreserves ==
    ASSUME GInv, NEW r \in Requests, Arrive(r)
    PROVE  GInv'
  <1> USE DEF GInv
  <1>1. phase[r] = "new" /\ r \notin card /\ r \notin Queued /\ r \notin Handed
    BY DEF Arrive, CardOK, Queued, Handed, InPhase
  <1>2. CASE ~Locked /\ permits' = permits - 1 /\ phase' = [phase EXCEPT ![r] = "served"]
             /\ card' = card \cup {r} /\ UNCHANGED <<arrival, waiting>>
    <2>1. Queued = {} /\ Handed = {} /\ permits # 0
      BY <1>2 DEF Locked
    <2>2. Queued' = {} /\ Handed' = {}
      BY <1>2, <2>1 DEF Queued, Handed, InPhase, GpuPhases
    <2>3. Cardinality(card') = Cardinality(card) + 1 /\ Cardinality(card) \in Nat
      BY <1>1, <1>2, Counting, SetsOfRequests
    <2>4. PermitsOK'
      <3>1. Cardinality(Handed) \in Nat /\ Cardinality(Handed') = Cardinality(Handed)
        BY <2>1, <2>2, FS_EmptySet
      <3> QED
        BY <1>2, <2>1, <2>3, <3>1 DEF PermitsOK
    <2>5. phase' \in [Requests -> GpuPhases] /\ CardOK'
      BY <1>2 DEF CardOK, GpuPhases
    <2>6. ArrivalOK'
      BY <1>2, <2>1, <2>2 DEF ArrivalOK
    <2> QED
      BY <2>2, <2>4, <2>5, <2>6 DEF WakeupOK
  <1>3. CASE Locked /\ phase' = [phase EXCEPT ![r] = "queued"]
             /\ arrival' = [arrival EXCEPT ![r] = Cardinality({q \in Requests : arrival[q] # 0}) + 1]
             /\ waiting' = waiting + 1 /\ UNCHANGED <<permits, card>>
    <2>1. Queued' = Queued \cup {r} /\ Handed' = Handed
      BY <1>1, <1>3 DEF Queued, Handed, InPhase, GpuPhases
    <2>2. phase' \in [Requests -> GpuPhases] /\ CardOK'
      BY <1>1, <1>3 DEF CardOK, GpuPhases
    <2>3. WakeupOK'
      BY <1>3, <2>1 DEF WakeupOK, Locked
    <2>4. arrival' \in [Requests -> 0 .. Cardinality(Requests)]
      <3>1. arrival[r] = 0
        BY <1>1 DEF ArrivalOK
      <3>2. Cardinality({q \in Requests : arrival[q] # 0}) + 1 \in 0 .. Cardinality(Requests)
        <4> DEFINE came == {q \in Requests : arrival[q] # 0}
        <4>1. came \in SUBSET Requests /\ r \notin came
          BY <3>1
        <4>2. Cardinality(came) \in 0 .. Cardinality(Requests)
              /\ Cardinality(came) < Cardinality(Requests)
          BY <4>1, Counting
        <4>3. Cardinality(Requests) \in Nat
          BY GpuAssumption, FS_CardinalityType
        <4> HIDE DEF came
        <4>4. Cardinality(came) + 1 \in 0 .. Cardinality(Requests)
          BY <4>2, <4>3
        <4> QED
          BY <4>4 DEF came
      <3> QED
        BY <1>3, <3>2 DEF ArrivalOK
    <2>5. waiting' = Cardinality((Queued \cup Handed)')
      <3>1. (Queued \cup Handed)' = (Queued \cup Handed) \cup {r}
        BY <2>1
      <3> QED
        BY <1>1, <1>3, <3>1, Counting, SetsOfRequests DEF ArrivalOK
    <2>6. \A q \in Requests : phase'[q] = "new" => arrival'[q] = 0
      BY <1>3 DEF ArrivalOK
    <2> QED
      BY <1>3, <2>1, <2>2, <2>3, <2>4, <2>5, <2>6 DEF PermitsOK, ArrivalOK
  <1> QED
    BY <1>2, <1>3 DEF Arrive

LEMMA AdmittedPreserves ==
    ASSUME GInv, NEW r \in Requests, Admitted(r)
    PROVE  GInv'
  <1> USE DEF GInv
  <1> DEFINE ph == [phase EXCEPT ![r] = "served"]
  <1>1. ph \in [Requests -> GpuPhases] /\ WakeNext(ph, permits) /\ permits \in Nat
    BY DEF Admitted, GpuPhases, PermitsOK
  <1>2. InPhase(ph, "handed") = Handed \ {r} /\ InPhase(ph, "queued") = Queued
        /\ r \in Handed /\ r \notin Queued /\ r \notin card
    BY DEF Admitted, Handed, Queued, InPhase, CardOK, GpuPhases
  <1>3. Cardinality(Handed \ {r}) = Cardinality(Handed) - 1
        /\ Cardinality(card \cup {r}) = Cardinality(card) + 1
        /\ Cardinality(Handed) \in Nat /\ Cardinality(card) \in Nat
    <2>1. Handed \in SUBSET Requests /\ card \in SUBSET Requests
      BY SetsOfRequests
    <2>2. Cardinality(Handed) \in Nat /\ Cardinality(Handed \ {r}) = Cardinality(Handed) - 1
      BY <1>2, <2>1, Counting
    <2>3. Cardinality(card) \in Nat /\ Cardinality(card \cup {r}) = Cardinality(card) + 1
      BY <1>2, <2>1, Counting
    <2> QED
      BY <2>2, <2>3
  <1>4. waiting' = Cardinality((Queued \cup Handed) \ {r})
    BY <1>2, Counting, SetsOfRequests DEF ArrivalOK, Admitted
  <1> HIDE DEF ph
  <1>5. PermitsOK'
    BY <1>1, <1>2, <1>3, HandOver DEF PermitsOK, Admitted
  <1>6. CardOK'
    BY <1>1, HandOver DEF CardOK, Admitted, ph
  <1>7. ArrivalOK'
    <2>1. (Queued \cup Handed)' = (Queued \cup Handed) \ {r}
      BY <1>1, <1>2, HandOver
    <2>2. \A q \in Requests : phase'[q] = "new" => phase[q] = "new"
      BY <1>1, HandOver DEF ph
    <2> QED
      BY <1>4, <2>1, <2>2 DEF ArrivalOK, Admitted
  <1> QED
    BY <1>1, <1>5, <1>6, <1>7, HandOver

LEMMA CancelledWaitingPreserves ==
    ASSUME GInv, NEW r \in Requests, CancelledWaiting(r)
    PROVE  GInv'
  <1> USE DEF GInv
  <1> DEFINE ph == [phase EXCEPT ![r] = "over"]
  <1>1. ph \in [Requests -> GpuPhases] /\ permits \in Nat /\ permits + 1 \in Nat
    BY DEF GpuPhases, PermitsOK
  <1>2. r \in Queued \cup Handed /\ r \notin card
    BY DEF CancelledWaiting, Queued, Handed, InPhase, CardOK
  <1>3. InPhase(ph, "handed") = Handed \ {r} /\ InPhase(ph, "queued") = Queued \ {r}
    BY DEF Handed, Queued, InPhase, GpuPhases
  <1>4. waiting' = Cardinality((Queued \cup Handed) \ {r})
    BY <1>2, Counting, SetsOfRequests DEF ArrivalOK, CancelledWaiting
  <1>5. \A q \in Requests : q \in card => ph[q] \in {"served", "over"}
    BY DEF CardOK
  <1>6. CASE phase[r] = "queued" /\ phase' = ph /\ UNCHANGED permits
    <2>1. Handed' = Handed /\ Queued' = Queued \ {r}
      BY <1>6 DEF Handed, Queued, InPhase, GpuPhases
    <2>2. (Queued \cup Handed)' = (Queued \cup Handed) \ {r}
      BY <1>6, <2>1 DEF Handed, InPhase
    <2> QED
      BY <1>1, <1>4, <1>5, <1>6, <2>1, <2>2
         DEF CancelledWaiting, PermitsOK, CardOK, WakeupOK, ArrivalOK
  <1>7. CASE phase[r] = "handed" /\ WakeNext(ph, permits + 1)
    <2>1. r \in Handed /\ Queued \ {r} = Queued
      BY <1>7 DEF Handed, Queued, InPhase
    <2>sets. Handed \in SUBSET Requests /\ card \in SUBSET Requests
      BY SetsOfRequests
    <2>2. Cardinality(Handed) \in Nat /\ Cardinality(Handed \ {r}) = Cardinality(Handed) - 1
      BY <2>1, <2>sets, Counting
    <2> HIDE DEF ph
    <2>3. PermitsOK'
      <3>1. Cardinality(card) \in Nat
        BY <2>sets, Counting
      <3>2. permits' \in Nat
            /\ permits' + Cardinality(Handed') = permits + 1 + Cardinality(Handed \ {r})
        BY <1>1, <1>3, <1>7, HandOver
      <3>3. Cardinality(Handed') \in Nat
        <4>1. phase' \in [Requests -> GpuPhases] /\ Handed' \in SUBSET Requests
          BY <1>1, <1>7, HandOver DEF Handed, InPhase
        <4> QED
          BY <4>1, Counting
      <3>4. card' = card /\ permits + Cardinality(Handed) + Cardinality(card) = Limit
        BY DEF CancelledWaiting, PermitsOK
      <3> QED
        BY <1>1, <2>2, <3>1, <3>2, <3>3, <3>4 DEF PermitsOK
    <2>4. CardOK'
      BY <1>1, <1>5, <1>7, HandOver DEF CardOK, CancelledWaiting
    <2>5. (Queued \cup Handed)' = (Queued \cup Handed) \ {r}
      BY <1>1, <1>3, <1>7, HandOver
    <2>6. \A q \in Requests : phase'[q] = "new" => phase[q] = "new"
      BY <1>1, <1>7, HandOver DEF ph
    <2> QED
      BY <1>1, <1>4, <1>7, <2>3, <2>4, <2>5, <2>6, HandOver DEF CancelledWaiting, ArrivalOK
  <1> QED
    BY <1>6, <1>7 DEF CancelledWaiting

LEMMA CancelledServedPreserves ==
    ASSUME GInv, NEW r \in Requests, CancelledServed(r)
    PROVE  GInv'
  <1> USE DEF GInv
  <1>1. Handed' = Handed /\ Queued' = Queued
    BY DEF CancelledServed, Handed, Queued, InPhase, GpuPhases
  <1>2. phase' \in [Requests -> GpuPhases] /\ CardOK'
    BY DEF CancelledServed, CardOK, GpuPhases
  <1> QED
    BY <1>1, <1>2 DEF CancelledServed, PermitsOK, WakeupOK, ArrivalOK

LEMMA InferenceDonePreserves ==
    ASSUME GInv, NEW r \in Requests, InferenceDone(r)
    PROVE  GInv'
  <1> USE DEF GInv
  <1> DEFINE ph == [phase EXCEPT ![r] = "over"]
  <1>1. ph \in [Requests -> GpuPhases] /\ permits + 1 \in Nat /\ permits \in Nat
        /\ WakeNext(ph, permits + 1)
    BY DEF InferenceDone, GpuPhases, PermitsOK
  <1>2. InPhase(ph, "handed") = Handed /\ InPhase(ph, "queued") = Queued /\ r \in card
    BY DEF InferenceDone, Handed, Queued, InPhase, CardOK, GpuPhases
  <1>sets. Handed \in SUBSET Requests /\ card \in SUBSET Requests
    BY SetsOfRequests
  <1>3. Cardinality(card) \in Nat /\ Cardinality(card \ {r}) = Cardinality(card) - 1
    BY <1>2, <1>sets, Counting
  <1>4. Cardinality(Handed) \in Nat
    BY <1>sets, Counting
  <1>5. \A q \in Requests : q \in card => ph[q] \in {"served", "over"}
    BY DEF CardOK
  <1>6. \A q \in Requests : ph[q] = "new" => phase[q] = "new"
    OBVIOUS
  <1> HIDE DEF ph
  <1>7. PermitsOK'
    BY <1>1, <1>2, <1>3, <1>4, HandOver DEF PermitsOK, InferenceDone
  <1>8. CardOK'
    BY <1>1, <1>5, HandOver DEF CardOK, InferenceDone
  <1>9. ArrivalOK'
    BY <1>1, <1>2, <1>6, HandOver DEF ArrivalOK, InferenceDone
  <1> QED
    BY <1>1, <1>7, <1>8, <1>9, HandOver

----------------------------------------------------------------------------
(* The theorems. *)

\* The permits of the semaphore are accounted for and everybody who waits is counted, in
\* every state of the queue: queueing.py run() with asyncio.Semaphore.
THEOREM QueueInvariant == GpuSpec => []GInv
  <1>1. GpuInit => GInv
    BY Initially
  <1>2. GInv /\ [GpuNext]_gpuVars => GInv'
    <2> SUFFICES ASSUME GInv, [GpuNext]_gpuVars PROVE GInv'
      OBVIOUS
    <2>1. ASSUME NEW r \in Requests, Arrive(r) PROVE GInv'
      BY <2>1, ArrivePreserves
    <2>2. ASSUME NEW r \in Requests, Admitted(r) PROVE GInv'
      BY <2>2, AdmittedPreserves
    <2>3. ASSUME NEW r \in Requests, InferenceDone(r) PROVE GInv'
      BY <2>3, InferenceDonePreserves
    <2>4. ASSUME NEW r \in Requests, CancelledWaiting(r) PROVE GInv'
      BY <2>4, CancelledWaitingPreserves
    <2>5. ASSUME NEW r \in Requests, CancelledServed(r) PROVE GInv'
      BY <2>5, CancelledServedPreserves
    <2>6. CASE UNCHANGED gpuVars
      BY <2>6 DEF gpuVars, GInv, PermitsOK, CardOK, WakeupOK, ArrivalOK, Queued, Handed, InPhase
    <2> QED
      BY <2>1, <2>2, <2>3, <2>4, <2>5, <2>6 DEF GpuNext, GpuRuns
  <1> QED
    BY <1>1, <1>2, PTL DEF GpuSpec

\* Every variable of the queue keeps its type, the permits and the counts among them.
THEOREM QueueTypes == GpuSpec => []GpuTypeOK
  <1>1. GInv => GpuTypeOK
    <2> SUFFICES ASSUME GInv PROVE GpuTypeOK
      OBVIOUS
    <2>1. Cardinality(card) \in Nat /\ Cardinality(Handed) \in Nat
      BY GpuAssumption, FS_Subset, FS_CardinalityType, SetsOfRequests DEF GInv
    <2>2. permits \in 0 .. Limit
      BY <2>1, GpuAssumption DEF GInv, PermitsOK
    <2>3. waiting \in 0 .. Cardinality(Requests)
      <3>1. IsFiniteSet(Queued \cup Handed)
            /\ Cardinality(Queued \cup Handed) <= Cardinality(Requests)
        BY GpuAssumption, FS_Subset, SetsOfRequests DEF GInv
      <3> QED
        BY <3>1, GpuAssumption, FS_CardinalityType DEF GInv, ArrivalOK
    <2> QED
      BY <2>2, <2>3 DEF GInv, GpuTypeOK, CardOK, ArrivalOK
  <1> QED
    BY <1>1, QueueInvariant, PTL

\* "One 4090 cannot serve two inferences at the same time": never more forward passes
\* than the limit, whoever was cancelled, and whenever.
THEOREM CardIsNeverShared == GpuSpec => []CardNeverShared
  <1>1. GInv => CardNeverShared
    <2> SUFFICES ASSUME GInv PROVE CardNeverShared
      OBVIOUS
    <2>1. Cardinality(card) \in Nat /\ Cardinality(Handed) \in Nat
      BY GpuAssumption, FS_Subset, FS_CardinalityType, SetsOfRequests DEF GInv
    <2> QED
      BY <2>1, GpuAssumption DEF GInv, PermitsOK, CardNeverShared
  <1> QED
    BY <1>1, QueueInvariant, PTL

\* No cancellation loses a wake-up: nobody waits while a permit is free for good.
THEOREM WakeupsAreNeverLost == GpuSpec => []NoLostWakeup
  <1>1. GInv => NoLostWakeup
    <2> SUFFICES ASSUME GInv, Queued # {}, Handed = {} PROVE Cardinality(card) = Limit
      BY DEF NoLostWakeup
    <2>1. Cardinality(Handed) = 0 /\ Cardinality(card) \in Nat
      BY GpuAssumption, FS_EmptySet, FS_Subset, FS_CardinalityType, SetsOfRequests DEF GInv
    <2> QED
      BY <2>1 DEF GInv, PermitsOK, WakeupOK
  <1> QED
    BY <1>1, QueueInvariant, PTL

----------------------------------------------------------------------------
(* LazyEngine: loading once. *)

\* Where a thread is inside the lock of its engine.
Inside == {"loading", "naming"} \cup (IF kind \in {"tts", "whisper"} THEN {"generating"} ELSE {})

\* Who is inside has the lock, which has room for one.
LockOK ==
    /\ lock \in {NoThread} \cup {{t} : t \in Threads}
    /\ \A t \in Threads : at[t] \in Inside => lock = {t}

\* The model is there for whoever got past loading it, and not for who is loading it.
ModelOK ==
    /\ loads = IF model THEN 1 ELSE 0
    /\ \A t \in Threads : /\ at[t] = "loading" => ~model
                          /\ at[t] \in {"naming", "ready", "generating"} => model

\* The inductive invariant.
EngineInv ==
    /\ kind \in Kinds /\ model \in BOOLEAN /\ at \in [Threads -> Places]
    /\ LockOK /\ ModelOK

LEMMA EngineInitially == EngineInit => EngineInv
  BY DEF EngineInit, EngineInv, Kinds, Places, LockOK, ModelOK, NoThread, Inside

\* A step of one thread that leaves the model as it is, and enters the lock only when it
\* is free or its own.
LEMMA ThreadMoves ==
    ASSUME EngineInv, NEW t \in Threads, NEW place \in Places,
           GoesTo(t, place), UNCHANGED <<kind, model, loads>>,
           lock' \in {lock, NoThread, {t}},
           lock \in {NoThread, {t}} \/ lock' = lock,
           place \in Inside => lock' = {t},
           place = "loading" => ~model,
           place \in {"naming", "ready", "generating"} => model
    PROVE  EngineInv'
  <1> USE DEF EngineInv, GoesTo
  <1>1. at' \in [Threads -> Places] /\ Inside' = Inside
    BY DEF Inside
  <1>2. lock' \in {NoThread} \cup {{s} : s \in Threads}
    BY DEF LockOK
  <1>3. ASSUME NEW s \in Threads, at'[s] \in Inside PROVE lock' = {s}
    BY <1>3 DEF LockOK, NoThread
  <1>4. ModelOK'
    BY DEF ModelOK
  <1> QED
    BY <1>1, <1>2, <1>3, <1>4 DEF LockOK

\* The load that ends is the first that did.
LEMMA LoadEndsPreserves ==
    ASSUME EngineInv, NEW t \in Threads, LoadEnds(t)
    PROVE  EngineInv'
  <1> USE DEF EngineInv, LoadEnds, GoesTo
  <1>1. lock = {t} /\ ~model
    BY DEF LockOK, ModelOK, Inside
  <1>2. at' \in [Threads -> Places] /\ Inside' = Inside
    BY DEF Places, Inside
  <1>3. \A s \in Threads : s # t => at[s] \notin Inside
    BY <1>1 DEF LockOK
  <1>4. LockOK'
    BY <1>1, <1>2, <1>3 DEF LockOK
  <1>5. ModelOK'
    BY <1>1, <1>3 DEF ModelOK, Inside
  <1> QED
    BY <1>2, <1>4, <1>5

LEMMA EngineSteps == EngineInv /\ [EngineNext]_engineVars => EngineInv'
  <1> SUFFICES ASSUME EngineInv, [EngineNext]_engineVars PROVE EngineInv'
    OBVIOUS
  <1> USE DEF Places
  <1>1. ASSUME NEW t \in Threads, Asked(t) PROVE EngineInv'
    <2>1. CASE model /\ kind # "mt" /\ GoesTo(t, "ready")
      BY <1>1, <2>1, ThreadMoves DEF Asked, EngineInv, LockOK, Inside
    <2>2. CASE ~(model /\ kind # "mt") /\ GoesTo(t, "waiting")
      BY <1>1, <2>2, ThreadMoves DEF Asked, EngineInv, LockOK, Inside
    <2> QED
      BY <1>1, <2>1, <2>2 DEF Asked
  <1>2. ASSUME NEW t \in Threads, Locks(t) PROVE EngineInv'
    <2>1. CASE model /\ GoesTo(t, "ready") /\ UNCHANGED lock
      BY <1>2, <2>1, ThreadMoves DEF Locks, EngineInv, LockOK, Inside
    <2>2. CASE ~model /\ GoesTo(t, "loading") /\ lock' = {t}
      BY <1>2, <2>2, ThreadMoves DEF Locks, EngineInv, LockOK, Inside
    <2> QED
      BY <1>2, <2>1, <2>2 DEF Locks
  <1>3. ASSUME NEW t \in Threads, LoadEnds(t) PROVE EngineInv'
    BY <1>3, LoadEndsPreserves
  <1>4. ASSUME NEW t \in Threads, LoadFails(t) PROVE EngineInv'
    <2>1. lock = {t}
      BY <1>4 DEF LoadFails, EngineInv, LockOK, Inside
    <2> QED
      BY <1>4, <2>1, ThreadMoves DEF LoadFails, Inside
  <1>5. ASSUME NEW t \in Threads, Names(t) PROVE EngineInv'
    <2>1. lock = {t} /\ model
      BY <1>5 DEF Names, EngineInv, LockOK, ModelOK, Inside
    <2> QED
      BY <1>5, <2>1, ThreadMoves DEF Names, Inside
  <1>6. ASSUME NEW t \in Threads, OnDevice(t), kind \in {"predictor", "pruner", "mt"}
        PROVE EngineInv'
    <2>1. model
      BY <1>6 DEF OnDevice, EngineInv, ModelOK
    <2>2. CASE GoesTo(t, "generating")
      BY <1>6, <2>1, <2>2, ThreadMoves DEF OnDevice, EngineInv, LockOK, Inside
    <2>3. CASE GoesTo(t, "failed")
      BY <1>6, <2>1, <2>3, ThreadMoves DEF OnDevice, EngineInv, LockOK, Inside
    <2> QED
      BY <1>6, <2>2, <2>3 DEF OnDevice
  <1>7. ASSUME NEW t \in Threads, UnderLock(t) PROVE EngineInv'
    <2>1. model
      BY <1>7 DEF UnderLock, EngineInv, ModelOK
    <2> QED
      BY <1>7, <2>1, ThreadMoves DEF UnderLock
  <1>8. ASSUME NEW t \in Threads, NEW place \in {"failed", "answered"}, GoesTo(t, place),
               UNCHANGED <<kind, model, lock, loads>>
        PROVE EngineInv'
    BY <1>8, ThreadMoves DEF EngineInv, LockOK, Inside
  <1>9. ASSUME NEW t \in Threads, Answers(t) PROVE EngineInv'
    <2>1. PICK end \in {"answered", "failed"} : GoesTo(t, end)
      BY <1>9 DEF Answers
    <2>2. CASE t \in lock
      <3>1. lock = {t} /\ lock' = NoThread
        BY <1>9, <2>2 DEF Answers, EngineInv, LockOK, NoThread
      <3> QED
        BY <1>9, <2>1, <3>1, ThreadMoves DEF Answers, Inside
    <2>3. CASE t \notin lock
      <3>1. lock' = lock
        BY <1>9, <2>3 DEF Answers, EngineInv, LockOK, NoThread
      <3> QED
        BY <1>9, <2>1, <3>1, ThreadMoves DEF Answers, Inside
    <2> QED
      BY <2>2, <2>3
  <1>10. CASE UNCHANGED engineVars
    BY <1>10 DEF engineVars, EngineInv, LockOK, ModelOK, Inside
  <1>11. ASSUME NEW t \in Threads, Infer(t) PROVE EngineInv'
    BY <1>6, <1>8, <1>11 DEF Infer
  <1>12. ASSUME NEW t \in Threads, Synthesize(t) PROVE EngineInv'
    BY <1>7, <1>8, <1>12 DEF Synthesize
  <1>13. ASSUME NEW t \in Threads, Transcribe(t) PROVE EngineInv'
    BY <1>7, <1>8, <1>13 DEF Transcribe
  <1>14. ASSUME NEW t \in Threads, Predict(t) \/ TranslateText(t) PROVE EngineInv'
    BY <1>6, <1>14 DEF Predict, TranslateText
  <1> QED
    BY <1>1, <1>2, <1>3, <1>4, <1>5, <1>9, <1>10, <1>11, <1>12, <1>13, <1>14 DEF EngineNext

\* However many requests arrive before the weights are there, they are loaded once, no
\* inference runs without them, and an engine that generates under its lock does nothing
\* else meanwhile: the _load of every engine of the GPU services.
THEOREM WeightsAreLoadedOnce == EngineSpec => []LoadedOnce
  <1>1. EngineInv => LoadedOnce
    <2> SUFFICES ASSUME EngineInv PROVE LoadedOnce
      OBVIOUS
    <2>1. loads <= 1 /\ \A t \in Threads : at[t] = "generating" => model
      BY DEF EngineInv, ModelOK
    <2>2. ASSUME kind \in {"tts", "whisper"}
          PROVE  Cardinality({t \in Threads : at[t] \in {"loading", "naming", "generating"}}) <= 1
      <3> DEFINE busy == {t \in Threads : at[t] \in {"loading", "naming", "generating"}}
      <3>1. busy \subseteq lock
        BY <2>2 DEF EngineInv, LockOK, Inside
      <3>2. IsFiniteSet(lock) /\ Cardinality(lock) \in Nat /\ Cardinality(lock) <= 1
        BY FS_EmptySet, FS_Singleton DEF EngineInv, LockOK, NoThread
      <3>3. IsFiniteSet(busy) /\ Cardinality(busy) <= Cardinality(lock)
        BY <3>1, <3>2, FS_Subset
      <3>4. Cardinality(busy) \in Nat
        BY <3>3, FS_CardinalityType
      <3> HIDE DEF busy
      <3>5. Cardinality(busy) <= 1
        BY <3>2, <3>3, <3>4
      <3> QED
        BY <3>5 DEF busy
    <2> QED
      BY <2>1, <2>2 DEF LoadedOnce
  <1>2. EngineInit => EngineInv
    BY EngineInitially
  <1>3. EngineInv /\ [EngineNext]_engineVars => EngineInv'
    BY EngineSteps
  <1> QED
    BY <1>1, <1>2, <1>3, PTL DEF EngineSpec

LEMMA EngineKeepsTypes == EngineInv /\ EngineTypeOK /\ [EngineNext]_engineVars => EngineTypeOK'
<1> SUFFICES ASSUME EngineInv, EngineTypeOK, [EngineNext]_engineVars PROVE EngineTypeOK'
  OBVIOUS
<1>1. EngineInv'
  BY EngineSteps
<1>2. device' \in BOOLEAN
  BY DEF EngineTypeOK, EngineNext, engineVars, Asked, Locks, LoadEnds, LoadFails, Names, Predict, Infer,
         TranslateText, OnDevice, Synthesize, Transcribe, UnderLock, Answers
<1>3. loads' \in 0 .. Cardinality(Threads)
  <2>1. CASE loads' = loads
    BY <2>1 DEF EngineTypeOK
  <2>2. CASE loads' # loads
    <3>1. PICK t \in Threads : LoadEnds(t)
      BY <2>2 DEF EngineNext, engineVars, Asked, Locks, LoadFails, Names, Predict, Infer,
                  TranslateText, OnDevice, Synthesize, Transcribe, UnderLock, Answers
    <3>2. Cardinality(Threads) \in Nat /\ Cardinality(Threads) # 0
      BY <3>1, EngineAssumption, FS_CardinalityType, FS_EmptySet
    <3>3. loads' \in {0, 1}
      BY <1>1 DEF EngineInv, ModelOK
    <3> QED BY <3>2, <3>3
  <2> QED BY <2>1, <2>2
<1> QED BY <1>1, <1>2, <1>3 DEF EngineInv, LockOK, EngineTypeOK

LEMMA EngineStartsTyped == EngineInit => EngineTypeOK
<1>1. Cardinality(Threads) \in Nat
  BY EngineAssumption, FS_CardinalityType
<1>2. 0 \in 0 .. Cardinality(Threads)
  BY <1>1
<1>3. EngineInit => loads = 0 /\ device = FALSE
  BY DEF EngineInit
<1> QED BY <1>2, <1>3, EngineInitially DEF EngineInv, LockOK, EngineTypeOK

\* Whatever threads race for a model, each variable of its engine keeps its type, for any
\* finite number of them.
THEOREM EngineTypes == EngineSpec => []EngineTypeOK
<1>1. EngineInv /\ [EngineNext]_engineVars => EngineInv'
  BY EngineSteps
<1> QED BY <1>1, EngineInitially, EngineStartsTyped, EngineKeepsTypes, PTL DEF EngineSpec

----------------------------------------------------------------------------
(* AsrService: the events of a stream, and the VAD models. *)

StreamRecords == [pc : {"new", "waiting", "open", "ending", "closing", "done"},
                  seq : Nat, utt : Nat, ending : Nat]

SaidRecords == [type : {"start", "partial", "end"}, utt : Nat]

\* One stream and its last event: the event is of the newest utterance, and no end
\* exactly while that utterance is spoken or being ended, unless the stream is closing.
InStep(st, sd) ==
    /\ sd.utt = st.seq
    /\ sd.type = "end" => st.utt = 0 /\ st.ending = 0
    /\ st.utt = 0 /\ st.ending = 0 /\ st.pc \notin {"closing", "done"} => sd.type = "end"
    /\ st.utt # 0 => st.pc = "open" /\ st.utt = st.seq
    /\ st.ending # 0 => st.pc \in {"ending", "closing"} /\ st.ending = st.seq

EventsInv ==
    /\ stream \in [Streams -> StreamRecords] /\ said \in [Streams -> SaidRecords]
    /\ \A s \in Streams : InStep(stream[s], said[s])

\* Who has not got to the pool has no model; a model in hand is not in the pool, nor in
\* another hand; and each is somewhere.
VadInv ==
    /\ vadOf \in [Streams -> VadModels \cup {NoVad}] /\ available \subseteq VadModels
    /\ \A s \in Streams : stream[s].pc \in {"new", "waiting"} => vadOf[s] = NoVad
    /\ \A s \in Streams : vadOf[s] \notin available
    /\ \A s, t \in Streams : s # t /\ vadOf[s] = vadOf[t] => vadOf[s] = NoVad
    /\ \A v \in VadModels : v \in available \/ \E s \in Streams : vadOf[s] = v

AsrInv == EventsInv /\ VadInv

----------------------------------------------------------------------------
(* The initial states. *)

LEMMA AsrStarts == AsrInit => AsrInv
<1> SUFFICES ASSUME AsrInit PROVE AsrInv
  OBVIOUS
<1>1. EventsInv
  BY DEF AsrInit, EventsInv, InStep, StreamRecords, SaidRecords
<1>2. VadInv
  BY AsrAssumption DEF AsrInit, VadInv, NoVad
<1> QED BY <1>1, <1>2 DEF AsrInv

----------------------------------------------------------------------------
(* Events. *)

\* A step on one stream keeps the others as they are.
LEMMA OneStream ==
    ASSUME EventsInv, NEW s \in Streams, NEW st \in StreamRecords, NEW sd \in SaidRecords,
           InStep(st, sd),
           stream' = [stream EXCEPT ![s] = st], said' = [said EXCEPT ![s] = sd]
    PROVE  EventsInv'
BY DEF EventsInv

\* A step on one stream that says nothing keeps the events as they are.
LEMMA SilentStep ==
    ASSUME EventsInv, NEW s \in Streams, NEW st \in StreamRecords, InStep(st, said[s]),
           stream' = [stream EXCEPT ![s] = st], UNCHANGED said
    PROVE  EventsInv'
BY DEF EventsInv

\* A failure leaves the utterance, says that it ended or nothing.
LEMMA FailureIs ==
    ASSUME NEW s \in Streams, FeatureFails(s)
    PROVE  /\ \E pc \in {"open", "closing"} : stream' = [stream EXCEPT ![s].pc = pc, ![s].utt = 0]
           /\ Says(s, "end", stream[s].utt) \/ UNCHANGED said
           /\ UNCHANGED <<vadOf, available, jobs, holder>> /\ stream[s].utt # 0 /\ stream[s].pc = "open"
BY DEF FeatureFails, FinishFails, TailFails

\* An utterance that starts, is heard or ends says so of the newest one.
LEMMA SpeakingKeeps ==
    ASSUME AsrInv, NEW s \in Streams, Speaking(s) PROVE EventsInv'
<1> DEFINE st == stream[s]
<1>0. st \in StreamRecords /\ said[s] \in SaidRecords /\ InStep(st, said[s]) /\ EventsInv
  BY DEF AsrInv, EventsInv
<1>1. CASE SpeechStarts(s)
  <2> DEFINE begun == [st EXCEPT !.seq = st.seq + 1, !.utt = st.seq + 1]
             start == [type |-> "start", utt |-> st.seq + 1]
  <2>1. stream' = [stream EXCEPT ![s] = begun]
    BY <1>1, <1>0 DEF SpeechStarts, EventsInv, StreamRecords
  <2>2. said' = [said EXCEPT ![s] = start]
    BY <1>1 DEF SpeechStarts, Says
  <2>3. InStep(begun, start)
    BY <1>1, <1>0 DEF SpeechStarts, InStep, StreamRecords
  <2>4. begun \in StreamRecords /\ start \in SaidRecords
    <3>1. st.seq + 1 \in Nat
      BY <1>0 DEF StreamRecords
    <3>2. \A n \in Nat : [st EXCEPT !.seq = n, !.utt = n] \in StreamRecords
      BY <1>0 DEF StreamRecords
    <3> QED BY <3>1, <3>2 DEF SaidRecords
  <2> HIDE DEF begun, start
  <2> QED BY <1>0, <2>1, <2>2, <2>3, <2>4, OneStream
<1>2. CASE FeedStartsJob(s)
  BY <1>0, <1>2 DEF FeedStartsJob, EventsInv
<1> DEFINE gone == [st EXCEPT !.pc = "closing", !.utt = 0, !.ending = st.utt]
<1>3. CASE SpeechEnds(s)
  <2>1. stream' = [stream EXCEPT ![s] = [st EXCEPT !.pc = "ending", !.utt = 0, !.ending = st.utt]]
    BY <1>3, <1>0 DEF SpeechEnds, EventsInv, StreamRecords
  <2>2. InStep([st EXCEPT !.pc = "ending", !.utt = 0, !.ending = st.utt], said[s])
    BY <1>3, <1>0 DEF SpeechEnds, InStep, StreamRecords
  <2> QED BY <1>0, <1>3, <2>1, <2>2, SilentStep DEF StreamRecords, SpeechEnds
<1>4. CASE LoopEnds(s)
  <2>1. stream' = [stream EXCEPT ![s] = gone]
    BY <1>4, <1>0 DEF LoopEnds, EventsInv, StreamRecords
  <2>2. InStep(gone, said[s])
    BY <1>4, <1>0 DEF LoopEnds, InStep, StreamRecords
  <2> QED BY <1>0, <1>4, <2>1, <2>2, SilentStep DEF StreamRecords, LoopEnds
<1>5. CASE FeatureFails(s)
  <2>1. CASE FinishFails(s)
    <3>1. PICK pc \in {"open", "closing"} : stream' = [stream EXCEPT ![s].pc = pc, ![s].utt = 0]
      BY <2>1 DEF FinishFails
    <3>2. stream' = [stream EXCEPT ![s] = [st EXCEPT !.pc = pc, !.utt = 0]]
      BY <3>1, <1>0 DEF EventsInv, StreamRecords
    <3>3. said' = [said EXCEPT ![s] = [type |-> "end", utt |-> st.utt]]
      BY <2>1 DEF FinishFails, Says
    <3>4. InStep([st EXCEPT !.pc = pc, !.utt = 0], [type |-> "end", utt |-> st.utt])
      BY <1>5, <1>0 DEF FeatureFails, InStep, StreamRecords
    <3>5. [st EXCEPT !.pc = pc, !.utt = 0] \in StreamRecords
          /\ [type |-> "end", utt |-> st.utt] \in SaidRecords
      BY <1>0 DEF StreamRecords, SaidRecords
    <3> QED BY <1>0, <3>2, <3>3, <3>4, <3>5, OneStream
  <2>2. CASE TailFails(s)
    <3>1. stream' = [stream EXCEPT ![s] = [st EXCEPT !.pc = "closing", !.utt = 0]]
      BY <2>2, <1>0 DEF TailFails, EventsInv, StreamRecords
    <3>2. InStep([st EXCEPT !.pc = "closing", !.utt = 0], said[s])
      BY <1>5, <1>0 DEF FeatureFails, InStep, StreamRecords
    <3>3. [st EXCEPT !.pc = "closing", !.utt = 0] \in StreamRecords
      BY <1>0 DEF StreamRecords
    <3> QED BY <1>0, <2>2, <3>1, <3>2, <3>3, SilentStep DEF TailFails
  <2> QED BY <1>5, <2>1, <2>2 DEF FeatureFails
<1> QED BY <1>1, <1>2, <1>3, <1>4, <1>5 DEF Speaking

\* The loop of the connection, from the pool to the pool.
LEMMA ServingKeeps ==
    ASSUME AsrInv, NEW s \in Streams, Connect(s) \/ Serving(s) PROVE EventsInv'
<1> DEFINE st == stream[s]
<1>0. st \in StreamRecords /\ said[s] \in SaidRecords /\ InStep(st, said[s]) /\ EventsInv
  BY DEF AsrInv, EventsInv
<1>1. ASSUME NEW pc \in {"waiting", "open", "done"}, Moves(s, pc), UNCHANGED said,
             st.utt = 0 /\ st.ending = 0, st.pc \in {"new", "waiting"} \/ pc = "done"
      PROVE  EventsInv'
  <2>1. stream' = [stream EXCEPT ![s] = [st EXCEPT !.pc = pc]]
    BY <1>1, <1>0 DEF Moves, EventsInv, StreamRecords
  <2>2. InStep([st EXCEPT !.pc = pc], said[s])
    BY <1>1, <1>0 DEF InStep, StreamRecords
  <2> QED BY <1>0, <1>1, <2>1, <2>2, SilentStep DEF StreamRecords
<1>2. CASE Connect(s)
  BY <1>0, <1>1, <1>2 DEF Connect, InStep
<1>3. CASE TakeVad(s)
  BY <1>0, <1>1, <1>3 DEF TakeVad, InStep
<1>4. CASE StreamCloses(s)
  BY <1>0, <1>1, <1>4 DEF StreamCloses, InStep
<1>5. CASE UtteranceEnds(s)
  <2> DEFINE pc == IF st.pc = "ending" THEN "open" ELSE st.pc
  <2>1. stream' = [stream EXCEPT ![s] = [st EXCEPT !.pc = pc, !.ending = 0]]
    BY <1>5, <1>0 DEF UtteranceEnds, EventsInv, StreamRecords
  <2>2. said' = [said EXCEPT ![s] = [type |-> "end", utt |-> st.ending]]
    BY <1>5 DEF UtteranceEnds, Says
  <2>3. InStep([st EXCEPT !.pc = pc, !.ending = 0], [type |-> "end", utt |-> st.ending])
    BY <1>5, <1>0 DEF UtteranceEnds, InStep, StreamRecords
  <2>4. [st EXCEPT !.pc = pc, !.ending = 0] \in StreamRecords
        /\ [type |-> "end", utt |-> st.ending] \in SaidRecords
    BY <1>0 DEF StreamRecords, SaidRecords
  <2> QED BY <1>0, <2>1, <2>2, <2>3, <2>4, OneStream
<1> QED BY <1>2, <1>3, <1>4, <1>5 DEF Serving

\* A recogniser speaks of an utterance that is current, or not at all.
LEMMA RecognisingKeeps ==
    ASSUME AsrInv, NEW u \in Utterances, Recognising(u) PROVE EventsInv'
<1>1. UNCHANGED stream
  BY DEF Recognising, Generates, StreamHears, PartialComes, JobEnds
<1>2. CASE UNCHANGED said
  BY <1>1, <1>2 DEF AsrInv, EventsInv
<1>3. CASE PartialComes(u) /\ u = Current(u[1])
  <2>1. PICK s \in Streams : u = <<s, stream[s].utt>> /\ stream[s].utt \in 1 .. MaxUtterances
    BY <1>3 DEF Utterances, Current
  <2>2. said' = [said EXCEPT ![s] = [type |-> "partial", utt |-> stream[s].utt]]
    BY <1>3, <2>1 DEF PartialComes, Says
  <2>3. InStep(stream[s], [type |-> "partial", utt |-> stream[s].utt])
    BY <2>1, AsrAssumption DEF AsrInv, EventsInv, InStep, StreamRecords
  <2> QED BY <1>1, <2>2, <2>3 DEF AsrInv, EventsInv, StreamRecords, SaidRecords
<1> QED BY <1>2, <1>3 DEF Recognising, Generates, StreamHears, PartialComes, JobEnds

----------------------------------------------------------------------------
(* VAD models. *)

\* Only the way out of the pool and the way back touch a model.
LEMMA VadsKeep ==
    ASSUME AsrInv, [AsrNext]_asrVars PROVE VadInv'
<1> USE DEF AsrInv, EventsInv, VadInv
<1>1. ASSUME UNCHANGED <<vadOf, available>>,
             \A s \in Streams : stream'[s].pc \in {"new", "waiting"} => stream[s].pc \in {"new", "waiting"}
      PROVE  VadInv'
  BY <1>1
<1>2. ASSUME NEW s \in Streams, TakeVad(s) PROVE VadInv'
  <2>1. stream[s].pc = "waiting" /\ vadOf[s] = NoVad /\ stream' = [stream EXCEPT ![s].pc = "open"]
    BY <1>2 DEF TakeVad, Moves
  <2>2. PICK v \in available : vadOf' = [vadOf EXCEPT ![s] = v] /\ available' = available \ {v}
    BY <1>2 DEF TakeVad
  <2>3. \A t \in Streams : stream'[t].pc \in {"new", "waiting"} => t # s /\ stream[t].pc \in {"new", "waiting"}
    BY <2>1 DEF StreamRecords
  <2>4. vadOf' \in [Streams -> VadModels \cup {NoVad}] /\ vadOf'[s] = v
        /\ \A t \in Streams : t # s => vadOf'[t] = vadOf[t] /\ vadOf[t] # v
    BY <2>2
  <2>5. \A w \in VadModels : w \in available' \/ \E t \in Streams : vadOf'[t] = w
    <3> TAKE w \in VadModels
    <3>1. CASE w = v
      BY <2>4, <3>1
    <3>2. CASE w # v
      <4>1. CASE w \in available
        BY <2>2, <3>2, <4>1
      <4>2. ASSUME NEW t \in Streams, vadOf[t] = w PROVE vadOf'[t] = w
        BY <2>1, <2>4, <4>2, AsrAssumption DEF NoVad
      <4> QED BY <4>1, <4>2
    <3> QED BY <3>1, <3>2
  <2> QED BY <2>2, <2>3, <2>4, <2>5
<1>3. ASSUME NEW s \in Streams, StreamCloses(s) PROVE VadInv'
  <2>1. stream' = [stream EXCEPT ![s].pc = "done"]
    BY <1>3 DEF StreamCloses, Moves
  <2>2. vadOf' = [vadOf EXCEPT ![s] = NoVad] /\ available' = available \cup ({vadOf[s]} \ {NoVad})
    BY <1>3 DEF StreamCloses, GivesBack
  <2>3. \A t \in Streams : stream'[t].pc \in {"new", "waiting"} => t # s /\ stream[t].pc \in {"new", "waiting"}
    BY <2>1 DEF StreamRecords
  <2>4. vadOf' \in [Streams -> VadModels \cup {NoVad}] /\ vadOf'[s] = NoVad
        /\ \A t \in Streams : t # s => vadOf'[t] = vadOf[t]
    BY <2>2
  <2>5. \A t \in Streams : vadOf'[t] \notin available'
    BY <2>2, <2>4, AsrAssumption DEF NoVad
  <2>6. \A w \in VadModels : w \in available' \/ \E t \in Streams : vadOf'[t] = w
    BY <2>2, <2>4, AsrAssumption DEF NoVad
  <2> QED BY <2>2, <2>3, <2>4, <2>5, <2>6
<1>4. ASSUME NEW s \in Streams, Connect(s) \/ UtteranceEnds(s) \/ Speaking(s) PROVE VadInv'
  <2>1. UNCHANGED <<vadOf, available>>
    BY <1>4 DEF Connect, UtteranceEnds, Speaking, SpeechStarts, FeedStartsJob, SpeechEnds, LoopEnds,
                FeatureFails
  <2>2. \A t \in Streams : stream'[t].pc \in {"new", "waiting"} => stream[t].pc \in {"new", "waiting"}
    <3>1. CASE Connect(s)
      BY <3>1 DEF Connect, Moves, StreamRecords
    <3>2. CASE UtteranceEnds(s)
      BY <3>2 DEF UtteranceEnds, StreamRecords
    <3>3. CASE Speaking(s)
      <4>1. CASE FeatureFails(s)
        <5>1. PICK pc \in {"open", "closing"} : stream' = [stream EXCEPT ![s].pc = pc, ![s].utt = 0]
          BY <4>1, FailureIs
        <5> QED BY <5>1 DEF StreamRecords
      <4>2. CASE ~FeatureFails(s)
        BY <3>3, <4>2 DEF Speaking, SpeechStarts, FeedStartsJob, SpeechEnds, LoopEnds, StreamRecords
      <4> QED BY <4>1, <4>2
    <3> QED BY <1>4, <3>1, <3>2, <3>3
  <2> QED BY <1>1, <2>1, <2>2
<1>5. ASSUME NEW u \in Utterances, Recognising(u) PROVE VadInv'
  BY <1>1, <1>5 DEF Recognising, Generates, StreamHears, PartialComes, JobEnds
<1>6. CASE UNCHANGED asrVars
  BY <1>1, <1>6 DEF asrVars
<1> QED BY <1>2, <1>3, <1>4, <1>5, <1>6 DEF AsrNext, Serving

----------------------------------------------------------------------------
(* The invariant, and what follows from it. *)

LEMMA AsrInvariant == AsrSpec => []AsrInv
<1>1. AsrInv /\ [AsrNext]_asrVars => AsrInv'
  <2> SUFFICES ASSUME AsrInv, [AsrNext]_asrVars PROVE AsrInv'
    OBVIOUS
  <2>1. CASE UNCHANGED asrVars
    BY <2>1 DEF asrVars, AsrInv, EventsInv, VadInv
  <2>2. CASE AsrNext
    BY <2>2, SpeakingKeeps, ServingKeeps, RecognisingKeeps, VadsKeep DEF AsrNext, AsrInv
  <2> QED BY <2>1, <2>2
<1> QED BY <1>1, AsrStarts, PTL DEF AsrSpec

\* No two streams use one VAD model at a time, whatever clients leave and threads hang, and
\* no model is lost to the pool (main.py's stream() and its finally).
THEOREM VadModelsAreNeverShared == AsrSpec => []VadNeverShared
<1>1. AsrInv => VadNeverShared
  <2> SUFFICES ASSUME AsrInv, NEW v \in VadModels
               PROVE  Cardinality({s \in Streams : vadOf[s] = v}) + (IF v \in available THEN 1 ELSE 0) = 1
    BY DEF VadNeverShared
  <2> DEFINE users == {s \in Streams : vadOf[s] = v}
  <2>1. CASE v \in available
    <3>1. users = {}
      BY <2>1 DEF AsrInv, VadInv
    <3> QED BY <2>1, <3>1, FS_EmptySet
  <2>2. CASE v \notin available
    <3>1. PICK s \in Streams : vadOf[s] = v
      BY <2>2 DEF AsrInv, VadInv
    <3>2. users = {s}
      BY <3>1, AsrAssumption DEF AsrInv, VadInv, NoVad
    <3> QED BY <2>2, <3>2, FS_Singleton
  <2> QED BY <2>1, <2>2
<1> QED BY <1>1, AsrInvariant, PTL

\* The agent may take the events of a stream as they come: none is out of order, however
\* a generation, its time limit, an error and the client's leaving fall together.
THEOREM EventsComeInOrder == AsrSpec => UtterancesInOrder
<1> DEFINE InOrder(s) == said'[s] # said[s] =>
         IF said'[s].type = "start"
         THEN said[s].type = "end" /\ said'[s].utt = said[s].utt + 1
         ELSE said[s].type # "end" /\ said'[s].utt = said[s].utt
<1>1. ASSUME AsrInv, [AsrNext]_asrVars, NEW s \in Streams PROVE InOrder(s)
  <2> USE DEF AsrInv, EventsInv, InStep, StreamRecords, SaidRecords
  <2>1. CASE UNCHANGED said
    BY <2>1
  <2>2. ASSUME NEW t \in Streams, SpeechStarts(t) PROVE InOrder(s)
    BY <1>1, <2>2 DEF SpeechStarts, Says
  <2>3. ASSUME NEW t \in Streams, FeatureFails(t) PROVE InOrder(s)
    <3>1. CASE UNCHANGED said
      BY <3>1
    <3>2. CASE Says(t, "end", stream[t].utt)
      <4>1. stream[t].utt # 0 /\ said[t].utt = stream[t].utt /\ said[t].type # "end"
        BY <1>1, <2>3, FailureIs
      <4>2. said' = [said EXCEPT ![t] = [type |-> "end", utt |-> stream[t].utt]]
        BY <3>2 DEF Says
      <4> QED BY <1>1, <4>1, <4>2
    <3> QED BY <2>3, <3>1, <3>2, FailureIs
  <2>4. ASSUME NEW t \in Streams, UtteranceEnds(t) PROVE InOrder(s)
    BY <1>1, <2>4 DEF UtteranceEnds, Says
  <2>5. ASSUME NEW u \in Utterances, PartialComes(u), ~UNCHANGED said PROVE InOrder(s)
    <3>1. PICK t \in Streams : u = <<t, stream[t].utt>> /\ stream[t].utt \in 1 .. MaxUtterances
      BY <2>5 DEF PartialComes, Utterances, Current
    <3>2. said' = [said EXCEPT ![t] = [type |-> "partial", utt |-> stream[t].utt]]
      BY <2>5, <3>1 DEF PartialComes, Says
    <3> QED BY <1>1, <3>1, <3>2, AsrAssumption
  <2> QED
    BY <1>1, <2>1, <2>2, <2>3, <2>4, <2>5
    DEF AsrNext, asrVars, Connect, Serving, Speaking, Recognising, TakeVad, StreamCloses, FeedStartsJob,
        SpeechEnds, LoopEnds, Generates, StreamHears, JobEnds
<1>2. AsrInv /\ [AsrNext]_asrVars => [\A s \in Streams : InOrder(s)]_asrVars
  BY <1>1
<1> QED BY <1>2, AsrInvariant, PTL DEF AsrSpec, UtterancesInOrder

----------------------------------------------------------------------------
(* What else there is keeps its type. *)

\* The places of the recogniser's work, and how many utterances a stream has had.
JobsOK ==
    /\ jobs \in [Utterances -> [at : Jobs, ended : BOOLEAN]]
    /\ holder \in Utterances \cup {Nothing}
    /\ \A s \in Streams : stream[s].seq <= MaxUtterances

LEMMA JobsKept == AsrInv /\ JobsOK /\ [AsrNext]_asrVars => JobsOK'
<1> SUFFICES ASSUME AsrInv, JobsOK, [AsrNext]_asrVars PROVE JobsOK'
  OBVIOUS
<1>0. /\ stream \in [Streams -> StreamRecords]
      /\ \A s \in Streams : InStep(stream[s], said[s])
      /\ MaxUtterances \in Nat
  BY AsrAssumption DEF AsrInv, EventsInv
<1>1. ASSUME NEW s \in Streams, stream[s].utt # 0 PROVE Current(s) \in Utterances
  <2>1. stream[s].utt \in 1 .. MaxUtterances
    BY <1>0, <1>1 DEF InStep, StreamRecords, JobsOK
  <2> QED BY <2>1 DEF Current, Utterances
<1>2. ASSUME NEW u \in Utterances, NEW place \in Jobs, NEW ends \in BOOLEAN
      PROVE  [jobs EXCEPT ![u] = [at |-> place, ended |-> ends]] \in
                [Utterances -> [at : Jobs, ended : BOOLEAN]]
  BY DEF JobsOK
<1>3. ASSUME NEW u \in Utterances, NEW place \in Jobs, Job(u, place)
      PROVE  jobs' \in [Utterances -> [at : Jobs, ended : BOOLEAN]]
  BY <1>3 DEF JobsOK, Job
<1>4. ASSUME NEW u \in Utterances, EndsFeatures(u)
      PROVE  jobs' \in [Utterances -> [at : Jobs, ended : BOOLEAN]]
  <2>1. "waits" \in Jobs /\ jobs[u].at \in Jobs
    BY DEF JobsOK, Jobs
  <2> QED BY <1>2, <1>4, <2>1 DEF EndsFeatures
<1>5. ASSUME NEW s \in Streams, Speaking(s) PROVE JobsOK'
  <2>1. holder' = holder
    BY <1>5 DEF Speaking, SpeechStarts, FeedStartsJob, SpeechEnds, LoopEnds, FeatureFails
  <2>2. \A t \in Streams : stream'[t].seq <= MaxUtterances
    <3>1. CASE SpeechStarts(s)
      BY <1>0, <3>1 DEF SpeechStarts, JobsOK, StreamRecords
    <3>2. CASE ~SpeechStarts(s)
      <4>1. CASE FeatureFails(s)
        <5>1. PICK pc \in {"open", "closing"} : stream' = [stream EXCEPT ![s].pc = pc, ![s].utt = 0]
          BY <4>1, FailureIs
        <5> QED BY <1>0, <5>1 DEF JobsOK, StreamRecords
      <4>2. CASE ~FeatureFails(s)
        BY <1>0, <1>5, <3>2, <4>2 DEF Speaking, FeedStartsJob, SpeechEnds, LoopEnds, JobsOK, StreamRecords
      <4> QED BY <4>1, <4>2
    <3> QED BY <3>1, <3>2
  <2>3. jobs' \in [Utterances -> [at : Jobs, ended : BOOLEAN]]
    <3>1. CASE UNCHANGED jobs
      BY <3>1 DEF JobsOK
    <3>2. CASE FeedStartsJob(s)
      BY <1>1, <1>3, <3>2 DEF FeedStartsJob, Jobs
    <3>3. CASE SpeechEnds(s)
      BY <1>1, <1>4, <3>3 DEF SpeechEnds
    <3>4. CASE LoopEnds(s)
      BY <1>1, <1>4, <3>1, <3>4 DEF LoopEnds
    <3> QED BY <1>5, <3>1, <3>2, <3>3, <3>4 DEF Speaking, SpeechStarts, FeatureFails
  <2> QED BY <2>1, <2>2, <2>3 DEF JobsOK
<1>6. ASSUME NEW s \in Streams, Connect(s) \/ Serving(s) PROVE JobsOK'
  <2>1. UNCHANGED <<jobs, holder>>
    BY <1>6 DEF Connect, Serving, TakeVad, UtteranceEnds, StreamCloses
  <2>2. \A t \in Streams : stream'[t].seq = stream[t].seq
    BY <1>0, <1>6 DEF Connect, Serving, TakeVad, UtteranceEnds, StreamCloses, Moves, StreamRecords
  <2> QED BY <2>1, <2>2 DEF JobsOK
<1>7. ASSUME NEW u \in Utterances, Recognising(u) PROVE JobsOK'
  <2>1. UNCHANGED stream /\ holder' \in Utterances \cup {Nothing}
    BY <1>7 DEF Recognising, Generates, StreamHears, PartialComes, JobEnds, JobsOK
  <2>2. \E place \in Jobs : Job(u, place)
    BY <1>7 DEF Recognising, Generates, StreamHears, PartialComes, JobEnds, AfterHearing, Jobs
  <2> QED BY <1>3, <2>1, <2>2 DEF JobsOK
<1> QED BY <1>5, <1>6, <1>7 DEF AsrNext, asrVars, JobsOK

LEMMA JobsStart == AsrInit => JobsOK
BY AsrAssumption DEF AsrInit, JobsOK, Jobs

LEMMA JobsAreTyped == AsrInv /\ JobsOK => AsrTypeOK
<1> SUFFICES ASSUME AsrInv, JobsOK PROVE AsrTypeOK
  OBVIOUS
<1>1. \A s \in Streams : InStep(stream[s], said[s]) /\ stream[s] \in StreamRecords
                         /\ said[s] \in SaidRecords
  BY DEF AsrInv, EventsInv
<1>2. \A s \in Streams : /\ stream[s].seq \in 0 .. MaxUtterances /\ stream[s].utt \in 0 .. MaxUtterances
                         /\ stream[s].ending \in 0 .. MaxUtterances /\ said[s].utt \in 0 .. MaxUtterances
  BY <1>1, AsrAssumption DEF JobsOK, InStep, StreamRecords, SaidRecords
<1>3. \A s \in Streams :
        /\ stream[s] \in [pc : {"new", "waiting", "open", "ending", "closing", "done"},
                          seq : 0 .. MaxUtterances, utt : 0 .. MaxUtterances,
                          ending : 0 .. MaxUtterances]
        /\ said[s] \in [type : {"start", "partial", "end"}, utt : 0 .. MaxUtterances]
  BY <1>1, <1>2 DEF StreamRecords, SaidRecords
<1> QED BY <1>3 DEF AsrInv, EventsInv, VadInv, JobsOK, AsrTypeOK

\* Streams, jobs and the lock keep their types: what has the lock is an utterance of a stream
\* and no stream goes past the utterances it was given.
THEOREM AsrTypes == AsrSpec => []AsrTypeOK
<1>1. AsrInv /\ JobsOK /\ [AsrNext]_asrVars => JobsOK'
  BY JobsKept
<1> QED BY <1>1, AsrInvariant, JobsStart, JobsAreTyped, PTL DEF AsrSpec
==============================================================================
