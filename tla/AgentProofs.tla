---------------------------- MODULE AgentProofs ----------------------------
(***************************************************************************)
(* Proofs about AgentService, whoever sends it requests, and about         *)
(* CallWithAgent, for any number of relays, requests and people, with any  *)
(* grace and with or without an orchestrator.                              *)
(***************************************************************************)
EXTENDS CallWithAgent, TLAPS

USE RelayAssumption, GraceAssumption, DeploymentAssumption, WindowAssumption

\* What is registered has a task; what a stop waits for is a relay.
EntriesOK ==
    /\ registered # NoRelay => Alive(registered)
    /\ \A h \in Handlers : handler[h].pc \in {"waiting", "killing"} => handler[h].relay \in Relays

\* Without an orchestrator the check and the registration are one step.
RegistersAtOnce ==
    ~routed => \A h \in Handlers : handler[h].pc # "resolving"

\* A relay that is done has left nothing behind, if its aclose() did not break off.
DoneIsGone == \A i \in Relays : relay[i].phase = "none" => relay[i] = GoneRelay

SInv == ServiceTypeOK /\ EntriesOK /\ RegistersAtOnce /\ AliveIsRegistered
        /\ DoneIsGone /\ StoppedIsOver

\* What is done to one relay keeps it typed, and its task running or done.
LEMMA RelayShapes ==
    ASSUME NEW r \in RelayType
    PROVE  /\ GoneRelay \in RelayType
           /\ Stopped(r) \in RelayType /\ (Stopped(r)).phase = r.phase
           /\ (Stopped(r)).inRoom = r.inRoom
           /\ Observe(r) \in RelayType /\ (Observe(r)).phase = r.phase
           /\ r.phase \in {"none", "broken"} => Observe(r) = r
           /\ r = GoneRelay => PutOut(r) = GoneRelay
           /\ PutOut(r) \in RelayType
           /\ (PutOut(r)).phase \in {"none", "broken"} <=> r.phase \in {"none", "broken"}
           /\ r.phase # "none" /\ (PutOut(r)).phase = "none" => PutOut(r) = GoneRelay
<1>1. GoneRelay \in RelayType
  BY DEF GoneRelay, RelayType, Phases
<1>2. Stopped(r) \in RelayType /\ (Stopped(r)).phase = r.phase /\ (Stopped(r)).inRoom = r.inRoom
  <2>1. 0 \in 0 .. Grace - 1
    OBVIOUS
  <2> QED  BY <2>1 DEF Stopped, RelayType
<1>3. Observe(r) \in RelayType
  <2>1. /\ [r EXCEPT !.unseen = 0] \in RelayType
        /\ [r EXCEPT !.unseen = IF r.unseen + 1 < Grace THEN r.unseen + 1 ELSE r.unseen] \in RelayType
    BY DEF RelayType
  <2> QED  BY <1>2, <2>1 DEF Observe
<1>4. (Observe(r)).phase = r.phase /\ (r.phase \in {"none", "broken"} => Observe(r) = r)
  BY DEF Observe, Stopped, RelayType
<1>5. r = GoneRelay => PutOut(r) = GoneRelay
  <2> SUFFICES ASSUME r = GoneRelay PROVE PutOut(r) = GoneRelay
    OBVIOUS
  <2>1. r.phase = "none" /\ r.inRoom = FALSE
    BY DEF GoneRelay
  <2>2. [r EXCEPT !.inRoom = FALSE] = r
    BY <2>1 DEF RelayType
  <2> QED  BY <2>1, <2>2 DEF PutOut
<1>6. CASE r.phase = "broken"
  <2>1. PutOut(r) = GoneRelay
    BY <1>6 DEF PutOut
  <2>2. GoneRelay.phase = "none"
    BY DEF GoneRelay
  <2> QED  BY <1>1, <1>2, <1>3, <1>4, <1>5, <1>6, <2>1, <2>2
<1>7. CASE r.phase # "broken"
  <2>1. PutOut(r) = [r EXCEPT !.inRoom = FALSE]
    BY <1>7 DEF PutOut
  <2>2. PutOut(r) \in RelayType /\ (PutOut(r)).phase = r.phase
    BY <2>1 DEF RelayType
  <2> QED  BY <1>1, <1>2, <1>3, <1>4, <1>5, <1>7, <2>2
<1> QED  BY <1>6, <1>7

\* A relay in aclose(), and one whose aclose() breaks off.
LEMMA ClosingShapes ==
    ASSUME NEW i \in Relays, relay[i] \in RelayType
    PROVE  /\ Closing(i) \in RelayType /\ (Closing(i)).phase \in {"closing", "aborting"}
           /\ BrokenOff(i) \in RelayType /\ (BrokenOff(i)).phase \in {"none", "broken"}
           /\ (BrokenOff(i)).phase = "none" => BrokenOff(i) = GoneRelay
<1>1. Stopped(relay[i]) \in RelayType
  BY RelayShapes
<1>2. Closing(i) \in RelayType /\ (Closing(i)).phase \in {"closing", "aborting"}
  BY <1>1 DEF Closing, RelayType, Phases
<1>3. CASE relay[i].inRoom
  <2>1. BrokenOff(i) = [GoneRelay EXCEPT !.phase = "broken", !.inRoom = TRUE]
    BY <1>3 DEF BrokenOff
  <2>2. BrokenOff(i) \in RelayType /\ (BrokenOff(i)).phase = "broken"
    BY <2>1, RelayShapes DEF RelayType, Phases
  <2> QED  BY <1>2, <2>2
<1>4. CASE ~relay[i].inRoom
  <2>1. BrokenOff(i) = GoneRelay
    BY <1>4 DEF BrokenOff
  <2>2. GoneRelay.phase = "none"
    BY DEF GoneRelay
  <2> QED  BY <1>2, <2>1, <2>2, RelayShapes
<1> QED  BY <1>3, <1>4

\* A relay that is started is new, and its job is accepted.
LEMMA RegisterKeeps ==
    ASSUME SInv, NEW h \in Handlers, NEW i \in Relays, Register(h, i),
           routed \/ registered = NoRelay, UNCHANGED <<routed, humans>>
    PROVE  SInv'
<1> USE DEF SInv
<1>1. ServiceTypeOK'
  BY DEF ServiceTypeOK, Register, Respond, IdleHandler, PCs, Answers, RelayType, Phases
<1>2. EntriesOK'
  BY DEF ServiceTypeOK, EntriesOK, Register, Respond, IdleHandler, Alive, RelayType
<1>3. RegistersAtOnce'
  BY DEF ServiceTypeOK, RegistersAtOnce, Register, Respond, IdleHandler
<1>4. AliveIsRegistered'
  BY DEF ServiceTypeOK, AliveIsRegistered, Register, Alive, RelayType
<1>5. DoneIsGone'
  BY DEF ServiceTypeOK, DoneIsGone, Register, Alive, RelayType
<1>6. StoppedIsOver'
  <2> SUFFICES ASSUME NEW g \in Handlers, (handler'[g]).pc = "stopped", (handler'[g]).relay # NoRelay
               PROVE  /\ (relay'[handler'[g].relay]).phase \in {"none", "broken"}
                      /\ registered' # handler'[g].relay
                      /\ (relay'[handler'[g].relay]).inRoom
                           => (relay'[handler'[g].relay]).phase = "broken"
    BY DEF StoppedIsOver, Alive
  <2>1. g # h /\ handler'[g] = handler[g]
    BY DEF ServiceTypeOK, Register, Respond, IdleHandler
  <2>2. handler[g].relay \in Relays /\ handler[g].relay # i
    BY <2>1 DEF ServiceTypeOK, Register, Unused
  <2>3. relay'[handler[g].relay] = relay[handler[g].relay] /\ registered' = i
    BY <2>2 DEF ServiceTypeOK, Register
  <2> QED  BY <2>1, <2>2, <2>3 DEF StoppedIsOver, Alive
<1> QED  BY <1>1, <1>2, <1>3, <1>4, <1>5, <1>6

LEMMA ReceiveStartKeeps ==
    ASSUME SInv, NEW h \in Handlers, ReceiveStart(h)
    PROVE  SInv'
<1>1. CASE registered # NoRelay
  BY <1>1 DEF ReceiveStart, Respond, SInv, ServiceTypeOK, EntriesOK, RegistersAtOnce, AliveIsRegistered,
     DoneIsGone, StoppedIsOver, Alive, IdleHandler, PCs, Answers
<1>2. CASE registered = NoRelay /\ routed
  BY <1>2 DEF ReceiveStart, SInv, ServiceTypeOK, EntriesOK, RegistersAtOnce, AliveIsRegistered,
     DoneIsGone, StoppedIsOver, Alive, PCs, Answers
<1>3. CASE registered = NoRelay /\ ~routed
  BY <1>3, RegisterKeeps DEF ReceiveStart
<1> QED  BY <1>1, <1>2, <1>3

\* A step that moves on relays which have a task, and no request.
LEMMA RelaysKeep ==
    ASSUME SInv, relay' \in [Relays -> RelayType],
           \A i \in Relays : (relay'[i]).phase \in {"none", "broken"}
                                <=> relay[i].phase \in {"none", "broken"},
           \A i \in Relays : (relay'[i]).phase = "none" => relay'[i] = GoneRelay,
           UNCHANGED <<routed, registered, handler>>,
           humans' \in 0 .. MaxHumans
    PROVE  SInv'
<1>1. /\ ServiceTypeOK' /\ EntriesOK' /\ RegistersAtOnce' /\ AliveIsRegistered'
      /\ DoneIsGone'
  BY DEF SInv, ServiceTypeOK, EntriesOK, RegistersAtOnce, AliveIsRegistered, DoneIsGone, Alive
<1>2. StoppedIsOver'
  <2> SUFFICES ASSUME NEW h \in Handlers, handler[h].pc = "stopped", handler[h].relay # NoRelay
               PROVE  /\ (relay'[handler[h].relay]).phase \in {"none", "broken"}
                      /\ registered # handler[h].relay
                      /\ (relay'[handler[h].relay]).inRoom
                           => (relay'[handler[h].relay]).phase = "broken"
    BY DEF StoppedIsOver, Alive
  <2> DEFINE i == handler[h].relay
  <2>1. i \in Relays
    BY DEF SInv, ServiceTypeOK
  <2>2. relay[i].phase \in {"none", "broken"} /\ registered # i
    BY DEF SInv, StoppedIsOver, Alive
  <2>3. (relay'[i]).phase = "none" => ~(relay'[i]).inRoom
    BY <2>1 DEF GoneRelay
  <2> QED  BY <2>1, <2>2, <2>3
<1> QED  BY <1>1, <1>2 DEF SInv

\* The same of a single relay.
LEMMA OneRelayKeeps ==
    ASSUME SInv, NEW i \in Relays, Alive(i),
           NEW r \in RelayType, r.phase \notin {"none", "broken"}, relay' = [relay EXCEPT ![i] = r],
           UNCHANGED <<routed, registered, handler, humans>>
    PROVE  SInv'
<1>1. relay \in [Relays -> RelayType] /\ humans \in 0 .. MaxHumans
  BY DEF SInv, ServiceTypeOK
<1>2. \A j \in Relays : relay[j].phase = "none" => relay[j] = GoneRelay
  BY DEF SInv, DoneIsGone
<1> QED  BY <1>1, <1>2, RelaysKeep DEF Alive

LEMMA ReceiveStopKeeps ==
    ASSUME SInv, NEW h \in Handlers, ReceiveStop(h)
    PROVE  SInv'
<1>1. CASE registered = NoRelay
  BY <1>1 DEF ReceiveStop, Respond, SInv, ServiceTypeOK, EntriesOK, RegistersAtOnce, AliveIsRegistered,
     DoneIsGone, StoppedIsOver, Alive, IdleHandler, PCs, Answers
<1>2. CASE registered # NoRelay
  <2> USE <1>2 DEF SInv
  <2>1. registered \in Relays /\ Alive(registered) /\ relay[registered] \in RelayType
    BY DEF ServiceTypeOK, EntriesOK
  <2>2. /\ relay' = [relay EXCEPT ![registered] = Stopped(relay[registered])]
        /\ handler' = [handler EXCEPT ![h] = [pc |-> "waiting", relay |-> registered]]
        /\ UNCHANGED <<routed, registered, humans>>
    BY DEF ReceiveStop
  <2>3. Stopped(relay[registered]) \in RelayType /\ (Stopped(relay[registered])).phase = relay[registered].phase
    BY <2>1, RelayShapes
  <2>4. /\ relay' \in [Relays -> RelayType]
        /\ \A i \in Relays : (relay'[i]).phase = relay[i].phase
        /\ \A i \in Relays : i # registered => relay'[i] = relay[i]
    BY <2>1, <2>2, <2>3 DEF ServiceTypeOK
  <2>5. ServiceTypeOK'
    BY <2>1, <2>2, <2>4 DEF ServiceTypeOK, PCs, Answers
  <2>6. EntriesOK' /\ RegistersAtOnce' /\ AliveIsRegistered'
    BY <2>1, <2>2, <2>4 DEF ServiceTypeOK, EntriesOK, RegistersAtOnce, AliveIsRegistered, Alive
  <2>7. DoneIsGone' /\ StoppedIsOver'
    BY <2>1, <2>2, <2>4 DEF ServiceTypeOK, DoneIsGone, StoppedIsOver, Alive
  <2> QED  BY <2>5, <2>6, <2>7
<1> QED  BY <1>1, <1>2

\* A task that is done takes the entry of its call along.
LEMMA UnregisterKeeps ==
    ASSUME SInv, NEW i \in Relays, Alive(i), NEW r \in RelayType, Unregister(i, r),
           r.phase \in {"none", "broken"}, r.phase = "none" => r = GoneRelay,
           UNCHANGED <<routed, humans>>,
           handler' \in [Handlers -> [pc : PCs, relay : Relays \cup {NoRelay}]],
           \A h \in Handlers : (handler'[h]).relay = handler[h].relay,
           \A h \in Handlers : \/ (handler'[h]).pc = handler[h].pc
                               \/ handler[h].pc = "waiting" /\ (handler'[h]).pc = "killing"
    PROVE  SInv'
<1> USE DEF SInv
<1>1. ServiceTypeOK'
  BY DEF ServiceTypeOK, Unregister
<1>2. EntriesOK' /\ RegistersAtOnce'
  BY DEF ServiceTypeOK, Unregister, EntriesOK, RegistersAtOnce
<1>3. AliveIsRegistered'
  BY DEF ServiceTypeOK, Unregister, AliveIsRegistered, Alive
<1>4. DoneIsGone'
  BY DEF ServiceTypeOK, Unregister, DoneIsGone
<1>5. StoppedIsOver'
  <2> SUFFICES ASSUME NEW h \in Handlers, (handler'[h]).pc = "stopped", (handler'[h]).relay # NoRelay
               PROVE  /\ (relay'[handler'[h].relay]).phase \in {"none", "broken"}
                      /\ registered' # handler'[h].relay
                      /\ (relay'[handler'[h].relay]).inRoom
                           => (relay'[handler'[h].relay]).phase = "broken"
    BY DEF StoppedIsOver, Alive
  <2>1. /\ handler[h].pc = "stopped" /\ handler'[h].relay = handler[h].relay
        /\ handler[h].relay \in Relays
    BY DEF ServiceTypeOK
  <2>2. /\ ~Alive(handler[h].relay)
        /\ relay[handler[h].relay].inRoom => relay[handler[h].relay].phase = "broken"
    BY <2>1 DEF StoppedIsOver
  <2>3. handler[h].relay # i
    BY <2>2
  <2>4. relay'[handler[h].relay] = relay[handler[h].relay] /\ registered' = NoRelay
    BY <2>1, <2>3 DEF ServiceTypeOK, Unregister
  <2> QED  BY <2>1, <2>2, <2>4 DEF Alive
<1> QED  BY <1>1, <1>2, <1>3, <1>4, <1>5

LEMMA HandlerKeeps ==
    ASSUME SInv, NEW h \in Handlers, HandlerStep(h)
    PROVE  SInv'
<1>1. CASE Resolved(h)
  <2>1. routed
    BY <1>1 DEF SInv, RegistersAtOnce, Resolved
  <2> QED  BY <1>1, <2>1, RegisterKeeps DEF Resolved
<1>2. CASE ResolvedToError(h)
  BY <1>2 DEF ResolvedToError, Respond, SInv, ServiceTypeOK, EntriesOK, RegistersAtOnce,
     AliveIsRegistered, DoneIsGone, StoppedIsOver, Alive, IdleHandler, PCs, Answers
<1>3. CASE StopDone(h)
  <2>1. /\ handler[h].relay \in Relays /\ ~Alive(handler[h].relay)
        /\ handler' = [handler EXCEPT ![h].pc = "stopped"]
        /\ UNCHANGED <<routed, relay, registered, humans>>
    BY <1>3 DEF SInv, EntriesOK, StopDone
  <2>2. /\ ServiceTypeOK' /\ EntriesOK' /\ RegistersAtOnce' /\ AliveIsRegistered'
        /\ DoneIsGone'
    BY <2>1 DEF SInv, ServiceTypeOK, EntriesOK, RegistersAtOnce, AliveIsRegistered, DoneIsGone,
       Alive, PCs, Answers
  <2>3. relay[handler[h].relay].inRoom => relay[handler[h].relay].phase = "broken"
    BY <2>1 DEF SInv, DoneIsGone, Alive, GoneRelay
  <2>4. registered # handler[h].relay
    BY <2>1 DEF SInv, EntriesOK
  <2>5. StoppedIsOver'
    BY <2>1, <2>3, <2>4 DEF SInv, ServiceTypeOK, StoppedIsOver, Alive
  <2> QED  BY <2>2, <2>5 DEF SInv
<1>4. CASE StopKills(h)
  <2> DEFINE i == handler[h].relay
  <2>1. i \in Relays /\ Alive(i) /\ relay[i] \in RelayType
    BY <1>4 DEF SInv, ServiceTypeOK, EntriesOK, StopKills
  <2>2. /\ handler[h].pc = "waiting"
        /\ handler' = [handler EXCEPT ![h].pc = "killing"]
        /\ UNCHANGED <<routed, humans>>
    BY <1>4 DEF StopKills
  <2>3. handler' \in [Handlers -> [pc : PCs, relay : Relays \cup {NoRelay}]]
    BY <2>2 DEF SInv, ServiceTypeOK, PCs
  <2>4. CASE Unregister(i, BrokenOff(i))
    <3>1. \A g \in Handlers : (handler'[g]).relay = handler[g].relay
      BY <2>2 DEF SInv, ServiceTypeOK
    <3>2. \A g \in Handlers : \/ (handler'[g]).pc = handler[g].pc
                              \/ handler[g].pc = "waiting" /\ (handler'[g]).pc = "killing"
      BY <2>2 DEF SInv, ServiceTypeOK
    <3> QED  BY <2>1, <2>2, <2>3, <2>4, <3>1, <3>2, UnregisterKeeps, ClosingShapes
  <2>5. ASSUME registered' = registered, relay' \in [Relays -> RelayType],
               \A j \in Relays : j # i => relay'[j] = relay[j],
               (relay'[i]).phase \notin {"none", "broken"}
        PROVE  SInv'
    <3>1. \A j \in Relays : (relay'[j]).phase \in {"none", "broken"}
                                <=> relay[j].phase \in {"none", "broken"}
      BY <2>1, <2>5 DEF Alive
    <3>2. \A g \in Handlers : /\ (handler'[g]).relay = handler[g].relay
                              /\ (handler'[g]).pc = "stopped" => handler[g].pc = "stopped"
                              /\ (handler'[g]).pc = "resolving" => handler[g].pc = "resolving"
                              /\ (handler'[g]).pc \in {"waiting", "killing"}
                                    => handler[g].pc \in {"waiting", "killing"}
      BY <2>2 DEF SInv, ServiceTypeOK
    <3>3. ServiceTypeOK' /\ EntriesOK' /\ RegistersAtOnce' /\ AliveIsRegistered'
      BY <2>1, <2>2, <2>3, <2>5, <3>1, <3>2 DEF SInv, ServiceTypeOK, EntriesOK, RegistersAtOnce,
         AliveIsRegistered, Alive
    <3>4. DoneIsGone'
      BY <2>5 DEF SInv, DoneIsGone
    <3>5. ASSUME NEW g \in Handlers, (handler'[g]).pc = "stopped", (handler'[g]).relay # NoRelay
          PROVE  /\ (relay'[handler'[g].relay]).phase \in {"none", "broken"}
                 /\ registered' # handler'[g].relay
                 /\ (relay'[handler'[g].relay]).inRoom
                      => (relay'[handler'[g].relay]).phase = "broken"
      <4>1. /\ handler[g].pc = "stopped" /\ handler'[g].relay = handler[g].relay
            /\ handler[g].relay \in Relays
        BY <3>2, <3>5 DEF SInv, ServiceTypeOK
      <4>2. handler[g].relay # i
        BY <2>1, <3>5, <4>1 DEF SInv, StoppedIsOver
      <4> QED  BY <2>5, <3>5, <4>1, <4>2 DEF SInv, StoppedIsOver, Alive
    <3> QED  BY <3>3, <3>4, <3>5 DEF SInv, StoppedIsOver, Alive
  <2>6. CASE relay' = [relay EXCEPT ![i] = Closing(i)] /\ registered' = registered
    <3>1. Closing(i) \in RelayType /\ (Closing(i)).phase \in {"closing", "aborting"}
      BY <2>1, ClosingShapes
    <3> QED  BY <2>1, <2>5, <2>6, <3>1 DEF SInv, ServiceTypeOK
  <2>7. CASE UNCHANGED <<relay, registered>>
    BY <2>1, <2>5, <2>7 DEF SInv, ServiceTypeOK, Alive
  <2> QED  BY <1>4, <2>4, <2>6, <2>7 DEF StopKills, Cancelled
<1> QED  BY <1>1, <1>2, <1>3, <1>4 DEF HandlerStep

LEMMA RelayStepKeeps ==
    ASSUME SInv, NEW i \in Relays, RelayStep(i) \/ Dropped(i)
    PROVE  SInv'
<1> USE DEF SInv
<1>0. relay \in [Relays -> RelayType] /\ humans \in 0 .. MaxHumans
  BY DEF ServiceTypeOK
<1>1. CASE Connected(i)
  <2> DEFINE r == [relay[i] EXCEPT !.phase = "preparing", !.inRoom = TRUE]
  <2> DEFINE new(j) == IF j = i THEN r ELSE PutOut(relay[j])
  <2>1. r \in RelayType /\ r.phase = "preparing" /\ relay[i].phase = "connecting"
    BY <1>0, <1>1 DEF Connected, RelayType, Phases
  <2>2. ASSUME NEW j \in Relays
        PROVE  /\ new(j) \in RelayType
               /\ (new(j)).phase \in {"none", "broken"} <=> relay[j].phase \in {"none", "broken"}
               /\ (new(j)).phase = "none" => new(j) = GoneRelay
    <3>1. CASE j = i
      <4>1. new(j) = r
        BY <3>1
      <4> HIDE DEF new, r
      <4> QED  BY <2>1, <3>1, <4>1
    <3>2. CASE j # i
      <4>1. new(j) = PutOut(relay[j]) /\ relay[j] \in RelayType
        BY <1>0, <3>2
      <4>2. relay[j].phase = "none" => relay[j] = GoneRelay
        BY DEF DoneIsGone
      <4> HIDE DEF new
      <4> QED  BY <4>1, <4>2, RelayShapes
    <3> QED  BY <3>1, <3>2
  <2>3. relay' = [j \in Relays |-> new(j)] /\ UNCHANGED <<routed, registered, handler, humans>>
    BY <1>1 DEF Connected
  <2> HIDE DEF new
  <2> QED  BY <1>0, <2>2, <2>3, RelaysKeep
<1>2. CASE Ready(i) \/ Hangs(i)
  <2>1. PICK phase \in {"serving", "hung"} : relay' = [relay EXCEPT ![i].phase = phase]
    BY <1>2 DEF Ready, Hangs
  <2> DEFINE r == [relay[i] EXCEPT !.phase = phase]
  <2>2. r \in RelayType /\ r.phase = phase /\ Alive(i)
    BY <1>0, <1>2, <2>1 DEF Ready, Hangs, RelayType, Phases, Alive
  <2>3. relay' = [relay EXCEPT ![i] = r] /\ UNCHANGED <<routed, registered, handler, humans>>
    BY <1>2, <2>1 DEF Ready, Hangs
  <2> HIDE DEF r
  <2> QED  BY <2>1, <2>2, <2>3, OneRelayKeeps
<1>3. CASE Fails(i) \/ Closes(i)
  <2>1. /\ relay' = [relay EXCEPT ![i] = Closing(i)] /\ Alive(i)
        /\ UNCHANGED <<routed, registered, handler, humans>>
    BY <1>3 DEF Fails, Closes, Alive
  <2>2. Closing(i) \in RelayType /\ (Closing(i)).phase \in {"closing", "aborting"}
    BY <1>0, ClosingShapes
  <2> QED  BY <2>1, <2>2, OneRelayKeeps
<1>4. CASE Evicted(i)
  <2>1. /\ relay' = [relay EXCEPT ![i] = Stopped(relay[i])] /\ Alive(i)
        /\ UNCHANGED <<routed, registered, handler, humans>>
    BY <1>4 DEF Evicted, Alive
  <2>2. Stopped(relay[i]) \in RelayType /\ (Stopped(relay[i])).phase = relay[i].phase
    BY <1>0, RelayShapes
  <2> QED  BY <2>1, <2>2, OneRelayKeeps DEF Alive
<1>5. CASE Dropped(i)
  <2> DEFINE s == Stopped(relay[i])
  <2>1. s \in RelayType /\ s.phase = relay[i].phase /\ relay[i].inRoom
    BY <1>0, <1>5, RelayShapes DEF Dropped
  <2>2. relay[i].phase # "none"
    BY <2>1 DEF DoneIsGone, GoneRelay
  <2>3. relay' = [relay EXCEPT ![i] = PutOut(s)] /\ UNCHANGED <<routed, registered, handler, humans>>
    BY <1>5 DEF Dropped
  <2> HIDE DEF s
  <2>4. /\ PutOut(s) \in RelayType
        /\ (PutOut(s)).phase \in {"none", "broken"} <=> relay[i].phase \in {"none", "broken"}
        /\ (PutOut(s)).phase = "none" => PutOut(s) = GoneRelay
    BY <2>1, <2>2, RelayShapes
  <2>5. \A j \in Relays : relay[j].phase = "none" => relay[j] = GoneRelay
    BY DEF DoneIsGone
  <2> QED  BY <1>0, <2>3, <2>4, <2>5, RelaysKeep
<1>6. CASE Ends(i) \/ Breaks(i)
  <2>1. Alive(i) /\ UNCHANGED <<routed, handler, humans>>
    BY <1>6 DEF Ends, Breaks, Alive
  <2>2. Unregister(i, GoneRelay) \/ Unregister(i, BrokenOff(i))
    BY <1>6 DEF Ends, Breaks
  <2>3. handler \in [Handlers -> [pc : PCs, relay : Relays \cup {NoRelay}]]
    BY DEF ServiceTypeOK
  <2>4. GoneRelay \in RelayType /\ GoneRelay.phase = "none"
    BY <1>0, RelayShapes DEF GoneRelay
  <2> QED  BY <1>0, <2>1, <2>2, <2>3, <2>4, UnregisterKeeps, ClosingShapes
<1> QED  BY <1>1, <1>2, <1>3, <1>4, <1>5, <1>6 DEF RelayStep

LEMMA OtherStepsKeep ==
    ASSUME SInv, WatchTick \/ Restart \/ Enter \/ Leave \/ \E h \in Handlers : Answered(h)
    PROVE  SInv'
<1> USE DEF SInv
<1>1. CASE WatchTick
  <2>1. \A i \in Relays : relay'[i] = Observe(relay[i]) /\ relay[i] \in RelayType
    BY <1>1 DEF WatchTick, ServiceTypeOK
  <2>2. \A i \in Relays : Observe(relay[i]) \in RelayType /\ (relay'[i]).phase = relay[i].phase
    BY <2>1, RelayShapes
  <2>3. \A i \in Relays : (relay'[i]).phase = "none" => relay'[i] = GoneRelay
    BY <2>1, <2>2, RelayShapes DEF DoneIsGone
  <2>4. relay' \in [Relays -> RelayType]
    BY <1>1, <2>2 DEF WatchTick
  <2> QED  BY <1>1, <2>2, <2>3, <2>4, RelaysKeep DEF WatchTick, ServiceTypeOK
<1>2. CASE Restart
  BY <1>2 DEF Restart, RelayType, Phases, ServiceTypeOK, EntriesOK, RegistersAtOnce, AliveIsRegistered,
     DoneIsGone, StoppedIsOver, Alive, GoneRelay, IdleHandler, PCs
<1>3. CASE Enter \/ Leave
  BY <1>3, RelaysKeep DEF Enter, Leave, ServiceTypeOK, DoneIsGone
<1>4. ASSUME NEW h \in Handlers, Answered(h)
      PROVE  SInv'
  BY <1>4 DEF Answered, ServiceTypeOK, EntriesOK, RegistersAtOnce, AliveIsRegistered,
     DoneIsGone, StoppedIsOver, Alive, IdleHandler, PCs
<1> QED  BY <1>1, <1>2, <1>3, <1>4

\* The invariant of the job service: entries, tasks and requests agree in every state,
\* whatever is asked and whatever fails.
THEOREM ServiceInvariant == SSpec => []SInv
<1>1. SInit => SInv
  BY DEF SInit, SInv, ServiceTypeOK, EntriesOK, RegistersAtOnce, AliveIsRegistered, DoneIsGone,
     StoppedIsOver, Alive, GoneRelay, IdleHandler, PCs, RelayType, Phases
<1>2. SInv /\ [SNext]_svars => SInv'
  <2> SUFFICES ASSUME SInv, [SNext]_svars PROVE SInv'
    OBVIOUS
  <2>1. CASE UNCHANGED svars
    BY <2>1 DEF svars, SInv, ServiceTypeOK, EntriesOK, RegistersAtOnce, AliveIsRegistered, DoneIsGone,
       StoppedIsOver, Alive
  <2>2. CASE SNext
    BY <2>2, ReceiveStartKeeps, ReceiveStopKeeps, HandlerKeeps, RelayStepKeeps, OtherStepsKeep DEF SNext
  <2> QED  BY <2>1, <2>2
<1> QED  BY <1>1, <1>2, PTL DEF SSpec

\* main.py: every relay with a task is the registered one, so a stop finds it, unless
\* the job had to ask an orchestrator between its check and its registration.
THEOREM StopsFindTheirRelay == SSpec => []AliveIsRegistered
<1>1. SInv => AliveIsRegistered
  BY DEF SInv
<1> QED  BY <1>1, ServiceInvariant, PTL

\* main.py: the answer "stopped" speaks of a relay whose task is done, that is no longer
\* registered and that is out of the room, or whose aclose() broke off inside it.
THEOREM StoppedIsTrue == SSpec => []StoppedIsOver
<1>1. SInv => StoppedIsOver
  BY DEF SInv
<1> QED  BY <1>1, ServiceInvariant, PTL
----------------------------------------------------------------------------
(* The call and its agent. *)

\* Whatever the backend and the network do, they use the service by its requests: what
\* holds of the service alone holds in a call.
THEOREM CallsUseTheService == Spec => SSpec
<1>1. Init => SInit
  BY DEF Init
<1>2. [Next]_vars => [SNext]_svars
  <2> SUFFICES ASSUME [Next]_vars PROVE [SNext]_svars
    OBVIOUS
  <2> USE DEF svars
  <2>1. CASE UNCHANGED vars
    BY <2>1 DEF vars
  <2>2. ASSUME NEW h \in Handlers,
               Dispatch(h) \/ Undispatch(h) \/ End(h) \/ EndAgain(h) \/ GiveUp(h)
        PROVE  UNCHANGED svars
    BY <2>2 DEF Dispatch, Undispatch, End, EndAgain, GiveUp
  <2>3. ASSUME NEW h \in Handlers, Hear(h) \/ Forget(h) \/ Deliver(h)
        PROVE  SNext
    BY <2>3 DEF Hear, Forget, Deliver, SNext
  <2>4. CASE Join \/ LeaveRoom \/ AgentStep \/ AgentRestart \/ Tick
    BY <2>4 DEF Join, LeaveRoom, AgentStep, AgentRestart, Tick, SNext
  <2> QED  BY <2>1, <2>2, <2>3, <2>4 DEF Next
<1> QED  BY <1>1, <1>2, PTL DEF Spec, SSpec

BackendType ==
    /\ over \in BOOLEAN /\ joined \in BOOLEAN /\ dispatched \in BOOLEAN
    /\ age \in 0 .. Window /\ starts \in 0 .. MaxStarts
    /\ asking \in [Handlers -> Requests] /\ wire \in [Handlers -> Requests]
    /\ \A h \in Handlers : wire[h] # "none" => handler[h] = IdleHandler

\* A relay has not been alone for longer than its call has waited.
Patience == ~over /\ ~joined => humans = 0 /\ \A i \in Relays : relay[i].unseen <= age

LEMMA BackendInit == Init => BackendType
<1> SUFFICES ASSUME Init PROVE BackendType
  OBVIOUS
<1>1. over \in BOOLEAN /\ joined \in BOOLEAN /\ dispatched \in BOOLEAN
      /\ age \in 0 .. Window /\ starts \in 0 .. MaxStarts
  <2>1. over = FALSE /\ joined = FALSE /\ dispatched = FALSE /\ age = 0 /\ starts = 0
    BY DEF Init
  <2>2. 0 \in 0 .. Window /\ 0 \in 0 .. MaxStarts
    OBVIOUS
  <2> QED  BY <2>1, <2>2
<1>2. \A h \in Handlers : wire[h] = "none"
  BY DEF Init
<1>3. asking \in [Handlers -> Requests] /\ wire \in [Handlers -> Requests]
  BY DEF Init, Requests
<1> QED  BY <1>1, <1>2, <1>3 DEF BackendType

\* The connections of the backend, kept by every step.
LEMMA BackendKeeps ==
    ASSUME SInv, BackendType, [Next]_vars
    PROVE  BackendType'
<1> USE DEF BackendType, Requests
<1>0. handler \in [Handlers -> [pc : PCs, relay : Relays \cup {NoRelay}]]
  BY DEF SInv, ServiceTypeOK
<1>1. CASE UNCHANGED vars
  BY <1>1 DEF vars
<1>2. ASSUME NEW h \in Handlers, Dispatch(h) \/ Undispatch(h) \/ EndAgain(h)
      PROVE  BackendType'
  BY <1>2 DEF Dispatch, Undispatch, EndAgain, Send, Free, svars
<1>3. ASSUME NEW h \in Handlers, End(h)
      PROVE  BackendType'
  BY <1>3 DEF End, Send, Free, svars
<1>4. ASSUME NEW h \in Handlers, GiveUp(h)
      PROVE  BackendType'
  BY <1>4 DEF GiveUp, svars
<1>5. ASSUME NEW h \in Handlers, Hear(h)
      PROVE  BackendType'
  <2>1. (handler[h].pc \in {"accepted", "already_running"}) \in BOOLEAN
    OBVIOUS
  <2> QED  BY <1>0, <1>5, <2>1 DEF Hear, Answered, Answers, IdleHandler
<1>6. ASSUME NEW h \in Handlers, Forget(h)
      PROVE  BackendType'
  BY <1>0, <1>6 DEF Forget, Answered, Answers, IdleHandler, bvars
<1>7. ASSUME NEW h \in Handlers, Deliver(h)
      PROVE  BackendType'
  <2>1. \A g \in Handlers : g # h => handler'[g] = handler[g]
    BY <1>0, <1>7 DEF Deliver, ReceiveStart, ReceiveStop, Register, Respond
  <2>2. wire' = [wire EXCEPT ![h] = "none"] /\ UNCHANGED <<over, joined, dispatched, age, asking, starts>>
    BY <1>7 DEF Deliver
  <2> QED  BY <2>1, <2>2
<1>8. CASE Join \/ LeaveRoom
  BY <1>8 DEF Join, LeaveRoom, Enter, Leave, bvars
<1>9. CASE AgentStep
  <2>1. ASSUME NEW h \in Handlers, HandlerStep(h)
        PROVE  handler[h] # IdleHandler /\ \A g \in Handlers : g # h => handler'[g] = handler[g]
    <3>1. CASE Resolved(h) \/ ResolvedToError(h)
      BY <1>0, <3>1 DEF Resolved, ResolvedToError, Register, Respond, IdleHandler
    <3>2. CASE StopDone(h) \/ StopKills(h)
      <4>1. /\ handler[h].pc \in {"waiting", "killing"}
            /\ \E pc \in {"stopped", "killing"} : handler' = [handler EXCEPT ![h].pc = pc]
        BY <3>2 DEF StopDone, StopKills
      <4>2. handler[h] # IdleHandler
        BY <4>1 DEF IdleHandler
      <4> QED  BY <1>0, <4>1, <4>2
    <3> QED  BY <2>1, <3>1, <3>2 DEF HandlerStep
  <2>2. ASSUME NEW i \in Relays, RelayStep(i) \/ Dropped(i)
        PROVE  handler' = handler
    BY <2>2 DEF RelayStep, Connected, Ready, Fails, Evicted, Closes, Ends, Breaks, Hangs, Dropped
  <2>3. \A g \in Handlers : handler[g] = IdleHandler => handler'[g] = IdleHandler
    BY <1>9, <2>1, <2>2 DEF AgentStep
  <2> QED  BY <1>9, <2>3 DEF AgentStep, bvars
<1>10. CASE AgentRestart
  BY <1>10 DEF AgentRestart, Restart, bvars
<1>11. CASE Tick
  BY <1>11 DEF Tick, WatchTick
<1> QED  BY <1>1, <1>2, <1>3, <1>4, <1>5, <1>6, <1>7, <1>8, <1>9, <1>10, <1>11 DEF Next

\* Every variable of a call and its agent has its type.
THEOREM CallTypes == Spec => []TypeOK
<1>1. Init => BackendType
  BY BackendInit
<1>2. SInv /\ BackendType /\ [Next]_vars => BackendType'
  BY BackendKeeps
<1>3. SInv /\ BackendType => TypeOK
  BY DEF SInv, BackendType, TypeOK
<1> QED  BY <1>1, <1>2, <1>3, CallsUseTheService, ServiceInvariant, PTL DEF Spec

\* Only the watchdog lets a relay wait for longer, by one poll.
LEMMA WaitingGrows ==
    ASSUME SInv, NEW i \in Relays
    PROVE  /\ (Observe(relay[i])).unseen <= relay[i].unseen + 1
           /\ (Stopped(relay[i])).unseen = 0 /\ (Closing(i)).unseen = 0
           /\ relay[i].unseen \in Nat
           /\ GoneRelay.unseen = 0 /\ (BrokenOff(i)).unseen = 0
           /\ (PutOut(relay[i])).unseen \in {0, relay[i].unseen}
           /\ (Observe(relay[i])).stopped /\ ~relay[i].stopped => relay[i].unseen + 1 >= Grace
<1>1. relay[i] \in RelayType
  BY DEF SInv, ServiceTypeOK
<1>2. /\ GoneRelay.unseen = 0 /\ (BrokenOff(i)).unseen = 0
      /\ (PutOut(relay[i])).unseen \in {0, relay[i].unseen}
  BY <1>1 DEF BrokenOff, PutOut, RelayType, GoneRelay
<1> QED  BY <1>1, <1>2 DEF Observe, Stopped, Closing, RelayType

\* A step of the agent other than a poll makes no relay wait for longer.
LEMMA AgentStepsWait ==
    ASSUME SInv, BackendType, Patience,
           \/ \E i \in Relays : RelayStep(i) \/ Dropped(i)
           \/ \E h \in Handlers : HandlerStep(h) \/ ReceiveStart(h) \/ ReceiveStop(h) \/ Answered(h)
           \/ Restart,
           UNCHANGED <<over, joined, age>>
    PROVE  Patience'
<1>0. humans' = humans
  BY DEF RelayStep, Connected, Ready, Fails, Evicted, Closes, Ends, Breaks, Hangs, Dropped, HandlerStep,
     Resolved, ResolvedToError, StopDone, StopKills, ReceiveStart, ReceiveStop, Answered, Restart
<1>1. SUFFICES ASSUME NEW j \in Relays
               PROVE  relay'[j].unseen = relay[j].unseen \/ relay'[j].unseen = 0
  BY <1>0 DEF Patience, BackendType
<1>2. relay \in [Relays -> RelayType] /\ registered \in Relays \cup {NoRelay}
  BY DEF SInv, ServiceTypeOK
<1>3. ASSUME NEW i \in Relays, RelayStep(i) \/ Dropped(i)
      PROVE  relay'[j].unseen = relay[j].unseen \/ relay'[j].unseen = 0
  <2>0. CASE Connected(i)
    <3>1. relay'[j] = IF j = i THEN [relay[i] EXCEPT !.phase = "preparing", !.inRoom = TRUE]
                               ELSE PutOut(relay[j])
      BY <2>0 DEF Connected
    <3>2. relay[i] \in RelayType /\ relay[j] \in RelayType
      BY <1>2
    <3>3. CASE j = i
      BY <3>1, <3>2, <3>3 DEF RelayType
    <3>4. CASE j # i
      BY <3>1, <3>4, WaitingGrows
    <3> QED  BY <3>3, <3>4
  <2>1. CASE Ready(i) \/ Hangs(i)
    BY <1>2, <2>1 DEF Ready, Hangs, RelayType
  <2>2. CASE Fails(i) \/ Closes(i) \/ Evicted(i)
    BY <1>2, <2>2, WaitingGrows DEF Fails, Closes, Evicted
  <2>3. CASE Dropped(i)
    <3>1. (PutOut(Stopped(relay[i]))).unseen = 0
      BY <1>2, WaitingGrows, RelayShapes DEF PutOut, RelayType
    <3> QED  BY <1>2, <2>3, <3>1 DEF Dropped
  <2>4. CASE Ends(i) \/ Breaks(i)
    BY <1>2, <2>4, WaitingGrows DEF Ends, Breaks, Unregister
  <2> QED  BY <1>3, <2>0, <2>1, <2>2, <2>3, <2>4 DEF RelayStep
<1>4. ASSUME NEW h \in Handlers, HandlerStep(h)
      PROVE  relay'[j].unseen = relay[j].unseen \/ relay'[j].unseen = 0
  <2>1. CASE Resolved(h)
    BY <1>2, <2>1 DEF Resolved, Register, RelayType
  <2>2. CASE ResolvedToError(h) \/ StopDone(h)
    BY <2>2 DEF ResolvedToError, StopDone
  <2>3. CASE StopKills(h)
    <3>1. handler[h].relay \in Relays
      BY <2>3 DEF SInv, EntriesOK, StopKills
    <3> QED  BY <1>2, <2>3, <3>1, WaitingGrows DEF StopKills, Cancelled, Unregister
  <2> QED  BY <1>4, <2>1, <2>2, <2>3 DEF HandlerStep
<1>5. ASSUME NEW h \in Handlers, ReceiveStart(h) \/ Answered(h)
      PROVE  relay'[j].unseen = relay[j].unseen \/ relay'[j].unseen = 0
  BY <1>2, <1>5 DEF ReceiveStart, Answered, Register, RelayType
<1>6. ASSUME NEW h \in Handlers, ReceiveStop(h)
      PROVE  relay'[j].unseen = relay[j].unseen \/ relay'[j].unseen = 0
  BY <1>2, <1>6, WaitingGrows DEF ReceiveStop
<1>7. CASE Restart
  BY <1>7 DEF Restart, GoneRelay
<1> QED  BY <1>3, <1>4, <1>5, <1>6, <1>7

\* relay.py: the grace "must comfortably exceed the whole ring window".  Exceeding it is
\* enough: with any grace longer than a call may wait, no relay gives up on a call
\* that nobody has joined yet.
THEOREM PatienceSuffices ==
    ASSUME Window < Grace
    PROVE  Spec => WaitsForTheAnswer
<1>1. Init => Patience /\ BackendType
  <2>1. GoneRelay.unseen = 0
    BY DEF GoneRelay
  <2>2. Init => Patience
    BY <2>1 DEF Init, SInit, Patience
  <2> QED  BY <2>2, BackendInit
<1>2. SInv /\ BackendType /\ Patience /\ [Next]_vars => Patience'
  <2> SUFFICES ASSUME SInv, BackendType, Patience, [Next]_vars PROVE Patience'
    OBVIOUS
  <2>1. CASE UNCHANGED vars
    BY <2>1 DEF vars, Patience
  <2>2. ASSUME NEW h \in Handlers,
               Dispatch(h) \/ Undispatch(h) \/ EndAgain(h) \/ GiveUp(h) \/ End(h)
        PROVE  Patience'
    BY <2>2 DEF Dispatch, Undispatch, EndAgain, GiveUp, End, svars, Patience
  <2>3. ASSUME NEW h \in Handlers, Hear(h) \/ Forget(h) \/ Deliver(h)
        PROVE  Patience'
    BY <2>3, AgentStepsWait DEF Hear, Forget, Deliver, bvars
  <2>4. CASE AgentStep \/ AgentRestart
    BY <2>4, AgentStepsWait DEF AgentStep, AgentRestart, bvars
  <2>5. CASE Join
    BY <2>5 DEF Join, Patience
  <2>6. CASE LeaveRoom
    BY <2>6 DEF LeaveRoom, Leave, bvars, Patience
  <2>7. CASE Tick
    <3>0. humans' = humans /\ over' = over /\ joined' = joined
      BY <2>7 DEF Tick, WatchTick
    <3>1. SUFFICES ASSUME ~over, ~joined, NEW i \in Relays
                   PROVE  relay'[i].unseen <= age'
      BY <3>0 DEF Patience
    <3>2. relay'[i] = Observe(relay[i]) /\ age' = age + 1
      BY <2>7, <3>1 DEF Tick, WatchTick
    <3>3. relay[i].unseen <= age /\ age \in Nat
      BY <3>1 DEF Patience, BackendType
    <3>4. (Observe(relay[i])).unseen \in Int
      BY RelayShapes DEF SInv, ServiceTypeOK, RelayType
    <3> QED  BY <3>2, <3>3, <3>4, WaitingGrows
  <2> QED  BY <2>1, <2>2, <2>3, <2>4, <2>5, <2>6, <2>7 DEF Next
<1>3. SInv /\ BackendType /\ Patience /\ [Next]_vars
        => [\A i \in Relays :
              Tick /\ relay'[i].stopped /\ ~relay[i].stopped => over \/ joined]_vars
  <2> SUFFICES ASSUME SInv, BackendType, Patience, Tick, ~over, ~joined,
                      NEW i \in Relays, relay'[i].stopped, ~relay[i].stopped
               PROVE  FALSE
    OBVIOUS
  <2>1. relay[i].unseen + 1 >= Grace
    BY WaitingGrows DEF Tick, WatchTick
  <2>2. relay[i].unseen <= age /\ age < Window
    BY DEF Patience, Tick
  <2> QED  BY <2>1, <2>2, WaitingGrows DEF BackendType
<1>4. SInv /\ BackendType /\ [Next]_vars => BackendType'
  BY BackendKeeps
<1> QED  BY <1>1, <1>2, <1>3, <1>4, CallsUseTheService, ServiceInvariant, PTL
         DEF Spec, WaitsForTheAnswer
============================================================================
