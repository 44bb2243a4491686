----------------------------- MODULE LazyEngine -----------------------------
(***************************************************************************)
(* The models of the GPU services are loaded by the first request that     *)
(* needs one, under a lock, while others arrive: PredictorEngine and       *)
(* CtcEvidenceEngine, MarianEngine, ChatterboxEngine, HebrewWhisperEngine. *)
(*                                                                         *)
(* Handlers run in threads: several at once in the predictor (its queue    *)
(* admits eight), as many as the pool has in the MT and TTS services.      *)
(* Assignments are the atomic steps, as the interpreter's lock makes them. *)
(* NemotronEngine loads like the predictor; its generation is AsrService.  *)
(***************************************************************************)
EXTENDS Integers, FiniteSets

CONSTANT Threads        \* requests, each in a thread of its own

ASSUME EngineAssumption == IsFiniteSet(Threads)

Kinds == {"predictor", "pruner",    \* generate without a lock, on self._device
          "tts", "whisper",         \* generate under the lock they load under
          "mt"}                     \* looks its bundle up under the lock

VARIABLES
    kind,       \* which engine this is
    model,      \* self._model is set
    device,     \* self._device is set
    lock,       \* self._lock: the thread in it
    at,         \* where each thread is
    loads       \* loads that succeeded

engineVars == <<kind, model, device, lock, at, loads>>

NoThread == {}

Places == {"new", "waiting", "loading", "naming", "ready", "generating", "answered", "failed"}

EngineTypeOK ==
    /\ kind \in Kinds /\ model \in BOOLEAN /\ device \in BOOLEAN
    /\ lock \in {NoThread} \union {{t} : t \in Threads}
    /\ at \in [Threads -> Places] /\ loads \in 0 .. Cardinality(Threads)

EngineInit ==
    /\ kind \in Kinds /\ model = FALSE /\ device = FALSE /\ lock = NoThread
    /\ at = [t \in Threads |-> "new"] /\ loads = 0

GoesTo(t, place) == at' = [at EXCEPT ![t] = place]

\* load: `if self.loaded: return`, before the lock.  MarianEngine takes the lock first.
Asked(t) ==
    /\ at[t] = "new"
    /\ GoesTo(t, IF model /\ kind # "mt" THEN "ready" ELSE "waiting")
    /\ UNCHANGED <<kind, model, device, lock, loads>>

\* Mutant: the check is not repeated under the lock.
LocksUnchecked(t) ==
    /\ at[t] = "waiting" /\ lock = NoThread
    /\ GoesTo(t, "loading") /\ lock' = {t}
    /\ UNCHANGED <<kind, model, device, loads>>

\* Under the lock it looks again: somebody may have loaded it meanwhile.
Locks(t) ==
    /\ at[t] = "waiting" /\ lock = NoThread
    /\ \/ model /\ GoesTo(t, "ready") /\ UNCHANGED lock
       \/ ~model /\ GoesTo(t, "loading") /\ lock' = {t}
    /\ UNCHANGED <<kind, model, device, loads>>

\* self._model = model.  A bundle of MarianEngine is published whole, with its device.
LoadEnds(t) ==
    /\ at[t] = "loading"
    /\ model' = TRUE /\ device' = (kind = "mt") /\ loads' = loads + 1
    /\ GoesTo(t, "naming")
    /\ UNCHANGED <<kind, lock>>

\* The libraries or the weights are missing: 503, and the next request tries again.
LoadFails(t) ==
    /\ at[t] = "loading"
    /\ GoesTo(t, "failed") /\ lock' = NoThread
    /\ UNCHANGED <<kind, model, device, loads>>

\* self._device = device, and the lock is left.
Names(t) ==
    /\ at[t] = "naming"
    /\ device' = TRUE /\ lock' = NoThread /\ GoesTo(t, "ready")
    /\ UNCHANGED <<kind, model, loads>>

\* A request that saw the model before the device was named moves its input to the device
\* "unloaded", which fails: 503.
OnDevice(t) ==
    /\ at[t] = "ready"
    /\ GoesTo(t, IF device THEN "generating" ELSE "failed")
    /\ UNCHANGED <<kind, model, device, lock, loads>>

\* predict of PredictorEngine
Predict(t) == kind = "predictor" /\ OnDevice(t)

\* infer of CtcEvidenceEngine; a window of no sound, or of too much, fails.
Infer(t) ==
    /\ kind = "pruner"
    /\ \/ OnDevice(t)
       \/ /\ at[t] = "ready" /\ GoesTo(t, "failed")
          /\ UNCHANGED <<kind, model, device, lock, loads>>

\* translate of MarianEngine: the bundle has its device.
TranslateText(t) == kind = "mt" /\ OnDevice(t)

UnderLock(t) ==
    /\ at[t] = "ready" /\ lock = NoThread
    /\ GoesTo(t, "generating") /\ lock' = {t}
    /\ UNCHANGED <<kind, model, device, loads>>

\* synthesize of ChatterboxEngine; a voice that is not installed fails.
Synthesize(t) ==
    /\ kind = "tts"
    /\ \/ UnderLock(t)
       \/ /\ at[t] = "ready" /\ GoesTo(t, "failed")
          /\ UNCHANGED <<kind, model, device, lock, loads>>

\* transcribe of HebrewWhisperEngine; of no sound it is the empty text at once.
Transcribe(t) ==
    /\ kind = "whisper"
    /\ \/ UnderLock(t)
       \/ /\ at[t] = "ready" /\ GoesTo(t, "answered")
          /\ UNCHANGED <<kind, model, device, lock, loads>>

\* The answer, or an error of the model: either way the lock is left.
Answers(t) ==
    /\ at[t] = "generating"
    /\ \E end \in {"answered", "failed"} : GoesTo(t, end)
    /\ lock' = lock \ {t}
    /\ UNCHANGED <<kind, model, device, loads>>

EngineNext ==
    \E t \in Threads : \/ Asked(t) \/ Locks(t) \/ LoadEnds(t) \/ LoadFails(t) \/ Names(t)
                       \/ Predict(t) \/ Infer(t) \/ TranslateText(t)
                       \/ Synthesize(t) \/ Transcribe(t) \/ Answers(t)

EngineSpec == EngineInit /\ [][EngineNext]_engineVars

----------------------------------------------------------------------------
(* However many requests arrive before the weights are there, and whichever load fails,  *)
(* the weights are loaded once; nothing is generated without them; and the engines that  *)
(* cannot generate for two callers at once never do, not even while one of them loads.   *)
LoadedOnce ==
    /\ loads <= 1
    /\ \A t \in Threads : at[t] = "generating" => model
    /\ kind \in {"tts", "whisper"} =>
         Cardinality({t \in Threads : at[t] \in {"loading", "naming", "generating"}}) <= 1
=============================================================================
