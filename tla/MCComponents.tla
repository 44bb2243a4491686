---------------------------- MODULE MCComponents ----------------------------
(***************************************************************************)
(* The components that are specified each on its own (the agent's, the GPU *)
(* services, the browser, the evaluation, identities and their phones),    *)
(* checked side by side: a behaviour is one of the component in focus, the *)
(* others stay as they began.  A temporal property names the fairness of   *)
(* its component as its premise; none of these fair actions is enabled in  *)
(* an initial state, so a component out of focus makes no premise false.   *)
(***************************************************************************)
EXTENDS Direction, Chunker, RingClient, EvalLog, GpuQueue, Shadows,
        AsrService, RelayRoom, SttLink, Evaluation, LazyEngine,
        IdentityStore, PhoneVerification

VARIABLE focus

Components == {"direction", "chunker", "ring", "evallog", "gpu", "shadow", "acoustic", "asr",
               "relay", "stt", "replay", "review", "engine", "identity", "phone"}

Init ==
    /\ focus \in Components
    /\ DirectionInit /\ ChunkerInit /\ RingClientInit /\ EvalInit /\ GpuInit /\ ShadowInit
    /\ AcousticInit /\ AsrInit /\ RelayInit /\ LinkInit /\ ReplayInit /\ LogInit /\ EngineInit
    /\ IdentityInit /\ VerificationInit
    /\ focus # "ring" => backend.out = 0       \* one state is enough out of focus
    /\ focus # "engine" => kind = "mt"
    /\ focus # "identity" => disk.stamp = 0

Next ==
    /\ UNCHANGED focus
    /\ IF focus = "direction" THEN DirectionNext ELSE UNCHANGED directionVars
    /\ IF focus = "chunker" THEN ChunkerNext ELSE UNCHANGED chunkerVars
    /\ IF focus = "ring" THEN RingClientNext ELSE UNCHANGED ringVars
    /\ IF focus = "evallog" THEN EvalNext ELSE UNCHANGED evalVars
    /\ IF focus = "gpu" THEN GpuNext ELSE UNCHANGED gpuVars
    /\ IF focus = "shadow" THEN ShadowNext ELSE UNCHANGED shadowVars
    /\ IF focus = "acoustic" THEN AcousticNext ELSE UNCHANGED acousticVars
    /\ IF focus = "asr" THEN AsrNext ELSE UNCHANGED asrVars
    /\ IF focus = "relay" THEN RelayNext ELSE UNCHANGED relayVars
    /\ IF focus = "stt" THEN LinkNext ELSE UNCHANGED linkVars
    /\ IF focus = "replay" THEN ReplayNext ELSE UNCHANGED replayVars
    /\ IF focus = "review" THEN LogNext ELSE UNCHANGED logVars
    /\ IF focus = "engine" THEN EngineNext ELSE UNCHANGED engineVars
    /\ IF focus = "identity" THEN IdentityNext ELSE UNCHANGED identityVars
    /\ IF focus = "phone" THEN VerificationNext ELSE UNCHANGED verificationVars

vars == <<focus, directionVars, chunkerVars, ringVars, evalVars, gpuVars, shadowVars,
          acousticVars, asrVars, relayVars, linkVars, replayVars, logVars, engineVars,
          identityVars, verificationVars>>

Spec == Init /\ [][Next]_vars

\* Every variable of the component in focus has its type; those of the others are as in the
\* initial states, where each is in focus once.
ComponentsTypeOK ==
    /\ focus \in Components
    /\ focus = "direction" => DirectionTypeOK
    /\ focus = "chunker" => ChunkerTypeOK
    /\ focus = "ring" => RingClientTypeOK
    /\ focus = "evallog" => EvalTypeOK
    /\ focus = "gpu" => GpuTypeOK
    /\ focus = "shadow" => ShadowTypeOK
    /\ focus = "acoustic" => AcousticTypeOK
    /\ focus = "asr" => AsrTypeOK
    /\ focus = "relay" => RelayTypeOK
    /\ focus = "stt" => LinkTypeOK
    /\ focus = "engine" => EngineTypeOK
    /\ focus = "identity" => IdentityTypeOK
    /\ focus = "phone" => VerificationTypeOK
=============================================================================
