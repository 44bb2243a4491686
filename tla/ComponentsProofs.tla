-------------------------- MODULE ComponentsProofs --------------------------
(***************************************************************************)
(* The components side by side: each of them behaves as it does alone,     *)
(* whichever is in focus, so what is proved of one holds where all are     *)
(* checked together.                                                       *)
(***************************************************************************)
EXTENDS MCComponents, RelayProofs, TranscriptProofs, GpuProofs, IdentityProofs, RingClientProofs

\* The harness takes the steps of one component and no other's.
LEMMA ComponentsApart ==
    Spec => /\ DirectionSpec /\ ChunkerSpec /\ RingClientSpec /\ EvalSpec /\ GpuSpec
            /\ ShadowSpec /\ AcousticSpec /\ AsrSpec /\ RelaySpec /\ LinkSpec
            /\ ReplaySpec /\ LogSpec /\ EngineSpec /\ IdentitySpec /\ VerificationSpec
<1>1. Init => /\ DirectionInit /\ ChunkerInit /\ RingClientInit /\ EvalInit /\ GpuInit
              /\ ShadowInit /\ AcousticInit /\ AsrInit /\ RelayInit /\ LinkInit
              /\ ReplayInit /\ LogInit /\ EngineInit /\ IdentityInit /\ VerificationInit
  BY DEF Init
<1>2. [Next]_vars =>
        /\ [DirectionNext]_directionVars /\ [ChunkerNext]_chunkerVars
        /\ [RingClientNext]_ringVars /\ [EvalNext]_evalVars /\ [GpuNext]_gpuVars
        /\ [ShadowNext]_shadowVars /\ [AcousticNext]_acousticVars /\ [AsrNext]_asrVars
        /\ [RelayNext]_relayVars /\ [LinkNext]_linkVars /\ [ReplayNext]_replayVars
        /\ [LogNext]_logVars /\ [EngineNext]_engineVars /\ [IdentityNext]_identityVars
        /\ [VerificationNext]_verificationVars
  BY DEF Next, vars
<1> QED
  BY <1>1, <1>2, PTL
  DEF Spec, DirectionSpec, ChunkerSpec, RingClientSpec, EvalSpec, GpuSpec, ShadowSpec,
      AcousticSpec, AsrSpec, RelaySpec, LinkSpec, ReplaySpec, LogSpec, EngineSpec,
      IdentitySpec, VerificationSpec

\* Every component keeps its types, in focus or not, for any values of its constants.
THEOREM ComponentsTypes == Spec => []ComponentsTypeOK
<1>1. Init => focus \in Components
  BY DEF Init
<1>2. focus \in Components /\ [Next]_vars => (focus \in Components)'
  BY DEF Next, vars
<1>3. /\ focus \in Components
      /\ DirectionTypeOK /\ ChunkerTypeOK /\ RingClientTypeOK /\ EvalTypeOK /\ GpuTypeOK
      /\ ShadowTypeOK /\ AcousticTypeOK /\ AsrTypeOK /\ RelayTypeOK /\ LinkTypeOK
      /\ EngineTypeOK /\ IdentityTypeOK /\ VerificationTypeOK
      => ComponentsTypeOK
  BY DEF ComponentsTypeOK
<1> QED
  BY <1>1, <1>2, <1>3, ComponentsApart, DirectionTypes, ChunkerTypes, RingTypes, EvalTypes,
     QueueTypes, ShadowTypes, AcousticTypes, AsrTypes, RelayTypes, LinkTypes, EngineTypes,
     StoreTypes, PhoneTypes, PTL
  DEF Spec
=============================================================================
