------------------------------ MODULE Shadows ------------------------------
(***************************************************************************)
(* The two collectors of predictions that follow a call, of words          *)
(* (speculation.py) and of their sound (acoustic_shadow.py), and what the  *)
(* rows they leave in the evaluation log have in common.                   *)
(***************************************************************************)
EXTENDS PredictionShadow, AcousticShadow

\* The statistics of both predictors count rows: every attempt and every arm has the one
\* it should have, however its session ended.
ShadowRowsAddUp == OneRowPerAttempt /\ RowsAreWhole
=============================================================================
