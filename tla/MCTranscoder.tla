---------------------------- MODULE MCTranscoder ----------------------------
(***************************************************************************)
(* Small instances of Transcoder for TLC.                                  *)
(***************************************************************************)
EXTENDS Transcoder, TLC

CONSTANT main

TwoAndFour == main :> 2 @@ Target :> 4
TwoAndThree == main :> 2 @@ Target :> 3
TargetOnly == main :> 0 @@ Target :> 5
=============================================================================
