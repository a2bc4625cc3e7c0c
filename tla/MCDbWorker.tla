---------------------------- MODULE MCDbWorker ----------------------------
(***************************************************************************)
(* Instances of DbWorker for TLC.                                          *)
(***************************************************************************)
EXTENDS DbWorker, TLC

CONSTANTS c1, p1, p2, ext

TwoAndOne == p1 :> 2 @@ p2 :> 1
=============================================================================
