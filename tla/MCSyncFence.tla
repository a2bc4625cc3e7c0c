----------------------------- MODULE MCSyncFence -----------------------------
(***************************************************************************)
(* Instances of SyncFence for TLC.                                         *)
(***************************************************************************)
EXTENDS SyncFence

CONSTANTS l1, l2
=============================================================================
