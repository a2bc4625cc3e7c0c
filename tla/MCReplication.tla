---------------------------- MODULE MCReplication ----------------------------
(* Instances of Replication for TLC. *)
EXTENDS Replication, TLC

CONSTANTS a, b, c, d1, r1
Others == Permutations({b, c})
=============================================================================
