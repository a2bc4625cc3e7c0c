--------------------------- MODULE MCFeedConsumer ---------------------------
(***************************************************************************)
(* Instances of FeedConsumer for TLC.                                      *)
(***************************************************************************)
EXTENDS FeedConsumer, TLC

CONSTANTS d1, d2

Symmetry == Permutations(Docs)

\* A consumer that starts, stops and crashes while sources write, and the
\* re-drive beside its tail.
WorkKinds == {"update", "archive", "stop", "crash", "dbcrash", "dbdead", "readonly",
              "redrive"}

\* Commits race the feed's read, and the log is pruned while the consumer is
\* away, seeding or behind.
PruneKinds == {"update", "noise", "crash", "dbcrash", "prune", "retire"}
=============================================================================
