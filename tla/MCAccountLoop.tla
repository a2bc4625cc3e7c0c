--------------------------- MODULE MCAccountLoop ---------------------------
(* AccountLoop on small instances: see the MCAccountLoop_*.cfg files. *)
EXTENDS AccountLoop, TLC

CONSTANTS p1, p2

MCProcs == {p1, p2}
Symmetry == Permutations(MCProcs)

\* What the user, the scheduler and the connector's arrival do to an account
\* that may be resting, and crashes.
KindsPause == {"tick", "syncNow", "updateConfig", "pause", "resume", "installed",
               "reconnect", "crash"}
\* Transitions through the broker, against restarts, config writes, pauses and
\* a source that comes and goes; all of them must end.
KindsTransition == {"setCadence", "updateConfig", "setOption", "manage", "pause",
                    "respawn"}
\* The account comes and goes; flows overlap, and update-outbound passes them.
KindsChurn == {"syncNow", "connect", "cancel", "remove", "manage", "ensure",
               "outbound", "watchdog"}
=============================================================================
