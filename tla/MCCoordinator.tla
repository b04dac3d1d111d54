--------------------------- MODULE MCCoordinator ---------------------------
(***************************************************************************)
(* Small instances of Coordinator.  One child with a longer log shows walks *)
(* cut off by eviction and by the depth, storms and restarts; two children *)
(* show how one child's poll, save or failure bears on the other's.        *)
(***************************************************************************)
EXTENDS Coordinator, TLC

CONSTANTS button1, button2

One          == {button1}
Two          == {button1, button2}
Symmetry     == Permutations(Two)
JustSteps    == {1}
ZeroOneThree == {0, 1, 3}

\* The liveness run leaves out what only ends the wait (disabling, unloading, a
\* crash) or only varies how a session starts.  It may stop for good: once the
\* credentials are refused nothing polls until the user logs in again.
SessionNext == Hub \/ Poll \/ AddEntities \/ Setup(Children, {})
SessionSpec == Init /\ [][SessionNext]_vars /\ Fairness
=============================================================================
