------------------------ MODULE MCShutdownCoordinator ------------------------
(* Model-checking instances of ShutdownCoordinator.                         *)
EXTENDS ShutdownCoordinator

CONSTANTS d1, d2, d3
=============================================================================
