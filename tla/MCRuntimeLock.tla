--------------------------- MODULE MCRuntimeLock ---------------------------
(***************************************************************************)
(* Instances of RuntimeLock for TLC.                                       *)
(***************************************************************************)
EXTENDS RuntimeLock, TLC

CONSTANTS p1, p2, p3
=============================================================================
