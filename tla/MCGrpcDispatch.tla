--------------------------- MODULE MCGrpcDispatch ---------------------------
(* Instances of GrpcDispatch for TLC.  Liveness is checked, and updates are  *)
(* ordered: no symmetry.                                                     *)
EXTENDS GrpcDispatch, TLC
============================================================================
