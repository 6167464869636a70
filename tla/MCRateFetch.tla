---------------------------- MODULE MCRateFetch ----------------------------
(* Instances of RateFetch for TLC. *)
EXTENDS RateFetch, TLC
============================================================================
