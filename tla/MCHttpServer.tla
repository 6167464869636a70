---------------------------- MODULE MCHttpServer ----------------------------
(* Instances of HttpServer for TLC. *)
EXTENDS HttpServer, TLC

Symmetry == Permutations(Requests) \cup Permutations(Keys)
============================================================================
