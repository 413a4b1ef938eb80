-------------------------- MODULE MCHttpConnection --------------------------
(* Small instances of HttpConnection. *)
EXTENDS HttpConnection, TLC

Symmetry == Permutations(Conns)
=============================================================================
