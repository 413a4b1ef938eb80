---------------------------- MODULE MCServerLife ----------------------------
(* Small instances of ServerLife. *)
EXTENDS ServerLife, TLC

=============================================================================
