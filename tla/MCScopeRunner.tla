--------------------------- MODULE MCScopeRunner ---------------------------
(* The instance of ScopeRunner that TLC checks: the handlers and stoppers  *)
(* are the model values of the cfg.                                        *)
EXTENDS ScopeRunner
=============================================================================
