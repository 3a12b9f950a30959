---------------------------- MODULE MCXfsmManager ----------------------------
(* The instances of XfsmManager that TLC checks. *)
EXTENDS XfsmManager, TLC

CONSTANTS x1, x2, xt, d1, e1, e2
=============================================================================
