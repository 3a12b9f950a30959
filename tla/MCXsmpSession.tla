---------------------------- MODULE MCXsmpSession ----------------------------
(* The instances of XsmpSession that TLC checks. *)
EXTENDS XsmpSession

CONSTANTS x1, x2
=============================================================================
