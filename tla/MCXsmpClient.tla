----------------------------- MODULE MCXsmpClient -----------------------------
(* The instance of XsmpClient, with any session manager, that TLC checks. *)
EXTENDS XsmpClient

CONSTANTS x1
=============================================================================
