----------------------------- MODULE MCDbusClient -----------------------------
(* The instance of DbusClient that TLC checks. *)
EXTENDS DbusClient

CONSTANTS x1, x2
=============================================================================
