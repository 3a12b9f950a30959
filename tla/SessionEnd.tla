------------------------------ MODULE SessionEnd ------------------------------
(***************************************************************************)
(* What a session manager promises of checkpoints and logouts, without     *)
(* saying how: whom a save waits for, when it goes on and when it is over, *)
(* and when the session is.  XfsmManager implements it (Implements).       *)
(*                                                                         *)
(* A save is over with the last answer, no sooner and no later.  Clients   *)
(* that put off a part of their answer until the others are done are asked *)
(* again together, once nobody owes the first part.  A logout that is over *)
(* dooms the session: it ends when the last client has gone, or when the   *)
(* time for that is up.                                                    *)
(***************************************************************************)
CONSTANT Clients

VARIABLES
  phase,   \* "rest", "checkpoint", "logout", "dying" or "over"
  owing,   \* the clients that the save waits for
  later,   \* those that wait for the others, and are then asked again
  here,    \* the clients of the session
  gone,    \* those of them that have gone since the session began to die
  doomed   \* the time that the clients have to go is running

vars == <<phase, owing, later, here, gone, doomed>>

Saves == {"checkpoint", "logout"}

Init ==
  /\ phase = "rest"
  /\ owing = {} /\ later = {} /\ here = {} /\ gone = {}
  /\ doomed = FALSE

\* A save of the kind p in which o owe an answer and l wait for them, in a session
\* of the clients h of which g have gone.
Settle(p, o, l, h, g) ==
  /\ here' = h
  /\ \/ /\ o # {}
        /\ phase' = p /\ owing' = o /\ later' = l
        /\ gone' = g /\ UNCHANGED doomed
     \/ /\ o = {} /\ l # {}
        /\ phase' = p /\ owing' = l /\ later' = {}
        /\ gone' = g /\ UNCHANGED doomed
     \/ /\ o = {} /\ l = {} /\ p = "checkpoint"
        /\ phase' = "rest" /\ owing' = {} /\ later' = {}
        /\ gone' = {} /\ UNCHANGED doomed
     \/ /\ o = {} /\ l = {} /\ p = "logout"
        /\ phase' = (IF h = {} THEN "over" ELSE "dying") /\ owing' = {} /\ later' = {}
        /\ gone' = g /\ doomed' = (doomed \/ h # {})

\* A save of the clients S begins, or starts over.
Begin(p, S) ==
  /\ phase # "over" /\ S \subseteq here
  /\ Settle(p, owing \cup S, later \ S, here, gone \ S)

Answer(c) ==
  /\ phase \in Saves /\ c \in owing
  /\ Settle(phase, owing \ {c}, later, here, gone)

PutOff(c) ==
  /\ phase \in Saves /\ c \in here
  /\ Settle(phase, owing \ {c}, later \cup {c}, here, gone \ {c})

\* A logout is called off: what was asked for is answered all the same.
CallOff ==
  /\ phase = "logout" /\ owing # {}
  /\ phase' = "checkpoint"
  /\ UNCHANGED <<owing, later, here, gone, doomed>>

Come(c) ==
  /\ phase # "over" /\ c \notin here
  /\ here' = here \cup {c}
  /\ UNCHANGED <<phase, owing, later, gone, doomed>>

Leave(c) ==
  \/ /\ phase = "rest"
     /\ here' = here \ {c}
     /\ UNCHANGED <<phase, owing, later, gone, doomed>>
  \/ /\ phase \in Saves
     /\ Settle(phase, owing \ {c}, later \ {c}, here \ {c}, gone \ {c})
  \/ /\ phase = "dying"
     /\ gone' = gone \cup ({c} \cap here)
     /\ phase' = (IF here \subseteq gone' THEN "over" ELSE "dying")
     /\ doomed' = (doomed /\ phase' # "over")
     /\ UNCHANGED <<owing, later, here>>

TimeIsUp ==
  /\ phase # "over" /\ doomed
  /\ phase' = "over" /\ owing' = {} /\ later' = {}
  /\ doomed' = FALSE
  /\ UNCHANGED <<here, gone>>

Next ==
  \/ \E p \in Saves, S \in SUBSET Clients : Begin(p, S)
  \/ \E c \in Clients : Answer(c) \/ PutOff(c) \/ Come(c) \/ Leave(c)
  \/ CallOff \/ TimeIsUp

Spec == Init /\ [][Next]_vars

\* A save always waits for somebody, and nobody is waited for without one.
SomeoneOwes == phase \in Saves <=> owing # {}
=============================================================================
