------------------------------ MODULE XsmpSession -----------------------------
(***************************************************************************)
(* Applications that use the client library, and xfce4-session, at the two *)
(* ends of their connections: every handler of XfsmManager is put behind   *)
(* the message that calls it (sm-layer.c), and what a handler says to the  *)
(* clients is what XsmpClient serves.                                      *)
(*                                                                         *)
(* A connection is a FIFO queue in each direction; when it breaks, what is *)
(* in transit is lost and each end finds out on its own.                   *)
(***************************************************************************)
EXTENDS XsmpClient, FiniteSets

CONSTANTS
  Breaking,   \* clients whose connection may break
  Asking,     \* clients that ask for a logout themselves
  MayQuit,    \* clients that may disconnect of their own accord
  Slow,       \* clients that may let their save timer expire
  Orderly     \* whether requests and registrations wait for one another

ASSUME SessionConstants ==
  /\ Breaking \subseteq Apps /\ Asking \subseteq Apps /\ MayQuit \subseteq Apps
  /\ Slow \subseteq Apps /\ Orderly \in BOOLEAN

VARIABLES
  mstate, running, cstate, conn, timer, saveReq, queried, idle, dialog,
  shutdownType, saveSession, ckptNamed, stored, dieTimer, quit,
  toClient    \* messages on the way to each client

M == INSTANCE XfsmManager WITH
  XsmpClients <- Apps, DbusClients <- {}, Dbus2Clients <- {}, Xterms <- {},
  Interactive <- Apps, Requesters <- Apps, Reusers <- {},
  RequestTypes <- {"LOGOUT"}, FailsafeMode <- FALSE

mgrVars == <<mstate, running, cstate, conn, timer, saveReq, queried, idle, dialog,
             shutdownType, saveSession, ckptNamed, stored, dieTimer, quit>>
vars == <<libVars, mgrVars, toClient>>

Init == LibInit /\ M!Init /\ toClient = [c \in Apps |-> <<>>]

\* No save is under way, about to start or asked for.
AtRest ==
  /\ mstate \in {"STARTUP", "IDLE"} /\ idle = M!NoRequest /\ dialog = M!NoRequest
  /\ \A c \in Apps, i \in 1 .. MaxQueue : i \in DOMAIN toManager[c] => toManager[c][i] # "SaveRequest"

\* No client registers or saves itself locally.
Settled == \A c \in Apps : conn[c] # "new" /\ cstate[c] # "SAVINGLOCAL"

-----------------------------------------------------------------------------
(* What the manager says *)

Nothing == [c \in Apps |-> <<>>]

ToEach(S, m) == [c \in Apps |-> IF c \in S THEN <<m>> ELSE <<>>]

\* The connections the manager closes by this step; when it quits, all.
Shut == {c \in Apps : link[c] # "none" /\ conn[c] # "closed" /\ (conn'[c] = "closed" \/ quit')}

\* The manager appends to each queue what tell says, and closes connections.
Tell(tell) ==
  toClient' = [c \in Apps |->
    toClient[c] \o tell[c] \o (IF c \in Shut THEN <<"IOError">> ELSE <<>>)]

\* Mutant: only those that were saving until now are told.
CompletesLast == {c \in Apps : conn'[c] = "registered" /\ cstate[c] = "SAVING"}

\* Whom SmsSaveComplete () is sent to.
CompletesFor == {c \in Apps : conn'[c] = "registered"}

\* What a step of the manager says follows from what it does: to the next client
\* that may interact, to those released into phase 2, and at the end of a save.
Says ==
  IF mstate \in M!SavePhases /\ mstate' = "SHUTDOWNPHASE2"
  THEN ToEach({c \in Apps : conn'[c] = "registered"}, "Die")
  ELSE IF mstate = "CHECKPOINT" /\ mstate' = "IDLE"
  THEN ToEach(CompletesFor, "SaveComplete")
  ELSE [c \in Apps |->
    IF cstate[c] # "INTERACTING" /\ cstate'[c] = "INTERACTING" THEN <<"Interact">>
    ELSE IF cstate[c] = "WAITFORPHASE2" /\ cstate'[c] = "SAVING" THEN <<"SaveYourselfPhase2">>
    ELSE <<>>]

\* A SaveYourself of a global save, unless the client saves itself locally already:
\* the kind follows from the request.
SaveSays ==
  ToEach({c \in M!Savers : /\ mstate' \in M!SavePhases
                           /\ cstate[c] # "SAVINGLOCAL" /\ conn[c] = "registered"},
         IF mstate' = "CHECKPOINT" THEN "SaveCheckpoint"
         ELSE IF saveSession' THEN "SaveLogout" ELSE "SaveQuit")

-----------------------------------------------------------------------------
(* The manager serves a message *)

\* What c said first is m; it is taken off the queue.
Takes(c, m) ==
  /\ toManager[c] # <<>> /\ Head(toManager[c]) = m
  /\ toManager' = [toManager EXCEPT ![c] = Tail(@)]
  /\ UNCHANGED <<state, connVars, saveVars>>

\* sm_register_client (): libSM registers again without the previous id when the
\* manager does not know it.
ServeRegister(c) ==
  /\ Takes(c, "Register")
  /\ \E resumed \in BOOLEAN :
       /\ resumed => hasId[c]
       /\ M!RegisterXsmp(c, resumed)
       /\ Tell([Nothing EXCEPT ![c] = IF resumed THEN <<"Resumed">>
                                                 ELSE <<"Registered", "SaveLocal">>])

ServeInteractRequest(c) ==
  Takes(c, "InteractRequest") /\ M!InteractRequest(c) /\ Tell(Says)

\* Mutant: the clients that wait to interact are not told.
CancelsSilently == {}

\* Whom SmsShutdownCancelled () is sent to: XSMP clients that wait to interact.
CancelsFor == {c \in M!Running : cstate[c] = "WAITFORINTERACT"}

ServeInteractDone(c, cancel) ==
  /\ Takes(c, IF cancel THEN "InteractCancel" ELSE "InteractDone")
  /\ M!InteractDone(c, cancel)
  /\ Tell(IF mstate = "SHUTDOWN" /\ mstate' = "CHECKPOINT"
          THEN ToEach(CancelsFor, "ShutdownCancelled") ELSE Says)

\* The client itself may be released at once.
ServePhase2Request(c) ==
  /\ Takes(c, "Phase2Request")
  /\ M!Phase2Request(c)
  /\ Tell(ToEach(IF mstate \in M!SavePhases
                 THEN M!Released([cstate EXCEPT ![c] = "WAITFORPHASE2"]) ELSE {c},
                 "SaveYourselfPhase2"))

\* A Done of a client that saved locally is answered at once.
ServeDone(c) ==
  /\ Takes(c, "Done")
  /\ M!XsmpSaveYourselfDone(c)
  /\ Tell(IF cstate[c] = "SAVINGLOCAL" THEN ToEach({c}, "SaveComplete") ELSE Says)

ServeClose(c) ==
  /\ Takes(c, "Close")
  /\ \/ conn[c] \in {"new", "registered"} /\ M!XsmpCloseConnection(c)
     \/ conn[c] = "orphaned" /\ M!IceIOError(c)
  /\ Tell(Says)

ServeSaveRequest(c) ==
  /\ Takes(c, "SaveRequest")
  /\ M!SaveYourselfRequest(c, TRUE, TRUE, FALSE)
  /\ Tell(IF mstate = "IDLE" /\ cstate[c] = "IDLE" THEN SaveSays ELSE Says)

\* The connection of c broke, and the manager notices.
ServeIOError(c) == Takes(c, "IOError") /\ M!IceIOError(c) /\ Tell(Says)

\* What is said to a manager that has closed the connection, or is gone, is lost;
\* what is said on a connection whose client object was freed is not served here.
Unserved(c) ==
  /\ toManager[c] # <<>>
  /\ \/ quit \/ conn[c] = "closed"
     \/ conn[c] = "orphaned" /\ Head(toManager[c]) \notin {"Close", "IOError"}
  /\ toManager' = [toManager EXCEPT ![c] = Tail(@)]
  /\ UNCHANGED <<state, connVars, saveVars, mgrVars, toClient>>

ManagerServes(c) ==
  \/ ServeRegister(c)
  \/ ServeInteractRequest(c)
  \/ \E cancel \in BOOLEAN : ServeInteractDone(c, cancel)
  \/ ServePhase2Request(c)
  \/ ServeDone(c)
  \/ ServeClose(c)
  \/ ServeSaveRequest(c)
  \/ ServeIOError(c)
  \/ Unserved(c)

-----------------------------------------------------------------------------
(* The manager acts *)

StartupDone == M!StartupDone /\ UNCHANGED <<libVars, toClient>>

\* A request is put into the idle source; an orderly one waits for calm.
Ask ==
  /\ Orderly => AtRest /\ Settled
  /\ M!DbusCheckpoint(FALSE) \/ \E allow \in BOOLEAN : M!DbusShutdown("LOGOUT", allow)
  /\ UNCHANGED <<libVars, toClient>>

Start == /\ M!SaveIdle \/ M!DialogAnswered("LOGOUT")
         /\ Tell(SaveSays)
         /\ UNCHANGED libVars

DialogCancelled == M!DialogCancelled /\ UNCHANGED <<libVars, toClient>>

SaveTimeout(c) == c \in Slow /\ M!SaveTimeout(c) /\ Tell(Says) /\ UNCHANGED libVars

DieTimeout == M!DieTimeout /\ Tell(Nothing) /\ UNCHANGED libVars

-----------------------------------------------------------------------------
(* The clients act *)

\* SmcOpenConnection () and sm_new_client (): a refused attempt changes nothing but
\* the time of the next one.  (A client connects again when the manager has noticed
\* the end of its last connection.)
ClientOpens(c) ==
  /\ Orderly => AtRest
  /\ Open(c)
  /\ M!NewClient(c)
  /\ toClient' = [toClient EXCEPT ![c] = <<>>]

\* c serves what the manager said first; what comes for a client that has closed
\* its connection is lost.
ClientServes(c) ==
  /\ toClient[c] # <<>>
  /\ toClient' = [toClient EXCEPT ![c] = Tail(@)]
  /\ UNCHANGED mgrVars
  /\ LET m == Head(toClient[c]) IN
     \/ m \in {"Registered", "Resumed"} /\ Opened(c, m = "Resumed")
     \/ m = "IOError" /\ OpenFailed(c)
     \/ m \in ToldByManager /\ Receive(c, m)
     \/ m \in ToldByManager /\ link[c] = "none" /\ UNCHANGED libVars

ClientReturns(c) == HandlerReturns(c) /\ UNCHANGED <<mgrVars, toClient>>

ClientActs(c) ==
  /\ UNCHANGED <<mgrVars, toClient>>
  /\ \/ TimerExpires(c)
     \/ c \in Asking /\ (Orderly => AtRest /\ Settled /\ mstate = "IDLE") /\ RequestShutdown(c)
     \/ c \in MayQuit /\ Disconnect(c)

\* The connection of c breaks: both ends find out when they next look.
Breaks(c) ==
  /\ c \in Breaking
  /\ link[c] # "none" /\ conn[c] # "closed" /\ toManager[c] # <<"IOError">>
  /\ toManager' = [toManager EXCEPT ![c] = <<"IOError">>]
  /\ toClient' = [toClient EXCEPT ![c] = <<"IOError">>]
  /\ UNCHANGED <<state, connVars, saveVars, mgrVars>>

Next ==
  \/ \E c \in Apps : ManagerServes(c) \/ SaveTimeout(c)
  \/ StartupDone \/ Ask \/ Start \/ DialogCancelled \/ DieTimeout
  \/ \E c \in Apps :
       ClientOpens(c) \/ ClientServes(c) \/ ClientReturns(c) \/ ClientActs(c) \/ Breaks(c)

Spec == Init /\ [][Next]_vars

\* Both ends serve what they are sent, the applications return from their handlers,
\* and the idle source and the die timer fire.  The save timers need not.
Fairness ==
  /\ \A c \in Apps :
       WF_vars(ManagerServes(c)) /\ WF_vars(ClientServes(c)) /\ WF_vars(ClientReturns(c))
  /\ WF_vars(Start) /\ WF_vars(DieTimeout)

FairSpec == Spec /\ Fairness

-----------------------------------------------------------------------------
(* What the two ends achieve together *)

\* Nothing is on its way from or to c.
Quiet(c) == toManager[c] = <<>> /\ toClient[c] = <<>>

\* The turn to interact came to a client that had been told of the end of a logout
\* while it waited, and the answer this made it give arrives.
Misled(c) == /\ mstate = "CHECKPOINT" /\ cstate[c] = "INTERACTING"
             /\ toManager[c] # <<>> /\ Head(toManager[c]) = "Done"

\* A client is never dropped for breaking the protocol: whatever it says, in
\* whatever state it was when the message that made it say so was sent, fits the
\* state the manager is in when it arrives.  But one that the manager misled.
NeverDropped ==
  [][\A c \in Apps : conn[c] # "orphaned" /\ conn'[c] = "orphaned"
                        => SaveTimeout(c) \/ Misled(c)]_vars

\* What each state of the manager's client object means at the other end.  (A client
\* whose turn to interact was cancelled is idle when it answers.)
Means(s) ==
  CASE s = "IDLE"            -> {"IDLE"}
    [] s = "SAVING"          -> {"SAVING_PHASE_1", "SAVING_PHASE_2", "FROZEN"}
    [] s = "SAVEDONE"        -> IF mstate = "CHECKPOINT" THEN {"FROZEN", "IDLE"} ELSE {"FROZEN"}
    [] s = "WAITFORINTERACT" -> {"WAITING_FOR_INTERACT"}
    [] s = "INTERACTING"     -> {"INTERACTING"}
    [] s = "WAITFORPHASE2"   -> {"WAITING_FOR_PHASE_2"}
    [] OTHER                 -> {}

\* When nothing is in transit the two ends agree on where the client is, and the
\* manager waits for it to answer exactly when a handler of the application runs.
EndsAgree ==
  \A c \in Apps :
    link[c] = "open" /\ conn[c] = "registered" /\ Quiet(c) =>
      /\ state[c] \in Means(cstate[c])
      /\ cstate[c] \in {"SAVING", "INTERACTING"} <=> frames[c] # <<>>

\* No application that wants to be asked is told to die unless it was asked in this
\* logout and agreed: an earlier answer, a cancelled logout or a restart of the save
\* does not count.
NoQuitUnasked ==
  [][\A c \in Interested :
       link[c] = "open" /\ toClient[c] # <<>> /\ Head(toClient[c]) = "Die" /\ ClientServes(c)
         => agreed[c]]_vars

\* The hang of a client that waits to interact when the one that did has vanished.
Stuck == /\ mstate = "SHUTDOWN"
         /\ \E c \in M!Running : cstate[c] = "WAITFORINTERACT"
         /\ \A c \in M!Running : cstate[c] # "INTERACTING"

\* A save needs no timer: applications that return from their handlers end it.
SaveEndsUntimed == mstate \in M!SavePhases ~> mstate \notin M!SavePhases \/ Stuck

\* An application that was frozen by a save is released or told to die.
NobodyStaysFrozen ==
  \A c \in Apps : state[c] = "FROZEN" ~> state[c] # "FROZEN" \/ conn[c] = "orphaned" \/ Stuck

=============================================================================
