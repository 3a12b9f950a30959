----------------------------- MODULE XfsmManager -----------------------------
(***************************************************************************)
(* The session manager of xfce4-session: how XfsmManager registers clients *)
(* and how it drives a checkpoint or a logout through them.                *)
(*                                                                         *)
(* A save is a conversation.  The manager asks every client that can save  *)
(* to save itself and arms one save timer per client; a client may ask to  *)
(* interact with the user (one at a time), may ask to wait for phase 2     *)
(* (until everybody else is done), may answer, may vanish, or may let its  *)
(* timer expire.  When nobody is saving any more the session file is       *)
(* written, and the manager either becomes idle again (checkpoint) or      *)
(* sends every client away and quits (shutdown).                           *)
(*                                                                         *)
(* All of it runs in one GLib main loop: a handler is atomic, and what     *)
(* interleaves are the handlers.  Two of them suspend a request and let    *)
(* others run in between: the idle source of a D-Bus request (idle) and    *)
(* the nested main loop of the logout dialog (dialog).                     *)
(*                                                                         *)
(* How the startup queues restart clients is left to XfsmStartup: here a   *)
(* registration may be that of a restarted client, and may end startup.    *)
(***************************************************************************)
EXTENDS Naturals, Sequences, SequencesExt

CONSTANTS
  XsmpClients,    \* clients connected through libSM (they have an sms_conn)
  DbusClients,    \* clients of RegisterClient: they cannot save state
  Dbus2Clients,   \* clients of RegisterClient2: they have a client2 skeleton
  Xterms,         \* XSMP clients whose Program property is "xterm"
  Interactive,    \* XSMP clients that ask to interact while they save
  Requesters,     \* XSMP clients that ask for a global SaveYourself
  Reusers,        \* D-Bus clients that register an id already running
  RequestTypes,   \* shutdown types asked for over the bus or in the dialog
  FailsafeMode    \* no saved session was loaded

Clients == XsmpClients \cup DbusClients \cup Dbus2Clients

ASSUME ClientKinds ==
  /\ XsmpClients \cap DbusClients = {}
  /\ XsmpClients \cap Dbus2Clients = {}
  /\ DbusClients \cap Dbus2Clients = {}
  /\ Xterms \subseteq XsmpClients
  /\ Interactive \subseteq XsmpClients
  /\ Requesters \subseteq XsmpClients
  /\ Reusers \subseteq Dbus2Clients
  /\ RequestTypes \subseteq {"ASK", "LOGOUT", "SHUTDOWN", "SUSPEND"}
  /\ FailsafeMode \in BOOLEAN

VARIABLES
  mstate,       \* manager->state
  running,      \* manager->running_clients, in registration order
  cstate,       \* client->state of every client object
  conn,         \* the ICE connection of each XSMP client
  timer,        \* clients whose "--save-timeout-id" source is armed
  saveReq,      \* clients with dbus_save_requested set
  queried,      \* clients that owe an answer to a QueryEndSession signal
  idle,         \* the save request behind manager->save_idle_id
  dialog,       \* the save request suspended inside the logout dialog
  shutdownType, \* manager->shutdown_type
  saveSession,  \* manager->save_session
  ckptNamed,    \* manager->checkpoint_session_name is set
  stored,       \* what the current save wrote: "none", "own" or "named" group
  dieTimer,     \* manager->die_timeout_id is armed
  quit          \* "manager-quit" was emitted, and with it the manager freed

clientVars  == <<running, cstate, conn, timer, saveReq, queried>>
requestVars == <<idle, dialog, shutdownType, saveSession>>
saveVars    == <<mstate, ckptNamed, stored, dieTimer, quit>>
vars        == <<clientVars, requestVars, saveVars>>

ManagerStates == {"STARTUP", "IDLE", "CHECKPOINT", "SHUTDOWN", "SHUTDOWNPHASE2"}

ClientStates == {"IDLE", "INTERACTING", "SAVEDONE", "SAVING", "SAVINGLOCAL",
                 "WAITFORINTERACT", "WAITFORPHASE2", "DISCONNECTED"}

\* "new": connected but not registered; "orphaned": still open, but the manager
\* dropped its client object.
ConnStates == {"closed", "new", "registered", "orphaned"}

\* XFSM_SHUTDOWN_RESTART acts like SHUTDOWN here, and HIBERNATE, HYBRID_SLEEP
\* and SWITCH_USER like SUSPEND.
ShutdownTypes == {"ASK", "LOGOUT", "SHUTDOWN", "SUSPEND"}
SleepTypes    == {"SUSPEND"}

NoRequest   == [kind |-> "none"]
Checkpoints == [kind : {"checkpoint"}, named : BOOLEAN]
Shutdowns   == [kind : {"shutdown"}, type : ShutdownTypes, allow : BOOLEAN]
Dialogs     == [kind : {"dialog"}, save : BOOLEAN]

SavePhases == {"CHECKPOINT", "SHUTDOWN"}

\* Mutant: a client that interacts is not waited for.
BusyNotInteracting == {"SAVING", "WAITFORINTERACT"}

\* The states xfsm_manager_check_clients_saving () waits for.
Busy == {"SAVING", "WAITFORINTERACT", "INTERACTING"}

Running == ToSet(running)

InState(run, cs, S) == {c \in ToSet(run) : cs[c] \in S}

\* A registered XSMP client, one that can send requests on its connection.
Speaking(c) == c \in Running /\ conn[c] = "registered"

Init ==
  /\ mstate = "STARTUP"
  /\ running = <<>>
  /\ cstate = [c \in Clients |-> "IDLE"]
  /\ conn = [c \in XsmpClients |-> "closed"]
  /\ timer = {}
  /\ saveReq = {}
  /\ queried = {}
  /\ idle = NoRequest
  /\ dialog = NoRequest
  /\ shutdownType = "LOGOUT"
  /\ saveSession = TRUE
  /\ ckptNamed = FALSE
  /\ stored = "none"
  /\ dieTimer = FALSE
  /\ quit = FALSE

-----------------------------------------------------------------------------
(* Finishing a save *)

\* Mutant: one timer for all, left alone when it is running.
StartOneTimer(tm, S) == IF tm = {} THEN S ELSE tm

\* xfsm_manager_start_client_save_timeout () replaces a timer that is still armed.
StartTimers(tm, S) == tm \cup S

\* Mutant: a logout, too, is stored under the name meant for a checkpoint.
StoredUnderAnyName(ms) == IF ckptNamed THEN "named" ELSE "own"

\* xfsm_manager_store_session (): a checkpoint is written under its own name if
\* it was given one, and consumes the name.
StoredGroup(ms) == IF ms = "CHECKPOINT" /\ ckptNamed THEN "named" ELSE "own"

\* Mutant: the clients that are done are left as they are.
ResetOnlyIdle(run, cs) == cs

\* The loop that resets the clients at the end of a checkpoint; no timer is
\* cancelled.
ResetClients(run, cs) ==
  [c \in Clients |-> IF c \in ToSet(run) THEN "IDLE" ELSE cs[c]]

\* Mutant: the die timer is only armed when several clients are left.
AwaitDeathOfSeveral(run) ==
  /\ dieTimer' = (dieTimer \/ Len(run) > 1)
  /\ quit' = (run = <<>>)

\* Mutant: without clients, nobody ends the session.
AwaitDeathOfNobody(run) == dieTimer' = (dieTimer \/ run # <<>>) /\ UNCHANGED quit

\* The end of xfsm_manager_perform_shutdown (): without clients the session ends
\* at once, else the die timer bounds the wait for them.
AwaitDeath(run) ==
  /\ dieTimer' = (dieTimer \/ run # <<>>)
  /\ quit' = (run = <<>>)

\* xfsm_manager_complete_saveyourself (): called with the client list and the
\* client states the caller has just left behind, in manager state ms.  It does
\* nothing while a client is busy; it releases the clients that wait for phase
\* 2; else it stores the session and ends the checkpoint, or the session.
CompleteSaveYourself(ms, run, cs, tm, save) ==
  LET phase2 == InState(run, cs, {"WAITFORPHASE2"}) IN
  \/ /\ InState(run, cs, Busy) # {}
     /\ mstate' = ms /\ cstate' = cs /\ timer' = tm
     /\ UNCHANGED <<ckptNamed, stored, dieTimer, quit>>
  \/ /\ InState(run, cs, Busy) = {} /\ phase2 # {}
     /\ mstate' = ms
     /\ cstate' = [c \in Clients |-> IF c \in phase2 THEN "SAVING" ELSE cs[c]]
     /\ timer' = StartTimers(tm, phase2)
     /\ UNCHANGED <<ckptNamed, stored, dieTimer, quit>>
  \/ /\ InState(run, cs, Busy \cup {"WAITFORPHASE2"}) = {}
     /\ stored' = IF save THEN StoredGroup(ms) ELSE "none"
     /\ ckptNamed' = (ckptNamed /\ ~save)
     /\ timer' = tm
     /\ \/ /\ ms = "CHECKPOINT"
           /\ mstate' = "IDLE"
           /\ cstate' = ResetClients(run, cs)
           /\ UNCHANGED <<dieTimer, quit>>
        \/ /\ ms = "SHUTDOWN"                    \* xfsm_manager_perform_shutdown
           /\ mstate' = "SHUTDOWNPHASE2"
           /\ cstate' = cs
           /\ AwaitDeath(run)

-----------------------------------------------------------------------------
(* Dropping a client *)

\* The client object leaves the list and is freed; its connection is left in
\* state "after".
Forget(c, after) ==
  /\ running' = RemoveFirst(running, c)
  /\ conn' = IF c \in XsmpClients THEN [conn EXCEPT ![c] = after] ELSE conn
  /\ saveReq' = saveReq \ {c}
  /\ queried' = queried \ {c}

\* xfsm_manager_close_connection ().  While the session dies the client stays in
\* the list, and the last one to go ends the session; during a save it is
\* dropped and the save goes on without it; else it is dropped, and what its
\* restart style hint asks for is the startup module's business.
CloseConnection(c, after) ==
  \/ /\ mstate = "SHUTDOWNPHASE2"
     /\ cstate' = [d \in Clients |-> IF d = c /\ c \in Running THEN "DISCONNECTED"
                                                               ELSE cstate[d]]
     /\ timer' = timer \ {c}
     /\ conn' = IF c \in XsmpClients THEN [conn EXCEPT ![c] = "closed"] ELSE conn
     /\ quit' = (\A d \in Running : cstate'[d] = "DISCONNECTED")
     /\ dieTimer' = (dieTimer /\ ~quit')
     /\ UNCHANGED <<running, saveReq, queried, mstate, ckptNamed, stored>>
  \/ /\ mstate \in SavePhases
     /\ Forget(c, after)
     /\ CompleteSaveYourself(mstate, RemoveFirst(running, c),
          [cstate EXCEPT ![c] = "IDLE"], timer \ {c}, saveSession)
  \/ /\ mstate \in {"STARTUP", "IDLE"}
     /\ Forget(c, after)
     /\ cstate' = [cstate EXCEPT ![c] = "IDLE"]
     /\ timer' = timer \ {c}
     /\ UNCHANGED saveVars

\* The manager drops a client that broke the protocol or let its timer expire.
\* Only while the session dies does the code also close the connection.
Nuke(c) == CloseConnection(c, "orphaned")

-----------------------------------------------------------------------------
(* Starting a save *)

\* The clients xfsm_manager_save_yourself_global () asks to save themselves.
Savers == {c \in Running : c \notin DbusClients /\ c \notin Xterms}

BeginSave(ms, save) ==
  /\ saveSession' = save
  /\ queried' = IF ms = "SHUTDOWN"
                THEN queried \cup {c \in Savers \cap Dbus2Clients : cstate[c] # "SAVING"}
                ELSE queried
  /\ CompleteSaveYourself(ms, running,
       [c \in Clients |-> IF c \in Savers THEN "SAVING" ELSE cstate[c]],
       StartTimers(timer, Savers), save)
  /\ UNCHANGED <<running, conn, saveReq>>

\* The rest of xfsm_manager_save_yourself_global () for a shutdown of a known
\* type: a sleep or a user switch is performed at once and returns.
Proceed(type, save) ==
  /\ shutdownType' = type
  /\ \/ type \in SleepTypes /\ UNCHANGED <<clientVars, saveVars, saveSession>>
     \/ type \notin SleepTypes /\ BeginSave("SHUTDOWN", save)

\* xfsm_manager_save_yourself_global (), less the idle source of its caller.
\* saveOnExit: SaveOnExit is set and the kiosk allows it; prompt: PromptOnLogout.
\* The dialog is shown at most once; a second request returns at once.
SaveYourselfGlobal(shutdown, fast, type, allow) ==
  \E saveOnExit, prompt \in BOOLEAN :
    LET save == allow /\ saveOnExit IN
    \/ /\ ~shutdown
       /\ BeginSave("CHECKPOINT", TRUE)
       /\ UNCHANGED <<dialog, shutdownType>>
    \/ /\ shutdown /\ ~fast /\ type = "ASK" /\ prompt
       /\ dialog' = IF dialog = NoRequest THEN [kind |-> "dialog", save |-> save]
                                          ELSE dialog
       /\ UNCHANGED <<clientVars, saveVars, shutdownType, saveSession>>
    \/ /\ shutdown /\ ~fast /\ type = "ASK" /\ ~prompt
       /\ Proceed("LOGOUT", save)
       /\ UNCHANGED dialog
    \/ /\ shutdown /\ fast /\ type = "ASK"
       /\ Proceed(shutdownType, save)
       /\ UNCHANGED dialog
    \/ /\ shutdown /\ type # "ASK"
       /\ Proceed(type, save)
       /\ UNCHANGED dialog

-----------------------------------------------------------------------------
(* Clients come *)

\* xfsm_manager_signal_startup_done (), reached when the last saved client was
\* started and has failed or timed out.
StartupDone ==
  /\ ~quit /\ mstate = "STARTUP"
  /\ mstate' = "IDLE"
  /\ UNCHANGED <<clientVars, requestVars, ckptNamed, stored, dieTimer, quit>>

\* The tail of xfsm_manager_register_client (): the registration of a restarted
\* client, or any in failsafe mode, may be what startup was waiting for.
ContinueStartup(resumed) ==
  \/ mstate' = mstate
  \/ mstate = "STARTUP" /\ (resumed \/ FailsafeMode) /\ mstate' = "IDLE"

\* sm_new_client (): a client opens a connection.
NewClient(c) ==
  /\ ~quit /\ mstate \in {"STARTUP", "IDLE"}
  /\ conn[c] = "closed" /\ c \notin Running
  /\ conn' = [conn EXCEPT ![c] = "new"]
  /\ UNCHANGED <<running, cstate, timer, saveReq, queried, requestVars, saveVars>>

\* sm_register_client (): the state in which sm_new_client () accepted the client
\* is not checked again.  A client without a previous id saves itself at once.
RegisterXsmp(c, resumed) ==
  /\ ~quit /\ conn[c] = "new"
  /\ conn' = [conn EXCEPT ![c] = "registered"]
  /\ running' = Append(running, c)
  /\ cstate' = IF resumed THEN cstate ELSE [cstate EXCEPT ![c] = "SAVINGLOCAL"]
  /\ timer' = IF resumed THEN timer ELSE StartTimers(timer, {c})
  /\ ContinueStartup(resumed)
  /\ UNCHANGED <<saveReq, queried, requestVars, ckptNamed, stored, dieTimer, quit>>

\* RegisterClient and RegisterClient2 with an id no running client has: the
\* state of the manager does not matter, and the client is not asked to save.
RegisterDbus(c, resumed) ==
  /\ ~quit /\ c \notin Running
  /\ running' = Append(running, c)
  /\ ContinueStartup(resumed)
  /\ UNCHANGED <<cstate, conn, timer, saveReq, queried, requestVars,
                 ckptNamed, stored, dieTimer, quit>>

\* RegisterClient2 with the id of a running client, which is sent Replaced and
\* freed; the newcomer takes its properties over and starts idle.
ReplaceClient(old, c) ==
  /\ ~quit /\ old \in Running /\ c \notin Running \ {old}
  /\ running' = Append(RemoveFirst(running, old), c)
  /\ cstate' = [cstate EXCEPT ![old] = "IDLE"]
  /\ conn' = IF old \in XsmpClients /\ conn[old] = "registered"
             THEN [conn EXCEPT ![old] = "orphaned"] ELSE conn
  /\ timer' = timer \ {old}
  /\ saveReq' = saveReq \ {old}
  /\ queried' = queried \ {old}
  /\ UNCHANGED <<requestVars, saveVars>>

-----------------------------------------------------------------------------
(* Clients ask *)

\* xfsm_manager_save_yourself ()
SaveYourselfRequest(c, global, shutdown, fast) ==
  /\ ~quit /\ Speaking(c)
  /\ UNCHANGED idle
  /\ \/ /\ cstate[c] # "IDLE" \/ mstate # "IDLE"
        /\ Nuke(c)
        /\ UNCHANGED <<dialog, shutdownType, saveSession>>
     \/ /\ cstate[c] = "IDLE" /\ mstate = "IDLE" /\ ~global
        /\ cstate' = [cstate EXCEPT ![c] = "SAVINGLOCAL"]
        /\ timer' = StartTimers(timer, {c})
        /\ UNCHANGED <<running, conn, saveReq, queried, saveVars,
                       dialog, shutdownType, saveSession>>
     \/ /\ cstate[c] = "IDLE" /\ mstate = "IDLE" /\ global
        /\ SaveYourselfGlobal(shutdown, fast, "ASK", TRUE)

\* Mutant: every client that asks interacts at once.
GrantEveryone == "INTERACTING"

\* A client that asks to interact waits while another one does.
InteractGrant ==
  IF InState(running, cstate, {"INTERACTING"}) # {} THEN "WAITFORINTERACT"
                                                    ELSE "INTERACTING"

\* xfsm_manager_interact (): only one client interacts at a time.
InteractRequest(c) ==
  /\ ~quit /\ Speaking(c)
  /\ UNCHANGED requestVars
  /\ \/ /\ cstate[c] # "SAVING" \/ mstate \notin SavePhases
        /\ Nuke(c)
     \/ /\ cstate[c] = "SAVING" /\ mstate \in SavePhases
        /\ cstate' = [cstate EXCEPT ![c] = InteractGrant]
        /\ timer' = timer \ {c}
        /\ UNCHANGED <<running, conn, saveReq, queried, saveVars>>

\* running[i] is the first client in the list that waits to interact.
FirstWaiting(i) ==
  /\ i \in DOMAIN running /\ cstate[running[i]] = "WAITFORINTERACT"
  /\ \A j \in 1 .. i - 1 : cstate[running[j]] # "WAITFORINTERACT"

\* xfsm_manager_interact_done ().  Cancelling turns the shutdown into a
\* checkpoint; the loop meant for the clients that wait to interact, and for the
\* D-Bus clients, writes the state of c and signals c instead.
InteractDone(c, cancel) ==
  /\ ~quit /\ Speaking(c)
  /\ UNCHANGED requestVars
  /\ \/ /\ cstate[c] # "INTERACTING" \/ mstate \notin SavePhases
        /\ Nuke(c)
     \/ /\ cstate[c] = "INTERACTING" /\ mstate = "SHUTDOWN" /\ cancel
        /\ mstate' = "CHECKPOINT"
        /\ cstate' = [cstate EXCEPT ![c] = "SAVING"]
        /\ timer' = StartTimers(timer, {c})
        /\ UNCHANGED <<running, conn, saveReq, queried, ckptNamed, stored, dieTimer, quit>>
     \/ /\ cstate[c] = "INTERACTING" /\ mstate \in SavePhases
        /\ ~(cancel /\ mstate = "SHUTDOWN")
        /\ \/ /\ InState(running, cstate, {"WAITFORINTERACT"}) = {}
              /\ cstate' = [cstate EXCEPT ![c] = "SAVING"]
           \/ \E i \in DOMAIN running :
                /\ FirstWaiting(i)
                /\ cstate' = [cstate EXCEPT ![c] = "SAVING", ![running[i]] = "INTERACTING"]
        /\ timer' = StartTimers(timer, {c})
        /\ UNCHANGED <<running, conn, saveReq, queried, saveVars>>

\* Mutant: nobody is let go on here.
ReleasedNever(cs) == {}

\* The clients xfsm_manager_save_yourself_phase2 () lets go on: all that wait, once
\* nobody is in phase 1 any more.
Released(cs) ==
  IF InState(running, cs, Busy) = {} THEN InState(running, cs, {"WAITFORPHASE2"}) ELSE {}

\* xfsm_manager_save_yourself_phase2 (): the state of the client is not checked.
Phase2Request(c) ==
  /\ ~quit /\ Speaking(c)
  /\ \/ /\ mstate \notin SavePhases
        /\ cstate' = [cstate EXCEPT ![c] = "SAVINGLOCAL"]
        /\ timer' = StartTimers(timer, {c})
     \/ /\ mstate \in SavePhases
        /\ LET cs == [cstate EXCEPT ![c] = "WAITFORPHASE2"] IN
           /\ cstate' = [d \in Clients |-> IF d \in Released(cs) THEN "SAVING" ELSE cs[d]]
           /\ timer' = StartTimers(timer \ {c}, Released(cs))
  /\ UNCHANGED <<running, conn, saveReq, queried, requestVars, saveVars>>

-----------------------------------------------------------------------------
(* Clients answer *)

\* Mutant: the flag is never cleared.
KeepSaveRequest(c) == saveReq

\* xfsm_client_set_dbus_save_requested (client, FALSE), once it saved its state.
ClearSaveRequest(c) == saveReq \ {c}

\* The answer of c is the one to QueryEndSession, and its state is still to come.
SecondRound(c) == mstate = "SHUTDOWN" /\ saveSession /\ c \in Dbus2Clients \ saveReq

\* xfsm_manager_save_yourself_done ().  A RegisterClient2 client answers twice
\* when a shutdown saves the session: first QueryEndSession, then
\* RequestSaveState; saveReq tells the two apart.
SaveYourselfDone(c) ==
  \/ /\ \/ cstate[c] \notin {"SAVING", "SAVINGLOCAL", "WAITFORINTERACT"}
        \/ cstate[c] # "SAVINGLOCAL" /\ mstate \notin SavePhases
     /\ Nuke(c)
  \/ /\ cstate[c] = "SAVINGLOCAL"
     /\ cstate' = [cstate EXCEPT ![c] = "IDLE"]
     /\ timer' = timer \ {c}
     /\ UNCHANGED <<running, conn, saveReq, queried, saveVars>>
  \/ /\ cstate[c] \in {"SAVING", "WAITFORINTERACT"} /\ mstate \in SavePhases
     /\ queried' = queried \ {c}
     /\ IF SecondRound(c)
        THEN /\ saveReq' = saveReq \cup {c}
             /\ UNCHANGED <<running, cstate, conn, timer, saveVars>>
        ELSE /\ saveReq' = ClearSaveRequest(c)
             /\ UNCHANGED <<running, conn>>
             /\ CompleteSaveYourself(mstate, running, [cstate EXCEPT ![c] = "SAVEDONE"],
                                     timer \ {c}, saveSession)

\* sm_save_yourself_done ()
XsmpSaveYourselfDone(c) ==
  /\ ~quit /\ Speaking(c)
  /\ SaveYourselfDone(c)
  /\ UNCHANGED requestVars

\* xfsm_client2_dbus_state_saved ()
StateSaved(c) ==
  /\ ~quit /\ c \in Running
  /\ SaveYourselfDone(c)
  /\ UNCHANGED requestVars

\* xfsm_client_dbus_end_session_response (): the answer to QueryEndSession, and,
\* while the session dies, to EndSession.  At any other time it is an error.
EndSessionResponse(c) ==
  /\ ~quit /\ c \in Running
  /\ UNCHANGED requestVars
  /\ \/ mstate = "SHUTDOWN" /\ SaveYourselfDone(c)
     \/ mstate = "SHUTDOWNPHASE2" /\ CloseConnection(c, "closed")
     \/ /\ mstate \notin {"SHUTDOWN", "SHUTDOWNPHASE2"}
        /\ queried' = queried \ {c}
        /\ UNCHANGED <<running, cstate, conn, timer, saveReq, saveVars>>

-----------------------------------------------------------------------------
(* Clients go *)

\* sm_close_connection ()
XsmpCloseConnection(c) ==
  /\ ~quit /\ conn[c] \in {"new", "registered"}
  /\ CloseConnection(c, "closed")
  /\ UNCHANGED requestVars

\* ice_process_messages () finds the connection broken: only a registered client
\* is looked up and dropped, the transport is closed in any case.
IceIOError(c) ==
  /\ ~quit /\ conn[c] # "closed"
  /\ UNCHANGED requestVars
  /\ \/ Speaking(c) /\ CloseConnection(c, "closed")
     \/ /\ ~Speaking(c)
        /\ conn' = [conn EXCEPT ![c] = "closed"]
        /\ UNCHANGED <<running, cstate, timer, saveReq, queried, saveVars>>

\* UnregisterClient, and the loss of the client's name on the bus.
UnregisterClient(c) ==
  /\ ~quit /\ c \in Running
  /\ CloseConnection(c, "closed")
  /\ UNCHANGED requestVars

\* xfsm_manager_save_timeout ()
SaveTimeout(c) ==
  /\ ~quit /\ c \in timer
  /\ Nuke(c)
  /\ UNCHANGED requestVars

-----------------------------------------------------------------------------
(* Requests on the bus *)

\* xfsm_manager_dbus_checkpoint (): the call returns, the save starts from an
\* idle source.
DbusCheckpoint(named) ==
  /\ ~quit /\ mstate = "IDLE" /\ idle = NoRequest
  /\ idle' = [kind |-> "checkpoint", named |-> named]
  /\ ckptNamed' = named
  /\ UNCHANGED <<clientVars, dialog, shutdownType, saveSession,
                 mstate, stored, dieTimer, quit>>

\* xfsm_manager_save_yourself_dbus (), behind Logout, Shutdown, Restart, Suspend,
\* Hibernate, HybridSleep and SwitchUser.
DbusShutdown(type, allow) ==
  /\ ~quit /\ mstate = "IDLE" /\ idle = NoRequest
  /\ type \in SleepTypes => ~allow
  /\ idle' = [kind |-> "shutdown", type |-> type, allow |-> allow]
  /\ UNCHANGED <<clientVars, dialog, shutdownType, saveSession, saveVars>>

\* xfsm_manager_dbus_checkpoint_idled (), xfsm_manager_dbus_shutdown_idled ():
\* the idle source runs, in whatever state the manager is by then.
SaveIdle ==
  /\ ~quit /\ idle # NoRequest
  /\ idle' = NoRequest
  /\ \/ idle.kind = "checkpoint" /\ SaveYourselfGlobal(FALSE, FALSE, "ASK", TRUE)
     \/ idle.kind = "shutdown" /\ SaveYourselfGlobal(TRUE, FALSE, idle.type, idle.allow)

\* xfsm_logout_dialog () returns: the request goes on where it was suspended.
DialogCancelled ==
  /\ ~quit /\ dialog # NoRequest
  /\ dialog' = NoRequest
  /\ UNCHANGED <<clientVars, saveVars, idle, shutdownType, saveSession>>

DialogAnswered(type) ==
  /\ ~quit /\ dialog # NoRequest
  /\ dialog' = NoRequest
  /\ Proceed(type, dialog.save)
  /\ UNCHANGED idle

\* manager_quit_signal (), when the clients took longer than DIE_TIMEOUT to go.
DieTimeout ==
  /\ ~quit /\ dieTimer
  /\ dieTimer' = FALSE
  /\ quit' = TRUE
  /\ UNCHANGED <<clientVars, requestVars, mstate, ckptNamed, stored>>

-----------------------------------------------------------------------------
XsmpStep(c) ==
  \/ NewClient(c)
  \/ \E resumed \in BOOLEAN : RegisterXsmp(c, resumed)
  \/ SaveYourselfRequest(c, FALSE, FALSE, FALSE)
  \/ c \in Requesters
     /\ \E shutdown, fast \in BOOLEAN : SaveYourselfRequest(c, TRUE, shutdown, fast)
  \/ c \in Interactive /\ InteractRequest(c)
  \/ \E cancel \in BOOLEAN : InteractDone(c, cancel)
  \/ Phase2Request(c)
  \/ XsmpSaveYourselfDone(c)
  \/ XsmpCloseConnection(c)
  \/ IceIOError(c)

DbusStep(c) ==
  \/ \E resumed \in BOOLEAN : RegisterDbus(c, resumed)
  \/ c \in Reusers /\ \E old \in Running : ReplaceClient(old, c)
  \/ EndSessionResponse(c)
  \/ c \in Dbus2Clients /\ StateSaved(c)
  \/ UnregisterClient(c)

RequestStep ==
  \/ \E named \in BOOLEAN : DbusCheckpoint(named)
  \/ \E type \in RequestTypes, allow \in BOOLEAN : DbusShutdown(type, allow)
  \/ SaveIdle
  \/ DialogCancelled
  \/ \E type \in RequestTypes \ {"ASK"} : DialogAnswered(type)

Next ==
  \/ StartupDone
  \/ \E c \in XsmpClients : XsmpStep(c)
  \/ \E c \in DbusClients \cup Dbus2Clients : DbusStep(c)
  \/ \E c \in Clients : SaveTimeout(c)
  \/ RequestStep
  \/ DieTimeout

Spec == Init /\ [][Next]_vars

\* The timers and the idle source fire; the user ends every interaction and
\* answers the dialog.  Strong fairness of a save timer says that a client does
\* not ask for phase 2 or interact over and over: each time stops its timer.
Fairness ==
  /\ \A c \in Clients : SF_vars(SaveTimeout(c))
  /\ \A c \in Interactive :
       WF_vars(cstate[c] = "INTERACTING" /\ \E cancel \in BOOLEAN : InteractDone(c, cancel))
  /\ WF_vars(DieTimeout)
  /\ WF_vars(SaveIdle)

FairSpec == Spec /\ Fairness

-----------------------------------------------------------------------------
(* What the manager promises *)

\* Every variable has its type; the list holds each client once; a client object
\* that is not in the list has left no state behind.
TypeOK ==
  /\ mstate \in ManagerStates
  /\ running \in Seq(Clients)
  /\ cstate \in [Clients -> ClientStates]
  /\ conn \in [XsmpClients -> ConnStates]
  /\ timer \subseteq Clients
  /\ saveReq \subseteq Dbus2Clients
  /\ queried \subseteq Dbus2Clients
  /\ idle \in {NoRequest} \cup Checkpoints \cup Shutdowns
  /\ dialog \in {NoRequest} \cup Dialogs
  /\ shutdownType \in ShutdownTypes \ {"ASK"}
  /\ saveSession \in BOOLEAN
  /\ ckptNamed \in BOOLEAN
  /\ stored \in {"none", "own", "named"}
  /\ dieTimer \in BOOLEAN
  /\ quit \in BOOLEAN

ListConsistent ==
  /\ IsInjective(running)
  /\ \A c \in Clients \ Running :
       cstate[c] = "IDLE" /\ c \notin timer /\ c \notin saveReq /\ c \notin queried
  /\ \A c \in XsmpClients : conn[c] = "registered" => c \in Running

\* A client that owes an answer has a timer: whatever the order of the requests,
\* no save depends on the goodwill of a client that does not interact.
SaveTimerArmed ==
  \A c \in Clients : cstate[c] \in {"SAVING", "SAVINGLOCAL"} => c \in timer

\* Two clients never talk to the user at the same time.
OneInteracting ==
  \A c, d \in Clients : cstate[c] = "INTERACTING" /\ cstate[d] = "INTERACTING" => c = d

\* When no save is under way no client is left half way through one; a client
\* may be saving locally.
NoSaveOutsideSave ==
  mstate \in {"STARTUP", "IDLE"} =>
    \A c \in Clients : cstate[c] \in {"IDLE", "SAVINGLOCAL"}

\* A save that is under way waits for a client: none is left hanging by the way
\* its last busy client went.  A client that only waits for phase 2 does not count.
SaveWaitsForSomeone ==
  mstate \in SavePhases =>
    \E c \in Running : cstate[c] \in {"SAVING", "INTERACTING", "WAITFORINTERACT"}

\* The die timer bounds the wait for the clients to go, however the dying phase
\* was entered.
DiePhaseBounded == mstate = "SHUTDOWNPHASE2" /\ ~quit => dieTimer

\* Once the last client is gone the session ends, without waiting for the timer.
LastClientEndsSession ==
  mstate = "SHUTDOWNPHASE2" /\ (\A c \in Running : cstate[c] = "DISCONNECTED") => quit

\* The mark of the second round of a RegisterClient2 client does not outlive the
\* round, so that the next logout asks for both answers again.
SaveRequestedOnlySaving ==
  \A c \in saveReq : cstate[c] = "SAVING"

\* The session dies with its own group written if the logout was to save it,
\* and with nothing written if it was not.
StoredAsAllowed ==
  mstate = "SHUTDOWNPHASE2" => stored = IF saveSession THEN "own" ELSE "none"

\* A client is released into phase 2 only by a step of the last client that was
\* still in phase 1: nobody else saves, interacts or waits to.  (A request that
\* comes out of the idle source or the dialog starts the save over.)
PhaseTwoBarrier ==
  [][/\ UNCHANGED <<idle, dialog>>
     /\ \E c \in Running : cstate[c] = "WAITFORPHASE2" /\ cstate'[c] = "SAVING"
     => \A d, e \in Running :
          /\ cstate[d] \in {"SAVING", "INTERACTING", "WAITFORINTERACT"}
          /\ cstate[e] \in {"SAVING", "INTERACTING", "WAITFORINTERACT"}
          => d = e]_vars

\* The manager as SessionEnd sees it.
Phase ==
  CASE quit -> "over"
    [] ~quit /\ mstate \in {"STARTUP", "IDLE"} -> "rest"
    [] ~quit /\ mstate = "CHECKPOINT" -> "checkpoint"
    [] ~quit /\ mstate = "SHUTDOWN" -> "logout"
    [] ~quit /\ mstate = "SHUTDOWNPHASE2" -> "dying"

WhileSaving(S) ==
  IF ~quit /\ mstate \in SavePhases THEN InState(running, cstate, S) ELSE {}

Promise == INSTANCE SessionEnd WITH
  phase <- Phase,
  owing <- WhileSaving(Busy),
  later <- WhileSaving({"WAITFORPHASE2"}),
  here <- Running,
  gone <- InState(running, cstate, {"DISCONNECTED"}),
  doomed <- dieTimer

\* If no client registers the id of another, the manager is a session manager as
\* SessionEnd describes it: on whatever path the clients answer, interact, put off
\* phase 2, vanish and time out, a save ends with the last answer, no sooner and no
\* later, and the session with its last client or with the timer.
Implements == Promise!Spec

\* Every checkpoint and every logout comes to an end, and so does every session that
\* began to die: the manager is idle again, or it quits.  When no two clients interact
\* and none is replaced, timers and the user see to it.
SaveEnds ==
  mstate \in SavePhases \cup {"SHUTDOWNPHASE2"} ~> mstate \in {"STARTUP", "IDLE"} \/ quit

-----------------------------------------------------------------------------
(* What comments and the D-Bus documentation say of the program, and the code does *)
(* not do *)

\* A client that cancels the logout puts the clients that wait to interact back to
\* saving, and tells the D-Bus clients that were asked whether the session may end.
CancelReachesEveryone ==
  [][mstate = "SHUTDOWN" /\ mstate' = "CHECKPOINT" /\ UNCHANGED <<idle, dialog>> =>
       queried' = {} /\ \A c \in Clients : cstate'[c] # "WAITFORINTERACT"]_vars
=============================================================================
