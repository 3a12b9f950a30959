------------------------------ MODULE DbusClient ------------------------------
(***************************************************************************)
(* Applications on the D-Bus side of the client library                    *)
(* (xfce-session-client-dbus.c, xfce-session-client.c) and what the        *)
(* session manager keeps of them (RegisterClient2 () and its relatives in  *)
(* xfsm-manager.c, the client objects of xfsm-client.c).                   *)
(*                                                                         *)
(* A method call blocks the application until the reply is there, so a     *)
(* call and its execution are one step.  Signals of the session manager    *)
(* wait in mail[a] until the application runs its main loop, which it also *)
(* does inside a handler of save-state or quit-requested (frames[a]).  A   *)
(* signal reaches only the proxy that was subscribed to its object when it *)
(* was sent.  The session manager may go away and come back, applications  *)
(* may crash, and two of them may be started with the same client id.      *)
(*                                                                         *)
(* The session manager asks what XfsmManager asks of a D-Bus client, but   *)
(* in any order and at any time.                                           *)
(***************************************************************************)
EXTENDS Naturals, Sequences

CONSTANTS
  Apps,         \* applications that use the library
  Given,        \* client ids that applications are started with
  Fresh,        \* ids that the session manager generates
  Paths,        \* object paths; one that nobody remembers may be used again
  Styles,       \* restart styles, "normal" among them
  Questions,    \* what the session manager asks
  Asked,        \* applications that the session manager asks to save or quit
  Setting,      \* applications that have a state file and change their restart style
  Reconnecting, \* applications whose auto-reconnect interval is not disabled
  MaxMail,      \* bound: questions on their way to an application
  MaxFrames     \* bound: suspended handlers of an application

None == 0

ASSUME DbusConstants ==
  /\ Reconnecting \subseteq Apps /\ Asked \subseteq Apps /\ Setting \subseteq Apps
  /\ Questions \subseteq {"RequestSaveState", "QueryEndSession", "EndSession"}
  /\ "normal" \in Styles
  /\ None \notin Given \cup Fresh \cup Paths
  /\ MaxMail \in Nat \ {0} /\ MaxFrames \in Nat \ {0}

VARIABLES
  up,         \* the session manager owns its bus name
  objs,       \* the client objects it exports, by path
  alive,      \* the process runs
  state,      \* priv->state
  path,       \* client_object_path, None when the proxies are torn down
  id,         \* client_id
  style,      \* restart_style
  stateFile,  \* the id in the name of state_file
  wanted,     \* not disconnect_requested
  timer,      \* auto_reconnect_id is armed
  frames,     \* suspended signal handlers, innermost first, with the object they answer
  cancelled,  \* shutdown_cancelled
  mail        \* signals on their way

ownVars == <<style, stateFile>>
saveVars == <<frames, cancelled>>
dbusVars == <<up, objs, alive, state, path, id, ownVars, wanted, timer, saveVars, mail>>

Ids == Given \cup Fresh
Exported == DOMAIN objs
Subscribed(a) == path[a] # None /\ state[a] # "REGISTERING"

\* The main loop of a runs: it does not wait for a reply while it connects.
Running(a) == alive[a] /\ state[a] # "REGISTERING"

\* What somebody still refers to.
PathsInUse == Exported \cup {path[a] : a \in Apps}
IdsInUse == UNION {{objs[p].id, objs[p].restart, objs[p].discard} : p \in Exported}
            \cup UNION {{id[a], stateFile[a]} : a \in Apps}

\* box with a signal of object p, for whoever is subscribed to it.
Told(box, p, what) ==
  [a \in Apps |-> IF Subscribed(a) /\ path[a] = p
                  THEN Append(box[a], what) ELSE box[a]]

Coming(a, what) == \E i \in 1..Len(mail[a]) : mail[a][i] = what

RoomFor(p) == \A a \in Apps : path[a] = p => Len(mail[a]) < MaxMail

Without(ps) == [p \in Exported \ ps |-> objs[p]]

DbusInit ==
  /\ up \in BOOLEAN
  /\ objs = <<>>
  /\ alive = [a \in Apps |-> FALSE]
  /\ state = [a \in Apps |-> "DISCONNECTED"]
  /\ path = [a \in Apps |-> None]
  /\ id = [a \in Apps |-> None]
  /\ style = [a \in Apps |-> "normal"]
  /\ stateFile = [a \in Apps |-> None]
  /\ wanted = [a \in Apps |-> FALSE]
  /\ timer = [a \in Apps |-> FALSE]
  /\ frames = [a \in Apps |-> <<>>]
  /\ cancelled = [a \in Apps |-> FALSE]
  /\ mail = [a \in Apps |-> <<>>]

-----------------------------------------------------------------------------
(* The session manager's registry *)

\* xfsm_manager_dbus_register_client2 (): a running client of that id is told that
\* it is replaced, and leaves its properties to the new one.  The application has
\* the reply before it has proxies.
RegisterClient2(a, previous, box) ==
  LET new == IF previous = None THEN CHOOSE i \in Fresh : i \notin IdsInUse ELSE previous
      old == {p \in Exported : objs[p].id = new}
      at  == CHOOSE p \in Paths : p \notin PathsInUse
      props == IF old = {} THEN [style |-> "normal", restart |-> None, discard |-> None]
               ELSE [f \in {"style", "restart", "discard"} |-> objs[CHOOSE p \in old : TRUE][f]]
  IN /\ Paths \ PathsInUse # {} /\ (previous = None => Fresh \ IdsInUse # {})
     /\ objs' = [p \in (Exported \ old) \cup {at} |->
                   IF p = at THEN [app |-> a, id |-> new, asks |-> "nothing",
                                   style |-> props.style, restart |-> props.restart,
                                   discard |-> props.discard]
                   ELSE objs[p]]
     /\ mail' = IF old = {} THEN box ELSE Told(box, CHOOSE p \in old : TRUE, "Replaced")
     /\ path' = [path EXCEPT ![a] = at]
     /\ id' = [id EXCEPT ![a] = new]

\* remove_clients_for_connection (): the bus tells the session manager that a
\* process is gone.
RemoveClientsForConnection(a) ==
  /\ up /\ ~alive[a] /\ \E p \in Exported : objs[p].app = a
  /\ objs' = Without({p \in Exported : objs[p].app = a})
  /\ UNCHANGED <<up, alive, state, path, id, ownVars, wanted, timer, saveVars, mail>>

\* The session manager asks a client something, or ends what it asked for.
Ask(p, what) ==
  /\ up /\ p \in Exported /\ objs[p].app \in Asked /\ objs[p].asks = "nothing" /\ RoomFor(p)
  /\ objs' = [objs EXCEPT ![p].asks = what]
  /\ mail' = Told(mail, p, what)
  /\ UNCHANGED <<up, alive, state, path, id, ownVars, wanted, timer, saveVars>>

CancelEndSession(p) ==
  /\ up /\ p \in Exported /\ objs[p].app \in Asked /\ objs[p].asks \in {"nothing", "QueryEndSession"} /\ RoomFor(p)
  /\ objs' = [objs EXCEPT ![p].asks = "nothing"]
  /\ mail' = Told(mail, p, "CancelEndSession")
  /\ UNCHANGED <<up, alive, state, path, id, ownVars, wanted, timer, saveVars>>

\* A client that is too late is dropped, and hears nothing of it.
SaveTimeout(p) ==
  /\ up /\ p \in Exported /\ objs[p].asks # "nothing"
  /\ objs' = Without({p})
  /\ UNCHANGED <<up, alive, state, path, id, ownVars, wanted, timer, saveVars, mail>>

\* The bus name is lost (what comes first tears the proxies down), and owned again by a session manager that knows nobody.
ManagerVanishes ==
  /\ up /\ up' = FALSE
  /\ objs' = <<>>
  /\ mail' = [a \in Apps |-> IF path[a] # None /\ ~Coming(a, "NameLost")
                             THEN Append(mail[a], "NameLost") ELSE mail[a]]
  /\ UNCHANGED <<alive, state, path, id, ownVars, wanted, timer, saveVars>>

ManagerAppears ==
  /\ ~up /\ up' = TRUE
  /\ UNCHANGED <<objs, alive, state, path, id, ownVars, wanted, timer, saveVars, mail>>

-----------------------------------------------------------------------------
(* Connecting and disconnecting *)

Become(a, s) == state' = [state EXCEPT ![a] = s]

\* Mutant: the restart style is only sent when it is set.
PropertiesWithoutStyle(a, p) ==
  [objs[p] EXCEPT !.restart = id[a],
                  !.discard = IF stateFile[a] = None THEN @ ELSE stateFile[a]]

\* What set_initial_properties () sends: nothing is deleted, so that without a state
\* file the discard command of the id stays.
Properties(a, p) ==
  [objs[p] EXCEPT !.style = style[a], !.restart = id[a],
                  !.discard = IF stateFile[a] = None THEN @ ELSE stateFile[a]]

SetInitialProperties(a) ==
  objs' = IF path[a] \in Exported
          THEN [objs EXCEPT ![path[a]] = Properties(a, path[a])] ELSE objs

\* xfce_session_client_dbus_connect () up to the proxies: the id is the one of the
\* reply.  Without a session manager the call fails.
StartsToConnect(a, previous, box) ==
  /\ up
  /\ RegisterClient2(a, previous, box)
  /\ Become(a, "REGISTERING")

\* The application connects.  With proxies at hand there is nothing to register:
\* the properties are sent again.
Connect(a) ==
  /\ Running(a)
  /\ wanted' = [wanted EXCEPT ![a] = TRUE]
  /\ \/ /\ path[a] = None /\ StartsToConnect(a, id[a], mail)
     \/ /\ path[a] = None /\ ~up
        /\ Become(a, "DISCONNECTED")
        /\ UNCHANGED <<objs, mail, path, id>>
     \/ /\ path[a] # None
        /\ SetInitialProperties(a)
        /\ Become(a, "IDLE")
        /\ UNCHANGED <<mail, path, id>>
  /\ UNCHANGED <<up, alive, ownVars, timer, saveVars>>

\* xfce_session_client_try_reconnect ().
TryReconnect(a) ==
  /\ Running(a) /\ timer[a]
  /\ \/ /\ state[a] = "DISCONNECTED"
        /\ wanted' = [wanted EXCEPT ![a] = TRUE]
        /\ \/ /\ StartsToConnect(a, id[a], mail)
              /\ timer' = [timer EXCEPT ![a] = FALSE]
           \/ /\ ~up
              /\ UNCHANGED <<objs, mail, path, id, state, timer>>
     \/ /\ state[a] # "DISCONNECTED"
        /\ timer' = [timer EXCEPT ![a] = FALSE]
        /\ UNCHANGED <<objs, mail, path, id, state, wanted>>
  /\ UNCHANGED <<up, alive, ownVars, saveVars>>

\* The proxies are there.
Subscribe(a) ==
  /\ alive[a] /\ state[a] = "REGISTERING"
  /\ SetInitialProperties(a)
  /\ Become(a, "IDLE")
  /\ UNCHANGED <<up, alive, path, id, ownVars, wanted, timer, saveVars, mail>>

\* xfce_session_client_dbus_do_teardown (): signals that wait for the proxies are
\* dropped, and what suspended handlers answer finds no object.
TearDown(a) ==
  frames' = [frames EXCEPT ![a] = [i \in DOMAIN @ |-> [@[i] EXCEPT !.on = None]]]

\* xfce_session_client_dbus_disconnect (): the client is unregistered before its
\* proxies are torn down.  (Mutant: after, when its path is forgotten.)
UnregisterTornDown(a) == UNCHANGED objs

Unregister(a) == objs' = Without({path[a]})

Leaves(a) ==
  /\ Running(a)
  /\ Unregister(a) /\ TearDown(a)
  /\ path' = [path EXCEPT ![a] = None]
  /\ mail' = [mail EXCEPT ![a] = <<>>]
  /\ timer' = [timer EXCEPT ![a] = FALSE]
  /\ wanted' = [wanted EXCEPT ![a] = FALSE]
  /\ Become(a, "DISCONNECTED")

Disconnect(a) ==
  /\ Leaves(a)
  /\ UNCHANGED <<up, alive, id, ownVars, cancelled>>

\* xfce_session_client_discard ().
Discard(a) ==
  /\ Leaves(a)
  /\ style' = [style EXCEPT ![a] = "normal"]
  /\ UNCHANGED <<up, alive, id, stateFile, cancelled>>

\* Mutant: the timer is for clients that are disconnected already.
StartWhenDisconnected(a) ==
  timer' = [timer EXCEPT ![a] = @ \/ (wanted[a] /\ a \in Reconnecting
                                        /\ state[a] = "DISCONNECTED")]

\* _xfce_session_client_start_auto_reconnect ().
StartAutoReconnect(a) ==
  timer' = [timer EXCEPT ![a] = @ \/ (wanted[a] /\ a \in Reconnecting)]

-----------------------------------------------------------------------------
(* The signals of the session manager *)

Receives(a, what) == Running(a) /\ mail[a] # <<>> /\ Head(mail[a]) = what

Read(a) == mail' = [mail EXCEPT ![a] = Tail(@)]

Suspend(a, handler) ==
  /\ Len(frames[a]) < MaxFrames
  /\ frames' = [frames EXCEPT ![a] = <<[in |-> handler, on |-> path[a]]>> \o @]

\* dbussm_request_save_state (), dbussm_end_session (): up to the handler.
SaveState(a, what) ==
  /\ what \in {"RequestSaveState", "EndSession"}
  /\ Receives(a, what) /\ Read(a)
  /\ Become(a, "SAVING_PHASE_1")
  /\ Suspend(a, what)
  /\ UNCHANGED <<up, objs, alive, path, id, ownVars, wanted, timer, cancelled>>

\* dbussm_query_end_session (): up to the handler.  (Mutant: shutdown_cancelled is not
\* reset.)
LeavesFlag(a) == UNCHANGED cancelled

LowersFlag(a) == cancelled' = [cancelled EXCEPT ![a] = FALSE]

QueryEndSession(a) ==
  /\ Receives(a, "QueryEndSession") /\ Read(a)
  /\ LowersFlag(a)
  /\ Suspend(a, "QueryEndSession")
  /\ UNCHANGED <<up, objs, alive, state, path, id, ownVars, wanted, timer>>

Answer(p, what) ==
  objs' = IF p \in Exported /\ objs[p].asks = what
          THEN [objs EXCEPT ![p].asks = "nothing"] ELSE objs

\* The handler returns: the session manager is answered, on the proxy that asked.
HandlerReturns(a) ==
  /\ Running(a) /\ frames[a] # <<>>
  /\ LET f == Head(frames[a])
     IN /\ frames' = [frames EXCEPT ![a] = Tail(@)]
        /\ \/ /\ f.in # "QueryEndSession"
              /\ Answer(f.on, f.in)
              /\ Become(a, IF f.in = "EndSession" THEN "FROZEN" ELSE "IDLE")
              /\ UNCHANGED cancelled
           \/ /\ f.in = "QueryEndSession"
              /\ IF cancelled[a] THEN UNCHANGED objs ELSE Answer(f.on, f.in)
              /\ LowersFlag(a)
              /\ UNCHANGED state
  /\ UNCHANGED <<up, alive, path, id, ownVars, wanted, timer, mail>>

\* dbussm_cancel_end_session ().
Cancelled(a) ==
  /\ Receives(a, "CancelEndSession") /\ Read(a)
  /\ cancelled' = [cancelled EXCEPT ![a] = TRUE]
  /\ Become(a, "IDLE")
  /\ UNCHANGED <<up, objs, alive, path, id, ownVars, wanted, timer, frames>>

\* dbussm_replaced (): another application has the id now, and the object of this
\* one is gone.  A handler, or else the interval, says whether it stays in the
\* session, under a new id.
Replaced(a, stays) ==
  /\ Receives(a, "Replaced") /\ TearDown(a)
  /\ wanted' = [wanted EXCEPT ![a] = stays]
  /\ \/ /\ stays /\ StartsToConnect(a, None, [mail EXCEPT ![a] = <<>>])
        /\ timer' = [timer EXCEPT ![a] = FALSE]
     \/ /\ stays => ~up
        /\ timer' = [timer EXCEPT ![a] = stays /\ a \in Reconnecting]
        /\ path' = [path EXCEPT ![a] = None]
        /\ id' = [id EXCEPT ![a] = IF stays THEN None ELSE @]
        /\ mail' = [mail EXCEPT ![a] = <<>>]
        /\ Become(a, "DISCONNECTED") /\ Unregister(a)
  /\ UNCHANGED <<up, alive, ownVars, cancelled>>

\* dbus_sm_name_owner_changed (): the proxies are torn down.
NameLost(a) ==
  /\ Receives(a, "NameLost") /\ TearDown(a)
  /\ path' = [path EXCEPT ![a] = None]
  /\ mail' = [mail EXCEPT ![a] = <<>>]
  /\ StartAutoReconnect(a)
  /\ Become(a, "DISCONNECTED")
  /\ UNCHANGED <<up, objs, alive, id, ownVars, wanted, cancelled>>

-----------------------------------------------------------------------------
(* The application *)

\* A property goes out at once when there is a proxy.
SendProperty(a, name, value) ==
  objs' = IF path[a] \in Exported
          THEN [objs EXCEPT ![path[a]] = [@ EXCEPT ![name] = value]] ELSE objs

\* The setters of the restart style, the priority and the directory are alike.
SetRestartStyle(a, s) ==
  /\ a \in Setting /\ Running(a) /\ style[a] # s
  /\ style' = [style EXCEPT ![a] = s]
  /\ SendProperty(a, "style", s)
  /\ UNCHANGED <<up, alive, state, path, id, stateFile, wanted, timer, saveVars, mail>>

\* The commands are sent together; the restart command carries the id.
SyncCommands(a, file) ==
  objs' = IF path[a] \in Exported
          THEN [objs EXCEPT ![path[a]].discard = file, ![path[a]].restart = id[a]] ELSE objs

\* xfce_session_client_get_state_file (): the name is made of the id once, and its
\* removal becomes the discard command.
GetStateFile(a) ==
  /\ a \in Setting /\ Running(a) /\ id[a] # None /\ stateFile[a] = None
  /\ stateFile' = [stateFile EXCEPT ![a] = id[a]]
  /\ SyncCommands(a, id[a])
  /\ UNCHANGED <<up, alive, state, path, id, style, wanted, timer, saveVars, mail>>

Forgets(a) ==
  /\ state' = [state EXCEPT ![a] = "DISCONNECTED"]
  /\ path' = [path EXCEPT ![a] = None]
  /\ style' = [style EXCEPT ![a] = "normal"]
  /\ stateFile' = [stateFile EXCEPT ![a] = None]
  /\ wanted' = [wanted EXCEPT ![a] = FALSE]
  /\ timer' = [timer EXCEPT ![a] = FALSE]
  /\ frames' = [frames EXCEPT ![a] = <<>>]
  /\ cancelled' = [cancelled EXCEPT ![a] = FALSE]

\* The application quits, because it was told Stop (dbussm_stop ()) or on its own, or
\* crashes, even while it connects.
Dies(a) ==
  /\ alive[a]
  /\ alive' = [alive EXCEPT ![a] = FALSE]
  /\ mail' = [mail EXCEPT ![a] = <<>>]
  /\ id' = [id EXCEPT ![a] = None]
  /\ Forgets(a)
  /\ UNCHANGED <<up, objs>>

\* The bus says that a name is gone before it delivers what a new process says.
Launch(a, startId) ==
  /\ ~alive[a] /\ \A p \in Exported : objs[p].app # a
  /\ alive' = [alive EXCEPT ![a] = TRUE]
  /\ id' = [id EXCEPT ![a] = startId]
  /\ UNCHANGED <<up, objs, state, path, ownVars, wanted, timer, saveVars, mail>>

-----------------------------------------------------------------------------
(* The whole *)

Delivers(a) ==
  \/ QueryEndSession(a) \/ Cancelled(a) \/ NameLost(a)
  \/ \E what \in Questions : SaveState(a, what)
  \/ \E stays \in BOOLEAN : Replaced(a, stays)

Calls(a) ==
  \/ Connect(a) \/ Disconnect(a) \/ Discard(a) \/ GetStateFile(a) \/ Dies(a)
  \/ \E s \in Styles : SetRestartStyle(a, s)
  \/ \E startId \in Given \cup {None} : Launch(a, startId)

Manages(p) ==
  \/ \E what \in Questions : Ask(p, what)
  \/ CancelEndSession(p) \/ SaveTimeout(p)

DbusNext ==
  \/ \E a \in Apps : \/ Calls(a) \/ Delivers(a) \/ HandlerReturns(a)
                     \/ Subscribe(a) \/ TryReconnect(a) \/ RemoveClientsForConnection(a)
  \/ \E p \in Paths : Manages(p)
  \/ ManagerVanishes \/ ManagerAppears

DbusSpec == DbusInit /\ [][DbusNext]_dbusVars

\* An application runs its main loop, its handlers return, its timer fires, and the
\* session manager replies.
FairDbusSpec ==
  /\ DbusSpec
  /\ \A a \in Apps : /\ WF_dbusVars(Delivers(a)) /\ WF_dbusVars(HandlerReturns(a))
                     /\ WF_dbusVars(Subscribe(a)) /\ WF_dbusVars(TryReconnect(a))
                     /\ WF_dbusVars(RemoveClientsForConnection(a))

-----------------------------------------------------------------------------
(* Properties *)

TypeOK ==
  /\ up \in BOOLEAN
  /\ Exported \subseteq Paths
  /\ \A p \in Exported :
       objs[p] \in [app : Apps, id : Ids, asks : Questions \cup {"nothing"}, style : Styles,
                   restart : Ids \cup {None}, discard : Ids \cup {None}]
  /\ alive \in [Apps -> BOOLEAN]
  /\ state \in [Apps -> {"DISCONNECTED", "REGISTERING", "IDLE", "SAVING_PHASE_1", "FROZEN"}]
  /\ path \in [Apps -> Paths \cup {None}]
  /\ id \in [Apps -> Ids \cup {None}]
  /\ style \in [Apps -> Styles] /\ stateFile \in [Apps -> Ids \cup {None}]
  /\ wanted \in [Apps -> BOOLEAN] /\ timer \in [Apps -> BOOLEAN] /\ cancelled \in [Apps -> BOOLEAN]
  /\ frames \in [Apps -> Seq([in : Questions, on : Paths \cup {None}])]
  /\ mail \in [Apps -> Seq(Questions \cup {"CancelEndSession", "Replaced", "NameLost"})]

\* The registry of xfsm_manager_dbus_register_client2 (): no two clients have the
\* same id, and the application of every client, if it lives, is the one that holds
\* it: nobody is left behind for which a save would wait.
Registry ==
  \A p \in Exported :
    /\ \A q \in Exported \ {p} : objs[q].id # objs[p].id
    /\ alive[objs[p].app] => path[objs[p].app] = p

\* What the session manager would restart and discard for an application is what the
\* application last set, under the id it has, through replacements and reconnections
\* (set_initial_properties (), sync_commands ()).
RestartFits ==
  \A a \in Apps : Subscribed(a) /\ path[a] \in Exported =>
    LET o == objs[path[a]]
    IN /\ o.app = a /\ o.id = id[a] /\ o.restart = id[a] /\ o.style = style[a]
       /\ stateFile[a] # None => o.discard = stateFile[a]

\* A handler that was suspended while the connection was lost has put another state in
\* the place of DISCONNECTED.
Stranded(a) == path[a] = None /\ state[a] # "DISCONNECTED"

\* An application whose connection is lost, or that is replaced, is in the registry
\* again when the session manager stays, unless it leaves on its own or a handler has
\* hidden from the timer that it is disconnected (xfce_session_client_try_reconnect ()).
ComesBack ==
  <>[]up => \A a \in Reconnecting :
    (Coming(a, "NameLost") \/ Coming(a, "Replaced"))
      ~> (path[a] \in Exported \/ ~wanted[a] \/ ~alive[a] \/ Stranded(a))

\* An application that gets QueryEndSession answers it, or it is taken back: no stale
\* shutdown_cancelled makes the session manager wait.
QueryIsAnswered ==
  \A a \in Asked :
    Coming(a, "QueryEndSession")
      ~> (path[a] \notin Exported \/ objs[path[a]].asks # "QueryEndSession")
=============================================================================
