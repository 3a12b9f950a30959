------------------------------ MODULE SessionFile ------------------------------
(***************************************************************************)
(* What survives a session of xfce4-session: the session file, and the     *)
(* state that clients save for themselves.                                 *)
(*                                                                         *)
(* The session file holds one group per session name, and in it the        *)
(* properties of the clients to start.  A client saves its own state on    *)
(* disk where its restart command finds it, and gives the manager a        *)
(* discard command that removes it.  The manager runs the discard command  *)
(* of a client that goes for good, and the old one of an XSMP client that  *)
(* sets a new one.  Nothing ties these removals to the writing of the file, *)
(* and the manager may be killed at any time.                              *)
(*                                                                         *)
(* Here a client is its client id.  XfsmManager says how a save goes       *)
(* through its clients and XfsmStartup how often a client is restarted;    *)
(* both are reduced to what they do to the properties.                     *)
(***************************************************************************)
EXTENDS Naturals, FiniteSets

CONSTANTS
  Ids,            \* client ids
  DbusIds,        \* those of clients of RegisterClient2; the rest is XSMP
  Versions,       \* where clients may save their state
  Places,         \* ... and where each does
  Names,          \* session names
  Default,        \* DEFAULT_SESSION_NAME
  NoName,
  CheckpointNames, \* what Checkpoint () is called with
  Descriptions,   \* properties that each client may set
  Deletions,      \* properties that each client may delete
  SessionChooser, \* the session chooser is displayed
  FailsafeClients \* the number of clients of the failsafe session

ASSUME SessionFileAssumption ==
  /\ IsFiniteSet(Ids)
  /\ DbusIds \subseteq Ids
  /\ Places \in [Ids -> SUBSET Versions]
  /\ Default \in Names /\ NoName \notin Names
  /\ CheckpointNames \subseteq Names \cup {NoName}
  /\ Deletions \in [Ids -> SUBSET {"RestartCommand", "RestartStyleHint", "DiscardCommand"}]
  /\ \A c \in Ids : \A new \in Descriptions[c] :
       DOMAIN new \subseteq {"RestartCommand", "RestartStyleHint"}
  /\ SessionChooser \in BOOLEAN
  /\ FailsafeClients \in Nat

VARIABLES
  mstate,         \* manager->state, or "OFF" between two sessions
  leaving,        \* the session dies: the die timer is armed
  file,           \* the session file: the properties stored under each name
  confName,       \* SessionName in xfconf
  sessionName,    \* manager->session_name
  checkpointName, \* manager->checkpoint_session_name
  idle,           \* a requested checkpoint waits for its idle source
  owner,          \* the queue the properties of a client are in
  props,          \* the properties themselves
  saving,         \* the clients a save waits for
  saveSession,    \* manager->save_session
  disk,           \* the states that exist
  broken,         \* clients whose state was gone when their session was loaded
  saved           \* the logout has written the file

nameVars  == <<confName, sessionName>>
queueVars == <<owner, props, disk, broken>>
vars == <<mstate, leaving, file, nameVars, checkpointName, idle, queueVars,
          saving, saveSession, saved>>

SavePhases == {"CHECKPOINT", "SHUTDOWN"}

\* xfsm_properties_new (): the properties are a tree that holds what was set.
NewProperties == <<>>

\* xfsm_properties_get_uchar () for the restart style hint, with its default.
RestartStyle(p) == IF "RestartStyleHint" \in DOMAIN p THEN p["RestartStyleHint"]
                                                     ELSE "IfRunning"

\* xfsm_properties_are_useful (): there is a command that can be started.
Useful(p) == "RestartCommand" \in DOMAIN p

\* xfsm_properties_set (), xfsm_properties_set_strv () and the like: each property
\* replaces what it was.
Set(p, new) == [n \in DOMAIN p \cup DOMAIN new |-> IF n \in DOMAIN new THEN new[n] ELSE p[n]]

\* The state that the DiscardCommand of client c removes, and its RestartCommand
\* needs.
StateOf(c, p) == {<<c, v>> : v \in {v \in Versions : "DiscardCommand" \in DOMAIN p
                                                     /\ p["DiscardCommand"] = v}}

In(queue) == {c \in Ids : owner[c] = queue}

\* The clients stored under a name; without the file there are none.
Lists(n) == IF n \in DOMAIN file THEN DOMAIN file[n] ELSE {}

\* Ids that xfsm_client_generate_id () may come up with.
Fresh == {c \in Ids : /\ owner[c] = "none"
                      /\ \A n \in DOMAIN file : c \notin DOMAIN file[n]
                      /\ \A v \in Versions : <<c, v>> \notin disk}

Init ==
  /\ mstate = "OFF"
  /\ leaving = FALSE
  /\ file = <<>>
  /\ confName = Default
  /\ sessionName = Default
  /\ checkpointName = NoName
  /\ idle = FALSE
  /\ owner = [c \in Ids |-> "none"]
  /\ props = [c \in Ids |-> NewProperties]
  /\ saving = {}
  /\ saveSession = FALSE
  /\ disk = {}
  /\ broken = {}
  /\ saved = FALSE

-----------------------------------------------------------------------------
(* Loading a session *)

\* xfsm_splash_screen_choose (): a stored session, or the name of a new one, which
\* may be taken; the dialogs come back until there is one.
SplashChoose(name, load) == load => name \in DOMAIN file

\* xfsm_manager_choose_session (): the session that is going to run, and whether
\* it is loaded.  The chooser is not shown without a stored session.
Choose(name, load) ==
  \/ SessionChooser /\ DOMAIN file # {} /\ SplashChoose(name, load)
  \/ /\ ~SessionChooser \/ DOMAIN file = {}
     /\ name = confName
     /\ load = (DOMAIN file # {})

\* xfsm_properties_load (): what was not stored has its default, and is set.
Load(p) == Set([RestartStyleHint |-> "IfRunning"], p)

\* xfsm_manager_load_session (): all "Count" clients of the group are pending.
Pending(group) ==
  /\ owner' = [c \in Ids |-> IF c \in DOMAIN group THEN "pending" ELSE "none"]
  /\ props' = [c \in Ids |-> IF c \in DOMAIN group THEN Load(group[c]) ELSE NewProperties]
  /\ broken' = {c \in DOMAIN group : ~(StateOf(c, group[c]) \subseteq disk)}

\* xfsm_manager_load_failsafe (): clients with new ids, that have a command and no
\* restart style hint.
LoadFailsafe ==
  \E S \in SUBSET Fresh :
    /\ Cardinality(S) = FailsafeClients
    /\ owner' = [c \in Ids |-> IF c \in S THEN "pending" ELSE "none"]
    /\ props' = [c \in Ids |-> IF c \in S THEN [RestartCommand |-> TRUE] ELSE NewProperties]
    /\ broken' = {}

\* xfsm_manager_load_settings (): with nothing to load it is the failsafe session.
LoadSettings ==
  /\ mstate = "OFF"
  /\ \E name \in Names : \E load \in BOOLEAN :
       /\ Choose(name, load)
       /\ sessionName' = name
       /\ confName' = IF load THEN name ELSE confName
       /\ \/ /\ load /\ Lists(name) # {}
             /\ Pending(file[name])
          \/ /\ ~load \/ Lists(name) = {}
             /\ LoadFailsafe
  /\ mstate' = "STARTUP"
  /\ saved' = FALSE
  /\ UNCHANGED <<leaving, file, checkpointName, idle, saving, saveSession, disk>>

-----------------------------------------------------------------------------
(* Clients start, register and fail *)

\* The properties of c are freed.
Free(c) ==
  /\ owner' = [owner EXCEPT ![c] = "none"]
  /\ props' = [props EXCEPT ![c] = NewProperties]
  /\ broken' = broken \ {c}

\* xfsm_run_discard_command ()
RunDiscardCommand(c) == disk' = disk \ StateOf(c, props[c])

\* xfsm_manager_handle_failed_properties (): c may be started again, is kept for
\* the next session, or is removed from the session with what it has saved.
HandleFailed(c) ==
  \/ /\ RestartStyle(props[c]) \in {"Anyway", "Immediately"}
     /\ owner' = [owner EXCEPT ![c] = "restart"]
     /\ UNCHANGED <<props, disk, broken>>
  \/ /\ RestartStyle(props[c]) = "Immediately" /\ Useful(props[c])
     /\ owner' = [owner EXCEPT ![c] = "starting"]
     /\ UNCHANGED <<props, disk, broken>>
  \/ /\ RestartStyle(props[c]) \in {"IfRunning", "Never"}
     /\ Free(c)
     /\ RunDiscardCommand(c)

restVars == <<leaving, file, nameVars, checkpointName, idle, saveSession, saved>>

\* xfsm_startup_session_next_prio_group (), one client of it.
StartProperties(c) ==
  /\ mstate = "STARTUP" /\ owner[c] = "pending"
  /\ \/ /\ Useful(props[c])
        /\ owner' = [owner EXCEPT ![c] = "starting"]
        /\ UNCHANGED <<props, disk, broken>>
     \/ HandleFailed(c)
  /\ UNCHANGED <<mstate, restVars, saving>>

\* xfsm_startup_timeout (), xfsm_startup_child_watch ()
StartFails(c) ==
  /\ mstate # "OFF" /\ owner[c] = "starting"
  /\ HandleFailed(c)
  /\ UNCHANGED <<mstate, restVars, saving>>

\* xfsm_manager_signal_startup_done ()
StartupDone ==
  /\ mstate = "STARTUP" /\ In("pending") \cup In("starting") = {}
  /\ mstate' = "IDLE"
  /\ UNCHANGED <<restVars, queueVars, saving>>

\* A client may register: an XSMP client is refused while the session is saved.
Accepts(c) == mstate \in {"STARTUP", "IDLE"} \/ (c \in DbusIds /\ mstate # "OFF")

\* xfsm_manager_register_client (): a client that was started finds its properties.
Register(c) ==
  /\ Accepts(c) /\ owner[c] \in {"pending", "starting"}
  /\ owner' = [owner EXCEPT ![c] = "running"]
  /\ UNCHANGED <<mstate, restVars, props, disk, broken, saving>>

\* ... a new one gets new ones, under a new id.
RegisterNew(c) ==
  /\ Accepts(c) /\ c \in Fresh
  /\ owner' = [owner EXCEPT ![c] = "running"]
  /\ UNCHANGED <<mstate, restVars, props, disk, broken, saving>>

\* xfsm_properties_remove ()
Remove(p, name) == [n \in DOMAIN p \ {name} |-> p[n]]

\* xfsm_client_dbus_set_sm_properties (), sm_set_properties (): a client says how
\* it is to be restarted.  Clients do so while the manager is idle (the bound).
SetProperties(c, new) ==
  /\ mstate = "IDLE" /\ owner[c] = "running"
  /\ props' = [props EXCEPT ![c] = Set(props[c], new)]
  /\ UNCHANGED <<mstate, restVars, owner, disk, broken, saving>>

\* xfsm_client_delete_properties ()
DeleteProperty(c, name) ==
  /\ mstate = "IDLE" /\ owner[c] = "running"
  /\ props' = [props EXCEPT ![c] = Remove(props[c], name)]
  /\ UNCHANGED <<mstate, restVars, owner, disk, broken, saving>>

-----------------------------------------------------------------------------
(* Saving *)

\* Mutant: a name that was asked for serves whatever is saved next.
AnyName(ms) == IF checkpointName # NoName THEN checkpointName ELSE sessionName

\* The group xfsm_manager_store_session () writes.
Group(ms) == IF ms = "CHECKPOINT" /\ checkpointName # NoName THEN checkpointName
                                                              ELSE sessionName

\* The clients it lists.
Stored(own) ==
  {c \in Ids : \/ own[c] = "restart"
               \/ /\ own[c] = "running"
                  /\ Useful(props[c])
                  /\ RestartStyle(props[c]) # "Never"}

\* Mutant: the hint is not among the properties that are stored.
StoreCommands(p) == [n \in DOMAIN p \ {"RestartStyleHint"} |-> p[n]]

\* xfsm_properties_store (): what is set, under the names of the session file.
Store(p) ==
  [n \in DOMAIN p \cap {"RestartCommand", "DiscardCommand", "RestartStyleHint"} |-> p[n]]

\* xfsm_manager_store_session (): the group is replaced and the name of the
\* checkpoint consumed.  A file that cannot be written leaves the old one, a file
\* that cannot be read leaves the name, too.
StoreSession(ms, own) ==
  \/ /\ file' = [n \in DOMAIN file \cup {Group(ms)} |->
                   IF n = Group(ms) THEN [c \in Stored(own) |-> Store(props[c])]
                                     ELSE file[n]]
     /\ checkpointName' = NoName
     /\ saved' = (ms = "SHUTDOWN")
  \/ UNCHANGED file /\ checkpointName' = NoName /\ saved' = FALSE
  \/ UNCHANGED <<file, checkpointName>> /\ saved' = FALSE

\* xfsm_manager_complete_saveyourself (), when the clients sv are still saving.
Complete(ms, own, sv, save) ==
  /\ saving' = sv
  /\ \/ /\ sv # {}
        /\ mstate' = ms
        /\ saved' = FALSE
        /\ UNCHANGED <<file, checkpointName, leaving>>
     \/ /\ sv = {}
        /\ \/ save /\ StoreSession(ms, own)
           \/ ~save /\ saved' = FALSE /\ UNCHANGED <<file, checkpointName>>
        /\ mstate' = IF ms = "CHECKPOINT" THEN "IDLE" ELSE "SHUTDOWNPHASE2"
        /\ leaving' = (leaving \/ ms = "SHUTDOWN")

\* xfsm_manager_save_yourself_global ().  The settings dialog is closed by then (the
\* bound).
SaveYourselfGlobal(ms, save) ==
  /\ saveSession' = save
  /\ Complete(ms, owner, In("running"), save)
  /\ UNCHANGED <<nameVars, queueVars>>

\* xfsm_manager_dbus_checkpoint ()
CheckpointRequest(name) ==
  /\ mstate = "IDLE" /\ ~idle
  /\ idle' = TRUE
  /\ checkpointName' = name
  /\ UNCHANGED <<mstate, leaving, file, nameVars, queueVars, saving, saveSession, saved>>

\* xfsm_manager_dbus_checkpoint_idled (): in whatever state the manager is by then.
CheckpointIdled ==
  /\ idle /\ mstate # "OFF"
  /\ idle' = FALSE
  /\ SaveYourselfGlobal("CHECKPOINT", TRUE)

\* An XSMP client asks for a checkpoint or a logout, or the user for a logout over
\* the bus.
SaveRequest(ms, save) ==
  /\ mstate = "IDLE"
  /\ \/ \E c \in Ids \ DbusIds : owner[c] = "running"
     \/ ms = "SHUTDOWN" /\ ~idle
  /\ SaveYourselfGlobal(ms, save)
  /\ UNCHANGED idle

\* Mutant: the discard command is taken for changed whenever it is set.
AlwaysChanged(c, v) == TRUE

\* xfsm_properties_discard_command_changed (): the state v that client c says it
\* has is not the one it said before.
DiscardChanged(c, v) == <<c, v>> \notin StateOf(c, props[c])

\* xfsm_client_merge_properties (): an XSMP client has saved its state as v, and the
\* manager runs the old discard command.  The bus call runs none.
Merge(c, v) == IF c \notin DbusIds /\ DiscardChanged(c, v)
               THEN (disk \cup {<<c, v>>}) \ StateOf(c, props[c])
               ELSE disk \cup {<<c, v>>}

\* A client saves itself, to a new place or to the same, and sets its properties.
SaveState(c, v) ==
  /\ c \in saving
  /\ disk' = Merge(c, v)
  /\ props' = [props EXCEPT ![c] =
                 Set(props[c], [RestartCommand |-> TRUE, DiscardCommand |-> v])]
  /\ broken' = broken \ {c}
  /\ UNCHANGED <<mstate, restVars, owner, saving>>

\* xfsm_manager_save_yourself_done ()
SaveYourselfDone(c) ==
  /\ mstate \in SavePhases /\ c \in saving
  /\ Complete(mstate, owner, saving \ {c}, saveSession)
  /\ UNCHANGED <<nameVars, idle, queueVars, saveSession>>

\* xfsm_manager_interact_done (): a client cancels the logout.
CancelShutdown(c) ==
  /\ mstate = "SHUTDOWN" /\ c \in saving \ DbusIds
  /\ mstate' = "CHECKPOINT"
  /\ UNCHANGED <<restVars, queueVars, saving>>

\* Mutant: a client that ends as it is told to is taken for a failed one.
GoneForGood(c) ==
  /\ owner[c] = "running" /\ mstate \in {"STARTUP", "IDLE", "SHUTDOWNPHASE2"}
  /\ HandleFailed(c)
  /\ UNCHANGED <<mstate, restVars, saving>>

\* xfsm_manager_close_connection (): a client ends, crashes or is dropped.  During
\* a save its properties are freed without a look at them; when the session dies
\* it stays in the list.
CloseConnection(c) ==
  /\ owner[c] = "running"
  /\ \/ /\ mstate \in {"STARTUP", "IDLE"}
        /\ HandleFailed(c)
        /\ UNCHANGED <<mstate, restVars, saving>>
     \/ /\ mstate \in SavePhases
        /\ Free(c)
        /\ Complete(mstate, [owner EXCEPT ![c] = "none"], saving \ {c}, saveSession)
        /\ UNCHANGED <<disk, nameVars, idle, saveSession>>

\* The session ends: the die timeout, or the manager crashes or is killed.
End ==
  /\ mstate # "OFF"
  /\ mstate' = "OFF"
  /\ leaving' = FALSE
  /\ checkpointName' = NoName
  /\ idle' = FALSE
  /\ owner' = [c \in Ids |-> "none"]
  /\ props' = [c \in Ids |-> NewProperties]
  /\ saving' = {}
  /\ saveSession' = FALSE
  /\ UNCHANGED <<file, nameVars, disk, broken, saved>>

Next ==
  \/ LoadSettings
  \/ StartupDone
  \/ \E name \in CheckpointNames : CheckpointRequest(name)
  \/ CheckpointIdled
  \/ \E ms \in SavePhases : \E save \in BOOLEAN : SaveRequest(ms, ms = "CHECKPOINT" \/ save)
  \/ \E c \in Ids :
       \/ StartProperties(c)
       \/ StartFails(c)
       \/ Register(c)
       \/ RegisterNew(c)
       \/ \E new \in Descriptions[c] : SetProperties(c, new)
       \/ \E name \in Deletions[c] : DeleteProperty(c, name)
       \/ \E v \in Places[c] : SaveState(c, v)
       \/ SaveYourselfDone(c)
       \/ CancelShutdown(c)
       \/ CloseConnection(c)
  \/ End

Spec == Init /\ [][Next]_vars

-----------------------------------------------------------------------------
(* Properties *)

PropertyNames == {"RestartCommand", "DiscardCommand", "RestartStyleHint"}

TypeOK ==
  /\ mstate \in {"OFF", "STARTUP", "IDLE", "CHECKPOINT", "SHUTDOWN", "SHUTDOWNPHASE2"}
  /\ leaving \in BOOLEAN /\ idle \in BOOLEAN /\ saveSession \in BOOLEAN /\ saved \in BOOLEAN
  /\ DOMAIN file \subseteq Names
  /\ \A n \in DOMAIN file : /\ DOMAIN file[n] \subseteq Ids
                            /\ \A c \in DOMAIN file[n] : DOMAIN file[n][c] \subseteq PropertyNames
  /\ confName \in Names /\ sessionName \in Names /\ checkpointName \in Names \cup {NoName}
  /\ owner \in [Ids -> {"none", "pending", "starting", "running", "restart"}]
  /\ DOMAIN props = Ids /\ \A c \in Ids : DOMAIN props[c] \subseteq PropertyNames
  /\ saving \subseteq Ids /\ broken \subseteq Ids /\ disk \subseteq Ids \X Versions

\* The manager never removes a state that it will still need: what it knows of a
\* client points to a state that exists, unless the state was gone already when
\* the session was loaded.
HeldStateExists ==
  \A c \in Ids : owner[c] # "none" /\ c \notin broken => StateOf(c, props[c]) \subseteq disk

\* A logout that saved leaves a session that can be restored: every state it
\* refers to exists, whatever the clients do until they end and whether or not the
\* manager ends in order; save for those gone before.
SavedSessionIsWhole ==
  saved => \A c \in Lists(sessionName) \ broken :
             StateOf(c, file[sessionName][c]) \subseteq disk

\* ... and it lists every XSMP client that is told to end and wants to come back,
\* as it described itself at last; and no client that does not want to.
SavedSessionIsComplete ==
  saved /\ mstate = "SHUTDOWNPHASE2" =>
    \A c \in In("running") \ DbusIds :
      \/ /\ c \in Lists(sessionName)
         /\ file[sessionName][c] = props[c]
         /\ RestartStyle(props[c]) # "Never"
      \/ /\ c \notin Lists(sessionName)
         /\ RestartStyle(props[c]) = "Never" \/ ~Useful(props[c])

\* A save touches the session that runs, or the one a checkpoint was asked for by
\* name; a logout is always saved under the name of the session.
OtherSessionsKept ==
  [][\A n \in Names \ {sessionName} :
       n \in DOMAIN file' /\ (n \notin DOMAIN file \/ file'[n] # file[n]) =>
         n = checkpointName /\ mstate' = "IDLE"]_vars

=============================================================================
