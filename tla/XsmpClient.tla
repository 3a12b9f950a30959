------------------------------ MODULE XsmpClient ------------------------------
(***************************************************************************)
(* The XSMP side of the client library: how XfceSessionClientXsmp answers  *)
(* what a session manager says on its connection                           *)
(* (xfce-session-client-xsmp.c), and how the library loses, gives up and   *)
(* regains that connection (xfce-session-client.c).                        *)
(*                                                                         *)
(* The library talks to its application in signals.  Three of them wait    *)
(* for the application: quit-requested, save-state and                     *)
(* save-state-extended.  A handler may run the main loop (a dialog that    *)
(* asks to save a document does), and then further messages are served     *)
(* while it is suspended: frames[c] is the stack of those handlers.        *)
(*                                                                         *)
(* This module lets the session manager say anything at any time;          *)
(* XsmpSession puts xfce4-session in its place.                            *)
(***************************************************************************)
EXTENDS Naturals, Sequences

CONSTANTS
  Apps,      \* applications that use the library on X11
  Interested,   \* those that handle quit-requested or save-state-extended
  Extended,     \* those that handle save-state-extended
  Graceful,     \* those that handle quit; the library exits the others
  Nesting,      \* signals whose handlers may run the main loop
  Reconnecting, \* those whose auto-reconnect interval is not disabled
  MaxFrames,    \* bound: suspended handlers of a client
  MaxQueue      \* bound: messages in transit from a client

Signals == {"quit-requested", "save-state", "save-state-extended"}

ASSUME LibraryConstants ==
  /\ Extended \subseteq Interested /\ Interested \subseteq Apps
  /\ Graceful \subseteq Apps /\ Reconnecting \subseteq Apps
  /\ Nesting \subseteq Signals
  /\ MaxFrames \in Nat \ {0} /\ MaxQueue \in Nat \ {0}

VARIABLES
  state,      \* priv->state
  link,       \* session_connection: "none", being opened (by a call, or by the
              \* reconnect timer), or "open"
  frames,     \* the suspended signal handlers, innermost first
  needsSave,  \* needs_save_state
  cancelled,  \* shutdown_cancelled
  wanted,     \* not disconnect_requested
  reconnect,  \* auto_reconnect_id is armed
  hasId,      \* client_id # NULL
  agreed,     \* what the application believes: it let the session end, and has not
              \* heard otherwise
  toManager   \* messages on the way to the session manager

connVars == <<link, wanted, reconnect, hasId>>
saveVars == <<frames, needsSave, cancelled, agreed>>
libVars == <<state, connVars, saveVars, toManager>>

States == {"DISCONNECTED", "REGISTERING", "IDLE", "SAVING_PHASE_1",
           "WAITING_FOR_INTERACT", "INTERACTING", "WAITING_FOR_PHASE_2",
           "SAVING_PHASE_2", "FROZEN"}

Links == {"none", "opening", "reopening", "open"}

\* What can be said to a client.  A SaveYourself comes in four kinds: the local
\* one after registration, a checkpoint, a logout that saves (style Both) and one
\* that does not (style Global).
SaveKinds  == {"SaveLocal", "SaveCheckpoint", "SaveLogout", "SaveQuit"}
ToldByManager == SaveKinds \cup {"Interact", "SaveYourselfPhase2", "SaveComplete",
                                 "ShutdownCancelled", "Die", "IOError"}
SaidByClient == {"Register", "InteractRequest", "InteractDone", "InteractCancel",
                 "Phase2Request", "Done", "SaveRequest", "Close"}

\* A frame is a handler and the place of the library it returns to: save-state is
\* emitted on its own ("first") or after an interaction ("after").
Frames == {"quit-requested", "save-state-extended", "save-state first", "save-state after"}

SignalOf(f) == IF f \in {"save-state first", "save-state after"} THEN "save-state" ELSE f

\* The main loop of c runs: no handler is in its way, and no call that waits for
\* the reply of the session manager.
Listening(c) ==
  /\ link[c] \notin {"opening", "reopening"}
  /\ frames[c] # <<>> => SignalOf(Head(frames[c])) \in Nesting

Become(c, s) == state' = [state EXCEPT ![c] = s]

Say(c, msgs) == /\ Len(toManager[c]) + Len(msgs) <= MaxQueue
                /\ toManager' = [toManager EXCEPT ![c] = @ \o msgs]

Push(c, f) == /\ Len(frames[c]) < MaxFrames
              /\ frames' = [frames EXCEPT ![c] = <<f>> \o @]

LibInit ==
  /\ state = [c \in Apps |-> "DISCONNECTED"]
  /\ link = [c \in Apps |-> "none"]
  /\ frames = [c \in Apps |-> <<>>]
  /\ needsSave = [c \in Apps |-> FALSE]
  /\ cancelled = [c \in Apps |-> FALSE]
  /\ wanted = [c \in Apps |-> FALSE]
  /\ reconnect = [c \in Apps |-> FALSE]
  /\ hasId \in [Apps -> BOOLEAN]
  /\ agreed = [c \in Apps |-> FALSE]
  /\ toManager = [c \in Apps |-> <<>>]

-----------------------------------------------------------------------------
(* Connecting *)

\* xfce_session_client_connect () of an application, or
\* xfce_session_client_try_reconnect () of the timer: SmcOpenConnection () sends
\* the previous id, and waits for the reply.
Open(c) ==
  /\ Listening(c) /\ link[c] = "none" /\ toManager[c] = <<>>
  /\ \/ /\ frames[c] = <<>>
        /\ link' = [link EXCEPT ![c] = "opening"]
        /\ UNCHANGED reconnect
     \/ /\ reconnect[c]
        /\ link' = [link EXCEPT ![c] = "reopening"]
        /\ reconnect' = [reconnect EXCEPT ![c] = FALSE]
  /\ wanted' = [wanted EXCEPT ![c] = TRUE]
  /\ Say(c, <<"Register">>)
  /\ UNCHANGED <<state, saveVars, hasId>>

\* The timer finds a client that has connected on its own since.
TimerExpires(c) ==
  /\ Listening(c) /\ reconnect[c] /\ state[c] # "DISCONNECTED"
  /\ reconnect' = [reconnect EXCEPT ![c] = FALSE]
  /\ UNCHANGED <<state, link, wanted, hasId, saveVars, toManager>>

\* The session manager accepts the client, under its previous id or a new one.
Opened(c, resumed) ==
  /\ link[c] \in {"opening", "reopening"}
  /\ resumed => hasId[c]
  /\ link' = [link EXCEPT ![c] = "open"]
  /\ hasId' = [hasId EXCEPT ![c] = TRUE]
  /\ Become(c, IF resumed THEN "IDLE" ELSE "REGISTERING")
  /\ UNCHANGED <<saveVars, wanted, reconnect, toManager>>

\* SmcOpenConnection () fails: the timer that tried starts again, a call does not
\* start it.
OpenFailed(c) ==
  /\ link[c] \in {"opening", "reopening"}
  /\ link' = [link EXCEPT ![c] = "none"]
  /\ reconnect' = [reconnect EXCEPT ![c] = @ \/ link[c] = "reopening"]
  /\ UNCHANGED <<state, saveVars, wanted, hasId, toManager>>

\* _xfce_session_client_start_auto_reconnect (): whether the timer is started.
StartAutoReconnect(c) == wanted[c] /\ c \in Reconnecting

\* xsmp_process_ice_messages () finds the connection broken.
ConnectionLost(c) ==
  /\ Listening(c) /\ link[c] = "open"
  /\ link' = [link EXCEPT ![c] = "none"]
  /\ Become(c, "DISCONNECTED")
  /\ reconnect' = [reconnect EXCEPT ![c] = @ \/ StartAutoReconnect(c)]
  /\ agreed' = [agreed EXCEPT ![c] = FALSE]
  /\ UNCHANGED <<frames, needsSave, cancelled, wanted, hasId, toManager>>

\* Mutant: a timer that runs is left alone.
KeepsTimer(c) == reconnect

\* The reconnect timer is removed when the application disconnects.
StopsTimer(c) == [reconnect EXCEPT ![c] = FALSE]

\* xfce_session_client_disconnect ()
Disconnected(c) ==
  /\ link' = [link EXCEPT ![c] = "none"]
  /\ Become(c, "DISCONNECTED")
  /\ reconnect' = StopsTimer(c)
  /\ wanted' = [wanted EXCEPT ![c] = FALSE]
  /\ agreed' = [agreed EXCEPT ![c] = FALSE]
  /\ Say(c, IF link[c] = "open" THEN <<"Close">> ELSE <<>>)

Disconnect(c) ==
  /\ Listening(c) /\ frames[c] = <<>> /\ wanted[c]
  /\ Disconnected(c)
  /\ UNCHANGED <<frames, needsSave, cancelled, hasId>>

\* xsmp_die (): the application quits when it is told to, or the library calls
\* exit ().  An application whose handlers are suspended still returns to them.
Die(c) ==
  /\ Disconnected(c)
  /\ \/ /\ c \notin Graceful
        /\ frames' = [frames EXCEPT ![c] = <<>>]
        /\ needsSave' = [needsSave EXCEPT ![c] = FALSE]
        /\ cancelled' = [cancelled EXCEPT ![c] = FALSE]
     \/ c \in Graceful /\ UNCHANGED <<frames, needsSave, cancelled>>
  /\ UNCHANGED hasId

-----------------------------------------------------------------------------
(* Saving *)

DoSaveState(m)     == m # "SaveQuit"
DoQuitRequested(m) == m \in {"SaveLogout", "SaveQuit"}

\* Mutant: the answer is given and the state left as it is.
SavedUnseen(c) == UNCHANGED state /\ Say(c, <<"Done">>)

\* The end of xfce_session_client_handle_save_yourself (), after save-state.
SavedFirst(c) ==
  IF cancelled[c] THEN Become(c, "IDLE") /\ Say(c, <<>>)
                  ELSE Become(c, "FROZEN") /\ Say(c, <<"Done">>)

\* A SaveYourself in the middle of another one, or before the first was answered.
Interrupts(c) == state[c] \notin {"IDLE", "FROZEN"}

\* xsmp_save_yourself (), with xfce_session_client_handle_save_yourself ().
SaveYourself(c, m) ==
  /\ UNCHANGED <<connVars, agreed>>
  /\ \/ /\ state[c] = "REGISTERING"
        /\ IF m = "SaveLocal" THEN Become(c, "FROZEN") /\ Say(c, <<"Done">>)
                              ELSE Become(c, "IDLE") /\ Say(c, <<>>)
        /\ UNCHANGED <<frames, needsSave, cancelled>>
     \/ /\ state[c] # "REGISTERING" /\ Interrupts(c)
        /\ Become(c, "FROZEN") /\ Say(c, <<"Done">>)
        /\ UNCHANGED <<frames, needsSave, cancelled>>
     \/ /\ state[c] # "REGISTERING" /\ ~Interrupts(c)
        /\ DoQuitRequested(m) /\ c \in Interested
        /\ Become(c, "WAITING_FOR_INTERACT") /\ Say(c, <<"InteractRequest">>)
        /\ needsSave' = [needsSave EXCEPT ![c] = DoSaveState(m)]
        /\ UNCHANGED <<frames, cancelled>>
     \/ /\ state[c] # "REGISTERING" /\ ~Interrupts(c)
        /\ ~(DoQuitRequested(m) /\ c \in Interested) /\ DoSaveState(m)
        /\ Become(c, "SAVING_PHASE_1") /\ Say(c, <<>>)
        /\ Push(c, "save-state first")
        /\ UNCHANGED <<needsSave, cancelled>>
     \/ /\ state[c] # "REGISTERING" /\ ~Interrupts(c)
        /\ ~(DoQuitRequested(m) /\ c \in Interested) /\ ~DoSaveState(m)
        /\ SavedFirst(c)
        /\ cancelled' = [cancelled EXCEPT ![c] = FALSE]
        /\ UNCHANGED <<frames, needsSave>>

\* xsmp_interact ()
Interact(c) ==
  /\ UNCHANGED <<connVars, needsSave, cancelled, agreed>>
  /\ \/ /\ state[c] # "WAITING_FOR_INTERACT"
        /\ Become(c, "FROZEN") /\ Say(c, <<"InteractDone", "Done">>)
        /\ UNCHANGED frames
     \/ /\ state[c] = "WAITING_FOR_INTERACT"
        /\ Become(c, "INTERACTING") /\ Say(c, <<>>)
        /\ Push(c, "quit-requested")

\* xsmp_save_phase_2 ()
SaveYourselfPhase2(c) ==
  /\ UNCHANGED <<connVars, needsSave, cancelled, agreed>>
  /\ \/ /\ state[c] # "WAITING_FOR_PHASE_2"
        /\ Become(c, "FROZEN") /\ Say(c, <<"Done">>)
        /\ UNCHANGED frames
     \/ /\ state[c] = "WAITING_FOR_PHASE_2"
        /\ Become(c, "SAVING_PHASE_2") /\ Say(c, <<>>)
        /\ Push(c, "save-state-extended")

\* xsmp_save_complete ()
SaveComplete(c) ==
  /\ Become(c, "IDLE")
  /\ UNCHANGED <<connVars, saveVars, toManager>>

\* Mutant: a client that waits is flagged as one whose handler runs.
FlagsAnyState(c) == state[c] # "FROZEN"

\* ShutdownCancelled comes while one of the three handlers is running.
FlagsCancellation(c) == state[c] \in {"INTERACTING", "SAVING_PHASE_1", "SAVING_PHASE_2"}

\* xsmp_shutdown_cancelled ()
ShutdownCancelled(c) ==
  /\ UNCHANGED <<connVars, frames, needsSave>>
  /\ IF FlagsCancellation(c)
     THEN /\ cancelled' = [cancelled EXCEPT ![c] = TRUE]
          /\ UNCHANGED <<state, agreed, toManager>>
     ELSE /\ Become(c, "IDLE")
          /\ Say(c, IF state[c] = "WAITING_FOR_INTERACT" THEN <<"Done">> ELSE <<>>)
          /\ agreed' = [agreed EXCEPT ![c] = @ /\ state[c] \notin {"FROZEN", "WAITING_FOR_PHASE_2"}]
          /\ UNCHANGED cancelled

-----------------------------------------------------------------------------
(* A handler of the application returns *)

\* Libsm is given a connection that is gone: the process does not survive.
Crash(c) ==
  /\ frames' = [frames EXCEPT ![c] = <<>>]
  /\ state' = [state EXCEPT ![c] = "DISCONNECTED"]
  /\ needsSave' = [needsSave EXCEPT ![c] = FALSE]
  /\ cancelled' = [cancelled EXCEPT ![c] = FALSE]
  /\ wanted' = [wanted EXCEPT ![c] = FALSE]
  /\ reconnect' = [reconnect EXCEPT ![c] = FALSE]
  /\ agreed' = [agreed EXCEPT ![c] = FALSE]
  /\ UNCHANGED <<link, hasId, toManager>>

\* Mutant: the answer is given after phase 2 was asked for, as if that had failed.
AnswersAnyway(c, cancel, s, msgs) ==
  IF ~cancel /\ c \in Extended
  THEN Become(c, "WAITING_FOR_PHASE_2") /\ Say(c, msgs \o <<"Phase2Request", "Done">>)
  ELSE Become(c, s) /\ Say(c, msgs \o <<"Done">>)

\* The end of xsmp_interact (): phase 2 or the answer, said after the messages msgs.
AfterInteract(c, cancel, s, msgs) ==
  IF ~cancel /\ c \in Extended
  THEN Become(c, "WAITING_FOR_PHASE_2") /\ Say(c, msgs \o <<"Phase2Request">>)
  ELSE Become(c, s) /\ Say(c, msgs \o <<"Done">>)

\* quit-requested returns cancel to xsmp_interact ().
QuitRequestedReturns(c, cancel) ==
  LET off == cancel \/ cancelled[c]
      s == IF cancelled[c] THEN "IDLE" ELSE "FROZEN"
      done == IF cancelled[c] THEN <<>>
              ELSE IF cancel THEN <<"InteractCancel">> ELSE <<"InteractDone">>
  IN
  /\ link[c] = "open" /\ frames[c] # <<>> /\ Head(frames[c]) = "quit-requested"
  /\ cancelled' = [cancelled EXCEPT ![c] = FALSE]
  /\ needsSave' = [needsSave EXCEPT ![c] = FALSE]
  /\ \/ /\ ~off /\ needsSave[c]
        /\ Become(c, "FROZEN") /\ Say(c, done)
        /\ frames' = [frames EXCEPT ![c] = <<"save-state after">> \o Tail(@)]
     \/ /\ off \/ ~needsSave[c]
        /\ AfterInteract(c, off, s, done)
        /\ frames' = [frames EXCEPT ![c] = Tail(@)]
  /\ agreed' = [agreed EXCEPT ![c] = ~off]
  /\ UNCHANGED connVars

\* Mutant: the flag stays up when save-state returns.
KeepsCancellation(c) == cancelled

\* The flag is read, and lowered, where each handler returns.
LowersCancellation(c) == [cancelled EXCEPT ![c] = FALSE]

\* Where the return of save-state needs no connection.
SaysNothing(c) == Head(frames[c]) = "save-state first" /\ cancelled[c]

\* save-state returns, to handle_save_yourself () or to xsmp_interact ().
SaveStateReturns(c) ==
  /\ frames[c] # <<>>
  /\ link[c] = "open" \/ SaysNothing(c)
  /\ \/ Head(frames[c]) = "save-state first" /\ SavedFirst(c)
     \/ /\ Head(frames[c]) = "save-state after"
        /\ AfterInteract(c, cancelled[c], IF cancelled[c] THEN "IDLE" ELSE state[c], <<>>)
  /\ frames' = [frames EXCEPT ![c] = Tail(@)]
  /\ cancelled' = LowersCancellation(c)
  /\ agreed' = [agreed EXCEPT ![c] = @ /\ (cancelled[c] => Head(frames[c]) = "save-state first")]
  /\ UNCHANGED <<connVars, needsSave>>

\* save-state-extended returns to xsmp_save_phase_2 ().
SaveStateExtendedReturns(c) ==
  /\ link[c] = "open" /\ frames[c] # <<>> /\ Head(frames[c]) = "save-state-extended"
  /\ Become(c, IF cancelled[c] THEN "IDLE" ELSE "FROZEN")
  /\ Say(c, <<"Done">>)
  /\ frames' = [frames EXCEPT ![c] = Tail(@)]
  /\ cancelled' = [cancelled EXCEPT ![c] = FALSE]
  /\ agreed' = [agreed EXCEPT ![c] = @ /\ ~cancelled[c]]
  /\ UNCHANGED <<connVars, needsSave>>

\* Any of them returns after the connection has gone.
ReturnsToNothing(c) ==
  /\ link[c] = "none" /\ frames[c] # <<>> /\ ~SaysNothing(c)
  /\ Crash(c)

HandlerReturns(c) ==
  \/ \E cancel \in BOOLEAN : QuitRequestedReturns(c, cancel)
  \/ SaveStateReturns(c)
  \/ SaveStateExtendedReturns(c)
  \/ ReturnsToNothing(c)

\* xfce_session_client_xsmp_request_shutdown ()
RequestShutdown(c) ==
  /\ Listening(c) /\ frames[c] = <<>> /\ link[c] = "open"
  /\ Say(c, <<"SaveRequest">>)
  /\ UNCHANGED <<state, connVars, saveVars>>

-----------------------------------------------------------------------------
(* Any session manager *)

\* c serves the message m.
Receive(c, m) ==
  /\ link[c] = "open" /\ Listening(c)
  /\ \/ m \in SaveKinds /\ SaveYourself(c, m)
     \/ m = "Interact" /\ Interact(c)
     \/ m = "SaveYourselfPhase2" /\ SaveYourselfPhase2(c)
     \/ m = "SaveComplete" /\ SaveComplete(c)
     \/ m = "ShutdownCancelled" /\ ShutdownCancelled(c)
     \/ m = "Die" /\ Die(c)
     \/ m = "IOError" /\ ConnectionLost(c)

\* The session manager takes a message off the connection, or the connection breaks
\* and all of them get lost.
Taken(c) ==
  /\ \/ toManager[c] # <<>> /\ toManager' = [toManager EXCEPT ![c] = Tail(@)]
     \/ toManager' = [toManager EXCEPT ![c] = <<"IOError">>]
  /\ UNCHANGED <<state, connVars, saveVars>>

LibStep(c) ==
  \/ Open(c)
  \/ \E resumed \in BOOLEAN : Opened(c, resumed)
  \/ OpenFailed(c)
  \/ TimerExpires(c)
  \/ Disconnect(c)
  \/ RequestShutdown(c)
  \/ HandlerReturns(c)
  \/ \E m \in ToldByManager : Receive(c, m)
  \/ Taken(c)

LibSpec == LibInit /\ [][\E c \in Apps : LibStep(c)]_libVars

-----------------------------------------------------------------------------
(* What the library keeps straight, whatever the session manager says *)

LibTypeOK ==
  /\ state \in [Apps -> States]
  /\ link \in [Apps -> Links]
  /\ frames \in [Apps -> Seq(Frames)]
  /\ needsSave \in [Apps -> BOOLEAN]
  /\ cancelled \in [Apps -> BOOLEAN]
  /\ wanted \in [Apps -> BOOLEAN]
  /\ reconnect \in [Apps -> BOOLEAN]
  /\ hasId \in [Apps -> BOOLEAN]
  /\ agreed \in [Apps -> BOOLEAN]
  /\ toManager \in [Apps -> Seq(SaidByClient \cup {"IOError"})]
  /\ \A c \in Apps : Len(frames[c]) <= MaxFrames /\ Len(toManager[c]) <= MaxQueue

\* A cancellation that is remembered is remembered for a handler that runs: it is
\* never left over for the next save, which would then go unanswered
\* (xfce_session_client_handle_save_yourself () says nothing when the flag is up).
CancelledInHandler == \A c \in Apps : cancelled[c] => frames[c] # <<>>

\* The states in which ShutdownCancelled only raises a flag are those of a handler
\* that runs, and so come to an end: the innermost handler is the one of the state.
StateOfHandler ==
  \A c \in Apps :
    /\ state[c] = "INTERACTING" => frames[c] # <<>> /\ Head(frames[c]) = "quit-requested"
    /\ state[c] = "SAVING_PHASE_1" => frames[c] # <<>> /\ Head(frames[c]) = "save-state first"
    /\ state[c] = "SAVING_PHASE_2" => frames[c] # <<>> /\ Head(frames[c]) = "save-state-extended"

\* An application that has disconnected is not brought back by the timer of a
\* connection that it lost before.
NeverComesBackUnasked == \A c \in Apps : reconnect[c] \/ link[c] = "reopening" => wanted[c]
=============================================================================
