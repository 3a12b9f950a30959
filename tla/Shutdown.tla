------------------------------- MODULE Shutdown -------------------------------
(***************************************************************************)
(* How a session comes to its end, and what then becomes of the machine:   *)
(* the requests on the bus and of xfce4-session-logout, the logout dialog, *)
(* inhibitions, the run hooks, the prepared updates of PackageKit, and the *)
(* methods of xfsm-shutdown.c that switch the machine off, restart it and  *)
(* put it to sleep.                                                        *)
(*                                                                         *)
(* XfsmManager says how the clients are saved and asked; here a save is    *)
(* only under way, cancelled or over.  In return the machine, its updates  *)
(* and the screen lock outlive the session, and another one may follow.    *)
(***************************************************************************)
EXTENDS Sequences, FiniteSets

CONSTANTS
  Systems,     \* settings, and what the system lets the user do
  Hooks,       \* desktop entries under autostart/
  Inhibitions, \* what applications may ask for: a cookie and flags
  Options      \* the options of xfce4-session-logout in use

Sleeps == {"SUSPEND", "HIBERNATE", "HYBRID_SLEEP"}
Downs == {"SHUTDOWN", "RESTART"}
Ends == Downs \cup {"LOGOUT"}
Types == Sleeps \cup Ends \cup {"SWITCH_USER"}
Flags == {"LOGOUT", "SWITCH", "SUSPEND", "IDLE"}
Nothing == "NOTHING"
Ask == "ASK"

ASSUME ShutdownConstants ==
  /\ Systems \subseteq [backend : {"systemd", "consolekit"}, reply : {"yes", "no", "error"},
                        polkit : BOOLEAN, sleeps : SUBSET Sleeps, greeter : BOOLEAN,
                        kiosk : BOOLEAN, LockScreen : BOOLEAN, PromptOnLogout : BOOLEAN]
  /\ Inhibitions \subseteq [cookie : {i.cookie : i \in Inhibitions}, flags : SUBSET Flags]
  /\ \A i, j \in Inhibitions : i.cookie = j.cookie => i = j

VARIABLES
  system,      \* what does not change
  machine,     \* "on", "off", "restarting" or "asleep"
  locked,      \* the screen
  update,      \* an offline update is prepared
  trigger,     \* what PackageKit is told to do after it: Nothing, "reboot", "power-off"
  mstate,      \* the manager; "NONE" when there is no session
  idle,        \* save_idle_id: Nothing, or the type the source was added with
  dialog,      \* showing_dialog
  offered,     \* the sensitive buttons of the dialog
  shutdownType,\* manager->shutdown_type
  inhibitions, \* the store
  ran,         \* the hooks that were last run
  \* what the properties remember
  asked,       \* the type asked for, until it is done or cancelled
  held,        \* the inhibitions that applications have not released
  before,      \* those of them that are older than the dialog
  unprompted,  \* the shutdown under way has the type of an earlier one
  wish,        \* whether the user wants the machine to be "on" or "off"
  leftover     \* the trigger is that of a shutdown that did not restart the machine

machineVars == <<machine, locked, update, trigger, wish, leftover>>
sessionVars == <<mstate, idle, dialog, offered, shutdownType, inhibitions, ran,
                 asked, held, before, unprompted>>
vars == <<system, machineVars, sessionVars>>

NoSession ==
  /\ mstate = "NONE" /\ idle = Nothing /\ dialog = FALSE /\ offered = {}
  /\ shutdownType = "LOGOUT" /\ inhibitions = {} /\ ran = {}
  /\ asked = Nothing /\ held = {} /\ before = {} /\ unprompted = FALSE

Init ==
  /\ system \in Systems
  /\ machine = "on" /\ locked = FALSE /\ update = FALSE /\ trigger = Nothing
  /\ wish = "on" /\ leftover = FALSE
  /\ NoSession

-----------------------------------------------------------------------------
(* Inhibitions *)

Adding(i) == inhibitions \cup {i}

Inhibit(i) ==
  /\ mstate # "NONE" /\ i \notin held
  /\ inhibitions' = Adding(i) /\ held' = held \cup {i}
  /\ UNCHANGED <<system, machineVars, mstate, idle, dialog, offered, shutdownType, ran,
                 asked, before, unprompted>>

\* Mutant: every inhibition that shares a flag goes.
WithoutFlagsOf(cookie) ==
  {i \in inhibitions : \A j \in inhibitions : j.cookie = cookie => i.flags \cap j.flags = {}}

Without(cookie) == {i \in inhibitions : i.cookie # cookie}

Uninhibit(cookie) ==
  /\ mstate # "NONE" /\ cookie \in {i.cookie : i \in held}
  /\ inhibitions' = Without(cookie)
  /\ held' = {i \in held : i.cookie # cookie}
  /\ before' = {i \in before : i.cookie # cookie}
  /\ UNCHANGED <<system, machineVars, mstate, idle, dialog, offered, shutdownType, ran,
                 asked, unprompted>>

HasFlag(flag) == \E i \in inhibitions : flag \in i.flags

-----------------------------------------------------------------------------
(* What the user may do *)

\* polkit, and what pm-is-supported says of a sleep.
Authorized == system.polkit

FallbackCan(t) == Authorized /\ (t \in Downs \/ t \in system.sleeps)

\* The button of a type in the dialog, and what CanShutdown and its like reply.
Can(t) ==
  CASE t = "LOGOUT" -> ~HasFlag("LOGOUT")
    [] t = "SWITCH_USER" -> ~HasFlag("SWITCH") /\ system.greeter
    [] OTHER -> /\ ~HasFlag(IF t \in Downs THEN "LOGOUT" ELSE "SUSPEND")
                /\ system.kiosk
                /\ IF system.reply = "error" THEN FallbackCan(t) ELSE system.reply = "yes"

-----------------------------------------------------------------------------
(* What becomes of the machine *)

\* systemd or ConsoleKit did it.
Service(m) == system.reply # "error" /\ machine' = m

\* What xfsm-shutdown-helper has an option for.
HelperDoes == Downs \cup {"SUSPEND", "HIBERNATE"}

\* pkexec, if no service did it, may be denied or fail.
Fallback(t, m) ==
  \/ machine' = "on"
  \/ t \in HelperDoes /\ Authorized /\ machine' = m

Do(t, m) == Service(m) \/ Fallback(t, m)

TrySleep(t) ==
  /\ \/ ~system.LockScreen /\ locked' = locked /\ Do(t, "asleep")
     \/ system.LockScreen /\ locked' = TRUE /\ Do(t, "asleep")
     \/ system.LockScreen /\ locked' = locked /\ machine' = "on"
  /\ UNCHANGED <<update, trigger, wish, leftover>>

\* Mutant: the action of the other method.
TriggersPowerOff == "power-off"

RestartTrigger == "reboot"

Updates == system.backend = "systemd" /\ update

TriggerAction(action) == Updates /\ trigger' = action

\* PackageKit may refuse: then the machine restarts all the same.
TryRestart ==
  /\ \/ system.kiosk /\ TriggerAction(RestartTrigger) /\ Do("RESTART", "restarting")
     \/ system.kiosk /\ trigger' = trigger /\ Do("RESTART", "restarting")
     \/ ~system.kiosk /\ UNCHANGED <<machine, trigger>>
  /\ leftover' = (leftover /\ trigger' = trigger)
  /\ wish' = "on"
  /\ UNCHANGED <<locked, update>>

\* With a prepared update the machine restarts, applies it and switches itself off;
\* when it cannot be restarted it is switched off with the trigger set.
TryShutdown ==
  /\ \/ /\ system.kiosk /\ TriggerAction("power-off")
        /\ Service("restarting") \/ Do("SHUTDOWN", "off")
        /\ leftover' = (machine' # "restarting")
     \/ system.kiosk /\ Do("SHUTDOWN", "off") /\ UNCHANGED <<trigger, leftover>>
     \/ ~system.kiosk /\ UNCHANGED <<machine, trigger, leftover>>
  /\ wish' = "off"
  /\ UNCHANGED <<locked, update>>

-----------------------------------------------------------------------------
(* Run hooks *)

\* Entries without a RunHook key have that of the login.
Runs(e, hook) ==
  /\ ~e.Hidden /\ e.RunHook = hook
  /\ e.Override \/ e.OnlyShowIn = {} \/ "XFCE" \in e.OnlyShowIn
  /\ "XFCE" \notin e.NotShowIn
  /\ ~e.atSpi
  /\ e.application /\ e.installed

Launches(hook) == {e \in Hooks : Runs(e, hook)}

\* Mutant: the hooks are run before the type is updated.
LaunchesBefore(t) == Launches(shutdownType)

LaunchesFor(t) == Launches(t)

-----------------------------------------------------------------------------
(* Requests *)

\* Mutant: the type is not updated without a prompt.
NotUpdated(t) == shutdownType

TypeOf(t) == t

\* xfsm_manager_save_yourself_global () once the type t is known; "who" asked for
\* what, Nothing if nobody said.
Continue(t, who) ==
  /\ shutdownType' = t
  /\ ran' = LaunchesFor(t)
  /\ \/ t \in Sleeps /\ TrySleep(t) /\ mstate' = mstate
     \/ t = "SWITCH_USER" /\ UNCHANGED <<machineVars, mstate>>
     \/ t \in Ends /\ mstate' = "SHUTDOWN" /\ UNCHANGED machineVars
  /\ asked' = CASE who = Nothing -> asked [] who \in Ends -> who [] OTHER -> Nothing
  /\ unprompted' = (who = Nothing)

Offered == {t \in Types : Can(t)}

ShowDialog ==
  /\ dialog' = TRUE /\ offered' = Offered /\ before' = held
  /\ UNCHANGED <<machineVars, mstate, shutdownType, ran, asked, unprompted>>

DialogIsShown ==
  UNCHANGED <<machineVars, mstate, dialog, offered, shutdownType, ran, asked, before, unprompted>>

\* A request to end the session: of the type t, or after a prompt.
SaveYourselfGlobal(t) ==
  \/ t # Ask /\ Continue(TypeOf(t), t) /\ UNCHANGED <<dialog, offered, before>>
  \/ /\ t = Ask /\ ~system.PromptOnLogout
     /\ Continue("LOGOUT", "LOGOUT") /\ UNCHANGED <<dialog, offered, before>>
  \/ t = Ask /\ system.PromptOnLogout /\ ~dialog /\ ShowDialog
  \/ t = Ask /\ system.PromptOnLogout /\ dialog /\ DialogIsShown

Accept(t) ==
  /\ machine = "on" /\ mstate = "IDLE" /\ idle = Nothing
  /\ idle' = t
  /\ UNCHANGED <<system, machineVars, mstate, dialog, offered, shutdownType, inhibitions, ran,
                 asked, held, before, unprompted>>

LogoutCall(t) == t \in {Ask, "LOGOUT"} /\ Accept(t)
DownCall(t) == t \in Downs /\ Accept(t)
SleepCall(t) == t \in Sleeps /\ Accept(t)
SwitchUserCall(t) == t = "SWITCH_USER" /\ Accept(t)

BusRequest(t) == LogoutCall(t) \/ DownCall(t) \/ SleepCall(t) \/ SwitchUserCall(t)

Calls == << <<"halt", "SHUTDOWN">>, <<"reboot", "RESTART">>, <<"suspend", "SUSPEND">>,
            <<"hibernate", "HIBERNATE">>, <<"hybrid-sleep", "HYBRID_SLEEP">>,
            <<"switch-user", "SWITCH_USER">>, <<"logout", "LOGOUT">> >>

\* xfce4-session-logout: the first of its options counts.
CommandLine(options) ==
  LET calls == SelectSeq(Calls, LAMBDA c : c[1] \in options)
  IN BusRequest(IF calls = <<>> THEN Ask ELSE calls[1][2])

\* The idle source looks at no state.
Idled ==
  /\ machine = "on" /\ idle # Nothing
  /\ idle' = Nothing
  /\ SaveYourselfGlobal(idle)
  /\ UNCHANGED <<system, inhibitions, held>>

\* An XSMP client asks for a shutdown of the session, fast or not.
ClientRequest(fast) ==
  /\ machine = "on" /\ mstate = "IDLE"
  /\ \/ fast /\ Continue(shutdownType, Nothing) /\ UNCHANGED <<dialog, offered, before>>
     \/ ~fast /\ SaveYourselfGlobal(Ask)
  /\ UNCHANGED <<system, idle, inhibitions, held>>

DialogAnswered(t) ==
  /\ machine = "on" /\ dialog /\ t \in offered
  /\ dialog' = FALSE /\ offered' = {} /\ before' = {}
  /\ Continue(t, t)
  /\ UNCHANGED <<system, idle, inhibitions, held>>

DialogCancelled ==
  /\ machine = "on" /\ dialog
  /\ dialog' = FALSE /\ offered' = {} /\ before' = {}
  /\ UNCHANGED <<system, machineVars, mstate, idle, shutdownType, inhibitions, ran, asked, held,
                 unprompted>>

-----------------------------------------------------------------------------
(* The session: a save is cancelled by a client, or comes to its end *)

StateChanges(from, to) ==
  /\ machine = "on" /\ mstate = from /\ mstate' = to
  /\ UNCHANGED <<system, machineVars, idle, dialog, offered, shutdownType, inhibitions, ran, held,
                 before, unprompted>>

StartupDone == StateChanges("STARTUP", "IDLE") /\ asked' = asked

Cancelled == StateChanges("SHUTDOWN", "CHECKPOINT") /\ asked' = Nothing

CheckpointDone == StateChanges("CHECKPOINT", "IDLE") /\ asked' = asked

PerformShutdown == StateChanges("SHUTDOWN", "SHUTDOWNPHASE2") /\ asked' = asked

\* name_lost (): the manager is gone, the machine does what its type says.
NameLost ==
  /\ mstate' = "NONE" /\ idle' = Nothing /\ dialog' = FALSE /\ offered' = {}
  /\ inhibitions' = {} /\ held' = {} /\ before' = {}
  /\ \/ shutdownType = "SHUTDOWN" /\ TryShutdown
     \/ shutdownType = "RESTART" /\ TryRestart
     \/ shutdownType \notin Downs /\ UNCHANGED machineVars
  /\ UNCHANGED <<system, shutdownType, ran, asked, unprompted>>

ManagerQuits == machine = "on" /\ mstate = "SHUTDOWNPHASE2" /\ NameLost

\* The session bus goes away.
BusLost == machine = "on" /\ mstate # "NONE" /\ NameLost

\* bus_acquired () of a new process.
Login ==
  /\ machine = "on" /\ mstate = "NONE"
  /\ mstate' = "STARTUP" /\ shutdownType' = "LOGOUT"
  /\ ran' = {} /\ asked' = Nothing /\ unprompted' = FALSE
  /\ UNCHANGED <<system, machineVars, idle, dialog, offered, inhibitions, held, before>>

-----------------------------------------------------------------------------
(* The machine *)

Wake ==
  /\ machine = "asleep" /\ machine' = "on"
  /\ UNCHANGED <<system, locked, update, trigger, wish, leftover, sessionVars>>

Unlock ==
  /\ machine = "on" /\ locked /\ locked' = FALSE
  /\ UNCHANGED <<system, machine, update, trigger, wish, leftover, sessionVars>>

PrepareUpdate ==
  /\ machine = "on" /\ ~update /\ update' = TRUE
  /\ UNCHANGED <<system, machine, locked, trigger, wish, leftover, sessionVars>>

\* A triggered update is applied first.
Boots(w) ==
  /\ wish' = w
  /\ \/ /\ trigger # Nothing
        /\ machine' = (IF trigger = "power-off" THEN "off" ELSE "on")
        /\ update' = FALSE /\ trigger' = Nothing /\ leftover' = FALSE
     \/ trigger = Nothing /\ machine' = "on" /\ UNCHANGED <<update, trigger, leftover>>
  /\ locked' = FALSE
  /\ UNCHANGED <<system, sessionVars>>

PowerButton == machine = "off" /\ Boots("on")
BootsAgain == machine = "restarting" /\ Boots(wish)

Next ==
  \/ Login \/ StartupDone
  \/ \E o \in SUBSET Options : CommandLine(o)
  \/ Idled
  \/ \E fast \in BOOLEAN : ClientRequest(fast)
  \/ \E t \in Types : DialogAnswered(t)
  \/ DialogCancelled
  \/ \E i \in Inhibitions : Inhibit(i) \/ Uninhibit(i.cookie)
  \/ Cancelled \/ CheckpointDone \/ PerformShutdown \/ ManagerQuits \/ BusLost
  \/ Wake \/ Unlock \/ PrepareUpdate \/ PowerButton \/ BootsAgain

Spec == Init /\ [][Next]_vars

-----------------------------------------------------------------------------
(* Properties *)

TypeOK ==
  /\ system \in Systems
  /\ machine \in {"on", "off", "restarting", "asleep"} /\ locked \in BOOLEAN
  /\ update \in BOOLEAN /\ trigger \in {Nothing, "reboot", "power-off"}
  /\ mstate \in {"NONE", "STARTUP", "IDLE", "CHECKPOINT", "SHUTDOWN", "SHUTDOWNPHASE2"}
  /\ idle \in Types \cup {Ask, Nothing} /\ dialog \in BOOLEAN /\ offered \subseteq Types
  /\ shutdownType \in Types /\ inhibitions \subseteq Inhibitions
  /\ before \subseteq held /\ held \subseteq Inhibitions
  /\ ran \subseteq Hooks /\ asked \in Ends \cup {Nothing} /\ unprompted \in BOOLEAN
  /\ wish \in {"on", "off"} /\ leftover \in BOOLEAN

Goes(m) == machine = "on" /\ machine' = m

\* The machine is switched off or restarted only if the user asked for this, and
\* neither cancelled it nor asked for something else since: whichever requests,
\* dialogs, cancellations and answers ran into one another.  Two ways out of the
\* session use the type of an earlier request: a fast shutdown that a client asks
\* for, and the loss of the bus.
NothingUnasked ==
  [][ /\ machine = "on" /\ machine' \in {"off", "restarting"}
      /\ mstate = "SHUTDOWNPHASE2" /\ ~unprompted
      => asked \in Downs /\ wish' = (IF asked = "SHUTDOWN" THEN "off" ELSE "on")]_vars

\* With or without an update to apply on the way, a machine that is told to restart
\* ends up on, and one that is told to shut down ends up off, and one that is
\* switched on stays on; unless the trigger of a shutdown was left behind that
\* could not restart the machine.
EndsAsAsked ==
  [][(machine = "off" \/ machine = "restarting") => machine' = wish' \/ leftover]_machine

\* What the machine does is what the hooks that ran were for: those of its type,
\* those that may run, and no others.
HooksMatch ==
  [][ /\ Goes("asleep") => \E t \in Sleeps : ran' = Launches(t)
      /\ Goes("off") => ran' = Launches("SHUTDOWN")
      /\ Goes("restarting") => \E t \in Downs : ran' = Launches(t)]_vars

\* An inhibition that an application holds since before the dialog was opened
\* takes what it inhibits off the dialog, whatever other applications release.
InhibitedNotOffered ==
  dialog => \A i \in before :
    /\ "LOGOUT" \in i.flags => offered \cap Ends = {}
    /\ "SUSPEND" \in i.flags => offered \cap Sleeps = {}
    /\ "SWITCH" \in i.flags => "SWITCH_USER" \notin offered

\* The machine sleeps with a locked screen if it is set so, and is never switched
\* off or restarted by a user whom the kiosk settings deny it.
GuardsHold ==
  /\ machine = "asleep" /\ system.LockScreen => locked
  /\ ~system.kiosk => machine \notin {"off", "restarting"} /\ trigger = Nothing

=============================================================================
