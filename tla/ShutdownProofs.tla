---------------------------- MODULE ShutdownProofs ----------------------------
(***************************************************************************)
(* Proofs about Shutdown, for any systems, run hooks, inhibitions and      *)
(* options of xfce4-session-logout.                                        *)
(*                                                                         *)
(* The invariant ShutdownInv has four parts besides the types: what the    *)
(* dialog offers respects the inhibitions that are older (StoreFits), the  *)
(* type of a shutdown under way is the one that was asked for              *)
(* (RequestFits), the hooks that ran are those of the type (HooksFit), and *)
(* the trigger of an update and the state of the machine belong together   *)
(* (MachineFits).  Each of the run's properties follows from one of them.  *)
(***************************************************************************)
EXTENDS Shutdown, TLAPS

StoreFits == held \subseteq inhibitions /\ InhibitedNotOffered

\* unprompted is FALSE when somebody said what the shutdown under way is for.
RequestFits ==
  mstate \in {"SHUTDOWN", "SHUTDOWNPHASE2"} /\ ~unprompted /\ shutdownType \in Downs =>
    asked = shutdownType

\* A manager that has run no hooks yet has the type it started with.
HooksFit == shutdownType # "LOGOUT" => ran = Launches(shutdownType)

\* A trigger to switch off is set for a machine that restarts in order to be off,
\* or it was left behind; any other one is for a machine that is to be on.
TriggerFits ==
  /\ machine # "restarting" /\ trigger = "power-off" => leftover
  /\ machine = "restarting" =>
       leftover \/ wish = (IF trigger = "power-off" THEN "off" ELSE "on")

MachineFits == GuardsHold /\ TriggerFits

ShutdownInv == TypeOK /\ StoreFits /\ RequestFits /\ HooksFit /\ MachineFits

-----------------------------------------------------------------------------
(* The methods *)

MachineTypes ==
  /\ machine \in {"on", "off", "restarting", "asleep"} /\ locked \in BOOLEAN
  /\ update \in BOOLEAN /\ trigger \in {Nothing, "reboot", "power-off"}
  /\ wish \in {"on", "off"} /\ leftover \in BOOLEAN

\* A service or pkexec does what it is told, or the machine stays on.
LEMMA DoesOrNot ==
  ASSUME NEW t, NEW m, Do(t, m)
  PROVE  machine' \in {"on", m}
BY DEF Do, Service, Fallback

\* A machine that sleeps is locked first if it is set so.
LEMMA SleepFits ==
  ASSUME TypeOK, MachineFits, machine = "on", NEW t \in Sleeps, TrySleep(t), system' = system
  PROVE  MachineTypes' /\ MachineFits' /\ machine' \in {"on", "asleep"}
<1>1. /\ machine' \in {"on", "asleep"} /\ locked' \in BOOLEAN
      /\ UNCHANGED <<update, trigger, wish, leftover>>
  BY DoesOrNot DEF TrySleep, TypeOK
<1>2. machine' = "asleep" /\ system'.LockScreen => locked'
  BY DEF TrySleep
<1> QED
  BY <1>1, <1>2 DEF MachineTypes, TypeOK, MachineFits, GuardsHold, TriggerFits, Nothing

LEMMA RestartFits ==
  ASSUME TypeOK, MachineFits, machine = "on", TryRestart, system' = system
  PROVE  /\ MachineTypes' /\ MachineFits'
         /\ wish' = "on" /\ machine' \in {"on", "restarting"}
<1>1. /\ machine' \in {"on", "restarting"} /\ wish' = "on"
      /\ UNCHANGED <<locked, update>>
      /\ trigger' \in {trigger, "reboot"}
      /\ leftover' = (leftover /\ trigger' = trigger)
  BY DoesOrNot DEF TryRestart, TriggerAction, RestartTrigger
<1>2. ~system.kiosk => UNCHANGED <<machine, trigger>>
  BY DEF TryRestart
<1> QED
  BY <1>1, <1>2 DEF MachineTypes, TypeOK, MachineFits, GuardsHold, TriggerFits, Nothing

LEMMA ShutdownFits ==
  ASSUME TypeOK, MachineFits, machine = "on", TryShutdown, system' = system
  PROVE  /\ MachineTypes' /\ MachineFits'
         /\ wish' = "off" /\ machine' \in {"on", "restarting", "off"}
<1>1. /\ wish' = "off" /\ UNCHANGED <<locked, update>>
      /\ \/ /\ trigger' = "power-off" /\ machine' \in {"on", "restarting", "off"}
            /\ leftover' = (machine' # "restarting")
         \/ machine' \in {"on", "off"} /\ UNCHANGED <<trigger, leftover>>
  BY DoesOrNot DEF TryShutdown, TriggerAction, Service
<1>2. ~system.kiosk => UNCHANGED <<machine, trigger>>
  BY DEF TryShutdown
<1> QED
  BY <1>1, <1>2 DEF MachineTypes, TypeOK, MachineFits, GuardsHold, TriggerFits, Nothing

-----------------------------------------------------------------------------
(* Requests *)

\* The save begins, or the machine does at once what it is told.
LEMMA ContinueFits ==
  ASSUME ShutdownInv, machine = "on", NEW t \in Types, NEW who \in {t, Nothing}, Continue(t, who),
         system' = system
  PROVE  /\ MachineTypes' /\ MachineFits' /\ RequestFits' /\ HooksFit'
         /\ mstate' \in {mstate, "SHUTDOWN"} /\ shutdownType' \in Types /\ ran' \subseteq Hooks
         /\ asked' \in Ends \cup {Nothing} /\ unprompted' \in BOOLEAN
         /\ machine' \in {"on", "asleep"}
         /\ machine' = "asleep" => t \in Sleeps
<1>1. shutdownType' = t /\ ran' = Launches(t) /\ unprompted' = (who = Nothing)
  BY DEF Continue, LaunchesFor
<1>2. /\ Sleeps \cap Ends = {} /\ "SWITCH_USER" \notin Sleeps \cup Ends
      /\ Nothing \notin Types /\ Nothing \notin Ends
  BY DEF Sleeps, Ends, Downs, Types, Nothing
<1>3. /\ MachineTypes' /\ MachineFits' /\ machine' \in {"on", "asleep"}
      /\ machine' = "asleep" => t \in Sleeps
  <2>1. \/ t \in Sleeps /\ TrySleep(t) /\ mstate' = mstate
        \/ t \notin Sleeps /\ UNCHANGED machineVars
    BY <1>2 DEF Continue
  <2>2. CASE t \in Sleeps /\ TrySleep(t) /\ mstate' = mstate
    BY <2>2, SleepFits DEF ShutdownInv
  <2>3. CASE t \notin Sleeps /\ UNCHANGED machineVars
    BY <2>3 DEF ShutdownInv, TypeOK, MachineTypes, MachineFits, GuardsHold, TriggerFits, machineVars
  <2> QED
    BY <2>1, <2>2, <2>3
<1>4. asked' = IF who = Nothing THEN asked ELSE IF t \in Ends THEN t ELSE Nothing
  <2>1. CASE who = Nothing
    BY <1>2, <2>1 DEF Continue
  <2>2. CASE who = t /\ t # Nothing /\ t \in Ends
    BY <2>2 DEF Continue
  <2>3. CASE who = t /\ t # Nothing /\ t \notin Ends
    BY <2>3 DEF Continue
  <2> QED
    BY <1>2, <2>1, <2>2, <2>3
<1>5. asked' \in Ends \cup {Nothing} /\ mstate' \in {mstate, "SHUTDOWN"}
  BY <1>4 DEF Continue, ShutdownInv, TypeOK
<1>6. RequestFits'
  <2> SUFFICES ASSUME ~unprompted', shutdownType' \in Downs PROVE asked' = shutdownType'
    BY DEF RequestFits
  <2>1. who # Nothing /\ t \in Ends
    BY <1>1 DEF Ends
  <2> QED
    BY <1>1, <1>4, <2>1
<1>7. HooksFit' /\ ran' \subseteq Hooks
  BY <1>1 DEF HooksFit, Launches
<1> QED
  BY <1>1, <1>3, <1>5, <1>6, <1>7

\* What the dialog offers respects every inhibition there is when it is opened.
LEMMA OfferFits ==
  ASSUME TypeOK, held \subseteq inhibitions
  PROVE  /\ Offered \subseteq Types
         /\ \A i \in held :
              /\ "LOGOUT" \in i.flags => Offered \cap Ends = {}
              /\ "SUSPEND" \in i.flags => Offered \cap Sleeps = {}
              /\ "SWITCH" \in i.flags => "SWITCH_USER" \notin Offered
<1>1. Offered \subseteq Types
  BY DEF Offered
<1>2. ASSUME NEW i \in held, "LOGOUT" \in i.flags, NEW t \in Offered PROVE t \notin Ends
  <2>1. HasFlag("LOGOUT")
    BY <1>2 DEF HasFlag
  <2> QED
    BY <1>2, <2>1 DEF Offered, Can, Ends, Downs
<1>3. ASSUME NEW i \in held, "SUSPEND" \in i.flags, NEW t \in Offered PROVE t \notin Sleeps
  <2>1. HasFlag("SUSPEND")
    BY <1>3 DEF HasFlag
  <2> QED
    BY <1>3, <2>1 DEF Offered, Can, Sleeps, Downs
<1>4. ASSUME NEW i \in held, "SWITCH" \in i.flags PROVE "SWITCH_USER" \notin Offered
  <2>1. HasFlag("SWITCH")
    BY <1>4 DEF HasFlag
  <2> QED
    BY <2>1 DEF Offered, Can
<1> QED
  BY <1>1, <1>2, <1>3, <1>4

\* A request, and what it leaves alone: the store.
LEMMA RequestKeeps ==
  ASSUME ShutdownInv, machine = "on", NEW t \in Types \cup {Ask}, SaveYourselfGlobal(t),
         UNCHANGED <<system, inhibitions, held>>, idle' \in Types \cup {Ask, Nothing}
  PROVE  /\ ShutdownInv' /\ machine' \in {"on", "asleep"}
         /\ machine' = "asleep" => shutdownType' \in Sleeps
<1>1. ASSUME NEW u \in Types, Continue(u, u), UNCHANGED <<dialog, offered, before>>
      PROVE  /\ ShutdownInv' /\ machine' \in {"on", "asleep"}
             /\ machine' = "asleep" => shutdownType' \in Sleeps
  <2>1. /\ MachineTypes' /\ MachineFits' /\ RequestFits' /\ HooksFit'
        /\ mstate' \in {mstate, "SHUTDOWN"} /\ shutdownType' \in Types /\ ran' \subseteq Hooks
        /\ asked' \in Ends \cup {Nothing} /\ unprompted' \in BOOLEAN
        /\ machine' \in {"on", "asleep"}
        /\ machine' = "asleep" => u \in Sleeps
    BY <1>1, ContinueFits
  <2>2. shutdownType' = u
    BY <1>1 DEF Continue
  <2>3. TypeOK'
    BY <1>1, <2>1 DEF ShutdownInv, TypeOK, MachineTypes
  <2>4. StoreFits'
    BY <1>1 DEF ShutdownInv, StoreFits, InhibitedNotOffered
  <2> QED
    BY <2>1, <2>2, <2>3, <2>4 DEF ShutdownInv
<1>2. CASE ShowDialog
  <2>1. TypeOK'
    BY <1>2, OfferFits DEF ShowDialog, ShutdownInv, TypeOK, StoreFits, machineVars
  <2>2. StoreFits'
    BY <1>2, OfferFits DEF ShowDialog, ShutdownInv, StoreFits, InhibitedNotOffered
  <2>3. RequestFits' /\ HooksFit' /\ MachineFits'
    BY <1>2 DEF ShowDialog, ShutdownInv, RequestFits, HooksFit, MachineFits, GuardsHold,
                TriggerFits, machineVars
  <2> QED
    BY <1>2, <2>1, <2>2, <2>3 DEF ShowDialog, ShutdownInv, machineVars
<1>3. CASE DialogIsShown
  <2>1. TypeOK' /\ StoreFits'
    BY <1>3 DEF DialogIsShown, ShutdownInv, TypeOK, StoreFits, InhibitedNotOffered, machineVars
  <2>2. RequestFits' /\ HooksFit' /\ MachineFits'
    BY <1>3 DEF DialogIsShown, ShutdownInv, RequestFits, HooksFit, MachineFits, GuardsHold,
                TriggerFits, machineVars
  <2> QED
    BY <1>3, <2>1, <2>2 DEF DialogIsShown, ShutdownInv, machineVars
<1>4. "LOGOUT" \in Types
  BY DEF Types, Ends
<1> QED
  BY <1>1, <1>2, <1>3, <1>4 DEF SaveYourselfGlobal, TypeOf

-----------------------------------------------------------------------------
(* Every step keeps the invariant, and what the properties say of it *)

Keeps == /\ ShutdownInv'
         /\ machine' # machine => machine' = "asleep" /\ shutdownType' \in Sleeps

LEMMA IdledKeeps ==
  ASSUME ShutdownInv, Idled
  PROVE  Keeps
<1>1. idle \in Types \cup {Ask} /\ idle' \in Types \cup {Ask, Nothing}
  BY DEF Idled, ShutdownInv, TypeOK
<1> QED
  BY <1>1, RequestKeeps DEF Idled, Keeps

LEMMA ClientRequestKeeps ==
  ASSUME ShutdownInv, NEW fast \in BOOLEAN, ClientRequest(fast)
  PROVE  Keeps
<1>1. CASE SaveYourselfGlobal(Ask)
  <2>1. idle' \in Types \cup {Ask, Nothing}
    BY DEF ClientRequest, ShutdownInv, TypeOK
  <2> QED
    BY <1>1, <2>1, RequestKeeps DEF ClientRequest, Keeps
<1>2. CASE Continue(shutdownType, Nothing) /\ UNCHANGED <<dialog, offered, before>>
  <2>1. shutdownType \in Types /\ machine = "on" /\ UNCHANGED <<system, idle, inhibitions, held>>
    BY DEF ClientRequest, ShutdownInv, TypeOK
  <2>2. /\ MachineTypes' /\ MachineFits' /\ RequestFits' /\ HooksFit'
        /\ mstate' \in {mstate, "SHUTDOWN"} /\ shutdownType' \in Types /\ ran' \subseteq Hooks
        /\ asked' \in Ends \cup {Nothing} /\ unprompted' \in BOOLEAN
        /\ machine' \in {"on", "asleep"}
        /\ machine' = "asleep" => shutdownType \in Sleeps
    BY <1>2, <2>1, ContinueFits
  <2>3. shutdownType' = shutdownType
    BY <1>2 DEF Continue
  <2>4. TypeOK' /\ StoreFits'
    BY <1>2, <2>1, <2>2 DEF ShutdownInv, TypeOK, MachineTypes, StoreFits, InhibitedNotOffered
  <2> QED
    BY <2>1, <2>2, <2>3, <2>4 DEF ShutdownInv, Keeps
<1> QED
  BY <1>1, <1>2 DEF ClientRequest

LEMMA DialogKeeps ==
  ASSUME ShutdownInv, (\E t \in Types : DialogAnswered(t)) \/ DialogCancelled
  PROVE  Keeps
<1>1. CASE \E t \in Types : DialogAnswered(t)
  <2>1. PICK t \in Types : DialogAnswered(t)
    BY <1>1
  <2>2. /\ machine = "on" /\ dialog' = FALSE /\ offered' = {} /\ before' = {}
        /\ Continue(t, t) /\ UNCHANGED <<system, idle, inhibitions, held>>
    BY <2>1 DEF DialogAnswered
  <2>3. /\ MachineTypes' /\ MachineFits' /\ RequestFits' /\ HooksFit'
        /\ mstate' \in {mstate, "SHUTDOWN"} /\ shutdownType' \in Types /\ ran' \subseteq Hooks
        /\ asked' \in Ends \cup {Nothing} /\ unprompted' \in BOOLEAN
        /\ machine' \in {"on", "asleep"}
        /\ machine' = "asleep" => t \in Sleeps
    BY <2>2, ContinueFits
  <2>4. shutdownType' = t
    BY <2>2 DEF Continue
  <2>5. TypeOK' /\ StoreFits'
    BY <2>2, <2>3 DEF ShutdownInv, TypeOK, MachineTypes, StoreFits, InhibitedNotOffered
  <2> QED
    BY <2>2, <2>3, <2>4, <2>5 DEF ShutdownInv, Keeps
<1>2. CASE DialogCancelled
  <2>1. TypeOK'
    BY <1>2, ZenonT(60) DEF DialogCancelled, ShutdownInv, TypeOK, machineVars
  <2>3. StoreFits'
    BY <1>2 DEF DialogCancelled, ShutdownInv, StoreFits, InhibitedNotOffered
  <2>2. RequestFits' /\ HooksFit' /\ MachineFits'
    BY <1>2 DEF DialogCancelled, ShutdownInv, RequestFits, HooksFit, MachineFits, GuardsHold,
                TriggerFits, machineVars
  <2> QED
    BY <1>2, <2>1, <2>2, <2>3 DEF DialogCancelled, ShutdownInv, machineVars, Keeps
<1> QED
  BY <1>1, <1>2

LEMMA BusRequestKeeps ==
  ASSUME ShutdownInv, NEW options, CommandLine(options)
  PROVE  Keeps
<1>1. PICK t : BusRequest(t)
  BY DEF CommandLine
<1>2. t \in Types \cup {Ask} /\ Accept(t)
  BY <1>1 DEF BusRequest, LogoutCall, DownCall, SleepCall, SwitchUserCall, Types, Ends
<1>3. TypeOK' /\ StoreFits'
  BY <1>2 DEF Accept, ShutdownInv, TypeOK, StoreFits, InhibitedNotOffered, machineVars
<1>4. RequestFits' /\ HooksFit' /\ MachineFits'
  BY <1>2 DEF Accept, ShutdownInv, RequestFits, HooksFit, MachineFits, GuardsHold, TriggerFits,
              machineVars
<1> QED
  BY <1>2, <1>3, <1>4 DEF Accept, ShutdownInv, machineVars, Keeps

LEMMA InhibitKeeps ==
  ASSUME ShutdownInv, NEW i \in Inhibitions, Inhibit(i) \/ Uninhibit(i.cookie)
  PROVE  Keeps
<1>1. UNCHANGED <<system, machineVars, mstate, idle, dialog, offered, shutdownType, ran, asked,
                  unprompted>>
  BY DEF Inhibit, Uninhibit
<1>2. TypeOK' /\ StoreFits'
  <2>1. CASE Inhibit(i)
    <3>1. TypeOK'
      BY <1>1, <2>1 DEF Inhibit, Adding, ShutdownInv, TypeOK, machineVars
    <3>2. StoreFits'
      BY <1>1, <2>1 DEF Inhibit, Adding, ShutdownInv, StoreFits, InhibitedNotOffered
    <3> QED
      BY <3>1, <3>2
  <2>2. CASE Uninhibit(i.cookie)
    <3>1. TypeOK'
      BY <1>1, <2>2 DEF Uninhibit, Without, ShutdownInv, TypeOK, machineVars
    <3>2. StoreFits'
      BY <1>1, <2>2 DEF Uninhibit, Without, ShutdownInv, StoreFits, InhibitedNotOffered
    <3> QED
      BY <3>1, <3>2
  <2> QED
    BY <2>1, <2>2
<1>3. RequestFits' /\ HooksFit' /\ MachineFits' /\ machine' = machine
  BY <1>1 DEF ShutdownInv, RequestFits, HooksFit, MachineFits, GuardsHold, TriggerFits, machineVars
<1> QED
  BY <1>2, <1>3 DEF ShutdownInv, Keeps

-----------------------------------------------------------------------------
(* The end of the session, and the machine without one *)

LEMMA StateKeeps ==
  ASSUME ShutdownInv, StartupDone \/ Cancelled \/ CheckpointDone \/ PerformShutdown
  PROVE  Keeps
<1>1. /\ mstate' \in {"IDLE", "CHECKPOINT", "SHUTDOWNPHASE2"}
      /\ mstate' = "SHUTDOWNPHASE2" => mstate = "SHUTDOWN" /\ asked' = asked
      /\ asked' \in {asked, Nothing}
      /\ UNCHANGED <<system, machineVars, idle, dialog, offered, shutdownType, inhibitions, ran,
                     held, before, unprompted>>
  BY DEF StartupDone, Cancelled, CheckpointDone, PerformShutdown, StateChanges
<1>2. TypeOK' /\ StoreFits'
  BY <1>1 DEF ShutdownInv, TypeOK, StoreFits, InhibitedNotOffered, machineVars
<1>3. HooksFit' /\ MachineFits' /\ machine' = machine
  BY <1>1 DEF ShutdownInv, HooksFit, MachineFits, GuardsHold, TriggerFits, machineVars
<1>4. RequestFits'
  BY <1>1 DEF ShutdownInv, RequestFits
<1> QED
  BY <1>2, <1>3, <1>4 DEF ShutdownInv, Keeps

\* The manager is gone, and the machine does what the type of the shutdown says.
LEMMA NameLostKeeps ==
  ASSUME ShutdownInv, machine = "on", NameLost
  PROVE  /\ ShutdownInv'
         /\ machine' # "on" =>
              /\ shutdownType \in Downs /\ ran' = Launches(shutdownType)
              /\ wish' = (IF shutdownType = "SHUTDOWN" THEN "off" ELSE "on")
              /\ machine' = "off" => shutdownType = "SHUTDOWN"
         /\ machine' # "asleep"
<1>1. /\ mstate' = "NONE" /\ idle' = Nothing /\ dialog' = FALSE /\ offered' = {}
      /\ inhibitions' = {} /\ held' = {} /\ before' = {}
      /\ UNCHANGED <<system, shutdownType, ran, asked, unprompted>>
  BY DEF NameLost
<1>2. /\ MachineTypes' /\ MachineFits' /\ machine' # "asleep"
      /\ machine' # "on" =>
           /\ shutdownType \in Downs
           /\ wish' = (IF shutdownType = "SHUTDOWN" THEN "off" ELSE "on")
           /\ machine' = "off" => shutdownType = "SHUTDOWN"
  <2>1. CASE shutdownType = "SHUTDOWN" /\ TryShutdown
    BY <1>1, <2>1, ShutdownFits DEF ShutdownInv, Downs
  <2>2. CASE shutdownType = "RESTART" /\ TryRestart
    BY <1>1, <2>2, RestartFits DEF ShutdownInv, Downs
  <2>3. CASE UNCHANGED machineVars
    BY <1>1, <2>3 DEF ShutdownInv, TypeOK, MachineTypes, MachineFits, GuardsHold, TriggerFits, machineVars
  <2> QED
    BY <2>1, <2>2, <2>3 DEF NameLost
<1>3. TypeOK'
  BY <1>1, <1>2 DEF ShutdownInv, TypeOK, MachineTypes
<1>4. StoreFits' /\ RequestFits' /\ HooksFit'
  BY <1>1 DEF ShutdownInv, StoreFits, InhibitedNotOffered, RequestFits, HooksFit
<1>5. shutdownType \in Downs => ran' = Launches(shutdownType)
  BY <1>1 DEF ShutdownInv, HooksFit, Downs
<1> QED
  BY <1>2, <1>3, <1>4, <1>5 DEF ShutdownInv

LEMMA LoginKeeps ==
  ASSUME ShutdownInv, Login
  PROVE  Keeps
<1>1. TypeOK' /\ StoreFits'
  BY DEF Login, ShutdownInv, TypeOK, StoreFits, InhibitedNotOffered, machineVars, Types, Ends, Nothing
<1>2. RequestFits' /\ HooksFit'
  BY DEF Login, RequestFits, HooksFit
<1>3. MachineFits' /\ machine' = machine
  BY DEF Login, ShutdownInv, MachineFits, GuardsHold, TriggerFits, machineVars
<1> QED
  BY <1>1, <1>2, <1>3 DEF ShutdownInv, Keeps

\* The machine without the session: it wakes, is unlocked, or boots.
LEMMA MachineKeeps ==
  ASSUME ShutdownInv, Wake \/ Unlock \/ PrepareUpdate \/ PowerButton \/ BootsAgain
  PROVE  /\ ShutdownInv'
         /\ machine = "on" => machine' = "on"
         /\ machine \in {"off", "restarting"} => machine' = wish' \/ leftover
<1>1. UNCHANGED <<system, sessionVars>>
  BY DEF Wake, Unlock, PrepareUpdate, PowerButton, BootsAgain, Boots
<1>2. /\ MachineTypes' /\ MachineFits'
      /\ machine = "on" => machine' = "on"
      /\ machine \in {"off", "restarting"} => machine' = wish' \/ leftover
  <2>1. CASE Wake \/ Unlock \/ PrepareUpdate
    BY <1>1, <2>1 DEF Wake, Unlock, PrepareUpdate, ShutdownInv, TypeOK, MachineTypes, MachineFits,
                      GuardsHold, TriggerFits
  <2>2. CASE PowerButton
    BY <1>1, <2>2 DEF PowerButton, Boots, ShutdownInv, TypeOK, MachineTypes, MachineFits,
                      GuardsHold, TriggerFits, Nothing
  <2>3. CASE BootsAgain
    BY <1>1, <2>3 DEF BootsAgain, Boots, ShutdownInv, TypeOK, MachineTypes, MachineFits,
                      GuardsHold, TriggerFits, Nothing
  <2> QED
    BY <2>1, <2>2, <2>3
<1>3. TypeOK' /\ StoreFits'
  BY <1>1, <1>2 DEF ShutdownInv, TypeOK, MachineTypes, StoreFits, InhibitedNotOffered, sessionVars
<1>4. RequestFits' /\ HooksFit'
  BY <1>1 DEF ShutdownInv, RequestFits, HooksFit, sessionVars
<1> QED
  BY <1>2, <1>3, <1>4 DEF ShutdownInv

-----------------------------------------------------------------------------
(* The theorems *)

Quiet ==
  \/ Login \/ StartupDone
  \/ \E o \in SUBSET Options : CommandLine(o)
  \/ Idled
  \/ \E fast \in BOOLEAN : ClientRequest(fast)
  \/ \E t \in Types : DialogAnswered(t)
  \/ DialogCancelled
  \/ \E i \in Inhibitions : Inhibit(i) \/ Uninhibit(i.cookie)
  \/ Cancelled \/ CheckpointDone \/ PerformShutdown

\* A machine that is not on is not changed by the session.
LEMMA QuietOnlyWhileOn == Quiet /\ machine # "on" => machine' = machine
<1> SUFFICES ASSUME Quiet, machine # "on" PROVE machine' = machine
  OBVIOUS
<1>1. \E i \in Inhibitions : Inhibit(i) \/ Uninhibit(i.cookie)
  BY DEF Quiet, Login, StartupDone, Cancelled, CheckpointDone, PerformShutdown, StateChanges,
         CommandLine, BusRequest, LogoutCall, DownCall, SleepCall, SwitchUserCall, Accept, Idled,
         ClientRequest, DialogAnswered, DialogCancelled
<1> QED
  BY <1>1 DEF Inhibit, Uninhibit, machineVars

LEMMA QuietKeeps == ShutdownInv /\ Quiet => Keeps
BY BusRequestKeeps, IdledKeeps, ClientRequestKeeps, DialogKeeps, InhibitKeeps, StateKeeps, LoginKeeps
   DEF Quiet

\* Every step is quiet, ends the session, or is one of the machine.
LEMMA NextIs ==
  Next => \/ Quiet
          \/ machine = "on" /\ mstate # "NONE" /\ NameLost /\ (ManagerQuits \/ BusLost)
          \/ Wake \/ Unlock \/ PrepareUpdate \/ PowerButton \/ BootsAgain
BY DEF Next, Quiet, ManagerQuits, BusLost

\* The inhibitions, the type asked for, the hooks, the trigger and the machine fit
\* together in every reachable state (xfsm-manager.c, xfsm-shutdown.c,
\* xfsm-logout-dialog.c, xfsm-inhibitor.c).
THEOREM ShutdownInvariance == Spec => []ShutdownInv
<1>1. Init => ShutdownInv
  <2> SUFFICES ASSUME Init PROVE ShutdownInv
    OBVIOUS
  <2>1. TypeOK
    BY DEF Init, NoSession, TypeOK, Types, Ends, Nothing
  <2>2. StoreFits /\ RequestFits /\ HooksFit
    BY DEF Init, NoSession, StoreFits, InhibitedNotOffered, RequestFits, HooksFit
  <2>3. MachineFits
    BY DEF Init, MachineFits, GuardsHold, TriggerFits, Nothing
  <2> QED
    BY <2>1, <2>2, <2>3 DEF ShutdownInv
<1>2. ShutdownInv /\ [Next]_vars => ShutdownInv'
  <2> SUFFICES ASSUME ShutdownInv, [Next]_vars PROVE ShutdownInv'
    OBVIOUS
  <2>1. CASE Next
    BY <2>1, NextIs, QuietKeeps, NameLostKeeps, MachineKeeps DEF Keeps
  <2>2. CASE UNCHANGED vars
    BY <2>2 DEF vars, machineVars, sessionVars, ShutdownInv, TypeOK, StoreFits, InhibitedNotOffered,
                RequestFits, HooksFit, MachineFits, GuardsHold, TriggerFits
  <2> QED
    BY <2>1, <2>2
<1> QED
  BY <1>1, <1>2, PTL DEF Spec

\* Every variable keeps its type.
THEOREM ShutdownTypeCorrect == Spec => []TypeOK
<1>1. ShutdownInv => TypeOK
  BY DEF ShutdownInv
<1> QED
  BY <1>1, ShutdownInvariance, PTL

\* The lock and the kiosk settings are respected by every way to a machine that
\* sleeps, restarts or is off.
THEOREM GuardsAreKept == Spec => []GuardsHold
<1>1. ShutdownInv => GuardsHold
  BY DEF ShutdownInv, MachineFits
<1> QED
  BY <1>1, ShutdownInvariance, PTL

\* The dialog offers nothing that an older inhibition forbids.
THEOREM InhibitionsHold == Spec => []InhibitedNotOffered
<1>1. ShutdownInv => InhibitedNotOffered
  BY DEF ShutdownInv, StoreFits
<1> QED
  BY <1>1, ShutdownInvariance, PTL

\* The machine goes down for nothing but what was asked for last.
THEOREM OnlyAsAsked == Spec => NothingUnasked
<1> DEFINE A == /\ machine = "on" /\ machine' \in {"off", "restarting"}
                /\ mstate = "SHUTDOWNPHASE2" /\ ~unprompted
                => asked \in Downs /\ wish' = (IF asked = "SHUTDOWN" THEN "off" ELSE "on")
<1>1. ShutdownInv /\ [Next]_vars => [A]_vars
  <2> SUFFICES ASSUME ShutdownInv, Next, machine = "on", machine' \in {"off", "restarting"},
                      mstate = "SHUTDOWNPHASE2", ~unprompted
               PROVE  asked \in Downs /\ wish' = (IF asked = "SHUTDOWN" THEN "off" ELSE "on")
    OBVIOUS
  <2>1. NameLost
    BY NextIs, QuietKeeps, MachineKeeps DEF Keeps
  <2> QED
    BY <2>1, NameLostKeeps DEF ShutdownInv, RequestFits
<1> QED
  BY <1>1, ShutdownInvariance, PTL DEF Spec, NothingUnasked

\* What the machine does is what the hooks that ran are for.
THEOREM HooksAreRight == Spec => HooksMatch
<1> DEFINE A == /\ Goes("asleep") => \E t \in Sleeps : ran' = Launches(t)
                /\ Goes("off") => ran' = Launches("SHUTDOWN")
                /\ Goes("restarting") => \E t \in Downs : ran' = Launches(t)
<1>1. ShutdownInv /\ [Next]_vars => [A]_vars
  <2> SUFFICES ASSUME ShutdownInv, Next, machine = "on", machine' # "on" PROVE A
    BY DEF Goes
  <2>1. CASE Quiet
    <3>1. ShutdownInv' /\ machine' = "asleep" /\ shutdownType' \in Sleeps
      BY <2>1, QuietKeeps DEF Keeps
    <3>2. ran' = Launches(shutdownType')
      BY <3>1 DEF ShutdownInv, HooksFit, Sleeps
    <3> QED
      BY <3>1, <3>2 DEF Goes
  <2>2. CASE NameLost
    BY <2>2, NameLostKeeps DEF Goes
  <2> QED
    BY <2>1, <2>2, NextIs, MachineKeeps
<1> QED
  BY <1>1, ShutdownInvariance, PTL DEF Spec, HooksMatch

\* A machine that starts again ends up as it was asked to, unless a trigger was left
\* behind.
THEOREM StartsAsAsked == Spec => EndsAsAsked
<1> DEFINE A == (machine = "off" \/ machine = "restarting") => machine' = wish' \/ leftover
<1>1. ShutdownInv /\ [Next]_vars => [A]_machine
  <2> SUFFICES ASSUME ShutdownInv, [Next]_vars, machine' # machine, machine \in {"off", "restarting"}
               PROVE  machine' = wish' \/ leftover
    OBVIOUS
  <2>1. Next
    BY DEF vars, machineVars
  <2>2. CASE Quiet
    BY <2>2, QuietOnlyWhileOn
  <2> QED
    BY <2>1, <2>2, NextIs, MachineKeeps
<1> QED
  BY <1>1, ShutdownInvariance, PTL DEF Spec, EndsAsAsked
=============================================================================
