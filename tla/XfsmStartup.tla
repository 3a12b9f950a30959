----------------------------- MODULE XfsmStartup -----------------------------
(***************************************************************************)
(* How xfce4-session starts the clients of a saved or failsafe session and *)
(* restarts clients that fail.                                             *)
(*                                                                         *)
(* What the code passes around are XfsmProperties: what is known of one    *)
(* client, whether or not it runs.  They wait in pending_properties, sorted *)
(* by priority; those of the priority group being started are in           *)
(* starting_properties, with a startup timeout and a child watch; those of *)
(* registered clients belong to the client; those that are to come back    *)
(* with the next session are in restart_properties.  The order within a    *)
(* queue, but for the priority groups, makes no difference: queues are     *)
(* sets here.                                                              *)
(*                                                                         *)
(* The saves that XfsmManager models appear as changes of mstate.          *)
(***************************************************************************)
EXTENDS Naturals, FiniteSets

CONSTANTS
  Properties,          \* the XfsmProperties of one run of the session manager
  Priority,            \* the GsmPriority of each
  Broken,              \* those whose restart command cannot be spawned
  Flaky,               \* those whose restart command can be spawned sometimes
  MAX_RESTART_ATTEMPTS

ASSUME PropertiesAssumption ==
  /\ IsFiniteSet(Properties)
  /\ Priority \in [Properties -> Nat]
  /\ Broken \subseteq Properties
  /\ Flaky \subseteq Properties
  /\ MAX_RESTART_ATTEMPTS \in Nat

VARIABLES
  mstate,          \* manager->state
  begun,           \* the idle source of xfsm_manager_restart () has run
  failsafe,        \* manager->failsafe_mode: the failsafe session is started
  hint,            \* the SmRestartStyleHint of each client
  pending,         \* manager->pending_properties
  starting,        \* manager->starting_properties
  running,         \* properties owned by a client in manager->running_clients
  restart,         \* manager->restart_properties
  freed,           \* properties that were freed
  attempts,        \* properties->restart_attempts
  startTimer,      \* those whose startup timeout is armed
  watch,           \* those whose process xfsm_startup_child_watch () watches
  resetTimer,      \* those whose restart attempts will be forgotten
  failsafePending  \* manager->failsafe_clients_pending

queueVars == <<pending, starting, running, restart, freed>>
timerVars == <<startTimer, watch, resetTimer>>
vars == <<mstate, begun, failsafe, hint, queueVars, attempts, timerVars, failsafePending>>

ManagerStates == {"STARTUP", "IDLE", "CHECKPOINT", "SHUTDOWN", "SHUTDOWNPHASE2"}
SavePhases    == {"CHECKPOINT", "SHUTDOWN"}

\* SmRestartNever differs from SmRestartIfRunning only in the session file.
Hints == {"IfRunning", "Anyway", "Immediately"}

Unknown == Properties \ (pending \cup starting \cup running \cup restart \cup freed)

\* xfsm_manager_load_settings (): without a client to start there is no session.
\* The clients of the failsafe session have no restart style hint.
Init ==
  /\ mstate = "STARTUP"
  /\ begun = FALSE
  /\ failsafe \in BOOLEAN
  /\ hint \in IF failsafe THEN {[p \in Properties |-> "IfRunning"]}
                          ELSE [Properties -> Hints]
  /\ pending \in (SUBSET Properties) \ {{}}
  /\ starting = {}
  /\ running = {}
  /\ restart = {}
  /\ freed = {}
  /\ attempts = [p \in Properties |-> 0]
  /\ startTimer = {}
  /\ watch = {}
  /\ resetTimer = {}
  /\ failsafePending = 0

-----------------------------------------------------------------------------
(* Starting and restarting *)

\* S may be what xfsm_startup_start_properties () succeeds to spawn out of T.
Spawned(S, T) ==
  /\ S \subseteq T \ Broken
  /\ T \ (Broken \cup Flaky) \subseteq S

\* The clients of T that ask to be restarted at once.
Eager(T) == {p \in T : hint[p] = "Immediately"}

\* Those of the failed clients T that xfsm_manager_handle_failed_properties ()
\* tries to start again at once: ++restart_attempts is not above the maximum.
Retried(T) == {p \in Eager(T) : attempts[p] < MAX_RESTART_ATTEMPTS}

\* ... those that it keeps for the next session, when it started S again.
Kept(T, S) == {p \in T : hint[p] # "IfRunning"} \ S

\* Mutant: SmRestartAnyway is not looked at.
DroppedAnyway(T) == {p \in T : hint[p] # "Immediately"}

\* ... those that it leaves to its caller to free.
Dropped(T) == {p \in T : hint[p] = "IfRunning"}

\* The restart attempts after T failed.
Counted(T) == [p \in Properties |-> IF p \in Eager(T) THEN attempts[p] + 1 ELSE attempts[p]]

\* Mutant: nothing is cancelled.
OnlyArmed(armed, S, T) == armed \cup T

\* The startup timeouts, or child watches, "armed", when the clients S are not
\* starting any more and the clients T were spawned.
Rearmed(armed, S, T) == (armed \ S) \cup T

\* Mutant: the priority of a client is not compared with that of the group.
EveryGroup(T, pend) == pend

\* The clients of pend in the first priority group that has one of T in it, and
\* in the groups before; all of them if T is empty.
GroupsUpTo(T, pend) == {p \in pend : \A q \in T : Priority[p] <= Priority[q]}

\* xfsm_startup_session_continue (), entered when nothing is starting any more.
\* The clients pend are still to be started, the clients dead were the last to
\* fail, the clients gone the last to be freed, and n is the count of failsafe
\* clients.  It goes through the priority groups until something was spawned (T1
\* at the first try); when nothing was, startup is over, whatever handling the
\* failures has started (T2).
SessionContinue(pend, dead, gone, n) ==
  \E T1 \in SUBSET pend : \E T2 \in SUBSET pend :
    LET tried   == GroupsUpTo(T1, pend)
        started == tried \cap T1
        failed  == tried \ T1
    IN /\ Spawned(T1, pend)
       /\ Spawned(T2, Retried(failed))
       /\ pending' = pend \ tried
       /\ starting' = started \cup T2
       /\ startTimer' = Rearmed(startTimer, starting, started \cup T2)
       /\ watch' = Rearmed(watch, starting, started \cup T2)
       /\ restart' = restart \cup Kept(dead \cup failed, T2)
       /\ freed' = freed \cup gone \cup Dropped(dead \cup failed)
       /\ attempts' = Counted(dead \cup failed)
       /\ failsafePending' = IF failsafe THEN n + Cardinality(tried) ELSE n
       /\ mstate' = IF started = {} THEN "IDLE" ELSE "STARTUP"

\* The idle source of xfsm_manager_restart (): xfsm_startup_begin ()
Begin ==
  /\ ~begun
  /\ begun' = TRUE
  /\ SessionContinue(pending, {}, {}, failsafePending)
  /\ UNCHANGED <<failsafe, hint, running, resetTimer>>

\* xfsm_manager_handle_failed_properties (): p may be started again at once.
Fail(p, again) ==
  /\ Spawned(again, Retried({p}))
  /\ starting' = (starting \ {p}) \cup again
  /\ startTimer' = Rearmed(startTimer, {p}, again)
  /\ watch' = Rearmed(watch, {p}, again)
  /\ restart' = restart \cup Kept({p}, again)
  /\ freed' = freed \cup Dropped({p})
  /\ attempts' = Counted({p})
  /\ UNCHANGED <<mstate, pending, failsafePending>>

\* Mutant: the last client of a group to fail does not let startup go on.
FailOnly(p) ==
  /\ \E again \in SUBSET {p} : Fail(p, again)
  /\ UNCHANGED <<begun, failsafe, hint, running, resetTimer>>

\* xfsm_startup_handle_failed_startup (): the last client of a group that fails
\* for good lets startup go on.
HandleFailedStartup(p) ==
  /\ \/ \E again \in SUBSET {p} :
          /\ starting # {p} \/ again # {} \/ mstate # "STARTUP"
          /\ Fail(p, again)
     \/ /\ starting = {p} /\ mstate = "STARTUP"
        /\ Spawned({}, Retried({p}))
        /\ SessionContinue(pending, {p}, {}, failsafePending)
  /\ UNCHANGED <<begun, failsafe, hint, running, resetTimer>>

\* xfsm_startup_timeout ()
StartupTimeout(p) == p \in startTimer /\ HandleFailedStartup(p)

\* The process exits before its client is done starting: xfsm_startup_child_watch ()
ChildExits(p) == p \in watch /\ HandleFailedStartup(p)

-----------------------------------------------------------------------------
(* Clients come and go *)

\* Mutant: the attempts are never forgotten.
ForgetNever(p) == resetTimer

\* xfsm_manager_handle_old_client_reregister (): the attempts of a client that was
\* restarted will be forgotten if it stays for RESTART_RESET_TIMEOUT.
ForgetLater(p) == IF attempts[p] > 0 THEN resetTimer \cup {p} ELSE resetTimer

\* The end of xfsm_manager_register_client (), p being the client that registered.
\* During startup it may have been the last one that was waited for.  In failsafe
\* mode, where the clients do not know their ids, any client counts as one of those
\* being started, and the last one clears the starting queue.
Registered(p, known) ==
  LET counts  == mstate = "STARTUP" /\ (known \/ failsafe)
      n       == IF counts /\ failsafe THEN failsafePending - 1 ELSE failsafePending
      cleared == IF counts /\ failsafe /\ n = 0 THEN starting \ {p} ELSE {}
      left    == starting \ ({p} \cup cleared)
  IN \/ /\ counts /\ left = {}
        /\ SessionContinue(pending \ {p}, {}, cleared, n)
     \/ /\ ~counts \/ left # {}
        /\ pending' = pending \ {p}
        /\ starting' = left
        /\ startTimer' = Rearmed(startTimer, {p} \cup cleared, {})
        /\ watch' = Rearmed(watch, {p} \cup cleared, {})
        /\ freed' = freed \cup cleared
        /\ failsafePending' = n
        /\ UNCHANGED <<mstate, restart, attempts>>

\* A client registers with the id of properties that are starting, or should have
\* been started later.  Of a failsafe session only restarted clients know theirs.
RegisterKnown(p) ==
  /\ begun /\ p \in starting \cup pending
  /\ failsafe => attempts[p] > 0
  /\ running' = running \cup {p}
  /\ resetTimer' = ForgetLater(p)
  /\ Registered(p, TRUE)
  /\ UNCHANGED <<begun, failsafe, hint>>

\* A client registers that was unknown so far; it gets properties of its own.
RegisterNew(p) ==
  /\ begun /\ p \in Unknown
  /\ running' = running \cup {p}
  /\ Registered(p, FALSE)
  /\ UNCHANGED <<begun, failsafe, hint, resetTimer>>

\* A running client changes its restart style.
SetRestartStyle(p, h) ==
  /\ p \in running /\ hint[p] # h
  /\ hint' = [hint EXCEPT ![p] = h]
  /\ UNCHANGED <<mstate, begun, failsafe, queueVars, attempts, timerVars, failsafePending>>

\* xfsm_manager_close_connection (): a client that goes during a save is freed
\* with its properties; while the session dies it stays in the list.
ClientGone(p) ==
  /\ p \in running
  /\ running' = running \ {p}
  /\ resetTimer' = resetTimer \ {p}
  /\ \/ /\ mstate \in {"STARTUP", "IDLE"}
        /\ \E again \in SUBSET {p} : Fail(p, again)
     \/ /\ mstate \in SavePhases
        /\ freed' = freed \cup {p}
        /\ UNCHANGED <<mstate, pending, starting, restart, attempts,
                       startTimer, watch, failsafePending>>
  /\ UNCHANGED <<begun, failsafe, hint>>

\* xfsm_manager_reset_restart_attempts ()
ResetAttempts(p) ==
  /\ p \in resetTimer
  /\ attempts' = [attempts EXCEPT ![p] = 0]
  /\ resetTimer' = resetTimer \ {p}
  /\ UNCHANGED <<mstate, begun, failsafe, hint, queueVars, startTimer, watch, failsafePending>>

\* xfsm_manager_save_yourself_global () starts a save, or starts it over;
\* xfsm_manager_interact_done () turns a shutdown into a checkpoint.
SaveBegins ==
  /\ mstate # "STARTUP"
  /\ mstate' \in SavePhases
  /\ UNCHANGED <<begun, failsafe, hint, queueVars, attempts, timerVars, failsafePending>>

\* xfsm_manager_complete_saveyourself ()
SaveEnds ==
  /\ \/ mstate = "CHECKPOINT" /\ mstate' = "IDLE"
     \/ mstate = "SHUTDOWN" /\ mstate' = "SHUTDOWNPHASE2"
  /\ UNCHANGED <<begun, failsafe, hint, queueVars, attempts, timerVars, failsafePending>>

Next ==
  \/ Begin
  \/ SaveBegins
  \/ SaveEnds
  \/ \E p \in Properties :
       \/ StartupTimeout(p)
       \/ ChildExits(p)
       \/ RegisterKnown(p)
       \/ RegisterNew(p)
       \/ \E h \in Hints : SetRestartStyle(p, h)
       \/ ClientGone(p)
       \/ ResetAttempts(p)

Spec == Init /\ [][Next]_vars

\* The main loop runs the idle source and the startup timeouts.
FairSpec == Spec /\ WF_vars(Begin) /\ \A p \in Properties : WF_vars(StartupTimeout(p))

-----------------------------------------------------------------------------
(* What startup promises *)

\* Every variable has its type; no client is tried more often than it may be.
TypeOK ==
  /\ mstate \in ManagerStates
  /\ begun \in BOOLEAN /\ failsafe \in BOOLEAN
  /\ hint \in [Properties -> Hints]
  /\ pending \cup starting \cup running \cup restart \cup freed \subseteq Properties
  /\ attempts \in [Properties -> 0 .. MAX_RESTART_ATTEMPTS + 1]
  /\ failsafePending \in Nat

\* Every properties object has one owner at most: no queue holds what another
\* queue, or a client, may free.
OneOwner ==
  /\ pending \cap (starting \cup running \cup restart \cup freed) = {}
  /\ starting \cap (running \cup restart \cup freed) = {}
  /\ running \cap (restart \cup freed) = {}
  /\ restart \cap freed = {}

\* The startup timeout and the child watch, whose callbacks use the properties, are
\* armed exactly while the client is starting, however it got there and left.
TimersFollowQueue == startTimer = starting /\ watch = starting

\* The attempts of a client are forgotten by a timer that runs exactly while a
\* client that was restarted runs; a client out of attempts is not started again.
AttemptsFollowClient ==
  /\ resetTimer = {p \in running : attempts[p] > 0}
  /\ \A p \in Properties : attempts[p] > MAX_RESTART_ATTEMPTS => p \in restart \cup freed

\* Startup never stalls: until it is over it waits for a client.
StartupWaitsForSomeone == mstate = "STARTUP" /\ begun => starting # {}

\* A client that asked to be restarted is lost only when it goes during a save, or
\* when a failsafe session clears its starting queue.
RestartableKept ==
  [][\A p \in Properties \ freed : p \in freed' /\ hint[p] # "IfRunning" =>
       mstate \in SavePhases \/ failsafe]_vars

\* A priority group is only started, and startup only over, when the group before
\* it has left the starting queue.  Only a client that was spawned at the second try
\* within one step, when its failure was handled, is not waited for.
GroupsInOrder ==
  [][LET launched == {p \in pending \cap starting' : attempts'[p] = attempts[p]} IN
     /\ launched # {} => starting \cap starting' = {}
     /\ \A p, q \in launched : Priority[p] = Priority[q]
     /\ \A p \in launched, q \in pending' : Priority[p] < Priority[q]
     /\ mstate = "STARTUP" /\ mstate' = "IDLE" => starting' \subseteq pending]_vars

\* Startup ends, however many clients fail, hang or keep coming back; unless some
\* client crashes again and again, each time after five good minutes.
StartupEnds ==
  \/ []<><<\E p \in Properties : ResetAttempts(p)>>_vars
  \/ mstate = "STARTUP" ~> mstate # "STARTUP"
=============================================================================
