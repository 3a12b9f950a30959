# A verification project for xfce4-session

TLA+ models of the Xfce session manager, checked with TLC, and theorems about
them, proved with TLAPS. Paths below are relative to the source tree.

## The system

`xfce4-session` is one process with one GLib main loop. It starts the clients
of a session, keeps a list of them, and takes them through checkpoints and the
logout. Clients talk to it over XSMP (libSM on ICE connections) or over D-Bus;
a small library, `libxfce4session-client`, implements the client's side of both,
and of the Wayland session management protocol.

| Component | Where | State it keeps | Operations |
|---|---|---|---|
| Session manager core | `xfce4-session/xfsm-manager.c` | state (STARTUP, IDLE, CHECKPOINT, SHUTDOWN, SHUTDOWNPHASE2), queues of clients and properties, shutdown type, save idle source, die timer | register, save yourself (local, global), interact, phase 2, done, close; D-Bus Checkpoint, Logout and the shutdowns; timeouts |
| Client objects | `xfsm-client.c` | client state, properties, `dbus_save_requested`, D-Bus skeletons | answers and property changes over D-Bus |
| XSMP and ICE transport | `sm-layer.c`, `ice-layer.c` | connections, watches | callbacks of libSM, loss of a connection |
| Session startup | `xfsm-startup.c` | none of its own: the manager's queues, timers and watches in the properties | priority groups, spawn, child watch, startup timeout |
| Client properties | `xfsm-properties.c` | restart command, hints, attempts, process, timers | store, load, compare, free |
| Logout dialog | `xfsm-logout-dialog.c`, `xfsm-fadeout.c` | the one dialog that is shown | ask the user, in a nested main loop |
| Manager process | `main.c` | the bus name, the manager | acquire, load, quit, shut down |
| Shutdown methods | `xfsm-shutdown*.c`, `xfsm-systemd.c`, `xfsm-consolekit.c`, `xfsm-packagekit.c` | proxies, cached capabilities, the update trigger | shutdown, restart, suspend, hibernate, switch user |
| Inhibitions | `xfsm-inhibition.c` and the store in the manager | cookies and flags | add, remove, ask for flags |
| Legacy session management | `xfsm-legacy.c` | X11 windows and their WM_COMMANDs | store, save, restart |
| Chooser, global helpers, compatibility | `xfsm-chooser.c`, `xfsm-global.c`, `xfsm-compat-*.c`, `xfsm-dns.c` | little | widgets, one-shot commands |
| Client library | `libxfce4session-client/*`: front end, XSMP, D-Bus and Wayland backends | state of the client, connection, reconnect timer, properties, names of windows | register, save, interact, quit, reconnect, replace, discard, add and remove windows |
| Settings, command line, scripts | `settings`, `xfce4-session-logout`, `xfsm-shutdown-helper`, `scripts` | autostart model | dialogs and single calls |

How they interact: the transports and the D-Bus skeletons call
`xfsm_manager_*()` handlers; handlers change the state of the client they are
called for, may drop it, may finish a save for everybody
(`xfsm_manager_complete_saveyourself`), and emit messages to clients. Startup
and the manager share the queues of properties. A handler runs to its end before
the next one, but for two places that suspend a request: the idle source behind
a D-Bus call, and the logout dialog's nested main loop.

What is hard, and where the properties are aimed:

- *Interleaving of handlers.* Every client may at any time answer, ask, vanish
  or time out, and the last event of a save, whichever it is, must end it.
- *Checks that are stale when used.* The manager's state is looked at when a
  request arrives and the save starts from an idle source or after a dialog.
- *Timers.* Eight paths start, stop or replace a save timer; the die timer, the
  startup timeout and the reset of restart attempts follow objects that other
  handlers move and free.
- *Ownership.* Properties pass between four queues, a client and the heap.
- *Partial failure.* A client that cannot be spawned, or that fails in the middle
  of a group, a save, or a turn to interact.

- *Two processes that see the same events in another order.* A client and the
  manager say things that cross, a client is replaced by another with its id, the
  manager or a compositor goes away and comes back, and a handler of the
  application runs the main loop while all of it happens.
- *What outlives a process.* The session file, the states that clients keep on
  disk, the names a compositor remembers and the update trigger are read by
  whoever comes next.

`PROJECT.json` lists all of these at their lines under "hazards", also the ones
no property covers.

What makes the components correct, in a sentence each: the manager never hangs a
save or a logout on a client that will not answer, keeps one interacting client
at a time, and leaves no trace of a save behind; startup waits for each priority
group, never forever, and neither loses nor shares properties; the session file
refers only to states that exist; the client library answers each request once,
ends in the state the manager thinks it is in, and comes back when the manager
does; the names of windows are the same on both sides; and the machine does what
was asked for last, and nothing else.

## Modules

| Module | What it models |
|---|---|
| `XfsmManager` | clients, requests and saves: `xfsm-manager.c`, the state of `xfsm-client.c`, the transports and the dialog |
| `SessionEnd` | what `XfsmManager` promises of checkpoints and logouts: the abstract specification it implements |
| `XfsmStartup` | queues of properties, startup, restarts: `xfsm-startup.c` and the rest of `xfsm-manager.c` |
| `SessionFile` | loading, storing, choosing and discarding sessions and the states of clients, over any number of sessions |
| `XsmpClient` | the XSMP backend of the client library, under a session manager that may say anything |
| `XsmpSession` | `XsmpClient` and `XfsmManager` at the two ends of FIFO connections |
| `DbusClient` | the D-Bus backend of the library and the registry of the manager |
| `WaylandWindows` | the Wayland backend with its table of surfaces, between an application and a compositor |
| `Shutdown` | requests, dialog, inhibitions, run hooks, updates and the methods that end or suspend the machine |
| `XfsmManagerProofs`, `XfsmStartupProofs`, `SessionFileProofs`, `XsmpClientProofs`, `XsmpSessionProofs`, `DbusClientProofs`, `WaylandWindowsProofs`, `ShutdownProofs` | inductive invariants and theorems |
| `MC*` | the instances for TLC |

The modules overlap at named places: what one of them treats in full another
reduces to a choice. `XfsmManager` leaves startup and properties open;
`XfsmStartup` and `SessionFile` reduce a save to its beginning and end;
`Shutdown` reduces it to under way, cancelled or over; `DbusClient` lets the
manager ask in any order. `XsmpSession` closes the loop for XSMP: there every
handler of `XfsmManager` runs because a message of the library arrived, and what
the handler says is what the library serves next.

### XfsmManager

| Variable | Code |
|---|---|
| `mstate` | `manager->state` |
| `running` | `manager->running_clients`, in order (the order decides who interacts next) |
| `cstate`, `saveReq` | `client->state`, `dbus_save_requested` |
| `conn` | the ICE connection of an XSMP client; `orphaned` if the client object was dropped and the connection left open |
| `timer` | clients with `--save-timeout-id` armed |
| `queried` | D-Bus clients that were sent QueryEndSession and owe an answer |
| `idle` | the request behind `manager->save_idle_id` |
| `dialog` | the request suspended in `xfsm_logout_dialog()` |
| `shutdownType`, `saveSession`, `ckptNamed`, `dieTimer` | the fields of the same meaning |
| `stored` | which group of the session file the current save wrote |
| `quit` | `manager-quit` was emitted; `main.c` releases the manager there and then |

One action per handler, named after it. What handlers share is an operator that
takes the list and the states the caller leaves behind:
`CompleteSaveYourself`, `CloseConnection`, `BeginSave`, `SaveYourselfGlobal`.
The three kinds of clients differ as in the code: only XSMP clients interact and
wait for phase 2, `RegisterClient` clients cannot save state, `RegisterClient2`
clients answer a saved logout twice.

Abstractions. RESTART behaves as SHUTDOWN, and HIBERNATE, HYBRID_SLEEP and
SWITCH_USER as SUSPEND. A client is its id; properties are left to `XfsmStartup`,
and so is when startup ends, which is a choice here. The `is_ok` of an answer is
ignored, as the code ignores it. `Terminate` and the property methods change
nothing that is modelled. What happens to memory after `quit` is not modelled.
Settings that decide whether to save or to ask are free choices of each request.

### SessionEnd

A save is over with the last answer, no sooner and no later; clients that wait
for phase 2 are asked again together once nobody owes the first part; a logout
that is over dooms the session, which ends when the last client has gone or the
time is up. `Implements` in `XfsmManager` is the refinement mapping: `phase` is
`mstate` with STARTUP and IDLE put together, `owing` the clients in a state that
somebody waits for, `later` those in WAITFORPHASE2, `gone` those in DISCONNECTED,
`doomed` the die timer. It is checked as a property of the run `save` and proved
for all clients in `XfsmManagerProofs`, if no client registers the id of another
(a replaced client leaves a save waiting for nobody, see below).

### XfsmStartup

| Variable | Code |
|---|---|
| `pending`, `starting`, `restart` | the queues of the same names; as sets, since only priorities order them |
| `running`, `freed` | properties owned by a registered client; freed ones |
| `hint`, `attempts` | `SmRestartStyleHint`, `restart_attempts` |
| `startTimer`, `watch`, `resetTimer` | `startup_timeout_id`, `child_watch_id`, `restart_attempts_reset_id` |
| `failsafe`, `failsafePending` | `failsafe_mode`, `failsafe_clients_pending` |
| `begun` | the idle source of `xfsm_manager_restart()` has run |
| `mstate` | `manager->state`; saves are two actions that stand for `XfsmManager` |

`SessionContinue` is the loop of `xfsm_startup_session_continue()` in one
formula: it names the clients whose spawn succeeds at the first try, takes the
groups up to the first that has one of them, and handles the failures among
those. Whether a command can be spawned is a property of the client (`Broken`) or
a choice each time (`Flaky`). A properties object that was freed is never used
again, so the number of clients that register is bounded by `Properties`. A
client does not register before the startup idle source runs: nothing forbids it
in the code, but the source is queued before the main loop serves its first
client.

### SessionFile

| Variable | Code |
|---|---|
| `mstate`, `leaving`, `saveSession`, `saving` | the manager as far as saves matter; `OFF` between two sessions |
| `file` | the session file: by name, by client, the properties stored |
| `confName`, `sessionName`, `checkpointName` | SessionName in xfconf, and the fields of the manager |
| `idle` | the idle source of a Checkpoint |
| `owner`, `props` | the queue that the properties of a client are in; the tree of `xfsm-properties.c` |
| `disk` | the states that clients have saved for themselves, removed by discard commands |
| `broken` | clients whose state was missing when their session was loaded |
| `saved` | the logout has written the file |

A property is its name and what it refers to: a restart command needs, and a
discard command removes, one state. Setting a property replaces its subtree;
a new discard command of an XSMP client runs the old one. A client saves its state
while the manager waits for it, and changes its properties otherwise only while
the manager is idle. The manager may be killed at any time.

### XsmpClient and XsmpSession

| Variable | Code |
|---|---|
| `state` | `priv->state` of the library |
| `link`, `hasId` | `session_connection`, and whether it is being opened; `client_id` |
| `frames` | handlers of the application that run the main loop, innermost first |
| `needsSave`, `cancelled` | `needs_save_state`, `shutdown_cancelled` |
| `wanted`, `reconnect` | not `disconnect_requested`; `auto_reconnect_id` |
| `agreed` | what the application believes: that it let this session end |
| `toManager`, `toClient` | messages on the way |

A callback of libSM up to the handler it emits is one action, what follows the
return of the handler another (`HandlerReturns`), and other messages are served in
between, as a dialog that runs the main loop does. In `XsmpClient` the manager is
any manager; in `XsmpSession` it is `XfsmManager`, and `Says` derives the messages
of a handler from the states it leaves. A connection is a FIFO queue in each
direction; when it breaks, both queues are lost and each end finds out on its own.
`Orderly` restricts when a client asks for a logout and registers; without it a
request that crosses a save gets its client dropped (seen on the way).

### DbusClient

| Variable | Code |
|---|---|
| `up`, `objs` | the manager owns its name; the client objects it exports by path, with the id, the question that is open, and the properties to restart by |
| `alive`, `state`, `path`, `id` | the process; `priv->state`, `client_object_path`, `client_id` |
| `style`, `stateFile` | `restart_style`; the id in the name of `state_file` |
| `wanted`, `timer` | not `disconnect_requested`; `auto_reconnect_id` |
| `frames`, `cancelled` | handlers that run the main loop, with the object they will answer; `shutdown_cancelled` |
| `mail` | signals on the way to an application |

A method call blocks its caller, so the call and its execution are one step, but
connecting takes two: RegisterClient2 is answered before the proxies subscribe. A
signal reaches whoever is subscribed when it is sent. Processes crash, are started
with the same id, and the manager may vanish and be back. Paths and ids are used
again as soon as nobody remembers them.

### WaylandWindows

`shown` and `tables` are GTK and `xfce-session-client-wl-surface-tracker.c`;
`manager` to `call`, `toplevels` and `queued` are the fields of
`xfce-session-client-wl-xdg.c` and its parent class (`call` is the `connect()` that
blocks in a roundtrip); `store`, `granted` and `inert` are the compositor, external
code that is modelled from the requests the library makes and the protocol it
relies on; `kept` is the application, which follows the documentation of
`xfce_session_client_add_window()` and never uses a name for two windows.

### Shutdown

`mstate`, `idle`, `dialog`, `shutdownType` and `inhibitions` are the fields of the
manager, `offered` the sensitive buttons of the dialog, `machine`, `locked`,
`update` and `trigger` what the system keeps (external), and `ran` the hooks that
were run last. `system` holds what does not change: which of the backends
answers, what it allows, the kiosk and lock settings. `asked`, `held`, `before`,
`unprompted`, `wish` and `leftover` remember what was asked for, for the
properties. The methods are tried as `xfsm-shutdown.c` tries them: the update
trigger first, then systemd or ConsoleKit, then the helper.

## Runs

| Run | Instance | Distinct states | Question |
|---|---|---|---|
| `save` | two interactive XSMP clients, one client of each D-Bus kind, logout or checkpoint | 78,966 | do saves of clients that interact, wait for phase 2, answer twice, vanish or time out stay consistent, end with the last client, and keep the promise of `SessionEnd`? |
| `requests` | an XSMP client that asks for global saves, an xterm, a D-Bus client that reuses ids; dialog, logout and suspend; failsafe mode | 616,666 | what if requests, idle sources, dialogs and replaced clients run into one another? |
| `live` | one interactive XSMP client and one RegisterClient2 client, fair | 19,468 | does every save and every dying session end? |
| `start` | four properties in two priority groups, one broken and one flaky; fair | 432,638 | does startup wait for the right clients, end, and keep ownership and timers straight? |
| `files` | an XSMP client that saves in two places, a D-Bus client; two session names, chooser and failsafe session | 3,435,964 | does what is stored exist, is it complete, and is nothing else written over? |
| `library` | one application with all signals and nested handlers, any manager | 60,622 | do states, handlers, cancellations and the reconnect timer of the library fit together? |
| `xsmp` | two applications and the manager; one asks for logouts, one may be slow, leave or lose its connection; fair | 113,712 | do the two ends agree, is nobody dropped, told to quit unasked, or left frozen, and does every save end without timers? |
| `dbus` | two applications, one id given at start, four paths; fair | 329,846 | is the registry right through replacements and restarts, do properties arrive, and does everybody come back and answer? |
| `wayland` | two windows, two names, two sessions, four addresses; symmetric | 525,412 | do the library and the compositor agree on the names, whatever happens while there is no connection? |
| `shutdown` | four systems, five hooks, two overlapping inhibitions, updates | 128,063 | does the machine do what was asked for, with the right hooks, and what the dialog offers respect inhibitions? |

The type invariants are proved rather than run.

Bounds. Two clients are enough for every hazard of a save in which one client acts
while another is waited for; the third and fourth are there for the kinds.
Requests are unbounded: each kind can be outstanding once, as in the code.
`MAX_RESTART_ATTEMPTS` is 1 instead of 5: the comparison matters, not the
distance. Two priority groups are enough for "the group before". In `files` two
places are what an old and a new discard command need, properties other than those
of a saved state change only while the manager is idle, and the hint that can be set
is Immediately. `MaxFrames` (2 for XSMP, so that a handler runs below
another; 1 on D-Bus, where deeper nesting only repeats the state of the frame) and
`MaxQueue` and `MaxMail` bound what is suspended and in transit; a bound is a
guard of whoever adds to the queue. In `wayland`, `MaxRetries` bounds the
recursion of `connect()` that the run `ReconnectsOnce` shows to be unbounded;
removals that cross the event `replaced` are left out, a takeover or a restart of
the compositor happens with nothing queued, and sessions are discarded while
connected (`DiscardsOffline` is FALSE, see below). In `shutdown` the four systems are: systemd with everything, the same
without lock, prompt and greeter, the same with a kiosk that denies, and ConsoleKit
that does not answer; cookies are all different, and `allow_save`, the logout
command of Wayland sessions and screenshots are left out.

None of the systems runs forever (a session quits, or stays idle without
clients), so deadlock is not checked.

Fairness. Timers and idle sources are sources of the main loop, and fire:
`SaveTimeout`, `DieTimeout`, `SaveIdle`, `Begin`, `StartupTimeout`, `TryReconnect`.
The user ends an interaction (`InteractDone` while INTERACTING); nothing in the
code bounds it. `SaveTimeout` needs strong fairness, since a client that asks to
interact or for phase 2 stops its timer: it says that no client does so forever.
`SaveEnds` is checked without two interacting clients and without reused ids,
because with them it does not hold (see below). `StartupEnds` leaves out the one
way startup can go on forever, a client that crashes after each five good minutes.
In `xsmp` the save timers are not fair: applications that serve their connection
and return from their handlers must end every save on their own, but for `Stuck`,
the known hang. In `dbus` the main loop of an application runs, its handlers
return and the bus reports dead processes; `ComesBack` asks this only if the
manager stays in the end.

### Findings

Two runs check a statement of the code's own comments, and TLC finds a behaviour of
the code that contradicts it. The texts are quoted in `PROJECT.json`.

| Run | What happens |
|---|---|
| `CancelReachesEveryone` | the loop that undoes a logout another client cancelled acts on the client that cancelled instead of the others: clients go on waiting to interact, and D-Bus clients do not hear that the query is taken back |
| `ReconnectsOnce` | a `connect()` to the compositor that is told *replaced* tries again from inside, and the guard against doing so twice is reset on the way |

Seen on the way, in the models or while reading, without a run of their own. In the
manager (`xfsm-manager.c`):

- a client waits to interact while nobody does, because the one that did has
  vanished; its timer is stopped, and the logout hangs (`Stuck` in `XsmpSession`)
- the end of a checkpoint makes a client idle that is saving locally and leaves its
  timer armed; it is dropped later
- a client the save waits for is replaced by one with its id, and nobody ends the
  save (hence `Reusers = {}` for `SaveWaitsForSomeone` and `Implements`)
- a fast shutdown that a client asks for, or the loss of the bus, performs the type
  of an earlier, cancelled request (`unprompted` in `Shutdown`); a dialog answered
  Suspend while a shutdown is saved changes the type of that shutdown
- the name given with Checkpoint is used up by another save before its own starts,
  or left over when the file cannot be written
- a failsafe client that fails to start spoils the count of later groups; the
  properties of a client that is being restarted are freed with those of the
  failsafe clients
- a request whose idle source or dialog finishes late starts a save in whatever state
  the manager is in by then; two overlapping saves show two dialogs and drop clients
- a client that is being restarted while the session is saved is missing from the
  session file; so is one that starts at that moment
- a client that waits to interact when its logout is cancelled hears of the end of the
  logout, answers, is given its turn to interact all the same, and is dropped for its
  answer if that arrives later (lines 1262 to 1291; `Misled` in `XsmpSession`, which
  `NeverDropped` excepts; it takes three clients)
- an application that agreed to quit is not told that another one cancelled
- with a command that cannot be spawned at the first try and can at the second, the
  next priority group does not wait for it (`GroupsInOrder` excepts just that)
- a client with hint IfRunning that exits after a checkpoint, or before the first save
  of a loaded session, has its state discarded although the stored session lists it
  (lines 422 to 438; `SavedSessionIsWhole` is about saved logouts)
- inhibitions only take buttons off the dialog: requests on the bus and unprompted
  logouts end an inhibited session, and an inhibition stays when its owner leaves

In the client library:

- a save-state handler that is suspended while the manager vanishes sets IDLE or
  FROZEN when it returns, and the reconnect timer gives up (`Stranded` in
  `DbusClient`)
- Replaced is lost when it is sent between the reply of RegisterClient2 and the
  subscription; the application believes that it is connected
- `get_state_file()` keeps the name made of the first id after the id has changed;
  `set_initial_properties()` deletes nothing that an earlier holder of the id has set
- a handler that outlives its connection answers on the next one
- `set_auto_reconnect_interval (-1)` leaves an armed timer alone; `is_ok` and the
  answer to a cancelled query are not sent as documented
- removals of windows that are queued without a connection are lost at exit, and
  cleared by `discard()`, while the compositor keeps the names

In the shutdown methods: the trigger for updates is left behind when the restart
fails (`leftover`), the exit status of `pkexec` is ignored, the helper has no
hybrid sleep, hooks run before a shutdown can still fail, and the sleeping methods
do not look at the kiosk settings themselves.

## Proofs

Each proof module EXTENDS the module it is about, states an inductive invariant,
has a lemma per action or per operator that actions share, and derives the
properties from it. The constants are arbitrary, within the ASSUMEs of the module:
any number of clients, windows, hooks, names and paths, and any bounds.

`XfsmManagerProofs`. The safety properties are not inductive: that a busy client has
a timer says nothing of a client outside the list, and a save that waits for
somebody needs to know that whoever waits is in the list. `IInv` therefore relates
the list, the states, the timers and the connections (`ClientsOK`,
`ConnectionsOK`), says in which manager state which client state may occur, for
which kind of client (a D-Bus client never interacts), and ties the marks of the
second round, the stored group and the die timer to the phase (`FlagsOK`,
`SessionOK`, `RequestsOK`). All rests on what `RemoveFirst` and `Append` do to a list
without repetitions.

| Theorem | Property |
|---|---|
| `Invariance`, `TypeCorrect`, `ListStaysConsistent` | `IInv`, `TypeOK`, `ListConsistent` |
| `SavesAreTimed` | `SaveTimerArmed`: no save depends on a client without a timer, unless it interacts or waits |
| `OneAtATime` | `OneInteracting` |
| `NoSaveLeftOver`, `SecondRoundEnds` | `NoSaveOutsideSave`, `SaveRequestedOnlySaving` |
| `DyingIsTimed`, `StoredAsAsked` | `DiePhaseBounded`, `StoredAsAllowed` |
| `SaveNeverHangs` | `SaveWaitsForSomeone`, if no client registers an id already running |
| `PhaseTwoWaits` | the action property `PhaseTwoBarrier` |
| `LastClientIsEnough` | `LastClientEndsSession`, if everyone takes part in a save or no request is ever suspended |
| `ManagerKeepsPromise` | the refinement `Implements`, if no client registers an id already running |
| `PromiseWaits` | `SomeoneOwes` of `SessionEnd` |

`LastClientIsEnough` rests on `DyingOK`: while a session dies somebody is left to wait
for, and only then is a client DISCONNECTED. This needs one of two hypotheses.
`EveryoneSaves`: there are no RegisterClient clients and no xterms, so a save asks
everybody. `RequestsWait`: no request is suspended while another is carried out, as none
comes from a client or shows the dialog. Without either it is false: a request that was
suspended restarts the save of a session that is already dying, a D-Bus client that has
gone keeps its state, and the session waits for the die timer.

The refinement. In `ManagerKeepsPromise` initial states map to initial states, and each action of `XfsmManager` to one action of
`SessionEnd` or to a stutter. The mapping needs `IInv`, `SaveWaitsForSomeone`, and
one more fact, `GoneOK`, about when a client may be DISCONNECTED; `RInv` is their
conjunction. `PromiseWaits` proves `SomeoneOwes` of `SessionEnd` itself.

`XfsmStartupProofs`. `StartupInv` adds to the properties that nothing is starting
before the idle source has run, that a client nobody heard of has no attempts behind
it, and that in failsafe mode the count of clients is positive until it clears the
starting queue. `ContinueKeeps` carries most of the proof: whatever
`xfsm_startup_session_continue()` spawns, if its caller accounts for all clients that
were starting, the queues, timers and attempts fit together again.

| Theorem | Property |
|---|---|
| `StartupTypeCorrect` | `TypeOK`, with the bound on restart attempts |
| `OwnedOnce` | `OneOwner` |
| `TimersAreRight` | `TimersFollowQueue` |
| `AttemptsAreRight` | `AttemptsFollowClient` |
| `StartupNeverStalls` | `StartupWaitsForSomeone` |
| `RestartableIsKept` | the action property `RestartableKept` |
| `GroupsComeInOrder` | the action property `GroupsInOrder` |

`SessionFileProofs`. `FileInv` adds to the properties which queues may be filled in
which state of the manager (`QueuesFit`), and how the stored session relates to the
properties while the session dies and until the next start (`SavedFits`): a client that has
stored may only be removed in ways that keep its state.

| Theorem | Property |
|---|---|
| `FileInvariance`, `FileTypeCorrect` | `FileInv`, `TypeOK` |
| `HeldIsThere` | `HeldStateExists` |
| `SavedIsWhole`, `SavedIsComplete` | `SavedSessionIsWhole`, `SavedSessionIsComplete` |
| `OthersAreKept` | the action property `OtherSessionsKept` |

`XsmpClientProofs`. The invariant ties the state of the library to the handler on top of
the stack, the handlers below it, the connection and the timer.

| Theorem | Property |
|---|---|
| `LibInvariance`, `LibTypeCorrect` | the invariant, `TypeOK` |
| `NoCancellationLeftOver` | `CancelledInHandler` |
| `HandlersMatchStates` | `StateOfHandler` |
| `StaysDisconnected` | `NeverComesBackUnasked` |

`XsmpSessionProofs`. First the composition: `ManagerTakesPart` and `LibraryTakesPart` say
that each step of `XsmpSession` is a step of `XfsmManager`, or none, and a step of an
application as `XsmpClient` allows it, or none. What was proved of the parts therefore
holds of the session, for any number of applications and without further hypotheses
(`SessionSaves`, `SessionKeepsPromise`, `LastOneEndsSession`, `SessionLibrary`).

Then what only the two together achieve. `SessionInv` says of each registered client whose
connection holds what may be in its two queues and where the application may be, for each
state of its client object in each state of the manager (`Fits`): seven states, and in each
the few points at which a message is on its way, has been served, or a handler runs. To be
inductive it also says what a client may have said before it closed its connection
(`LastWords`), how a connection begins, ends and breaks (`Arrives`, `HearsOfEnd`,
`Transported`), that at most one request is under way and no client registers meanwhile
(`OneRequest`), that everybody takes part in a save (`EveryoneTakesPart`), and that no
handler survives into another connection (`OpensClean`). A step of the manager is proved
once: `Moved` lists how the state of one client may change and what it is told then,
`MoveFits` shows that the client still fits, and each handler is shown to move every
client in one of these ways. A step of an application touches its own queues alone
(`ClientAlone`).

| Theorem | Property |
|---|---|
| `TwoEndsFit` | `SessionInv` |
| `QuietEndsAgree` | `EndsAgree` |
| `NobodyIsDropped` | the action property `NeverDropped` |
| `NobodyDiesUnasked` | the action property `NoQuitUnasked` |
| `SessionSaves` | `OneInteracting`, `SaveWaitsForSomeone`, `PhaseTwoBarrier` of the manager in the session |
| `SessionKeepsPromise`, `LastOneEndsSession` | `Implements`, `LastClientEndsSession` of the manager in the session |
| `SessionLibrary` | `CancelledInHandler`, `StateOfHandler`, `NeverComesBackUnasked` of the library in the session |

The first four assume `Orderly`, and `OneConnection`: no handler runs the main loop, or no
client whose connection may break comes back on its own. The run `xsmp` satisfies both.
They are needed: a request that crosses a save gets its client dropped, and a handler that
outlives its connection answers on the next one (see above).

`DbusClientProofs`. `Registry` and `RestartFits` compare what the manager exports with
what applications hold, and a signal on its way says that the two no longer agree.
`PathsFit` says when they do: no two applications hold a path, an object under the path
of an application is its own, and an application that is going to hear that its object is
gone holds a path that nothing is exported under. `Detached` says that a state of
DISCONNECTED means that the proxies are torn down. `Registers` reduces
`RegisterClient2` to what it guarantees, without the choice of ids and paths.

| Theorem | Property |
|---|---|
| `DbusInvariance`, `DbusTypeCorrect` | `DbusInv`, `TypeOK` |
| `RegistryIsRight` | `Registry` |
| `RestartIsRight` | `RestartFits` |

`WaylandWindowsProofs`. A window is only added safely if its name is unknown to the
compositor, which depends on what was removed, renamed and restored before, perhaps in an
earlier connection. `StoreFits` therefore follows the names that the compositor keeps for
this client also while there is no session (`Stored`): each is known to the application
or queued for removal, and none stands in the way of a window that is to be restored from
another name. `SessionFits` says that a session under another id than the client's was
fresh, `NamesFit` that no two windows share a current or an earlier name, `TablesFit` that
the three tables of surfaces mirror the mapped windows, and `GrantsFit` that the compositor
gave names to the attached windows and no others. The theorems assume `~DiscardsOffline`:
without it they are false (see above).

| Theorem | Property |
|---|---|
| `WaylandInvariance`, `WaylandTypes` | `WInv`, `TypeOK` |
| `RequestsAreAccepted` | `NeverRefused` |
| `NamesAlwaysAgree` | `NamesAgree` |
| `NoWindowIsLeftOut` | `OnScreenIsTracked` |
| `RemovalsAreMadeUpFor` | `RemovedIsForgotten` |

`ShutdownProofs`. The invariant follows the type of a request through idle source,
dialog, save and hooks to the method that performs it.

| Theorem | Property |
|---|---|
| `ShutdownInvariance`, `ShutdownTypeCorrect` | the invariant, `TypeOK` |
| `GuardsAreKept` | `GuardsHold`: lock and kiosk settings are respected |
| `InhibitionsHold` | `InhibitedNotOffered` |
| `OnlyAsAsked` | the action property `NothingUnasked` |
| `HooksAreRight` | the action property `HooksMatch` |
| `StartsAsAsked` | the action property `EndsAsAsked` |

Only model-checked: the liveness properties (`SaveEnds`, `StartupEnds`,
`SaveEndsUntimed`, `NobodyStaysFrozen`, `ComesBack`, `QueryIsAnswered`), since fairness
and ENABLED are out of the prover's reach. Every other property of a run is the property
of a theorem, under the hypotheses named above.

## Not modelled

- Legacy session management (`xfsm-legacy.c`): WM_SAVE_YOURSELF over X11 properties and
  events, in a loop of its own that blocks the manager for up to four seconds and shares
  no state with the saves of other clients.
- The settings dialogs and the autostart editor (`settings/`): a process of its own that
  edits one desktop file per click.
- `xfsm-compat-*.c`, `xfsm-dns.c`, autostart items and agents: started once, no state.
- Scripts and the set-up of compositors, which run before the manager.
- Widgets, the splash, the fade-out, bus introspection, property getters and
  authentication files: pure input and output.
- The content of messages and of the rarer properties: data that no property looks at.
- What happens to memory when the manager is freed inside a suspended request: the
  models stop at `quit`.

## Plan

Done, in this order: `XfsmManager`, `XfsmStartup`, `XsmpClient`, `XsmpSession`,
`DbusClient`, `WaylandWindows`, `Shutdown`, `SessionFile`, `SessionEnd` and the proofs
above. Left: the composition of `DbusClient` with `XfsmManager`, as `XsmpSession` composes
it with `XsmpClient`, and the theorems of `XsmpSession` with disorderly requests, where
what is left to say is which clients are dropped.
