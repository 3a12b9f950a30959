---------------------------- MODULE WaylandWindows ----------------------------
(***************************************************************************)
(* The Wayland backend of the client library                               *)
(* (xfce-session-client-wl-xdg.c) with its table of surfaces               *)
(* (xfce-session-client-wl-surface-tracker.c), between an application that *)
(* names its windows and a compositor that keeps the state of a window     *)
(* under its name (xdg-session-management-v1).                             *)
(*                                                                         *)
(* A compositor kills a client that sends a request it must refuse: a name *)
(* that is in use, a window that was added before.  The library has to     *)
(* keep its idea of the names in step with the compositor's while windows  *)
(* come and go, are renamed and removed, and the connection is lost, taken *)
(* over by another client, and made again.                                 *)
(*                                                                         *)
(* The application keeps to the documentation of xfce_session_client_      *)
(* add_window () and its relatives: "kept" holds the names it has sent and *)
(* not removed, which it never uses for another window.                    *)
(***************************************************************************)
EXTENDS Naturals, Functions

CONSTANTS
  Windows,         \* GtkWindows of the application
  Names,           \* names it gives them
  Sessions,        \* ids of the compositor's sessions
  Addresses,       \* where libwayland allocates proxies; a free one is used again
  AutoReconnect,   \* auto_reconnect_interval > 0
  DiscardsOffline, \* the application also calls xfce_session_client_discard () when it is not connected
  MaxRetries       \* bound: connects inside a connect

None == 0
DbusId == 99       \* an id that the session manager gave, which no compositor knows

ASSUME WaylandConstants ==
  /\ None \notin Windows \cup Names \cup Sessions \cup Addresses
  /\ DbusId \notin Sessions
  /\ AutoReconnect \in BOOLEAN /\ DiscardsOffline \in BOOLEAN
  /\ MaxRetries \in Nat

VARIABLES
  \* GTK and the table of surfaces
  shown,      \* mapped windows with their xdg_surface and xdg_toplevel
  tables,     \* surfaces_by_wl_surface, _by_xdg_surface, _by_xdg_toplevel
  \* the library
  manager,    \* registry: xdg_manager is "unasked" before it, then "absent" or "bound"
  session,    \* the session of xdg_session
  status,     \* session_status
  state,      \* the state of the parent class
  dbus,       \* the parent class is connected
  clientId,   \* client_id
  toplevels,  \* by name: the window, restore_from_name, and whether there is a toplevel_session
  queued,     \* queued_toplevel_removes
  wanted,     \* not disconnect_requested
  timer,      \* auto_reconnect_id is armed
  call,       \* the connect () under way: who called it, how deep it is
  \* the compositor
  offers,     \* xdg_session_manager_v1 is announced
  store,      \* the names it keeps, by session
  granted,    \* the window that has a name in the session of this client
  inert,      \* another client has taken the session, the event is on its way
  refused,    \* it had to refuse a request
  \* the application
  kept        \* names it has sent and not removed

guiVars == <<shown, tables>>
linkVars == <<manager, session, status, state, dbus, clientId, wanted, timer, call>>
compVars == <<store, granted, inert, refused>>
wlVars == <<guiVars, linkVars, toplevels, queued, offers, compVars, kept>>

Idle == [by |-> "nobody", depth |-> 0, again |-> FALSE]

\* The main loop runs: the application is not inside connect ().
Free == state # "REGISTERING"

-----------------------------------------------------------------------------
(* The table of surfaces; the wl_surface of a window stands for its address *)

XdgSurface(w) == shown[w].surface
XdgToplevel(w) == shown[w].toplevel
OnScreen(w) == w \in DOMAIN shown

Lookup(table, key) == IF key \in DOMAIN table THEN table[key] ELSE None
Drop(table, key) == Restrict(table, DOMAIN table \ {key})
With(table, key, value) == [k \in DOMAIN table \cup {key} |-> IF k = key THEN value ELSE table[k]]

\* surfaces_insert (): a surface that is there already gets a new role.
Insert(t, w, s) ==
  LET old == w \in DOMAIN t.wl
  IN [wl |-> With(t.wl, w, [surface |-> s, toplevel |-> None]),
      surface |-> With(IF old THEN Drop(t.surface, t.wl[w].surface) ELSE t.surface, s, w),
      toplevel |-> IF old THEN Drop(t.toplevel, t.wl[w].toplevel) ELSE t.toplevel]

\* intercept_xdg_surface_get_toplevel (), surfaces_set_xdg_toplevel ()
SetToplevel(t, s, top) ==
  LET w == Lookup(t.surface, s)
  IN IF w = None THEN t
     ELSE [t EXCEPT !.wl[w].toplevel = top, !.toplevel = With(@, top, w)]

ToplevelDestroyed(t, top) ==
  LET w == Lookup(t.toplevel, top)
  IN IF w = None THEN t
     ELSE [t EXCEPT !.toplevel = Drop(@, top),
                    !.wl = IF @[w].surface = None THEN Drop(@, w) ELSE [@ EXCEPT ![w].toplevel = None]]

SurfaceDestroyed(t, s) ==
  LET w == Lookup(t.surface, s)
  IN IF w = None THEN t
     ELSE [t EXCEPT !.surface = Drop(@, s),
                    !.wl = IF @[w].toplevel = None THEN Drop(@, w) ELSE [@ EXCEPT ![w].surface = None]]

\* surfaces_get_xdg_toplevel_for_window ()
ToplevelForWindow(t, w) == IF w \in DOMAIN t.wl THEN t.wl[w].toplevel ELSE None

InUse == {XdgSurface(w) : w \in DOMAIN shown} \cup {XdgToplevel(w) : w \in DOMAIN shown}

-----------------------------------------------------------------------------
(* The compositor: what a request does to the names of the session *)

Granted(w) == \E n \in DOMAIN granted : granted[n] = w

\* A session that was taken over is inert: requests have no effect.
Request(names, grants, error) ==
  IF inert THEN UNCHANGED compVars
  ELSE /\ store' = [store EXCEPT ![session] = names]
       /\ granted' = grants
       /\ refused' = (refused \/ error)
       /\ UNCHANGED inert

Known == store[session]

RemoveToplevel(n) == Request(Known \ {n}, Drop(granted, n), FALSE)

AddToplevel(n, w) ==
  Request(Known \cup {n}, With(granted, n, w), n \in Known \/ Granted(w))

\* A toplevel is restored under one name and, in the same breath, renamed.
RestoreToplevel(old, new, w) ==
  Request((Known \ {old}) \cup {new}, With(granted, new, w),
          \/ old \in DOMAIN granted
          \/ Granted(w)
          \/ old # new /\ new \in Known)

RenameToplevel(old, new) ==
  Request((Known \ {old}) \cup {new}, With(Drop(granted, old), new, granted[old]), new \in Known)

\* xdg_toplevel_session_v1.destroy and the end of a session object: the names stay.
Release(ns) == granted' = Restrict(granted, DOMAIN granted \ ns)

-----------------------------------------------------------------------------
(* The library: names *)

Named(w) == \E n \in DOMAIN toplevels : toplevels[n].window = w
NameOf(w) == CHOOSE n \in DOMAIN toplevels : toplevels[n].window = w

\* Mutant: a window that waits for its new name does not hold its old one.
ClaimedNow(n) == n \in DOMAIN toplevels

\* name_is_claimed ()
NameIsClaimed(n) ==
  n \in DOMAIN toplevels \/ \E m \in DOMAIN toplevels : toplevels[m].from = n

\* xfce_session_client_wl_xdg_register_window ()
RegisterWindow(w, n, from) ==
  /\ Free /\ ~Named(w) /\ ~NameIsClaimed(n)
  /\ kept' = kept \cup {n}
  /\ IF from = None /\ session # None /\ OnScreen(w) /\ ToplevelForWindow(tables, w) # None
     THEN /\ AddToplevel(n, w)
          /\ toplevels' = With(toplevels, n, [window |-> w, from |-> n, attached |-> TRUE])
     ELSE /\ toplevels' = With(toplevels, n, [window |-> w, from |-> from, attached |-> FALSE])
          /\ UNCHANGED compVars
  /\ UNCHANGED <<guiVars, linkVars, queued, offers>>

AddWindow(w, n) == n \notin kept /\ RegisterWindow(w, n, None)

RestoreWindow(w, n) == ~OnScreen(w) /\ RegisterWindow(w, n, n)

\* Mutant: the compositor is not told.
RenamedHere(w, new) ==
  /\ Free /\ Named(w) /\ ~NameIsClaimed(new) /\ new \notin kept
  /\ kept' = kept \cup {new}
  /\ toplevels' = With(Drop(toplevels, NameOf(w)), new, toplevels[NameOf(w)])
  /\ UNCHANGED <<guiVars, linkVars, queued, offers, compVars>>

\* xfce_session_client_wl_xdg_rename_window (): deferred when the window has no
\* toplevel_session.
RenameWindow(w, new) ==
  /\ Free /\ Named(w) /\ ~NameIsClaimed(new) /\ new \notin kept
  /\ kept' = kept \cup {new}
  /\ LET n == NameOf(w)
         t == toplevels[n]
     IN IF t.attached
        THEN /\ toplevels' = With(Drop(toplevels, n), new, [t EXCEPT !.from = new])
             /\ RenameToplevel(n, new)
        ELSE /\ toplevels' = With(Drop(toplevels, n), new, t)
             /\ UNCHANGED compVars
  /\ UNCHANGED <<guiVars, linkVars, queued, offers>>

\* xfce_session_client_wl_xdg_remove_window (): what the compositor knows may have
\* an older name.  A removal that crosses the news that the session was taken over
\* is lost with it, and is left out.
NameToRemove(n) ==
  IF n \in DOMAIN toplevels /\ toplevels[n].from # None THEN toplevels[n].from ELSE n

\* Mutant: without a session there is nothing to remove.
RemovesFromSession(n) ==
  /\ Free /\ n \in kept /\ ~inert
  /\ kept' = kept \ {n}
  /\ toplevels' = Drop(toplevels, n)
  /\ IF session # None THEN RemoveToplevel(NameToRemove(n)) ELSE UNCHANGED compVars
  /\ UNCHANGED <<guiVars, linkVars, queued, offers>>

RemoveWindow(n) ==
  /\ Free /\ n \in kept /\ ~inert
  /\ kept' = kept \ {n}
  /\ toplevels' = Drop(toplevels, n)
  /\ IF session # None
     THEN RemoveToplevel(NameToRemove(n)) /\ UNCHANGED queued
     ELSE queued' = queued \cup {NameToRemove(n)} /\ UNCHANGED compVars
  /\ UNCHANGED <<guiVars, linkVars, offers>>

-----------------------------------------------------------------------------
(* GTK *)

\* A window is mapped; wl_surface_xdg_toplevel_realized () runs when its xdg_toplevel
\* is there: a window that has been in a session is restored and, if need be, renamed.
Show(w) ==
  /\ Free /\ ~OnScreen(w)
  /\ \E s, top \in Addresses \ InUse :
       /\ s # top
       /\ shown' = With(shown, w, [surface |-> s, toplevel |-> top])
       /\ tables' = SetToplevel(Insert(tables, w, s), s, top)
  /\ IF session # None /\ Named(w)
     THEN LET n == NameOf(w)
              from == toplevels[n].from
          IN /\ IF from # None THEN RestoreToplevel(from, n, w) ELSE AddToplevel(n, w)
             /\ toplevels' = [toplevels EXCEPT ![n].from = n, ![n].attached = TRUE]
     ELSE UNCHANGED <<toplevels, compVars>>
  /\ UNCHANGED <<linkVars, queued, offers, kept>>

TakenDown(w) ==
  /\ shown' = Drop(shown, w)
  /\ tables' = SurfaceDestroyed(ToplevelDestroyed(tables, XdgToplevel(w)), XdgSurface(w))

\* window_unmapped ()
Hide(w) ==
  /\ Free /\ OnScreen(w) /\ TakenDown(w)
  /\ IF Named(w)
     THEN /\ toplevels' = [toplevels EXCEPT ![NameOf(w)].attached = FALSE]
          /\ Release({NameOf(w)})
     ELSE UNCHANGED <<toplevels, granted>>
  /\ UNCHANGED <<linkVars, queued, offers, store, inert, refused, kept>>

\* window_destroyed (), toplevel_free (): the compositor keeps the state.  The model
\* value then stands for another window.
DestroyWindow(w) ==
  /\ Free /\ Named(w)
  /\ IF OnScreen(w) THEN TakenDown(w) ELSE UNCHANGED guiVars
  /\ toplevels' = Drop(toplevels, NameOf(w))
  /\ Release({NameOf(w)})
  /\ UNCHANGED <<linkVars, queued, offers, store, inert, refused, kept>>

-----------------------------------------------------------------------------
(* The library: connections *)

ParentConnects(ok) ==
  /\ dbus => ok
  /\ dbus' = ok
  /\ clientId' = IF ok /\ clientId = None THEN DbusId ELSE clientId

\* _xfce_session_client_start_auto_reconnect ()
StartAutoReconnect == timer' = (timer \/ (wanted /\ AutoReconnect))

\* What a caller does with a connect () that failed, given the timer it left armed.
TimerAfterFailure(by, armed) ==
  CASE by = "timer"    -> TRUE
    [] by = "replaced" -> armed \/ AutoReconnect
    [] OTHER           -> armed

\* xdg_session_manager_v1.get_session: an id that the compositor does not know
\* counts as none.
Fresh == Sessions \ (DOMAIN store \cup {clientId})

GetSession ==
  IF clientId \in DOMAIN store
  THEN session' = clientId /\ UNCHANGED store
  ELSE \E s \in Fresh : session' = s /\ store' = With(store, s, {})

\* xfce_session_client_wl_xdg_connect (), up to the wait for the compositor.
Connects(by, depth, armed) ==
  LET m == IF manager # "unasked" THEN manager ELSE IF offers THEN "bound" ELSE "absent"
  IN /\ manager' = m
     /\ wanted' = TRUE
     /\ IF m = "bound" /\ session = None
        THEN /\ state' = "REGISTERING"
             /\ call' = [by |-> by, depth |-> depth, again |-> status = "REPLACED"]
             /\ status' = "INVALID"
             /\ timer' = armed
             /\ GetSession
             /\ UNCHANGED <<dbus, clientId>>
        ELSE /\ call' = Idle
             /\ UNCHANGED <<session, status, store>>
             /\ \E ok \in BOOLEAN :
                  /\ ParentConnects(ok)
                  /\ IF ok \/ m = "bound"
                     THEN state' = "IDLE" /\ timer' = armed
                     ELSE state' = "DISCONNECTED" /\ timer' = TimerAfterFailure(by, armed)
     /\ UNCHANGED <<guiVars, toplevels, queued, offers, granted, inert, refused, kept>>

\* xfce_session_client_connect ()
Connect ==
  /\ Free /\ (session = None \/ ~dbus)
  /\ Connects("app", 0, timer)

\* xfce_session_client_try_reconnect ()
TryReconnect ==
  /\ Free /\ timer
  /\ IF state = "DISCONNECTED"
     THEN Connects("timer", 0, FALSE)
     ELSE /\ timer' = FALSE
          /\ UNCHANGED <<guiVars, manager, session, status, state, dbus, clientId, wanted,
                         call, toplevels, queued, offers, compVars, kept>>

\* A connect () that begins inside another one, or inside the handler of replaced.
ConnectsAgain ==
  /\ ~Free /\ session = None /\ call.depth <= MaxRetries
  /\ Connects(call.by, call.depth, timer)

\* xfce_session_client_wl_xdg_disconnect ()
Disconnected ==
  /\ dbus' = FALSE
  /\ toplevels' = [n \in DOMAIN toplevels |-> [toplevels[n] EXCEPT !.attached = FALSE]]
  /\ session' = None
  /\ granted' = <<>>
  /\ inert' = FALSE

\* Mutant: a window that has been in a session is not added again.
NeverAdded == {n \in DOMAIN toplevels :
                 toplevels[n].from = None /\ ToplevelForWindow(tables, toplevels[n].window) # None}

\* The queued removals go out first; then each window that is on screen is added
\* again, without the state it had under the name it should have been restored from.
Readded == {n \in DOMAIN toplevels :
              OnScreen(toplevels[n].window) /\ ToplevelForWindow(tables, toplevels[n].window) # None}

Registered ==
  LET left(n) == (Known \ queued) \ {toplevels[n].from}
      dropped == queued \cup {toplevels[n].from : n \in Readded}
  IN /\ Request((Known \ dropped) \cup Readded, [n \in Readded |-> toplevels[n].window],
                \E n \in Readded : n \in left(n))
     /\ queued' = {}
     /\ toplevels' = [n \in DOMAIN toplevels |->
                        IF n \in Readded
                        THEN [toplevels[n] EXCEPT !.from = n, !.attached = TRUE]
                        ELSE toplevels[n]]

\* The wait is over: the compositor answered, or the time did.  The parent class
\* connects as well, but the session of the compositor is enough.
ConnectEnds ==
  /\ ~Free /\ session # None /\ status \in {"CREATED", "RESTORED"}
  /\ Registered
  /\ \E ok \in BOOLEAN : ParentConnects(ok)
  /\ state' = "IDLE" /\ call' = Idle
  /\ UNCHANGED <<guiVars, manager, session, status, wanted, timer, offers, kept>>

\* Without an answer, or replaced: disconnect and, if it was replaced, perhaps try once more.
ConnectFails ==
  /\ ~Free /\ session # None /\ status \in {"INVALID", "REPLACED"}
  /\ Disconnected
  /\ status' = "INVALID"
  /\ \E again \in BOOLEAN :
       /\ again => status = "REPLACED" /\ ~call.again
       /\ IF again
          THEN /\ clientId' = None
               /\ call' = [call EXCEPT !.depth = @ + 1]
               /\ UNCHANGED <<state, timer>>
          ELSE /\ state' = "DISCONNECTED" /\ call' = Idle
               /\ timer' = TimerAfterFailure(call.by, timer)
               /\ UNCHANGED clientId
  /\ UNCHANGED <<guiVars, manager, wanted, queued, offers, store, refused, kept>>

\* session_created (), session_restored ()
SessionAnswers ==
  /\ ~Free /\ session # None /\ status = "INVALID"
  /\ status' = IF session = clientId THEN "RESTORED" ELSE "CREATED"
  /\ clientId' = session
  /\ UNCHANGED <<guiVars, manager, session, state, dbus, wanted, timer, call, toplevels,
                 queued, offers, compVars, kept>>

\* session_replaced (), inside connect ()
ReplacedWhileConnecting ==
  /\ ~Free /\ session # None /\ inert /\ status # "REPLACED"
  /\ status' = "REPLACED"
  /\ UNCHANGED <<guiVars, manager, session, state, dbus, clientId, wanted, timer, call,
                 toplevels, queued, offers, compVars, kept>>

\* session_replaced (), afterwards: the application, or its default, decides whether
\* to start a new session at once.
Replaced ==
  /\ Free /\ inert
  /\ Disconnected
  /\ status' = "REPLACED" /\ timer' = FALSE /\ wanted' = FALSE
  /\ \E again \in BOOLEAN :
       /\ state' = IF again THEN "REGISTERING" ELSE "DISCONNECTED"
       /\ clientId' = IF again THEN None ELSE clientId
       /\ call' = IF again THEN [Idle EXCEPT !.by = "replaced"] ELSE Idle
  /\ UNCHANGED <<guiVars, manager, queued, offers, store, refused, kept>>

\* xfce_session_client_disconnect ()
Disconnect ==
  /\ Free /\ state # "DISCONNECTED" /\ Disconnected
  /\ status' = "INVALID" /\ state' = "DISCONNECTED" /\ timer' = FALSE /\ wanted' = FALSE
  /\ UNCHANGED <<guiVars, manager, clientId, call, queued, offers, store, refused, kept>>

\* xfce_session_client_wl_xdg_discard () and the disconnect () that follows it.
Discard ==
  /\ Free /\ ~inert
  /\ session # None \/ DiscardsOffline
  /\ toplevels' = <<>> /\ queued' = {}
  /\ store' = IF session # None THEN Drop(store, session) ELSE store
  /\ kept' = IF session # None THEN {} ELSE kept
  /\ dbus' = FALSE /\ session' = None /\ granted' = <<>> /\ UNCHANGED inert
  /\ status' = "INVALID" /\ state' = "DISCONNECTED" /\ timer' = FALSE /\ wanted' = FALSE
  /\ UNCHANGED <<guiVars, manager, clientId, call, offers, refused>>

\* registry_global ()
GlobalAppears ==
  /\ Free /\ offers /\ manager = "absent"
  /\ manager' = "bound"
  /\ UNCHANGED <<guiVars, session, status, state, dbus, clientId, wanted, timer, call,
                 toplevels, queued, offers, compVars, kept>>

\* registry_global_remove ()
GlobalRemoved ==
  /\ Free /\ ~offers /\ manager = "bound"
  /\ manager' = "absent"
  /\ Disconnected
  /\ status' = "INVALID" /\ state' = "DISCONNECTED"
  /\ StartAutoReconnect
  /\ UNCHANGED <<guiVars, clientId, wanted, call, queued, offers, store, refused, kept>>

\* dbus_sm_name_owner_changed (): the session of the compositor survives it.
NameOwnerChanged ==
  /\ Free /\ dbus
  /\ dbus' = FALSE
  /\ IF session = None
     THEN state' = "DISCONNECTED" /\ StartAutoReconnect
     ELSE UNCHANGED <<state, timer>>
  /\ UNCHANGED <<guiVars, manager, session, status, clientId, wanted, call, toplevels,
                 queued, offers, compVars, kept>>

-----------------------------------------------------------------------------
(* The world *)

OffersChanges ==
  /\ offers' = ~offers
  /\ UNCHANGED <<guiVars, linkVars, toplevels, queued, compVars, kept>>

\* Another client takes the session over, and uses the names that are there.
TakenOver ==
  /\ session # None /\ ~inert /\ queued = {}
  /\ inert' = TRUE /\ granted' = <<>>
  /\ UNCHANGED <<guiVars, linkVars, toplevels, queued, offers, store, refused, kept>>

\* The compositor forgets a session that is not in use.
Forgets(s) ==
  /\ s \in DOMAIN store \ {session}
  /\ store' = Drop(store, s)
  /\ UNCHANGED <<guiVars, linkVars, toplevels, queued, offers, granted, inert, refused, kept>>

\* The application ends, in good order or not, and is started again with its id and
\* what it knows of its names.  Removals that are still queued would be lost.
Restart ==
  /\ queued = {} /\ manager # "unasked"
  /\ shown' = <<>> /\ tables' = [wl |-> <<>>, surface |-> <<>>, toplevel |-> <<>>]
  /\ manager' = "unasked" /\ session' = None /\ status' = "INVALID" /\ state' = "DISCONNECTED"
  /\ dbus' = FALSE /\ wanted' = FALSE /\ timer' = FALSE /\ call' = Idle
  /\ toplevels' = <<>> /\ granted' = <<>>
  /\ inert' = FALSE
  /\ UNCHANGED <<clientId, queued, offers, store, refused, kept>>

-----------------------------------------------------------------------------
(* The specification *)

WaylandInit ==
  /\ shown = <<>> /\ tables = [wl |-> <<>>, surface |-> <<>>, toplevel |-> <<>>]
  /\ manager = "unasked" /\ session = None /\ status = "INVALID" /\ state = "DISCONNECTED"
  /\ dbus = FALSE /\ clientId = None /\ wanted = FALSE /\ timer = FALSE /\ call = Idle
  /\ toplevels = <<>> /\ queued = {}
  /\ offers \in BOOLEAN /\ store = <<>> /\ granted = <<>> /\ inert = FALSE /\ refused = FALSE
  /\ kept = {}

Application ==
  \/ \E w \in Windows, n \in Names :
       AddWindow(w, n) \/ RestoreWindow(w, n) \/ RenameWindow(w, n)
  \/ \E n \in Names : RemoveWindow(n)
  \/ \E w \in Windows : Show(w) \/ Hide(w) \/ DestroyWindow(w)
  \/ Connect \/ Disconnect \/ Discard \/ Restart

Library ==
  \/ TryReconnect \/ ConnectsAgain \/ ConnectEnds \/ ConnectFails
  \/ SessionAnswers \/ ReplacedWhileConnecting \/ Replaced
  \/ GlobalAppears \/ GlobalRemoved \/ NameOwnerChanged

World == OffersChanges \/ TakenOver \/ \E s \in Sessions : Forgets(s)

WaylandNext == Application \/ Library \/ World

WaylandSpec == WaylandInit /\ [][WaylandNext]_wlVars

-----------------------------------------------------------------------------
(* Properties *)

\* f is defined on some of D, with values in R.
PartialOK(f, D, R) == DOMAIN f \subseteq D /\ f \in [DOMAIN f -> R]

\* Every variable has its type; how the tables relate to the windows is proved in
\* WaylandWindowsProofs.
TypeOK ==
  /\ PartialOK(shown, Windows, [surface : Addresses, toplevel : Addresses])
  /\ PartialOK(toplevels, Names,
               [window : Windows, from : Names \cup {None}, attached : BOOLEAN])
  /\ manager \in {"unasked", "absent", "bound"}
  /\ session \in Sessions \cup {None}
  /\ status \in {"INVALID", "CREATED", "RESTORED", "REPLACED"}
  /\ state \in {"DISCONNECTED", "REGISTERING", "IDLE"}
  /\ clientId \in Sessions \cup {None, DbusId}
  /\ queued \subseteq Names
  /\ dbus \in BOOLEAN /\ wanted \in BOOLEAN /\ timer \in BOOLEAN /\ offers \in BOOLEAN
  /\ call \in [by : {"nobody", "app", "timer", "replaced"}, depth : Nat, again : BOOLEAN]
  /\ PartialOK(store, Sessions, SUBSET Names)
  /\ PartialOK(granted, Names, Windows)
  /\ inert \in BOOLEAN /\ refused \in BOOLEAN
  /\ kept \subseteq Names

\* The library never sends a request that the compositor has to refuse, which would
\* kill the application: no name is taken twice and no window added twice, whatever
\* was renamed, removed or shown while there was no connection
\* (name_is_claimed (), restore_from_name, queued_toplevel_removes).
NeverRefused == ~refused

\* While the session is this client's, the names that the compositor has given to its
\* windows are the names that the library has (toplevel_session).
NamesAgree ==
  session # None /\ Free /\ ~inert =>
    granted = [n \in {m \in DOMAIN toplevels : toplevels[m].attached} |-> toplevels[n].window]

\* In a session, every window of the application that is on screen is kept track of:
\* no order of registering, mapping and connecting leaves one out.
OnScreenIsTracked ==
  session # None /\ Free =>
    \A n \in DOMAIN toplevels : toplevels[n].attached <=> OnScreen(toplevels[n].window)

\* Once connected, the compositor keeps nothing under a name that the application has
\* removed: a removal without a connection is made up for
\* (xfce_session_client_wl_xdg_remove_window ()).
RemovedIsForgotten ==
  session # None /\ Free /\ ~inert => Known \subseteq kept

\* "We only try to reconnect once on a replaced-during-connect in order to avoid a
\* blocking reconnect loop" (xfce-session-client-wl-xdg.c:288).
ReconnectsOnce == call.depth <= 1
=============================================================================
