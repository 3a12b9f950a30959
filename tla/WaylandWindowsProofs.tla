------------------------- MODULE WaylandWindowsProofs -------------------------
(***************************************************************************)
(* Proofs about WaylandWindows, for any windows, names, sessions and       *)
(* addresses, of an application that discards its session only while it is *)
(* connected.                                                              *)
(*                                                                         *)
(* The four properties need one another: a window can only be added again  *)
(* if its name is unknown to the compositor, which depends on what was     *)
(* removed, renamed and restored before, perhaps in another session of the *)
(* connection.  StoreFits therefore follows the names that the compositor  *)
(* keeps for this client also while there is no session (Stored): each of  *)
(* them is known to the application or queued for removal, and none stands *)
(* in the way of a window that has another name to be restored from.       *)
(***************************************************************************)
EXTENDS WaylandWindows, TLAPS

Places == [surface : Addresses, toplevel : Addresses]

\* The three tables of surfaces mirror the windows that are mapped, and no two
\* proxies share an address.
TablesFit ==
  /\ tables = [wl |-> shown, surface |-> tables.surface, toplevel |-> tables.toplevel]
  /\ tables.surface \in [{XdgSurface(w) : w \in DOMAIN shown} -> DOMAIN shown]
  /\ tables.toplevel \in [{XdgToplevel(w) : w \in DOMAIN shown} -> DOMAIN shown]
  /\ \A w \in DOMAIN shown : /\ tables.surface[XdgSurface(w)] = w
                             /\ tables.toplevel[XdgToplevel(w)] = w
  /\ \A v, w \in DOMAIN shown : XdgSurface(v) # XdgToplevel(w)

\* A window has one name, and a name one window, whether it is the one it has or the
\* one it is to be restored from.  Attached are windows on screen, in a session.
NamesFit ==
  /\ DOMAIN toplevels \subseteq kept
  /\ \A m, n \in DOMAIN toplevels :
       m # n => /\ toplevels[m].window # toplevels[n].window
                /\ toplevels[m].from # n
                /\ toplevels[m].from # None => toplevels[m].from # toplevels[n].from
  /\ \A n \in DOMAIN toplevels :
       toplevels[n].attached =>
         toplevels[n].from = n /\ OnScreen(toplevels[n].window) /\ session # None /\ Free

\* A session that did not get the id the client asked for got a fresh one, because
\* the compositor had forgotten the old one.
SessionFits ==
  /\ session # None => session \in DOMAIN store
  /\ session # None /\ clientId # session => clientId \notin DOMAIN store
  /\ session # None /\ (Free \/ status \in {"CREATED", "RESTORED"}) => clientId = session
  /\ inert => session # None
  /\ inert \/ (session # None /\ Free) => queued = {}

\* The names that the compositor keeps for this client, in a session or not.
Stored ==
  LET s == IF session # None THEN session ELSE clientId
  IN IF s \in DOMAIN store THEN store[s] ELSE {}

StoreFits ==
  /\ Stored \subseteq kept \cup queued
  /\ \A n \in DOMAIN toplevels : toplevels[n].from # n => n \notin Stored \ queued

\* What the compositor has given to windows: nothing but in a session, and there
\* what the library has.
GrantsFit ==
  /\ session = None \/ ~Free \/ inert => DOMAIN granted = {}
  /\ session # None /\ Free /\ ~inert =>
       /\ DOMAIN granted = {n \in DOMAIN toplevels : toplevels[n].attached}
       /\ \A n \in DOMAIN granted : granted[n] = toplevels[n].window

WInv == /\ TypeOK /\ TablesFit /\ NamesFit /\ SessionFits /\ StoreFits /\ GrantsFit
        /\ OnScreenIsTracked /\ NeverRefused

-----------------------------------------------------------------------------
(* Tables *)

LEMMA WithIs ==
  ASSUME NEW f, NEW D, NEW R, PartialOK(f, D, R), NEW k \in D, NEW v \in R
  PROVE  /\ PartialOK(With(f, k, v), D, R)
         /\ DOMAIN With(f, k, v) = DOMAIN f \cup {k}
         /\ With(f, k, v)[k] = v
         /\ \A x \in DOMAIN f : x # k => With(f, k, v)[x] = f[x]
BY DEF With, PartialOK

LEMMA DropIs ==
  ASSUME NEW f, NEW D, NEW R, PartialOK(f, D, R), NEW k
  PROVE  /\ PartialOK(Drop(f, k), D, R)
         /\ DOMAIN Drop(f, k) = DOMAIN f \ {k}
         /\ \A x \in DOMAIN f : x # k => Drop(f, k)[x] = f[x]
BY DEF Drop, Restrict, PartialOK

LEMMA EmptyIs ==
  ASSUME NEW D, NEW R
  PROVE  DOMAIN <<>> = {} /\ PartialOK(<<>>, D, R)
BY DEF PartialOK

\* A window of the table has a toplevel exactly when it is on screen.
LEMMA ToplevelIs ==
  ASSUME TypeOK, TablesFit, NEW w
  PROVE  ToplevelForWindow(tables, w) # None <=> OnScreen(w)
BY WaylandConstants DEF TypeOK, PartialOK, TablesFit, ToplevelForWindow, OnScreen

LEMMA MappedFits ==
  ASSUME TypeOK, TablesFit, NEW w \in Windows, ~OnScreen(w),
         NEW s \in Addresses \ InUse, NEW top \in Addresses \ InUse, s # top,
         shown' = With(shown, w, [surface |-> s, toplevel |-> top]),
         tables' = SetToplevel(Insert(tables, w, s), s, top)
  PROVE  /\ PartialOK(shown, Windows, Places)'
         /\ TablesFit'
         /\ DOMAIN shown' = DOMAIN shown \cup {w}
<1>. DEFINE t == Insert(tables, w, s)
<1>1. /\ PartialOK(shown', Windows, Places)
      /\ DOMAIN shown' = DOMAIN shown \cup {w}
      /\ shown'[w] = [surface |-> s, toplevel |-> top]
      /\ \A v \in DOMAIN shown : v # w /\ shown'[v] = shown[v]
  <2>1. PartialOK(shown, Windows, Places) /\ [surface |-> s, toplevel |-> top] \in Places
    BY DEF TypeOK, Places
  <2>2. /\ PartialOK(shown', Windows, Places)
        /\ DOMAIN shown' = DOMAIN shown \cup {w}
        /\ shown'[w] = [surface |-> s, toplevel |-> top]
        /\ \A v \in DOMAIN shown : v # w => shown'[v] = shown[v]
    BY <2>1 DEF PartialOK, With
  <2> QED
    BY <2>2, Zenon DEF OnScreen
<1>2. /\ t = [wl |-> With(shown, w, [surface |-> s, toplevel |-> None]),
              surface |-> With(tables.surface, s, w), toplevel |-> tables.toplevel]
      /\ s \notin DOMAIN tables.surface /\ top \notin DOMAIN tables.toplevel
  BY DEF Insert, TablesFit, OnScreen, InUse
<1>3. Lookup(t.surface, s) = w /\ w # None
  BY <1>2, WaylandConstants DEF Lookup, With
<1>4. tables' = [t EXCEPT !.wl[w].toplevel = top, !.toplevel = With(@, top, w)]
  BY <1>3 DEF SetToplevel
<1>5. tables' = [wl |-> [t.wl EXCEPT ![w].toplevel = top], surface |-> t.surface,
                 toplevel |-> With(t.toplevel, top, w)]
  <2>. HIDE DEF t
  <2> QED
    BY <1>2, <1>4
<1>6. tables'.wl = shown'
  <2>1. tables'.wl = [With(shown, w, [surface |-> s, toplevel |-> None]) EXCEPT ![w].toplevel = top]
    BY <1>2, <1>5
  <2> QED
    BY <2>1 DEF With
<1>7. /\ \A v \in DOMAIN shown : XdgSurface(v)' = XdgSurface(v) /\ XdgToplevel(v)' = XdgToplevel(v)
      /\ XdgSurface(w)' = s /\ XdgToplevel(w)' = top
  BY <1>1 DEF XdgSurface, XdgToplevel
<1>8. /\ {XdgSurface(v)' : v \in DOMAIN shown'} = {XdgSurface(v) : v \in DOMAIN shown} \cup {s}
      /\ {XdgToplevel(v)' : v \in DOMAIN shown'} = {XdgToplevel(v) : v \in DOMAIN shown} \cup {top}
  BY <1>1, <1>7
<1>9. tables'.surface = With(tables.surface, s, w) /\ tables'.toplevel = With(tables.toplevel, top, w)
  BY <1>2, <1>5
<1>10. /\ tables'.surface \in [{XdgSurface(v)' : v \in DOMAIN shown'} -> DOMAIN shown']
       /\ \A v \in DOMAIN shown' : tables'.surface[XdgSurface(v)'] = v
  <2>1. \A v \in DOMAIN shown : XdgSurface(v) # s /\ XdgSurface(v) \in DOMAIN tables.surface
    BY DEF InUse, TablesFit
  <2> QED
    BY <1>1, <1>7, <1>8, <1>9, <2>1 DEF TablesFit, With
<1>11. /\ tables'.toplevel \in [{XdgToplevel(v)' : v \in DOMAIN shown'} -> DOMAIN shown']
       /\ \A v \in DOMAIN shown' : tables'.toplevel[XdgToplevel(v)'] = v
  <2>1. \A v \in DOMAIN shown : XdgToplevel(v) # top /\ XdgToplevel(v) \in DOMAIN tables.toplevel
    BY DEF InUse, TablesFit
  <2> QED
    BY <1>1, <1>7, <1>8, <1>9, <2>1 DEF TablesFit, With
<1>12. \A u, v \in DOMAIN shown' : XdgSurface(u)' # XdgToplevel(v)'
  BY <1>1, <1>7 DEF TablesFit, InUse
<1>13. tables' = [wl |-> tables'.wl, surface |-> tables'.surface, toplevel |-> tables'.toplevel]
  BY <1>5
<1> QED
  BY <1>1, <1>5, <1>6, <1>10, <1>11, <1>12, <1>13, Zenon DEF TablesFit

LEMMA TakenDownFits ==
  ASSUME TypeOK, TablesFit, NEW w, OnScreen(w), TakenDown(w)
  PROVE  /\ PartialOK(shown, Windows, Places)'
         /\ TablesFit'
         /\ DOMAIN shown' = DOMAIN shown \ {w}
<1>. DEFINE s == XdgSurface(w)
            top == XdgToplevel(w)
            t == ToplevelDestroyed(tables, top)
<1>1. /\ PartialOK(shown', Windows, Places)
      /\ DOMAIN shown' = DOMAIN shown \ {w}
      /\ \A v \in DOMAIN shown \ {w} : shown'[v] = shown[v]
  BY DropIs, ZenonT(60) DEF TypeOK, Places, TakenDown
<1>2. w \in Windows /\ w # None /\ s # None /\ top # None
  BY WaylandConstants DEF TypeOK, PartialOK, OnScreen, XdgSurface, XdgToplevel
<1>3. Lookup(tables.toplevel, top) = w /\ tables.wl = shown /\ shown[w].surface = s
  BY DEF TablesFit, Lookup, OnScreen, XdgSurface
<1>4. t = [tables EXCEPT !.toplevel = Drop(tables.toplevel, top),
                         !.wl = [shown EXCEPT ![w].toplevel = None]]
  BY <1>2, <1>3 DEF ToplevelDestroyed
<1>. HIDE DEF t, s, top
<1>5. t = [wl |-> [shown EXCEPT ![w].toplevel = None], surface |-> tables.surface,
           toplevel |-> Drop(tables.toplevel, top)]
  BY <1>4 DEF TablesFit
<1>6. Lookup(t.surface, s) = w /\ t.wl[w].toplevel = None
  BY <1>5 DEF TablesFit, Lookup, OnScreen, TypeOK, PartialOK, s
<1>7. tables' = [t EXCEPT !.surface = Drop(t.surface, s), !.wl = Drop(t.wl, w)]
  BY <1>2, <1>6 DEF TakenDown, SurfaceDestroyed, t, s, top
<1>8. /\ tables' = [wl |-> Drop([shown EXCEPT ![w].toplevel = None], w),
                    surface |-> Drop(tables.surface, s), toplevel |-> Drop(tables.toplevel, top)]
      /\ tables'.surface = Drop(tables.surface, s)
      /\ tables'.toplevel = Drop(tables.toplevel, top)
      /\ tables'.wl = Drop([shown EXCEPT ![w].toplevel = None], w)
  BY <1>5, <1>7
<1>. USE DEF s, top
<1>9. tables'.wl = shown'
  BY <1>8 DEF TakenDown, Drop, Restrict, TypeOK, PartialOK
<1>10. \A v \in DOMAIN shown' : /\ XdgSurface(v)' = XdgSurface(v) /\ XdgSurface(v) # s
                               /\ XdgToplevel(v)' = XdgToplevel(v) /\ XdgToplevel(v) # top
  BY <1>1 DEF XdgSurface, XdgToplevel, TablesFit, OnScreen
<1>11. /\ {XdgSurface(v)' : v \in DOMAIN shown'} = {XdgSurface(v) : v \in DOMAIN shown} \ {s}
       /\ {XdgToplevel(v)' : v \in DOMAIN shown'} = {XdgToplevel(v) : v \in DOMAIN shown} \ {top}
  BY <1>1, <1>10
<1>12. /\ tables'.surface \in [{XdgSurface(v)' : v \in DOMAIN shown'} -> DOMAIN shown']
       /\ tables'.toplevel \in [{XdgToplevel(v)' : v \in DOMAIN shown'} -> DOMAIN shown']
  <2>1. \A a \in DOMAIN tables.surface \ {s} : tables.surface[a] \in DOMAIN shown'
    BY <1>1 DEF TablesFit
  <2>2. \A a \in DOMAIN tables.toplevel \ {top} : tables.toplevel[a] \in DOMAIN shown'
    BY <1>1 DEF TablesFit
  <2> QED
    BY <1>8, <1>11, <2>1, <2>2 DEF TablesFit, Drop, Restrict
<1>13. \A v \in DOMAIN shown' : /\ tables'.surface[XdgSurface(v)'] = v
                               /\ tables'.toplevel[XdgToplevel(v)'] = v
  BY <1>1, <1>8, <1>10 DEF TablesFit, Drop, Restrict
<1>14. \A u, v \in DOMAIN shown' : XdgSurface(u)' # XdgToplevel(v)'
  BY <1>1, <1>10 DEF TablesFit
<1> QED
  BY <1>1, <1>8, <1>9, <1>12, <1>13, <1>14, Zenon DEF TablesFit

-----------------------------------------------------------------------------
(* Names and requests *)

LEMMA NameIs ==
  ASSUME NamesFit, NEW w, Named(w)
  PROVE  /\ NameOf(w) \in DOMAIN toplevels
         /\ toplevels[NameOf(w)].window = w
         /\ \A n \in DOMAIN toplevels : toplevels[n].window = w => n = NameOf(w)
BY DEF NamesFit, Named, NameOf

\* What the invariant says in a session that the application can use.
LEMMA InSession ==
  ASSUME WInv, session # None, Free
  PROVE  /\ session \in DOMAIN store /\ clientId = session /\ queued = {}
         /\ Known = Stored /\ Known \subseteq Names /\ Known \subseteq kept
         /\ \A n \in DOMAIN toplevels : toplevels[n].from # n => n \notin Known
         /\ \A n \in DOMAIN toplevels :
              toplevels[n].attached <=> OnScreen(toplevels[n].window)
BY DEF WInv, TypeOK, PartialOK, SessionFits, StoreFits, Stored, Known, OnScreenIsTracked

\* A request changes the names of the session and the grants, unless it is inert.
LEMMA RequestIs ==
  ASSUME TypeOK, session \in DOMAIN store, session # None, NEW names \in SUBSET Names,
         NEW grants, inert \/ PartialOK(grants, Names, Windows), NEW error \in BOOLEAN,
         Request(names, grants, error), UNCHANGED <<session, clientId>>
  PROVE  /\ PartialOK(store, Sessions, SUBSET Names)'
         /\ PartialOK(granted, Names, Windows)'
         /\ DOMAIN store' = DOMAIN store
         /\ inert' = inert
         /\ Stored' = IF inert THEN Stored ELSE names
         /\ granted' = IF inert THEN granted ELSE grants
         /\ refused' = (refused \/ (~inert /\ error))
<1>1. CASE inert
  BY <1>1 DEF Request, compVars, TypeOK, Stored, PartialOK
<1>2. CASE ~inert
  <2>1. /\ store' = [store EXCEPT ![session] = names]
        /\ granted' = grants /\ refused' = (refused \/ error) /\ inert' = inert
    BY <1>2 DEF Request
  <2>2. /\ PartialOK(store, Sessions, SUBSET Names)'
        /\ DOMAIN store' = DOMAIN store /\ store'[session] = names
    BY <2>1 DEF TypeOK, PartialOK
  <2> QED
    BY <1>2, <2>1, <2>2 DEF Stored
<1> QED
  BY <1>1, <1>2 DEF TypeOK

\* The application and its windows leave the connection alone.
LEMMA LinkTyped ==
  ASSUME TypeOK, UNCHANGED linkVars, offers' = offers,
         PartialOK(shown, Windows, Places)',
         PartialOK(toplevels, Names,
                   [window : Windows, from : Names \cup {None}, attached : BOOLEAN])',
         PartialOK(store, Sessions, SUBSET Names)', PartialOK(granted, Names, Windows)',
         inert' \in BOOLEAN, refused' \in BOOLEAN, kept' \subseteq Names, queued' \subseteq Names
  PROVE  TypeOK'
BY DEF TypeOK, linkVars, Places

Toplevels == [window : Windows, from : Names \cup {None}, attached : BOOLEAN]

-----------------------------------------------------------------------------
(* The application and GTK *)

LEMMA RegisterKeeps ==
  ASSUME WInv, NEW w \in Windows, NEW n \in Names, NEW from \in {None, n},
         from = None => n \notin kept, from = n => ~OnScreen(w),
         RegisterWindow(w, n, from)
  PROVE  WInv'
<1>. DEFINE now == from = None /\ session # None /\ OnScreen(w)
            t == [window |-> w, from |-> IF now THEN n ELSE from, attached |-> now]
<1>1. /\ Free /\ ~Named(w) /\ ~NameIsClaimed(n) /\ kept' = kept \cup {n}
      /\ UNCHANGED guiVars /\ UNCHANGED linkVars /\ UNCHANGED <<queued, offers>>
      /\ now => AddToplevel(n, w)
      /\ ~now => UNCHANGED compVars
      /\ toplevels' = With(toplevels, n, t)
  <2>1. ToplevelForWindow(tables, w) # None <=> OnScreen(w)
    BY ToplevelIs DEF WInv
  <2> QED
    BY <2>1 DEF RegisterWindow
<1>2. t \in Toplevels /\ t.window = w /\ t.attached = now /\ t.from = IF now THEN n ELSE from
  BY DEF Toplevels
<1>. HIDE DEF t
<1>3. /\ PartialOK(toplevels', Names, Toplevels)
      /\ DOMAIN toplevels' = DOMAIN toplevels \cup {n} /\ n \notin DOMAIN toplevels
      /\ toplevels'[n] = t
      /\ \A m \in DOMAIN toplevels : toplevels'[m] = toplevels[m]
  BY <1>1, <1>2 DEF WInv, TypeOK, PartialOK, Toplevels, With, NameIsClaimed
<1>4. \A m \in DOMAIN toplevels : toplevels[m].window # w /\ toplevels[m].from # n
  BY <1>1 DEF Named, NameIsClaimed
<1>5. /\ UNCHANGED <<shown, tables, session, state, status, clientId>>
      /\ Free' /\ (\A v : OnScreen(v)' <=> OnScreen(v))
  BY <1>1 DEF guiVars, linkVars, Free, OnScreen
<1>6. TablesFit' /\ PartialOK(shown, Windows, Places)'
  BY <1>5 DEF WInv, TablesFit, XdgSurface, XdgToplevel, TypeOK, Places
<1>7. NamesFit'
  <2>1. ASSUME NEW m \in DOMAIN toplevels', toplevels'[m].attached
        PROVE  /\ toplevels'[m].from = m /\ toplevels'[m].window \in DOMAIN shown'
               /\ session' # None /\ Free'
    <3>1. CASE m = n
      BY <1>2, <1>3, <1>5, <2>1, <3>1 DEF OnScreen
    <3>2. CASE m # n
      BY <1>3, <1>5, <2>1, <3>2 DEF WInv, NamesFit, OnScreen
    <3> QED
      BY <3>1, <3>2
  <2>2. ASSUME NEW l \in DOMAIN toplevels', NEW m \in DOMAIN toplevels', l # m
        PROVE  /\ toplevels'[l].window # toplevels'[m].window
               /\ toplevels'[l].from # m
               /\ toplevels'[l].from # None => toplevels'[l].from # toplevels'[m].from
    <3>1. t.from \in {n, None} /\ n # None /\ l # None /\ m # None
      BY <1>2, <1>3, WaylandConstants DEF PartialOK
    <3>2. CASE l = n
      BY <1>2, <1>3, <1>4, <2>2, <3>1, <3>2
    <3>3. CASE m = n
      BY <1>2, <1>3, <1>4, <2>2, <3>1, <3>3
    <3>4. CASE l # n /\ m # n
      BY <1>3, <2>2, <3>4 DEF WInv, NamesFit
    <3> QED
      BY <3>2, <3>3, <3>4
  <2>3. DOMAIN toplevels' \subseteq kept'
    BY <1>1, <1>3 DEF WInv, NamesFit
  <2> QED
    BY <2>1, <2>2, <2>3 DEF NamesFit, OnScreen
<1>8. CASE now
  <2>1. /\ session \in DOMAIN store /\ Known = Stored /\ Known \subseteq Names /\ queued = {}
        /\ Known \subseteq kept
        /\ \A m \in DOMAIN toplevels : toplevels[m].from # m => m \notin Known
    BY <1>1, <1>8, InSession
  <2>2. ~inert => ~Granted(w)
    BY <1>1, <1>4, <1>8 DEF WInv, GrantsFit, Granted
  <2>3. /\ PartialOK(With(granted, n, w), Names, Windows)
        /\ DOMAIN With(granted, n, w) = DOMAIN granted \cup {n}
        /\ With(granted, n, w)[n] = w
        /\ \A m \in DOMAIN granted : m # n => With(granted, n, w)[m] = granted[m]
    BY DEF WInv, TypeOK, PartialOK, With
  <2>4. /\ PartialOK(store, Sessions, SUBSET Names)'
        /\ PartialOK(granted, Names, Windows)'
        /\ DOMAIN store' = DOMAIN store
        /\ inert' = inert
        /\ Stored' = IF inert THEN Stored ELSE Known \cup {n}
        /\ granted' = IF inert THEN granted ELSE With(granted, n, w)
        /\ refused' = (refused \/ (~inert /\ (n \in Known \/ Granted(w))))
    BY <1>1, <1>5, <1>8, <2>1, <2>3, RequestIs DEF AddToplevel, WInv
  <2>5. NeverRefused'
    BY <1>8, <2>1, <2>2, <2>4 DEF NeverRefused, WInv
  <2>6. StoreFits'
    BY <1>1, <1>2, <1>3, <1>8, <2>1, <2>4 DEF StoreFits, WInv
  <2>7. SessionFits'
    BY <1>1, <1>5, <2>4 DEF SessionFits, WInv, Free
  <2>8. GrantsFit'
    <3>1. CASE inert
      BY <1>5, <2>4, <3>1 DEF GrantsFit, WInv
    <3>2. CASE ~inert
      <4>1. {m \in DOMAIN toplevels' : toplevels'[m].attached}
              = {m \in DOMAIN toplevels : toplevels[m].attached} \cup {n}
        BY <1>2, <1>3, <1>8
      <4>2. /\ DOMAIN granted = {m \in DOMAIN toplevels : toplevels[m].attached}
            /\ \A m \in DOMAIN granted : granted[m] = toplevels[m].window
        BY <1>1, <1>8, <3>2 DEF GrantsFit, WInv
      <4> QED
        BY <1>1, <1>2, <1>3, <1>5, <1>8, <2>3, <2>4, <3>2, <4>1, <4>2 DEF GrantsFit
    <3> QED
      BY <3>1, <3>2
  <2>9. OnScreenIsTracked'
    BY <1>2, <1>3, <1>5, <1>8 DEF OnScreenIsTracked, WInv, Free
  <2>10. TypeOK'
    <3>1. inert' \in BOOLEAN /\ refused' \in BOOLEAN /\ kept' \subseteq Names /\ queued' \subseteq Names
      BY <1>1, <2>4, <2>5 DEF WInv, TypeOK, NeverRefused
    <3> QED
      BY <1>1, <1>3, <1>6, <2>4, <3>1, LinkTyped DEF WInv, Toplevels
  <2> QED
    BY <1>6, <1>7, <2>5, <2>6, <2>7, <2>8, <2>9, <2>10 DEF WInv
<1>9. CASE ~now
  <2>1. UNCHANGED <<store, granted, inert, refused>> /\ Stored' = Stored
    BY <1>1, <1>5, <1>9 DEF compVars, Stored
  <2>2. NeverRefused'
    BY <2>1 DEF NeverRefused, WInv
  <2>3. StoreFits'
    BY <1>1, <1>2, <1>3, <1>9, <2>1 DEF StoreFits, WInv
  <2>4. SessionFits'
    BY <1>1, <1>5, <2>1 DEF SessionFits, WInv, Free
  <2>5. GrantsFit'
    <3>1. {m \in DOMAIN toplevels' : toplevels'[m].attached}
            = {m \in DOMAIN toplevels : toplevels[m].attached}
      BY <1>2, <1>3, <1>9
    <3> QED
      BY <1>1, <1>3, <1>5, <2>1, <3>1 DEF GrantsFit, WInv
  <2>6. OnScreenIsTracked'
    BY <1>2, <1>3, <1>5, <1>9 DEF OnScreenIsTracked, WInv, Free
  <2>7. TypeOK'
    <3>1. /\ PartialOK(store, Sessions, SUBSET Names)' /\ PartialOK(granted, Names, Windows)'
          /\ inert' \in BOOLEAN /\ refused' \in BOOLEAN /\ kept' \subseteq Names /\ queued' \subseteq Names
      BY <1>1, <2>1 DEF WInv, TypeOK, PartialOK
    <3> QED
      BY <1>1, <1>3, <1>6, <3>1, LinkTyped DEF WInv, Toplevels
  <2> QED
    BY <1>6, <1>7, <2>2, <2>3, <2>4, <2>5, <2>6, <2>7 DEF WInv
<1> QED
  BY <1>8, <1>9

LEMMA RenameKeeps ==
  ASSUME WInv, NEW w \in Windows, NEW new \in Names, RenameWindow(w, new)
  PROVE  WInv'
<1>. DEFINE n == NameOf(w)
            now == toplevels[n].attached
            t == [toplevels[n] EXCEPT !.from = IF now THEN new ELSE @]
<1>1. /\ Free /\ ~NameIsClaimed(new) /\ new \notin kept /\ kept' = kept \cup {new}
      /\ UNCHANGED guiVars /\ UNCHANGED linkVars /\ UNCHANGED <<queued, offers>>
      /\ now => RenameToplevel(n, new)
      /\ ~now => UNCHANGED compVars
  BY DEF RenameWindow
<1>2. /\ n \in DOMAIN toplevels /\ toplevels[n].window = w /\ n \in Names /\ n # None
      /\ toplevels[n] \in Toplevels /\ new # n /\ new \notin DOMAIN toplevels
  BY <1>1, NameIs, WaylandConstants
  DEF WInv, RenameWindow, TypeOK, PartialOK, Toplevels, NameIsClaimed
<1>3. /\ t \in Toplevels /\ t.window = w /\ t.attached = now
      /\ t.from = IF now THEN new ELSE toplevels[n].from
  BY <1>2 DEF Toplevels
<1>4. toplevels' = With(Drop(toplevels, n), new, t)
  BY <1>2 DEF RenameWindow, Toplevels
<1>. HIDE DEF t, n
<1>5. /\ PartialOK(toplevels', Names, Toplevels)
      /\ DOMAIN toplevels' = (DOMAIN toplevels \ {n}) \cup {new}
      /\ toplevels'[new] = t
      /\ \A m \in DOMAIN toplevels \ {n} : m # new /\ toplevels'[m] = toplevels[m]
  BY <1>2, <1>3, <1>4 DEF WInv, TypeOK, PartialOK, Toplevels, With, Drop, Restrict
<1>6. \A m \in DOMAIN toplevels \ {n} :
        /\ toplevels[m].window # w /\ toplevels[m].from # new /\ m # None
        /\ toplevels[n].from # None => toplevels[m].from # toplevels[n].from
        /\ toplevels[n].from # m
  BY <1>1, <1>2, WaylandConstants DEF WInv, NamesFit, NameIsClaimed, TypeOK, PartialOK
<1>7. /\ UNCHANGED <<shown, tables, session, state, status, clientId>>
      /\ Free'
  BY <1>1 DEF guiVars, linkVars, Free
<1>8. TablesFit' /\ PartialOK(shown, Windows, Places)'
  BY <1>7 DEF WInv, TablesFit, XdgSurface, XdgToplevel, TypeOK, Places
<1>9. NamesFit'
  <2>1. ASSUME NEW m \in DOMAIN toplevels', toplevels'[m].attached
        PROVE  /\ toplevels'[m].from = m /\ toplevels'[m].window \in DOMAIN shown'
               /\ session' # None /\ Free'
    <3>1. CASE m = new
      BY <1>2, <1>3, <1>5, <1>7, <2>1, <3>1 DEF OnScreen, WInv, NamesFit
    <3>2. CASE m # new
      BY <1>5, <1>7, <2>1, <3>2 DEF WInv, NamesFit, OnScreen
    <3> QED
      BY <3>1, <3>2
  <2>2. ASSUME NEW l \in DOMAIN toplevels', NEW m \in DOMAIN toplevels', l # m
        PROVE  /\ toplevels'[l].window # toplevels'[m].window
               /\ toplevels'[l].from # m
               /\ toplevels'[l].from # None => toplevels'[l].from # toplevels'[m].from
    <3>1. toplevels[n].from # new /\ new # None
      BY <1>1, <1>2, WaylandConstants DEF NameIsClaimed
    <3>2. CASE l = new
      BY <1>3, <1>5, <1>6, <2>2, <3>1, <3>2
    <3>3. CASE m = new
      BY <1>3, <1>5, <1>6, <2>2, <3>1, <3>3
    <3>4. CASE l # new /\ m # new
      BY <1>5, <2>2, <3>4 DEF WInv, NamesFit
    <3> QED
      BY <3>2, <3>3, <3>4
  <2>3. DOMAIN toplevels' \subseteq kept'
    BY <1>1, <1>5 DEF WInv, NamesFit
  <2> QED
    BY <2>1, <2>2, <2>3 DEF NamesFit, OnScreen
<1>10. OnScreenIsTracked'
  <2>1. ASSUME session' # None, NEW m \in DOMAIN toplevels'
        PROVE  toplevels'[m].attached <=> toplevels'[m].window \in DOMAIN shown'
    BY <1>1, <1>2, <1>3, <1>5, <1>7, <2>1 DEF OnScreenIsTracked, WInv, OnScreen
  <2> QED
    BY <2>1 DEF OnScreenIsTracked, OnScreen
<1>11. CASE now
  <2>1. session # None /\ toplevels[n].from = n
    BY <1>2, <1>11 DEF WInv, NamesFit
  <2>2. /\ session \in DOMAIN store /\ Known = Stored /\ Known \subseteq Names /\ queued = {}
        /\ Known \subseteq kept
        /\ \A m \in DOMAIN toplevels : toplevels[m].from # m => m \notin Known
    BY <1>1, <2>1, InSession
  <2>. DEFINE grants == With(Drop(granted, n), new, granted[n])
  <2>3. ASSUME ~inert
        PROVE  /\ DOMAIN granted = {m \in DOMAIN toplevels : toplevels[m].attached}
               /\ \A m \in DOMAIN granted : granted[m] = toplevels[m].window
               /\ n \in DOMAIN granted /\ granted[n] = w
    BY <1>1, <1>2, <1>11, <2>1, <2>3 DEF WInv, GrantsFit
  <2>4. ASSUME ~inert
        PROVE  /\ PartialOK(grants, Names, Windows)
               /\ DOMAIN grants = (DOMAIN granted \ {n}) \cup {new}
               /\ grants[new] = w
               /\ \A m \in DOMAIN granted \ {n} : m # new => grants[m] = granted[m]
    BY <1>2, <2>3, <2>4 DEF WInv, TypeOK, PartialOK, With, Drop, Restrict
  <2>. HIDE DEF grants
  <2>5. /\ PartialOK(store, Sessions, SUBSET Names)'
        /\ PartialOK(granted, Names, Windows)'
        /\ DOMAIN store' = DOMAIN store
        /\ inert' = inert
        /\ Stored' = IF inert THEN Stored ELSE (Known \ {n}) \cup {new}
        /\ granted' = IF inert THEN granted ELSE grants
        /\ refused' = (refused \/ (~inert /\ new \in Known))
    <3>1. Request((Known \ {n}) \cup {new}, grants, new \in Known)
      BY <1>1, <1>11 DEF RenameToplevel, grants
    <3>2. /\ (Known \ {n}) \cup {new} \in SUBSET Names /\ (new \in Known) \in BOOLEAN
          /\ inert \/ PartialOK(grants, Names, Windows)
          /\ TypeOK /\ UNCHANGED <<session, clientId>>
      BY <1>7, <2>2, <2>4 DEF WInv
    <3> QED
      BY <2>1, <2>2, <3>1, <3>2, RequestIs, Zenon
  <2>6. NeverRefused'
    BY <1>1, <2>2, <2>5 DEF NeverRefused, WInv
  <2>7. StoreFits'
    BY <1>1, <1>3, <1>5, <1>11, <2>2, <2>5 DEF StoreFits, WInv
  <2>8. SessionFits'
    BY <1>1, <1>7, <2>5 DEF SessionFits, WInv, Free
  <2>9. GrantsFit'
    <3>1. CASE inert
      BY <1>7, <2>5, <3>1 DEF GrantsFit, WInv
    <3>2. CASE ~inert
      <4>1. {m \in DOMAIN toplevels' : toplevels'[m].attached}
              = ({m \in DOMAIN toplevels : toplevels[m].attached} \ {n}) \cup {new}
        BY <1>2, <1>3, <1>5, <1>11
      <4>2. DOMAIN granted' = {m \in DOMAIN toplevels' : toplevels'[m].attached}
        BY <2>3, <2>4, <2>5, <3>2, <4>1
      <4>3. \A m \in DOMAIN granted' : granted'[m] = toplevels'[m].window
        BY <1>2, <1>3, <1>5, <2>3, <2>4, <2>5, <3>2
      <4> QED
        BY <1>1, <1>7, <2>1, <2>5, <3>2, <4>2, <4>3 DEF GrantsFit
    <3> QED
      BY <3>1, <3>2
  <2>10. TypeOK'
    <3>1. inert' \in BOOLEAN /\ refused' \in BOOLEAN /\ kept' \subseteq Names /\ queued' \subseteq Names
      BY <1>1, <2>5, <2>6 DEF WInv, TypeOK, NeverRefused
    <3> QED
      BY <1>1, <1>5, <1>8, <2>5, <3>1, LinkTyped DEF WInv, Toplevels
  <2> QED
    BY <1>8, <1>9, <1>10, <2>6, <2>7, <2>8, <2>9, <2>10 DEF WInv
<1>12. CASE ~now
  <2>1. UNCHANGED <<store, granted, inert, refused>> /\ Stored' = Stored
    BY <1>1, <1>7, <1>12 DEF compVars, Stored
  <2>2. NeverRefused'
    BY <2>1 DEF NeverRefused, WInv
  <2>3. StoreFits'
    BY <1>1, <1>3, <1>5, <1>12, <2>1 DEF StoreFits, WInv
  <2>4. SessionFits'
    BY <1>1, <1>7, <2>1 DEF SessionFits, WInv, Free
  <2>5. GrantsFit'
    <3>1. {m \in DOMAIN toplevels' : toplevels'[m].attached}
            = {m \in DOMAIN toplevels : toplevels[m].attached}
      BY <1>2, <1>3, <1>5, <1>12
    <3>2. \A m \in DOMAIN toplevels \ {n} : toplevels'[m].window = toplevels[m].window
      BY <1>5
    <3> QED
      BY <1>1, <1>7, <1>12, <2>1, <3>1, <3>2 DEF GrantsFit, WInv
  <2>6. TypeOK'
    <3>1. /\ PartialOK(store, Sessions, SUBSET Names)' /\ PartialOK(granted, Names, Windows)'
          /\ inert' \in BOOLEAN /\ refused' \in BOOLEAN /\ kept' \subseteq Names /\ queued' \subseteq Names
      BY <1>1, <2>1 DEF WInv, TypeOK, PartialOK
    <3> QED
      BY <1>1, <1>5, <1>8, <3>1, LinkTyped DEF WInv, Toplevels
  <2> QED
    BY <1>8, <1>9, <1>10, <2>2, <2>3, <2>4, <2>5, <2>6 DEF WInv
<1> QED
  BY <1>11, <1>12

LEMMA RemoveKeeps ==
  ASSUME WInv, NEW n \in Names, RemoveWindow(n)
  PROVE  WInv'
<1>. DEFINE k == NameToRemove(n)
<1>1. /\ Free /\ n \in kept /\ ~inert /\ kept' = kept \ {n} /\ toplevels' = Drop(toplevels, n)
      /\ UNCHANGED guiVars /\ UNCHANGED linkVars /\ offers' = offers
      /\ session # None => RemoveToplevel(k) /\ queued' = queued
      /\ session = None => queued' = queued \cup {k} /\ UNCHANGED compVars
  BY DEF RemoveWindow
<1>2. /\ k \in Names
      /\ k = n \/ (n \in DOMAIN toplevels /\ toplevels[n].from = k /\ k # n)
  BY DEF NameToRemove, WInv, TypeOK, PartialOK
<1>3. /\ PartialOK(toplevels', Names, Toplevels)
      /\ DOMAIN toplevels' = DOMAIN toplevels \ {n}
      /\ \A m \in DOMAIN toplevels \ {n} : toplevels'[m] = toplevels[m]
  BY <1>1 DEF WInv, TypeOK, PartialOK, Toplevels, Drop, Restrict
<1>. HIDE DEF k
<1>4. /\ UNCHANGED <<shown, tables, session, state, status, clientId>>
      /\ Free'
  BY <1>1 DEF guiVars, linkVars, Free
<1>5. TablesFit' /\ PartialOK(shown, Windows, Places)'
  BY <1>4 DEF WInv, TablesFit, XdgSurface, XdgToplevel, TypeOK, Places
<1>6. NamesFit'
  <2>1. \A m \in DOMAIN toplevels' : toplevels'[m].attached =>
          /\ toplevels'[m].from = m /\ toplevels'[m].window \in DOMAIN shown'
          /\ session' # None /\ Free'
    BY <1>3, <1>4 DEF WInv, NamesFit, OnScreen
  <2>2. \A l, m \in DOMAIN toplevels' : l # m =>
          /\ toplevels'[l].window # toplevels'[m].window
          /\ toplevels'[l].from # m
          /\ toplevels'[l].from # None => toplevels'[l].from # toplevels'[m].from
    BY <1>3 DEF WInv, NamesFit
  <2>3. DOMAIN toplevels' \subseteq kept'
    BY <1>1, <1>3 DEF WInv, NamesFit
  <2> QED
    BY <2>1, <2>2, <2>3 DEF NamesFit, OnScreen
<1>7. OnScreenIsTracked'
  <2>1. ASSUME session' # None, NEW m \in DOMAIN toplevels'
        PROVE  toplevels'[m].attached <=> toplevels'[m].window \in DOMAIN shown'
    BY <1>1, <1>3, <1>4, <2>1 DEF OnScreenIsTracked, WInv, OnScreen
  <2> QED
    BY <2>1 DEF OnScreenIsTracked, OnScreen
<1>8. CASE session # None
  <2>1. /\ session \in DOMAIN store /\ Known = Stored /\ Known \subseteq Names /\ queued = {}
        /\ Known \subseteq kept
        /\ \A m \in DOMAIN toplevels : toplevels[m].from # m => m \notin Known
    BY <1>1, <1>8, InSession
  <2>2. /\ DOMAIN granted = {m \in DOMAIN toplevels : toplevels[m].attached}
        /\ \A m \in DOMAIN granted : granted[m] = toplevels[m].window
    BY <1>1, <1>8 DEF WInv, GrantsFit
  <2>3. /\ PartialOK(Drop(granted, k), Names, Windows)
        /\ DOMAIN Drop(granted, k) = DOMAIN granted \ {k}
        /\ \A m \in DOMAIN granted \ {k} : Drop(granted, k)[m] = granted[m]
    BY DEF WInv, TypeOK, PartialOK, Drop, Restrict
  <2>4. /\ PartialOK(store, Sessions, SUBSET Names)'
        /\ PartialOK(granted, Names, Windows)'
        /\ DOMAIN store' = DOMAIN store
        /\ inert' = inert
        /\ Stored' = Known \ {k}
        /\ granted' = Drop(granted, k)
        /\ refused' = refused
    BY <1>1, <1>4, <1>8, <2>1, <2>3, RequestIs DEF RemoveToplevel, WInv, TypeOK
  <2>5. NeverRefused'
    BY <2>4 DEF NeverRefused, WInv
  <2>6. StoreFits'
    BY <1>1, <1>2, <1>3, <1>8, <2>1, <2>4 DEF StoreFits
  <2>7. SessionFits'
    BY <1>1, <1>4, <1>8, <2>4 DEF SessionFits, WInv, Free
  <2>8. GrantsFit'
    <3>1. k \in DOMAIN granted => k = n
      BY <1>2, <2>2 DEF WInv, NamesFit
    <3>2. n \in DOMAIN granted => k = n
      BY <1>2, <2>2 DEF WInv, NamesFit
    <3>3. DOMAIN granted' = DOMAIN granted \ {n}
      BY <2>3, <2>4, <3>1, <3>2
    <3>4. {m \in DOMAIN toplevels' : toplevels'[m].attached}
            = {m \in DOMAIN toplevels : toplevels[m].attached} \ {n}
      BY <1>3
    <3>5. \A m \in DOMAIN granted' : granted'[m] = toplevels'[m].window
      BY <1>3, <2>2, <2>3, <2>4, <3>3
    <3> QED
      BY <1>1, <1>4, <1>8, <2>2, <2>4, <3>3, <3>4, <3>5 DEF GrantsFit
  <2>9. TypeOK'
    <3>1. inert' \in BOOLEAN /\ refused' \in BOOLEAN /\ kept' \subseteq Names /\ queued' \subseteq Names
      BY <1>1, <1>8, <2>4 DEF WInv, TypeOK
    <3> QED
      BY <1>1, <1>3, <1>5, <2>4, <3>1, LinkTyped DEF WInv, Toplevels
  <2> QED
    BY <1>5, <1>6, <1>7, <2>5, <2>6, <2>7, <2>8, <2>9 DEF WInv
<1>9. CASE session = None
  <2>1. UNCHANGED <<store, granted, inert, refused>> /\ Stored' = Stored
    BY <1>1, <1>4, <1>9 DEF compVars, Stored
  <2>2. NeverRefused'
    BY <2>1 DEF NeverRefused, WInv
  <2>3. StoreFits'
    <3>1. n \in Stored => n \in queued \cup {k}
      BY <1>2 DEF WInv, StoreFits
    <3> QED
      BY <1>1, <1>3, <1>9, <2>1, <3>1 DEF StoreFits, WInv
  <2>4. SessionFits'
    BY <1>1, <1>4, <1>9, <2>1 DEF SessionFits, WInv, Free
  <2>5. GrantsFit'
    BY <1>4, <1>9, <2>1 DEF GrantsFit, WInv
  <2>6. TypeOK'
    <3>1. /\ PartialOK(store, Sessions, SUBSET Names)' /\ PartialOK(granted, Names, Windows)'
          /\ inert' \in BOOLEAN /\ refused' \in BOOLEAN /\ kept' \subseteq Names /\ queued' \subseteq Names
      BY <1>1, <1>2, <1>9, <2>1 DEF WInv, TypeOK, PartialOK
    <3> QED
      BY <1>1, <1>3, <1>5, <3>1, LinkTyped DEF WInv, Toplevels
  <2> QED
    BY <1>5, <1>6, <1>7, <2>2, <2>3, <2>4, <2>5, <2>6 DEF WInv
<1> QED
  BY <1>8, <1>9

LEMMA ShowKeeps ==
  ASSUME WInv, NEW w \in Windows, Show(w)
  PROVE  WInv'
<1>1. /\ Free /\ ~OnScreen(w) /\ UNCHANGED linkVars /\ UNCHANGED <<queued, offers, kept>>
      /\ ~(session # None /\ Named(w)) => UNCHANGED <<toplevels, compVars>>
  BY DEF Show
<1>2. /\ PartialOK(shown, Windows, Places)'
      /\ TablesFit'
      /\ DOMAIN shown' = DOMAIN shown \cup {w}
  <2>1. PICK s, top \in Addresses \ InUse :
          /\ s # top
          /\ shown' = With(shown, w, [surface |-> s, toplevel |-> top])
          /\ tables' = SetToplevel(Insert(tables, w, s), s, top)
    BY DEF Show
  <2> QED
    BY <1>1, <2>1, MappedFits DEF WInv
<1>3. UNCHANGED <<session, state, status, clientId>> /\ Free'
  BY <1>1 DEF linkVars, Free
<1>4. CASE session # None /\ Named(w)
  <2>. DEFINE n == NameOf(w)
              from == toplevels[n].from
              old == IF from # None THEN from ELSE n
  <2>1. /\ n \in DOMAIN toplevels /\ toplevels[n].window = w
        /\ \A m \in DOMAIN toplevels : m # n => toplevels[m].window # w
        /\ toplevels[n] \in Toplevels /\ n \in Names /\ n # None
    BY <1>4, NameIs, WaylandConstants DEF WInv, TypeOK, PartialOK, Toplevels
  <2>2. /\ IF from # None THEN RestoreToplevel(from, n, w) ELSE AddToplevel(n, w)
        /\ toplevels' = [toplevels EXCEPT ![n].from = n, ![n].attached = TRUE]
    BY <1>4 DEF Show
  <2>. HIDE DEF n
  <2>3. /\ session \in DOMAIN store /\ Known = Stored /\ Known \subseteq Names /\ queued = {}
        /\ Known \subseteq kept
        /\ \A m \in DOMAIN toplevels : toplevels[m].from # m => m \notin Known
        /\ \A m \in DOMAIN toplevels : toplevels[m].attached <=> OnScreen(toplevels[m].window)
    BY <1>1, <1>4, InSession
  <2>4. /\ PartialOK(toplevels', Names, Toplevels) /\ DOMAIN toplevels' = DOMAIN toplevels
        /\ toplevels'[n].window = w /\ toplevels'[n].from = n /\ toplevels'[n].attached
        /\ \A m \in DOMAIN toplevels : m # n => toplevels'[m] = toplevels[m]
    BY <2>1, <2>2 DEF WInv, TypeOK, PartialOK, Toplevels
  <2>5. ~inert => /\ ~Granted(w) /\ from \notin DOMAIN granted
                  /\ DOMAIN granted = {m \in DOMAIN toplevels : toplevels[m].attached}
                  /\ \A m \in DOMAIN granted : granted[m] = toplevels[m].window
    <3>1. ASSUME ~inert
          PROVE  /\ DOMAIN granted = {m \in DOMAIN toplevels : toplevels[m].attached}
                 /\ \A m \in DOMAIN granted : granted[m] = toplevels[m].window
      BY <1>1, <1>4, <3>1 DEF WInv, GrantsFit
    <3>2. ~inert => ~Granted(w)
      BY <1>1, <2>3, <3>1 DEF Granted
    <3>3. ~inert => from \notin DOMAIN granted
      BY <1>1, <2>1, <2>3, <3>1 DEF WInv, NamesFit
    <3> QED
      BY <3>1, <3>2, <3>3
  <2>6. /\ PartialOK(With(granted, n, w), Names, Windows)
        /\ DOMAIN With(granted, n, w) = DOMAIN granted \cup {n}
        /\ With(granted, n, w)[n] = w
        /\ \A m \in DOMAIN granted : m # n => With(granted, n, w)[m] = granted[m]
    BY <2>1 DEF WInv, TypeOK, PartialOK, With
  <2>7. PICK error \in BOOLEAN :
          /\ error => from \in DOMAIN granted \/ Granted(w) \/ (from # n /\ n \in Known)
          /\ Request((Known \ {from}) \cup {n}, With(granted, n, w), error)
    <3>1. CASE from # None
      BY <2>2, <3>1 DEF RestoreToplevel
    <3>2. CASE from = None
      <4>1. from \notin Known
        BY <2>3, <3>2, WaylandConstants
      <4>2. (Known \ {from}) \cup {n} = Known \cup {n}
        BY <4>1
      <4>3. Request(Known \cup {n}, With(granted, n, w), n \in Known \/ Granted(w))
        BY <2>2, <3>2 DEF AddToplevel
      <4>4. from # n
        BY <2>1, <3>2
      <4> QED
        BY <4>2, <4>3, <4>4
    <3> QED
      BY <3>1, <3>2
  <2>8. /\ PartialOK(store, Sessions, SUBSET Names)'
        /\ PartialOK(granted, Names, Windows)'
        /\ DOMAIN store' = DOMAIN store
        /\ inert' = inert
        /\ Stored' = IF inert THEN Stored ELSE (Known \ {from}) \cup {n}
        /\ granted' = IF inert THEN granted ELSE With(granted, n, w)
        /\ refused' = (refused \/ (~inert /\ error))
    <3>1. /\ (Known \ {from}) \cup {n} \in SUBSET Names
          /\ TypeOK /\ UNCHANGED <<session, clientId>> /\ session # None
      BY <1>3, <1>4, <2>1, <2>3 DEF WInv
    <3> QED
      BY <2>3, <2>6, <2>7, <3>1, RequestIs, Zenon
  <2>9. NeverRefused'
    BY <2>1, <2>3, <2>5, <2>7, <2>8 DEF NeverRefused, WInv
  <2>10. StoreFits'
    BY <1>1, <2>1, <2>3, <2>4, <2>8 DEF StoreFits, WInv, NamesFit
  <2>11. SessionFits'
    BY <1>1, <1>3, <2>8 DEF SessionFits, WInv, Free
  <2>12. GrantsFit'
    <3>1. CASE inert
      BY <1>3, <2>8, <3>1 DEF GrantsFit, WInv
    <3>2. CASE ~inert
      <4>1. {m \in DOMAIN toplevels' : toplevels'[m].attached}
              = {m \in DOMAIN toplevels : toplevels[m].attached} \cup {n}
        BY <2>1, <2>4
      <4>2. DOMAIN granted' = {m \in DOMAIN toplevels' : toplevels'[m].attached}
        BY <2>5, <2>6, <2>8, <3>2, <4>1
      <4>3. \A m \in DOMAIN granted' : granted'[m] = toplevels'[m].window
        BY <2>1, <2>4, <2>5, <2>6, <2>8, <3>2
      <4> QED
        BY <1>1, <1>3, <1>4, <2>8, <3>2, <4>2, <4>3 DEF GrantsFit
    <3> QED
      BY <3>1, <3>2
  <2>13. NamesFit'
    <3>1. \A m \in DOMAIN toplevels' : toplevels'[m].attached =>
            /\ toplevels'[m].from = m /\ toplevels'[m].window \in DOMAIN shown'
            /\ session' # None /\ Free'
      BY <1>2, <1>3, <1>4, <2>1, <2>4 DEF WInv, NamesFit, OnScreen
    <3>2. ASSUME NEW l \in DOMAIN toplevels', NEW m \in DOMAIN toplevels', l # m
          PROVE  /\ toplevels'[l].window # toplevels'[m].window
                 /\ toplevels'[l].from # m
                 /\ toplevels'[l].from # None => toplevels'[l].from # toplevels'[m].from
      <4>1. CASE l = n
        BY <2>1, <2>4, <3>2, <4>1 DEF WInv, NamesFit
      <4>2. CASE m = n
        BY <2>1, <2>4, <3>2, <4>2 DEF WInv, NamesFit
      <4>3. CASE l # n /\ m # n
        BY <2>4, <3>2, <4>3 DEF WInv, NamesFit
      <4> QED
        BY <4>1, <4>2, <4>3
    <3>3. DOMAIN toplevels' \subseteq kept'
      BY <1>1, <2>4 DEF WInv, NamesFit
    <3> QED
      BY <3>1, <3>2, <3>3 DEF NamesFit, OnScreen
  <2>14. OnScreenIsTracked'
    <3>1. \A m \in DOMAIN toplevels' :
            toplevels'[m].attached <=> toplevels'[m].window \in DOMAIN shown'
      BY <1>2, <2>1, <2>3, <2>4 DEF OnScreen
    <3> QED
      BY <3>1 DEF OnScreenIsTracked, OnScreen
  <2>15. TypeOK'
    <3>1. inert' \in BOOLEAN /\ refused' \in BOOLEAN /\ kept' \subseteq Names /\ queued' \subseteq Names
      BY <1>1, <2>8 DEF WInv, TypeOK
    <3> QED
      BY <1>1, <1>2, <2>4, <2>8, <3>1, LinkTyped DEF WInv, Toplevels
  <2> QED
    BY <1>2, <2>9, <2>10, <2>11, <2>12, <2>13, <2>14, <2>15 DEF WInv
<1>5. CASE ~(session # None /\ Named(w))
  <2>1. UNCHANGED <<toplevels, store, granted, inert, refused>> /\ Stored' = Stored
    BY <1>1, <1>3, <1>5 DEF compVars, Stored
  <2>2. NeverRefused' /\ StoreFits'
    BY <1>1, <2>1 DEF NeverRefused, StoreFits, WInv
  <2>3. SessionFits'
    BY <1>1, <1>3, <2>1 DEF SessionFits, WInv, Free
  <2>4. GrantsFit'
    BY <1>1, <1>3, <2>1 DEF GrantsFit, WInv
  <2>5. NamesFit'
    <3>1. \A m \in DOMAIN toplevels' : toplevels'[m].attached =>
            /\ toplevels'[m].from = m /\ toplevels'[m].window \in DOMAIN shown'
            /\ session' # None /\ Free'
      BY <1>2, <1>3, <2>1 DEF WInv, NamesFit, OnScreen
    <3>2. \A l, m \in DOMAIN toplevels' : l # m =>
            /\ toplevels'[l].window # toplevels'[m].window
            /\ toplevels'[l].from # m
            /\ toplevels'[l].from # None => toplevels'[l].from # toplevels'[m].from
      BY <2>1 DEF WInv, NamesFit
    <3>3. DOMAIN toplevels' \subseteq kept'
      BY <1>1, <2>1 DEF WInv, NamesFit
    <3> QED
      BY <3>1, <3>2, <3>3 DEF NamesFit, OnScreen
  <2>6. OnScreenIsTracked'
    <3>1. ASSUME session' # None, NEW m \in DOMAIN toplevels'
          PROVE  toplevels'[m].attached <=> toplevels'[m].window \in DOMAIN shown'
      BY <1>1, <1>2, <1>3, <1>5, <2>1, <3>1 DEF OnScreenIsTracked, WInv, OnScreen, Named
    <3> QED
      BY <3>1 DEF OnScreenIsTracked, OnScreen
  <2>7. TypeOK'
    <3>1. /\ PartialOK(store, Sessions, SUBSET Names)' /\ PartialOK(granted, Names, Windows)'
          /\ PartialOK(toplevels, Names, Toplevels)'
          /\ inert' \in BOOLEAN /\ refused' \in BOOLEAN /\ kept' \subseteq Names /\ queued' \subseteq Names
      BY <1>1, <2>1 DEF WInv, TypeOK, PartialOK, Toplevels
    <3> QED
      BY <1>1, <1>2, <3>1, LinkTyped DEF WInv, Toplevels
  <2> QED
    BY <1>2, <2>2, <2>3, <2>4, <2>5, <2>6, <2>7 DEF WInv
<1> QED
  BY <1>4, <1>5

\* A window leaves the screen, and perhaps the table of names: whatever is left in it
\* is what it was, but for the window that is gone.
LEMMA GoneKeeps ==
  ASSUME WInv, NEW w, Free, UNCHANGED linkVars,
         UNCHANGED <<queued, offers, store, inert, refused, kept>>,
         PartialOK(shown, Windows, Places)', TablesFit', DOMAIN shown' = DOMAIN shown \ {w},
         PartialOK(toplevels, Names, Toplevels)',
         DOMAIN toplevels' \subseteq DOMAIN toplevels,
         \A n \in DOMAIN toplevels :
           toplevels[n].window # w =>
             n \in DOMAIN toplevels' /\ toplevels'[n] = toplevels[n],
         \A n \in DOMAIN toplevels' :
           toplevels[n].window = w =>
             toplevels'[n].window = w /\ toplevels'[n].from = toplevels[n].from
               /\ ~toplevels'[n].attached,
         PartialOK(granted, Names, Windows)',
         DOMAIN granted' = {n \in DOMAIN granted : n \notin DOMAIN toplevels \/ toplevels[n].window # w},
         \A n \in DOMAIN granted' : granted'[n] = granted[n]
  PROVE  WInv'
<1>1. /\ UNCHANGED <<session, state, status, clientId>> /\ Free' /\ Stored' = Stored
  BY DEF linkVars, Free, Stored
<1>2. \A n \in DOMAIN toplevels' : /\ toplevels'[n].window = toplevels[n].window
                                  /\ toplevels'[n].from = toplevels[n].from
                                  /\ toplevels'[n].attached <=>
                                       toplevels[n].attached /\ toplevels[n].window # w
  OBVIOUS
<1>3. NeverRefused' /\ StoreFits'
  BY <1>1, <1>2 DEF NeverRefused, StoreFits, WInv
<1>4. SessionFits'
  BY <1>1 DEF SessionFits, WInv, Free
<1>5. GrantsFit'
  <2>1. CASE session = None \/ inert
    BY <1>1, <2>1 DEF GrantsFit, WInv
  <2>2. CASE session # None /\ ~inert
    <3>1. /\ DOMAIN granted = {n \in DOMAIN toplevels : toplevels[n].attached}
          /\ \A n \in DOMAIN granted : granted[n] = toplevels[n].window
      BY <2>2 DEF GrantsFit, WInv
    <3>2. DOMAIN granted' = {n \in DOMAIN toplevels' : toplevels'[n].attached}
      BY <1>2, <3>1
    <3>3. \A n \in DOMAIN granted' : granted'[n] = toplevels'[n].window
      BY <1>2, <3>1, <3>2
    <3> QED
      BY <1>1, <2>2, <3>2, <3>3 DEF GrantsFit
  <2> QED
    BY <2>1, <2>2
<1>6. NamesFit'
  <2>1. \A m \in DOMAIN toplevels' : toplevels'[m].attached =>
          /\ toplevels'[m].from = m /\ toplevels'[m].window \in DOMAIN shown'
          /\ session' # None /\ Free'
    BY <1>1, <1>2 DEF WInv, NamesFit, OnScreen
  <2>2. \A l, m \in DOMAIN toplevels' : l # m =>
          /\ toplevels'[l].window # toplevels'[m].window
          /\ toplevels'[l].from # m
          /\ toplevels'[l].from # None => toplevels'[l].from # toplevels'[m].from
    BY <1>2 DEF WInv, NamesFit
  <2>3. DOMAIN toplevels' \subseteq kept'
    BY DEF WInv, NamesFit
  <2> QED
    BY <2>1, <2>2, <2>3 DEF NamesFit, OnScreen
<1>7. OnScreenIsTracked'
  <2>1. ASSUME session' # None, NEW m \in DOMAIN toplevels'
        PROVE  toplevels'[m].attached <=> toplevels'[m].window \in DOMAIN shown'
    BY <1>1, <1>2, <2>1 DEF OnScreenIsTracked, WInv, OnScreen
  <2> QED
    BY <2>1 DEF OnScreenIsTracked, OnScreen
<1>8. TypeOK'
  <2>1. /\ PartialOK(store, Sessions, SUBSET Names)'
        /\ inert' \in BOOLEAN /\ refused' \in BOOLEAN /\ kept' \subseteq Names /\ queued' \subseteq Names
    BY DEF WInv, TypeOK, PartialOK
  <2> QED
    BY <2>1, LinkTyped DEF WInv, Toplevels
<1> QED
  BY <1>3, <1>4, <1>5, <1>6, <1>7, <1>8 DEF WInv

LEMMA HideKeeps ==
  ASSUME WInv, NEW w \in Windows, Hide(w)
  PROVE  WInv'
<1>1. /\ PartialOK(shown, Windows, Places)' /\ TablesFit' /\ DOMAIN shown' = DOMAIN shown \ {w}
  BY TakenDownFits DEF Hide, WInv
<1>2. CASE Named(w)
  <2>. DEFINE n == NameOf(w)
  <2>1. /\ n \in DOMAIN toplevels /\ toplevels[n].window = w /\ toplevels[n] \in Toplevels
        /\ \A m \in DOMAIN toplevels : toplevels[m].window = w => m = n
    BY <1>2, NameIs DEF WInv, TypeOK, PartialOK, Toplevels
  <2>2. /\ toplevels' = [toplevels EXCEPT ![n].attached = FALSE]
        /\ granted' = Restrict(granted, DOMAIN granted \ {n})
    BY <1>2 DEF Hide, Release
  <2>. HIDE DEF n
  <2>3. /\ PartialOK(toplevels', Names, Toplevels) /\ DOMAIN toplevels' = DOMAIN toplevels
        /\ toplevels'[n].window = w /\ toplevels'[n].from = toplevels[n].from
        /\ ~toplevels'[n].attached
        /\ \A m \in DOMAIN toplevels : m # n => toplevels'[m] = toplevels[m]
    BY <2>1, <2>2 DEF WInv, TypeOK, PartialOK, Toplevels
  <2>4. /\ PartialOK(granted', Names, Windows) /\ DOMAIN granted' = DOMAIN granted \ {n}
        /\ \A m \in DOMAIN granted' : granted'[m] = granted[m]
    BY <2>2 DEF WInv, TypeOK, PartialOK, Restrict
  <2>5. DOMAIN granted \ {n}
          = {m \in DOMAIN granted : m \notin DOMAIN toplevels \/ toplevels[m].window # w}
    BY <2>1
  <2> QED
    BY <1>1, <2>1, <2>3, <2>4, <2>5, GoneKeeps DEF Hide
<1>3. CASE ~Named(w)
  <2>1. UNCHANGED <<toplevels, granted>>
    BY <1>3 DEF Hide
  <2>2. \A m \in DOMAIN toplevels : toplevels[m].window # w
    BY <1>3 DEF Named
  <2>3. PartialOK(toplevels', Names, Toplevels) /\ PartialOK(granted', Names, Windows)
    BY <2>1 DEF WInv, TypeOK, Toplevels
  <2>4. DOMAIN granted'
          = {m \in DOMAIN granted : m \notin DOMAIN toplevels \/ toplevels[m].window # w}
    BY <2>1, <2>2
  <2> QED
    BY <1>1, <2>1, <2>2, <2>3, <2>4, GoneKeeps DEF Hide
<1> QED
  BY <1>2, <1>3

LEMMA DestroyKeeps ==
  ASSUME WInv, NEW w \in Windows, DestroyWindow(w)
  PROVE  WInv'
<1>. DEFINE n == NameOf(w)
<1>1. /\ PartialOK(shown, Windows, Places)' /\ TablesFit' /\ DOMAIN shown' = DOMAIN shown \ {w}
  <2>1. CASE OnScreen(w)
    BY <2>1, TakenDownFits DEF DestroyWindow, WInv
  <2>2. CASE ~OnScreen(w)
    <3>1. UNCHANGED <<shown, tables>> /\ w \notin DOMAIN shown
      BY <2>2 DEF DestroyWindow, guiVars, OnScreen
    <3>2. TablesFit'
      BY <3>1 DEF WInv, TablesFit, XdgSurface, XdgToplevel
    <3>3. PartialOK(shown, Windows, Places)'
      BY <3>1 DEF WInv, TypeOK, PartialOK, Places
    <3> QED
      BY <3>1, <3>2, <3>3
  <2> QED
    BY <2>1, <2>2
<1>2. /\ n \in DOMAIN toplevels /\ toplevels[n].window = w
      /\ \A m \in DOMAIN toplevels : toplevels[m].window = w => m = n
  BY NameIs DEF WInv, DestroyWindow
<1>3. /\ toplevels' = Drop(toplevels, n)
      /\ granted' = Restrict(granted, DOMAIN granted \ {n})
  BY DEF DestroyWindow, Release
<1>. HIDE DEF n
<1>4. /\ PartialOK(toplevels', Names, Toplevels) /\ DOMAIN toplevels' = DOMAIN toplevels \ {n}
      /\ \A m \in DOMAIN toplevels : m # n => toplevels'[m] = toplevels[m]
  BY <1>3 DEF WInv, TypeOK, PartialOK, Toplevels, Drop, Restrict
<1>5. /\ PartialOK(granted', Names, Windows) /\ DOMAIN granted' = DOMAIN granted \ {n}
      /\ \A m \in DOMAIN granted' : granted'[m] = granted[m]
  BY <1>3 DEF WInv, TypeOK, PartialOK, Restrict
<1>6. DOMAIN granted \ {n}
        = {m \in DOMAIN granted : m \notin DOMAIN toplevels \/ toplevels[m].window # w}
  BY <1>2
<1> QED
  BY <1>1, <1>2, <1>4, <1>5, <1>6, GoneKeeps DEF DestroyWindow

-----------------------------------------------------------------------------
(* Losing the session *)

\* A client that gives its session up has the names of its id, or none: a session
\* under another id was fresh.
LEMMA StoredAfter ==
  ASSUME WInv, session' = None, clientId' \in {clientId, None, DbusId},
         DOMAIN store' \subseteq DOMAIN store, \A s \in DOMAIN store' : store'[s] = store[s]
  PROVE  Stored' \subseteq Stored
<1>1. None \notin DOMAIN store' /\ DbusId \notin DOMAIN store' /\ None \notin DOMAIN store
  BY WaylandConstants DEF WInv, TypeOK, PartialOK
<1>2. CASE clientId' = clientId
  <2>1. CASE session = None
    BY <1>2, <2>1 DEF Stored
  <2>2. CASE session # None /\ clientId = session
    BY <1>1, <1>2, <2>2 DEF Stored
  <2>3. CASE session # None /\ clientId # session
    BY <1>1, <1>2, <2>3 DEF Stored, WInv, SessionFits
  <2> QED
    BY <2>1, <2>2, <2>3
<1>3. CASE clientId' # clientId
  BY <1>1, <1>3 DEF Stored
<1> QED
  BY <1>2, <1>3

\* Without a session no window is attached and nothing is granted; which names are
\* stored, known and queued is for the step to show.
LEMMA OffKeeps ==
  ASSUME WInv, TypeOK', TablesFit', session' = None, DOMAIN granted' = {}, ~inert', ~refused',
         DOMAIN toplevels' \subseteq DOMAIN toplevels \cap kept',
         \A n \in DOMAIN toplevels' : /\ toplevels'[n].window = toplevels[n].window
                                     /\ toplevels'[n].from = toplevels[n].from
                                     /\ ~toplevels'[n].attached,
         Stored' \subseteq Stored, Stored' \subseteq kept' \cup queued',
         queued \subseteq queued' \/ DOMAIN toplevels' = {}
  PROVE  WInv'
<1>1. NamesFit'
  BY DEF WInv, NamesFit
<1>2. StoreFits'
  BY DEF WInv, StoreFits
<1>3. SessionFits' /\ GrantsFit' /\ OnScreenIsTracked' /\ NeverRefused'
  BY DEF SessionFits, GrantsFit, OnScreenIsTracked, NeverRefused
<1> QED
  BY <1>1, <1>2, <1>3 DEF WInv

LEMMA GuiStays ==
  ASSUME WInv, UNCHANGED guiVars
  PROVE  TablesFit' /\ UNCHANGED <<shown, tables>>
BY DEF WInv, TablesFit, XdgSurface, XdgToplevel, guiVars

\* xfce_session_client_wl_xdg_disconnect (), whatever it is part of.
LEMMA DisconnectedKeeps ==
  ASSUME WInv, UNCHANGED guiVars, Disconnected, UNCHANGED <<queued, offers, store, refused, kept>>,
         manager' \in {"unasked", "absent", "bound"},
         status' \in {"INVALID", "CREATED", "RESTORED", "REPLACED"},
         state' \in {"DISCONNECTED", "REGISTERING", "IDLE"},
         clientId' \in {clientId, None, DbusId},
         wanted' \in BOOLEAN, timer' \in BOOLEAN,
         call' \in [by : {"nobody", "app", "timer", "replaced"}, depth : Nat, again : BOOLEAN]
  PROVE  WInv'
<1>1. /\ toplevels' = [n \in DOMAIN toplevels |-> [toplevels[n] EXCEPT !.attached = FALSE]]
      /\ session' = None /\ granted' = <<>> /\ inert' = FALSE /\ dbus' = FALSE
  BY DEF Disconnected
<1>2. /\ PartialOK(toplevels', Names, Toplevels) /\ DOMAIN toplevels' = DOMAIN toplevels
      /\ \A n \in DOMAIN toplevels : /\ toplevels'[n].window = toplevels[n].window
                                    /\ toplevels'[n].from = toplevels[n].from
                                    /\ ~toplevels'[n].attached
  BY <1>1, ZenonT(60) DEF WInv, TypeOK, PartialOK, Toplevels
<1>3. DOMAIN granted' = {} /\ PartialOK(granted', Names, Windows)
  BY <1>1, EmptyIs
<1>4. TypeOK'
  <2>1. /\ PartialOK(shown, Windows, [surface : Addresses, toplevel : Addresses])'
        /\ PartialOK(store, Sessions, SUBSET Names)'
    BY GuiStays DEF WInv, TypeOK, PartialOK
  <2>2. /\ clientId' \in Sessions \cup {None, DbusId} /\ queued' \subseteq Names
        /\ offers' \in BOOLEAN /\ refused' \in BOOLEAN /\ kept' \subseteq Names
    BY DEF WInv, TypeOK
  <2> QED
    BY <1>1, <1>2, <1>3, <2>1, <2>2 DEF TypeOK, Toplevels
<1>5. Stored' \subseteq Stored
  BY <1>1, StoredAfter
<1>6. /\ ~refused' /\ Stored' \subseteq kept' \cup queued'
      /\ DOMAIN toplevels' \subseteq DOMAIN toplevels \cap kept'
  BY <1>2, <1>5 DEF WInv, NeverRefused, StoreFits, NamesFit
<1> QED
  BY <1>1, <1>2, <1>3, <1>4, <1>5, <1>6, GuiStays, OffKeeps

LEMMA LeavingKeeps ==
  ASSUME WInv, ConnectFails \/ Replaced \/ Disconnect \/ GlobalRemoved
  PROVE  WInv'
<1>. USE DEF WInv, TypeOK
<1>1. CASE ConnectFails
  <2>1. PICK again \in BOOLEAN :
          IF again
          THEN /\ clientId' = None
               /\ call' = [call EXCEPT !.depth = @ + 1]
               /\ UNCHANGED <<state, timer>>
          ELSE /\ state' = "DISCONNECTED" /\ call' = Idle
               /\ timer' = TimerAfterFailure(call.by, timer)
               /\ UNCHANGED clientId
    BY <1>1 DEF ConnectFails
  <2>2. TimerAfterFailure(call.by, timer) \in BOOLEAN
    BY WaylandConstants DEF TimerAfterFailure
  <2>3. /\ clientId' \in {clientId, None, DbusId} /\ timer' \in BOOLEAN
        /\ state' \in {"DISCONNECTED", "REGISTERING", "IDLE"}
    BY <2>1, <2>2
  <2>4. call' \in [by : {"nobody", "app", "timer", "replaced"}, depth : Nat, again : BOOLEAN]
    <3>1. Idle \in [by : {"nobody", "app", "timer", "replaced"}, depth : Nat, again : BOOLEAN]
      BY DEF Idle
    <3>2. [call EXCEPT !.depth = @ + 1]
            \in [by : {"nobody", "app", "timer", "replaced"}, depth : Nat, again : BOOLEAN]
      OBVIOUS
    <3>3. CASE again
      BY <2>1, <3>2, <3>3, Zenon
    <3>4. CASE ~again
      BY <2>1, <3>1, <3>4, Zenon
    <3> QED
      BY <3>3, <3>4
  <2> QED
    BY <1>1, <2>3, <2>4, DisconnectedKeeps DEF ConnectFails
<1>2. CASE Replaced
  <2>1. /\ clientId' \in {clientId, None, DbusId} /\ timer' \in BOOLEAN /\ wanted' \in BOOLEAN
        /\ state' \in {"DISCONNECTED", "REGISTERING", "IDLE"} /\ status' = "REPLACED"
        /\ call' \in {[Idle EXCEPT !.by = "replaced"], Idle}
    BY <1>2 DEF Replaced
  <2>2. /\ Idle \in [by : {"nobody", "app", "timer", "replaced"}, depth : Nat, again : BOOLEAN]
        /\ [Idle EXCEPT !.by = "replaced"]
             \in [by : {"nobody", "app", "timer", "replaced"}, depth : Nat, again : BOOLEAN]
    BY DEF Idle
  <2>3. call' \in [by : {"nobody", "app", "timer", "replaced"}, depth : Nat, again : BOOLEAN]
    BY <2>1, <2>2, Zenon
  <2> QED
    BY <1>2, <2>1, <2>3, DisconnectedKeeps DEF Replaced
<1>3. CASE Disconnect
  BY <1>3, DisconnectedKeeps DEF Disconnect
<1>4. CASE GlobalRemoved
  BY <1>4, WaylandConstants, DisconnectedKeeps DEF GlobalRemoved, StartAutoReconnect
<1> QED
  BY <1>1, <1>2, <1>3, <1>4

\* An application that discards in a session gives all of its names up.
LEMMA DiscardKeeps ==
  ASSUME WInv, ~DiscardsOffline, Discard
  PROVE  WInv'
<1>1. /\ Free /\ ~inert /\ session # None
      /\ toplevels' = <<>> /\ queued' = {} /\ store' = Drop(store, session) /\ kept' = {}
      /\ dbus' = FALSE /\ session' = None /\ granted' = <<>> /\ UNCHANGED inert
      /\ status' = "INVALID" /\ state' = "DISCONNECTED" /\ timer' = FALSE /\ wanted' = FALSE
      /\ UNCHANGED <<guiVars, manager, clientId, call, offers, refused>>
  BY DEF Discard
<1>2. /\ DOMAIN toplevels' = {} /\ PartialOK(toplevels', Names, Toplevels)
      /\ DOMAIN granted' = {} /\ PartialOK(granted', Names, Windows)
  BY <1>1, EmptyIs
<1>3. /\ PartialOK(store', Sessions, SUBSET Names) /\ DOMAIN store' = DOMAIN store \ {session}
  BY <1>1 DEF WInv, TypeOK, PartialOK, Drop, Restrict
<1>4. Stored' = {}
  <2>1. clientId' = session
    BY <1>1, InSession
  <2> QED
    BY <1>1, <1>3, <2>1 DEF Stored
<1>5. TypeOK'
  <2>1. PartialOK(shown, Windows, [surface : Addresses, toplevel : Addresses])'
    BY <1>1, GuiStays DEF WInv, TypeOK, PartialOK
  <2>2. /\ manager' \in {"unasked", "absent", "bound"}
        /\ clientId' \in Sessions \cup {None, DbusId} /\ inert' \in BOOLEAN
        /\ offers' \in BOOLEAN /\ refused' \in BOOLEAN
        /\ call' \in [by : {"nobody", "app", "timer", "replaced"}, depth : Nat, again : BOOLEAN]
    BY <1>1 DEF WInv, TypeOK
  <2> QED
    BY <1>1, <1>2, <1>3, <2>1, <2>2 DEF TypeOK, Toplevels
<1>6. ~refused'
  BY <1>1 DEF WInv, NeverRefused
<1> QED
  BY <1>1, <1>2, <1>4, <1>5, <1>6, GuiStays, OffKeeps

LEMMA RestartKeeps ==
  ASSUME WInv, Restart
  PROVE  WInv'
<1>1. /\ shown' = <<>> /\ tables' = [wl |-> <<>>, surface |-> <<>>, toplevel |-> <<>>]
      /\ manager' = "unasked" /\ session' = None /\ status' = "INVALID" /\ state' = "DISCONNECTED"
      /\ dbus' = FALSE /\ wanted' = FALSE /\ timer' = FALSE /\ call' = Idle
      /\ toplevels' = <<>> /\ granted' = <<>> /\ inert' = FALSE
      /\ UNCHANGED <<clientId, queued, offers, store, refused, kept>>
  BY DEF Restart
<1>2. /\ DOMAIN toplevels' = {} /\ PartialOK(toplevels', Names, Toplevels)
      /\ DOMAIN granted' = {} /\ PartialOK(granted', Names, Windows)
      /\ DOMAIN shown' = {} /\ PartialOK(shown', Windows, Places)
  BY <1>1, EmptyIs
<1>3. TablesFit'
  <2>1. {XdgSurface(w)' : w \in DOMAIN shown'} = {} /\ {XdgToplevel(w)' : w \in DOMAIN shown'} = {}
    BY <1>2
  <2>2. <<>> \in [{} -> {}]
    OBVIOUS
  <2> QED
    BY <1>1, <1>2, <2>1, <2>2 DEF TablesFit
<1>4. TypeOK'
  <2>1. PartialOK(store, Sessions, SUBSET Names)'
    BY <1>1 DEF WInv, TypeOK, PartialOK
  <2>2. /\ clientId' \in Sessions \cup {None, DbusId} /\ queued' \subseteq Names
        /\ offers' \in BOOLEAN /\ refused' \in BOOLEAN /\ kept' \subseteq Names
    BY <1>1 DEF WInv, TypeOK
  <2>3. call' \in [by : {"nobody", "app", "timer", "replaced"}, depth : Nat, again : BOOLEAN]
    BY <1>1 DEF Idle
  <2> QED
    BY <1>1, <1>2, <2>1, <2>2, <2>3 DEF TypeOK, Toplevels, Places
<1>5. Stored' \subseteq Stored
  BY <1>1, StoredAfter
<1>6. /\ ~refused' /\ Stored' \subseteq kept' \cup queued'
  BY <1>1, <1>5 DEF WInv, NeverRefused, StoreFits
<1> QED
  BY <1>1, <1>2, <1>3, <1>4, <1>5, <1>6, OffKeeps

-----------------------------------------------------------------------------
(* Making a connection *)

\* A new session keeps the names of the id the client has, if the compositor knows it.
LEMMA GetSessionIs ==
  ASSUME WInv, session = None, GetSession, clientId' = clientId
  PROVE  /\ PartialOK(store', Sessions, SUBSET Names)
         /\ session' \in DOMAIN store' /\ session' # None
         /\ clientId # session' => clientId \notin DOMAIN store'
         /\ Stored' = Stored
<1>1. CASE clientId \in DOMAIN store
  <2>1. session' = clientId /\ store' = store /\ clientId # None
    BY <1>1, WaylandConstants DEF GetSession, WInv, TypeOK, PartialOK
  <2> QED
    BY <1>1, <2>1 DEF Stored, WInv, TypeOK
<1>2. CASE clientId \notin DOMAIN store
  <2>1. PICK s \in Fresh : session' = s /\ store' = With(store, s, {})
    BY <1>2 DEF GetSession
  <2>2. s # None /\ s \in Sessions /\ s \notin DOMAIN store /\ s # clientId
    BY WaylandConstants DEF Fresh
  <2>3. /\ PartialOK(store', Sessions, SUBSET Names)
        /\ DOMAIN store' = DOMAIN store \cup {s} /\ store'[s] = {}
    BY <2>1, <2>2 DEF WInv, TypeOK, PartialOK, With
  <2>4. Stored' = {} /\ Stored = {}
    BY <1>2, <2>1, <2>2, <2>3 DEF Stored
  <2> QED
    BY <1>2, <2>1, <2>2, <2>3, <2>4
<1> QED
  BY <1>1, <1>2

LEMMA ConnectsKeeps ==
  ASSUME WInv, Free \/ session = None,
         NEW by \in {"app", "timer", "replaced", "nobody"}, NEW depth \in Nat, NEW armed \in BOOLEAN,
         Connects(by, depth, armed)
  PROVE  WInv'
<1>. DEFINE m == IF manager # "unasked" THEN manager ELSE IF offers THEN "bound" ELSE "absent"
<1>1. /\ manager' = m /\ wanted' = TRUE
      /\ UNCHANGED <<guiVars, toplevels, queued, offers, granted, inert, refused, kept>>
  BY DEF Connects
<1>2. manager' \in {"unasked", "absent", "bound"}
  BY <1>1 DEF WInv, TypeOK
<1>3. /\ PartialOK(shown, Windows, Places)' /\ PartialOK(toplevels, Names, Toplevels)'
      /\ PartialOK(granted, Names, Windows)'
      /\ queued' \subseteq Names /\ offers' \in BOOLEAN /\ inert' \in BOOLEAN
      /\ refused' \in BOOLEAN /\ kept' \subseteq Names /\ wanted' \in BOOLEAN
  BY <1>1, GuiStays DEF WInv, TypeOK, PartialOK, Places, Toplevels
<1>4. TablesFit' /\ shown' = shown
  BY <1>1, GuiStays
<1>5. CASE m = "bound" /\ session = None
  <2>1. /\ state' = "REGISTERING"
        /\ call' = [by |-> by, depth |-> depth, again |-> status = "REPLACED"]
        /\ status' = "INVALID" /\ timer' = armed /\ GetSession
        /\ UNCHANGED <<dbus, clientId>>
    BY <1>5 DEF Connects
  <2>2. /\ PartialOK(store', Sessions, SUBSET Names)
        /\ session' \in DOMAIN store' /\ session' # None
        /\ clientId # session' => clientId \notin DOMAIN store'
        /\ Stored' = Stored
    BY <1>5, <2>1, GetSessionIs
  <2>3. \A n \in DOMAIN toplevels : ~toplevels[n].attached
    BY <1>5 DEF WInv, NamesFit
  <2>4. TypeOK'
    <3>1. call' \in [by : {"nobody", "app", "timer", "replaced"}, depth : Nat, again : BOOLEAN]
      BY <2>1
    <3>2. session' \in Sessions /\ clientId' \in Sessions \cup {None, DbusId} /\ dbus' \in BOOLEAN
      BY <2>1, <2>2 DEF WInv, TypeOK, PartialOK
    <3> QED
      BY <1>2, <1>3, <2>1, <2>2, <3>1, <3>2 DEF TypeOK, Toplevels, Places
  <2>5. NamesFit'
    BY <1>1, <2>3 DEF WInv, NamesFit
  <2>6. StoreFits'
    BY <1>1, <2>2 DEF WInv, StoreFits
  <2>7. SessionFits' /\ GrantsFit' /\ OnScreenIsTracked' /\ NeverRefused'
    BY <1>1, <1>5, <2>1, <2>2
    DEF WInv, SessionFits, GrantsFit, OnScreenIsTracked, NeverRefused, Free
  <2> QED
    BY <1>4, <2>4, <2>5, <2>6, <2>7 DEF WInv
<1>6. CASE ~(m = "bound" /\ session = None)
  <2>1. PICK ok \in BOOLEAN :
          /\ ParentConnects(ok)
          /\ IF ok \/ m = "bound"
             THEN state' = "IDLE" /\ timer' = armed
             ELSE state' = "DISCONNECTED" /\ timer' = TimerAfterFailure(by, armed)
    BY <1>6 DEF Connects
  <2>2. call' = Idle /\ UNCHANGED <<session, status, store>>
    BY <1>6 DEF Connects
  <2>3. /\ state' \in {"DISCONNECTED", "IDLE"} /\ Free' /\ timer' \in BOOLEAN /\ dbus' \in BOOLEAN
        /\ clientId' \in {clientId, DbusId}
        /\ clientId' # clientId => clientId = None
    BY <2>1, WaylandConstants DEF ParentConnects, Free, TimerAfterFailure
  <2>4. session # None => Free /\ clientId = session /\ clientId' = session
    BY <2>3 DEF WInv, SessionFits
  <2>5. Stored' = Stored
    <3>1. None \notin DOMAIN store /\ DbusId \notin DOMAIN store
      BY WaylandConstants DEF WInv, TypeOK, PartialOK
    <3> QED
      BY <2>2, <2>3, <3>1 DEF Stored
  <2>6. TypeOK'
    <3>1. call' \in [by : {"nobody", "app", "timer", "replaced"}, depth : Nat, again : BOOLEAN]
      BY <2>2 DEF Idle
    <3>2. /\ session' \in Sessions \cup {None} /\ clientId' \in Sessions \cup {None, DbusId}
          /\ status' \in {"INVALID", "CREATED", "RESTORED", "REPLACED"}
          /\ PartialOK(store', Sessions, SUBSET Names)
      BY <2>2, <2>3 DEF WInv, TypeOK
    <3> QED
      BY <1>2, <1>3, <2>3, <3>1, <3>2 DEF TypeOK, Toplevels, Places
  <2>7. NamesFit'
    BY <1>1, <1>4, <2>2, <2>3, <2>4 DEF WInv, NamesFit, OnScreen
  <2>8. StoreFits'
    BY <1>1, <2>5 DEF WInv, StoreFits
  <2>9. SessionFits'
    BY <1>1, <2>2, <2>3, <2>4 DEF WInv, SessionFits
  <2>10. GrantsFit' /\ NeverRefused'
    BY <1>1, <2>2, <2>3, <2>4 DEF WInv, GrantsFit, NeverRefused
  <2>11. OnScreenIsTracked'
    BY <1>1, <1>4, <2>2, <2>4 DEF WInv, OnScreenIsTracked, OnScreen
  <2> QED
    BY <1>4, <2>6, <2>7, <2>8, <2>9, <2>10, <2>11 DEF WInv
<1> QED
  BY <1>5, <1>6

\* The parent class, the timer, the compositor's offer: nothing a session depends on.
LEMMA MinorKeeps ==
  ASSUME WInv,
         UNCHANGED guiVars, UNCHANGED compVars,
         UNCHANGED <<session, clientId, toplevels, queued, call, kept>>,
         Free' <=> Free, status' = status \/ (~Free /\ status' = "REPLACED"),
         manager' \in {"unasked", "absent", "bound"},
         state' \in {"DISCONNECTED", "REGISTERING", "IDLE"},
         dbus' \in BOOLEAN, wanted' \in BOOLEAN, timer' \in BOOLEAN, offers' \in BOOLEAN
  PROVE  WInv'
<1>1. TablesFit' /\ shown' = shown
  BY GuiStays
<1>2. UNCHANGED <<store, granted, inert, refused>> /\ Stored' = Stored
  BY DEF compVars, Stored
<1>3. NamesFit'
  BY <1>1 DEF WInv, NamesFit, OnScreen
<1>4. StoreFits'
  BY <1>2 DEF WInv, StoreFits
<1>5. SessionFits'
  BY <1>2 DEF WInv, SessionFits
<1>6. GrantsFit' /\ NeverRefused'
  BY <1>2 DEF WInv, GrantsFit, NeverRefused
<1>7. OnScreenIsTracked'
  BY <1>1 DEF WInv, OnScreenIsTracked, OnScreen
<1>8. TypeOK'
  <2>1. /\ PartialOK(shown, Windows, Places)' /\ PartialOK(toplevels, Names, Toplevels)'
        /\ PartialOK(store, Sessions, SUBSET Names)' /\ PartialOK(granted, Names, Windows)'
    BY <1>1, <1>2 DEF WInv, TypeOK, PartialOK, Places, Toplevels
  <2>2. status' \in {"INVALID", "CREATED", "RESTORED", "REPLACED"}
    BY DEF WInv, TypeOK
  <2>3. /\ session' \in Sessions \cup {None} /\ clientId' \in Sessions \cup {None, DbusId}
        /\ queued' \subseteq Names /\ inert' \in BOOLEAN /\ refused' \in BOOLEAN
        /\ kept' \subseteq Names
        /\ call' \in [by : {"nobody", "app", "timer", "replaced"}, depth : Nat, again : BOOLEAN]
    BY <1>2 DEF WInv, TypeOK
  <2> QED
    BY <2>1, <2>2, <2>3 DEF TypeOK, Toplevels, Places
<1> QED
  BY <1>1, <1>3, <1>4, <1>5, <1>6, <1>7, <1>8 DEF WInv

LEMMA ConnectionKeeps ==
  ASSUME WInv,
         \/ Connect \/ TryReconnect \/ ConnectsAgain
         \/ ReplacedWhileConnecting \/ GlobalAppears \/ NameOwnerChanged \/ OffersChanges
  PROVE  WInv'
<1>0. /\ manager \in {"unasked", "absent", "bound"}
      /\ state \in {"DISCONNECTED", "REGISTERING", "IDLE"}
      /\ dbus \in BOOLEAN /\ wanted \in BOOLEAN /\ timer \in BOOLEAN /\ offers \in BOOLEAN
  BY DEF WInv, TypeOK
<1>1. CASE Connect
  BY <1>0, <1>1, ConnectsKeeps DEF Connect
<1>2. CASE TryReconnect
  <2>1. CASE state = "DISCONNECTED"
    BY <1>2, <2>1, ConnectsKeeps DEF TryReconnect
  <2>2. CASE state # "DISCONNECTED"
    <3>1. /\ timer' = FALSE /\ UNCHANGED guiVars /\ UNCHANGED compVars
          /\ UNCHANGED <<session, clientId, toplevels, queued, call, kept>>
          /\ UNCHANGED <<manager, status, state, dbus, wanted, offers>>
      BY <1>2, <2>2 DEF TryReconnect
    <3>2. /\ Free' <=> Free
          /\ status' = status \/ (~Free /\ status' = "REPLACED")
      BY <3>1 DEF Free
    <3>3. /\ manager' \in {"unasked", "absent", "bound"}
          /\ state' \in {"DISCONNECTED", "REGISTERING", "IDLE"}
          /\ dbus' \in BOOLEAN /\ wanted' \in BOOLEAN /\ timer' \in BOOLEAN /\ offers' \in BOOLEAN
      BY <1>0, <3>1
    <3> QED
      BY <3>1, <3>2, <3>3, MinorKeeps, Zenon
  <2> QED
    BY <2>1, <2>2
<1>3. CASE ConnectsAgain
  <2>1. /\ session = None /\ Connects(call.by, call.depth, timer)
        /\ call.by \in {"nobody", "app", "timer", "replaced"} /\ call.depth \in Nat /\ timer \in BOOLEAN
    BY <1>3 DEF ConnectsAgain, WInv, TypeOK
  <2> QED
    BY <2>1, ConnectsKeeps
<1>4. CASE ReplacedWhileConnecting
  BY <1>0, <1>4, MinorKeeps DEF ReplacedWhileConnecting, Free
<1>5. CASE GlobalAppears
  BY <1>0, <1>5, MinorKeeps DEF GlobalAppears, Free
<1>6. CASE NameOwnerChanged
  <2>1. timer' \in BOOLEAN /\ state' \in {"DISCONNECTED", "REGISTERING", "IDLE"} /\ Free' /\ Free
    BY <1>0, <1>6, WaylandConstants DEF NameOwnerChanged, StartAutoReconnect, Free
  <2>2. /\ dbus' = FALSE
        /\ UNCHANGED <<guiVars, manager, session, status, clientId, wanted, call, toplevels,
                       queued, offers, compVars, kept>>
    BY <1>6 DEF NameOwnerChanged
  <2> QED
    BY <1>0, <2>1, <2>2, MinorKeeps
<1>7. CASE OffersChanges
  <2>1. /\ UNCHANGED <<guiVars, toplevels, queued, compVars, kept>> /\ offers' \in BOOLEAN
        /\ UNCHANGED <<manager, session, status, state, dbus, clientId, wanted, timer, call>>
    BY <1>7 DEF OffersChanges, linkVars
  <2>2. Free' <=> Free
    BY <2>1 DEF Free
  <2> QED
    BY <1>0, <2>1, <2>2, MinorKeeps
<1> QED
  BY <1>1, <1>2, <1>3, <1>4, <1>5, <1>6, <1>7

\* The compositor answers: the client has the id of its session.
LEMMA AnswerKeeps ==
  ASSUME WInv, SessionAnswers
  PROVE  WInv'
<1>1. /\ ~Free /\ session # None /\ status' \in {"RESTORED", "CREATED"} /\ clientId' = session
      /\ UNCHANGED <<guiVars, manager, session, state, dbus, wanted, timer, call, toplevels,
                     queued, offers, compVars, kept>>
  BY DEF SessionAnswers
<1>2. TablesFit' /\ shown' = shown /\ UNCHANGED <<store, granted, inert, refused>> /\ ~Free'
  BY <1>1, GuiStays DEF compVars, Free
<1>3. Stored' = Stored
  BY <1>1, <1>2 DEF Stored
<1>4. TypeOK'
  BY <1>1, <1>2 DEF WInv, TypeOK, PartialOK
<1>5. NamesFit' /\ StoreFits'
  BY <1>1, <1>2, <1>3 DEF WInv, NamesFit, StoreFits
<1>6. SessionFits' /\ GrantsFit' /\ NeverRefused' /\ OnScreenIsTracked'
  BY <1>1, <1>2 DEF WInv, SessionFits, GrantsFit, NeverRefused, OnScreenIsTracked
<1> QED
  BY <1>2, <1>4, <1>5, <1>6 DEF WInv

LEMMA WorldKeeps ==
  ASSUME WInv, TakenOver \/ \E s \in Sessions : Forgets(s)
  PROVE  WInv'
<1>1. CASE TakenOver
  <2>1. /\ session # None /\ queued = {} /\ inert' = TRUE /\ granted' = <<>>
        /\ UNCHANGED <<guiVars, linkVars, toplevels, queued, offers, store, refused, kept>>
    BY <1>1 DEF TakenOver
  <2>2. /\ TablesFit' /\ shown' = shown /\ DOMAIN granted' = {}
        /\ PartialOK(granted', Names, Windows)
        /\ UNCHANGED <<session, state, status, clientId>> /\ (Free' <=> Free)
    BY <2>1, GuiStays, EmptyIs DEF linkVars, Free
  <2>3. Stored' = Stored
    BY <2>1, <2>2 DEF Stored
  <2>4. TypeOK'
    <3>1. /\ PartialOK(shown, Windows, Places)' /\ PartialOK(toplevels, Names, Toplevels)'
          /\ PartialOK(store, Sessions, SUBSET Names)'
          /\ refused' \in BOOLEAN /\ kept' \subseteq Names /\ queued' \subseteq Names
      BY <2>1, <2>2 DEF WInv, TypeOK, PartialOK, Places, Toplevels
    <3> QED
      BY <2>1, <2>2, <3>1, LinkTyped DEF WInv, Toplevels
  <2>5. NamesFit' /\ StoreFits'
    BY <2>1, <2>2, <2>3 DEF WInv, NamesFit, StoreFits, OnScreen
  <2>6. SessionFits' /\ GrantsFit' /\ NeverRefused'
    BY <2>1, <2>2 DEF WInv, SessionFits, GrantsFit, NeverRefused
  <2>7. OnScreenIsTracked'
    BY <2>1, <2>2 DEF WInv, OnScreenIsTracked, OnScreen
  <2> QED
    BY <2>2, <2>4, <2>5, <2>6, <2>7 DEF WInv
<1>2. CASE \E s \in Sessions : Forgets(s)
  <2>1. PICK s \in Sessions :
          /\ s # session /\ store' = Drop(store, s)
          /\ UNCHANGED <<guiVars, linkVars, toplevels, queued, offers, granted, inert, refused, kept>>
    BY <1>2 DEF Forgets
  <2>2. /\ PartialOK(store', Sessions, SUBSET Names) /\ DOMAIN store' = DOMAIN store \ {s}
        /\ \A r \in DOMAIN store' : store'[r] = store[r]
    BY <2>1 DEF WInv, TypeOK, PartialOK, Drop, Restrict
  <2>3. /\ TablesFit' /\ shown' = shown
        /\ UNCHANGED <<session, state, status, clientId>> /\ (Free' <=> Free)
    BY <2>1, GuiStays DEF linkVars, Free
  <2>4. Stored' \subseteq Stored
    BY <2>1, <2>2, <2>3 DEF Stored
  <2>5. TypeOK'
    <3>1. /\ PartialOK(shown, Windows, Places)' /\ PartialOK(toplevels, Names, Toplevels)'
          /\ PartialOK(granted, Names, Windows)'
          /\ inert' \in BOOLEAN /\ refused' \in BOOLEAN /\ kept' \subseteq Names /\ queued' \subseteq Names
      BY <2>1, <2>3 DEF WInv, TypeOK, PartialOK, Places, Toplevels
    <3> QED
      BY <2>1, <2>2, <3>1, LinkTyped DEF WInv, Toplevels
  <2>6. NamesFit' /\ StoreFits'
    BY <2>1, <2>3, <2>4 DEF WInv, NamesFit, StoreFits, OnScreen
  <2>7. SessionFits'
    BY <2>1, <2>2, <2>3 DEF WInv, SessionFits
  <2>8. GrantsFit' /\ NeverRefused'
    BY <2>1, <2>3 DEF WInv, GrantsFit, NeverRefused
  <2>9. OnScreenIsTracked'
    BY <2>1, <2>3 DEF WInv, OnScreenIsTracked, OnScreen
  <2> QED
    BY <2>3, <2>5, <2>6, <2>7, <2>8, <2>9 DEF WInv
<1> QED
  BY <1>1, <1>2

\* The wait is over: whatever is on screen is in the session, under its name.
LEMMA ConnectEndsKeeps ==
  ASSUME WInv, ConnectEnds
  PROVE  WInv'
<1>. DEFINE dropped == queued \cup {toplevels[n].from : n \in Readded}
            names == (Known \ dropped) \cup Readded
            grants == [n \in Readded |-> toplevels[n].window]
            error == \E n \in Readded : n \in (Known \ queued) \ {toplevels[n].from}
<1>1. /\ ~Free /\ session # None /\ status \in {"CREATED", "RESTORED"}
      /\ Request(names, grants, error) /\ queued' = {}
      /\ toplevels' = [n \in DOMAIN toplevels |->
                         IF n \in Readded
                         THEN [toplevels[n] EXCEPT !.from = n, !.attached = TRUE]
                         ELSE toplevels[n]]
      /\ \E ok \in BOOLEAN : ParentConnects(ok)
      /\ state' = "IDLE" /\ call' = Idle
      /\ UNCHANGED <<guiVars, manager, session, status, wanted, timer, offers, kept>>
  BY DEF ConnectEnds, Registered
<1>2. /\ clientId = session /\ clientId' = session /\ dbus' \in BOOLEAN /\ session' = session
      /\ session \in DOMAIN store /\ session # None /\ session' # None
      /\ inert \in BOOLEAN /\ inert => queued = {}
      /\ queued' = {} /\ kept' = kept
  BY <1>1 DEF WInv, TypeOK, SessionFits, ParentConnects
<1>3. TablesFit' /\ shown' = shown /\ Free' /\ \A w : OnScreen(w)' <=> OnScreen(w)
  BY <1>1, GuiStays DEF Free, OnScreen
<1>4. /\ Readded = {n \in DOMAIN toplevels : OnScreen(toplevels[n].window)}
      /\ Readded \subseteq Names /\ DOMAIN granted = {}
      /\ \A n \in DOMAIN toplevels : ~toplevels[n].attached /\ toplevels[n] \in Toplevels
  <2>1. \A w : ToplevelForWindow(tables, w) # None <=> OnScreen(w)
    BY ToplevelIs DEF WInv
  <2> QED
    BY <1>1, <2>1 DEF Readded, WInv, TypeOK, PartialOK, NamesFit, GrantsFit, Toplevels
<1>5. /\ Known = Stored /\ Known \subseteq Names /\ Known \subseteq kept \cup queued
      /\ \A n \in DOMAIN toplevels : toplevels[n].from # n => n \notin Known \ queued
  <2>. HIDE DEF dropped, names, grants, error
  <2>1. Known = Stored
    BY <1>2 DEF Known, Stored
  <2>2. Known \subseteq Names
    BY <1>2 DEF Known, WInv, TypeOK, PartialOK
  <2> QED
    BY <2>1, <2>2 DEF WInv, StoreFits
<1>6. ~error
  BY <1>4, <1>5
<1>7. PartialOK(grants, Names, Windows) /\ names \in SUBSET Names
  BY <1>4, <1>5 DEF PartialOK, Toplevels
<1>8. /\ PartialOK(store, Sessions, SUBSET Names)'
      /\ PartialOK(granted, Names, Windows)'
      /\ DOMAIN store' = DOMAIN store
      /\ inert' = inert
      /\ Stored' = IF inert THEN Stored ELSE names
      /\ granted' = IF inert THEN granted ELSE grants
      /\ refused' = (refused \/ (~inert /\ error))
  <2>1. error \in BOOLEAN /\ TypeOK /\ UNCHANGED <<session, clientId>>
    BY <1>2 DEF WInv
  <2>2. /\ Request(names, grants, error) /\ session # None
        /\ inert \/ PartialOK(grants, Names, Windows)
    BY <1>1, <1>7
  <2>. HIDE DEF names, grants, error
  <2> QED
    BY <1>2, <1>7, <2>1, <2>2, RequestIs
<1>9. /\ PartialOK(toplevels', Names, Toplevels) /\ DOMAIN toplevels' = DOMAIN toplevels
      /\ \A n \in DOMAIN toplevels :
           /\ toplevels'[n].window = toplevels[n].window
           /\ toplevels'[n].attached <=> n \in Readded
           /\ toplevels'[n].from = IF n \in Readded THEN n ELSE toplevels[n].from
  BY <1>1, <1>4, ZenonT(60) DEF WInv, TypeOK, PartialOK, Toplevels
<1>10. NeverRefused'
  BY <1>6, <1>8 DEF WInv, NeverRefused
<1>11. NamesFit'
  <2>1. DOMAIN toplevels' \subseteq kept'
    BY <1>1, <1>9 DEF WInv, NamesFit
  <2>2. ASSUME NEW m \in DOMAIN toplevels, NEW n \in DOMAIN toplevels, m # n
        PROVE  /\ toplevels'[m].window # toplevels'[n].window
               /\ toplevels'[m].from # n
               /\ toplevels'[m].from # None => toplevels'[m].from # toplevels'[n].from
    <3>1. /\ toplevels[m].window # toplevels[n].window
          /\ toplevels[m].from # n /\ toplevels[n].from # m
          /\ toplevels[m].from # None => toplevels[m].from # toplevels[n].from
      BY <2>2 DEF WInv, NamesFit
    <3> QED
      BY <1>9, <2>2, <3>1
  <2>3. \A n \in DOMAIN toplevels :
          toplevels'[n].attached =>
            toplevels'[n].from = n /\ toplevels'[n].window \in DOMAIN shown' /\ session' # None /\ Free'
    BY <1>1, <1>2, <1>3, <1>4, <1>9 DEF OnScreen
  <2> QED
    BY <1>9, <2>1, <2>2, <2>3 DEF NamesFit, OnScreen
<1>12. StoreFits'
  <2>1. Stored' \subseteq kept' \cup queued'
    <3>1. Readded \subseteq kept'
      BY <1>2, <1>4 DEF WInv, NamesFit
    <3>2. CASE inert
      BY <1>2, <1>5, <1>8, <3>1, <3>2
    <3>3. CASE ~inert
      <4>1. names \subseteq (Known \ queued) \cup Readded
        OBVIOUS
      <4>. HIDE DEF names
      <4> QED
        BY <1>2, <1>5, <1>8, <3>1, <3>3, <4>1
    <3> QED
      BY <3>2, <3>3
  <2>2. \A n \in DOMAIN toplevels : toplevels'[n].from # n => n \notin Stored'
    <3>1. ASSUME NEW n \in DOMAIN toplevels, toplevels'[n].from # n
          PROVE  n \notin Stored'
      <4>1. n \notin Readded /\ n \notin Known \ queued
        BY <1>5, <1>9, <3>1
      <4> QED
        BY <1>2, <1>5, <1>8, <4>1
    <3> QED
      BY <3>1
  <2> QED
    BY <1>9, <2>1, <2>2 DEF StoreFits
<1>13. SessionFits'
  <2>1. session' # None /\ session' \in DOMAIN store' /\ clientId' = session' /\ queued' = {}
    BY <1>2, <1>8
  <2> QED
    BY <2>1 DEF SessionFits
<1>14. GrantsFit'
  <2>1. CASE inert
    BY <1>4, <1>8, <2>1 DEF GrantsFit
  <2>2. CASE ~inert
    <3>1. DOMAIN granted' = Readded /\ \A n \in Readded : granted'[n] = toplevels[n].window
      BY <1>8, <2>2
    <3>2. {n \in DOMAIN toplevels' : toplevels'[n].attached} = Readded
      BY <1>4, <1>9
    <3>3. \A n \in Readded : toplevels'[n].window = toplevels[n].window
      BY <1>4, <1>9
    <3> QED
      BY <1>1, <1>2, <1>3, <1>8, <2>2, <3>1, <3>2, <3>3 DEF GrantsFit
  <2> QED
    BY <1>2, <2>1, <2>2
<1>15. OnScreenIsTracked'
  BY <1>3, <1>4, <1>9 DEF OnScreenIsTracked, OnScreen
<1>16. TypeOK'
  <2>1. PartialOK(shown, Windows, Places)'
    BY <1>3 DEF WInv, TypeOK, PartialOK, Places
  <2>2. call' \in [by : {"nobody", "app", "timer", "replaced"}, depth : Nat, again : BOOLEAN]
    BY <1>1 DEF Idle
  <2>3. /\ manager' \in {"unasked", "absent", "bound"} /\ session' \in Sessions \cup {None}
        /\ status' \in {"INVALID", "CREATED", "RESTORED", "REPLACED"} /\ state' = "IDLE"
        /\ clientId' \in Sessions \cup {None, DbusId} /\ queued' \subseteq Names
        /\ dbus' \in BOOLEAN /\ wanted' \in BOOLEAN /\ timer' \in BOOLEAN /\ offers' \in BOOLEAN
        /\ inert' \in BOOLEAN /\ refused' \in BOOLEAN /\ kept' \subseteq Names
    BY <1>1, <1>2, <1>6, <1>8 DEF WInv, TypeOK
  <2> QED
    BY <1>8, <1>9, <2>1, <2>2, <2>3 DEF TypeOK, Toplevels, Places
<1> QED
  BY <1>3, <1>10, <1>11, <1>12, <1>13, <1>14, <1>15, <1>16 DEF WInv

-----------------------------------------------------------------------------
(* Results *)

LEMMA InitOK == WaylandInit => WInv
<1>. SUFFICES ASSUME WaylandInit PROVE WInv
  OBVIOUS
<1>1. /\ DOMAIN shown = {} /\ DOMAIN toplevels = {} /\ DOMAIN store = {} /\ DOMAIN granted = {}
      /\ PartialOK(shown, Windows, Places) /\ PartialOK(toplevels, Names, Toplevels)
      /\ PartialOK(store, Sessions, SUBSET Names) /\ PartialOK(granted, Names, Windows)
  BY EmptyIs DEF WaylandInit
<1>2. TypeOK
  BY <1>1 DEF WaylandInit, TypeOK, Idle, Places, Toplevels
<1>3. TablesFit
  <2>1. {XdgSurface(w) : w \in DOMAIN shown} = {} /\ {XdgToplevel(w) : w \in DOMAIN shown} = {}
    BY <1>1
  <2>2. <<>> \in [{} -> {}]
    OBVIOUS
  <2> QED
    BY <1>1, <2>1, <2>2 DEF WaylandInit, TablesFit
<1>4. NamesFit /\ SessionFits /\ GrantsFit /\ OnScreenIsTracked /\ NeverRefused
  BY <1>1 DEF WaylandInit, NamesFit, SessionFits, GrantsFit, OnScreenIsTracked, NeverRefused
<1>5. StoreFits
  BY <1>1 DEF WaylandInit, StoreFits, Stored
<1> QED
  BY <1>2, <1>3, <1>4, <1>5 DEF WInv

LEMMA NextKeeps ==
  ASSUME WInv, ~DiscardsOffline, WaylandNext
  PROVE  WInv'
<1>1. CASE \E w \in Windows, n \in Names : AddWindow(w, n) \/ RestoreWindow(w, n) \/ RenameWindow(w, n)
  <2>1. PICK w \in Windows, n \in Names : AddWindow(w, n) \/ RestoreWindow(w, n) \/ RenameWindow(w, n)
    BY <1>1
  <2>2. None # n
    BY WaylandConstants
  <2>3. CASE AddWindow(w, n)
    BY <2>2, <2>3, RegisterKeeps DEF AddWindow
  <2>4. CASE RestoreWindow(w, n)
    BY <2>2, <2>4, RegisterKeeps DEF RestoreWindow
  <2>5. CASE RenameWindow(w, n)
    BY <2>5, RenameKeeps
  <2> QED
    BY <2>1, <2>3, <2>4, <2>5
<1>2. CASE \E n \in Names : RemoveWindow(n)
  BY <1>2, RemoveKeeps
<1>3. CASE \E w \in Windows : Show(w) \/ Hide(w) \/ DestroyWindow(w)
  BY <1>3, ShowKeeps, HideKeeps, DestroyKeeps
<1>4. CASE Connect \/ TryReconnect \/ ConnectsAgain \/ ReplacedWhileConnecting
           \/ GlobalAppears \/ NameOwnerChanged \/ OffersChanges
  BY <1>4, ConnectionKeeps
<1>5. CASE ConnectFails \/ Replaced \/ Disconnect \/ GlobalRemoved
  BY <1>5, LeavingKeeps
<1>6. CASE Discard \/ Restart \/ ConnectEnds \/ SessionAnswers
  BY <1>6, DiscardKeeps, RestartKeeps, ConnectEndsKeeps, AnswerKeeps
<1>7. CASE TakenOver \/ \E s \in Sessions : Forgets(s)
  BY <1>7, WorldKeeps
<1> QED
  BY <1>1, <1>2, <1>3, <1>4, <1>5, <1>6, <1>7, Zenon DEF WaylandNext, Application, Library, World

LEMMA StutterKeeps ==
  ASSUME WInv, UNCHANGED wlVars
  PROVE  WInv'
<1>1. /\ UNCHANGED guiVars /\ UNCHANGED linkVars /\ UNCHANGED compVars
      /\ UNCHANGED <<toplevels, queued, offers, kept>>
  BY DEF wlVars
<1>2. /\ UNCHANGED <<manager, session, status, state, dbus, clientId, wanted, timer, call>>
      /\ Free' <=> Free
  BY <1>1 DEF linkVars, Free
<1>3. /\ manager' \in {"unasked", "absent", "bound"}
      /\ state' \in {"DISCONNECTED", "REGISTERING", "IDLE"}
      /\ dbus' \in BOOLEAN /\ wanted' \in BOOLEAN /\ timer' \in BOOLEAN /\ offers' \in BOOLEAN
  BY <1>1, <1>2 DEF WInv, TypeOK
<1> QED
  BY <1>1, <1>2, <1>3, MinorKeeps

\* Every reachable state satisfies the invariant, whatever the compositor, the other
\* client and the application do, if the application discards its session only while it
\* is connected: xfce_session_client_wl_xdg_discard () without a session forgets the
\* names here and leaves them in the store.
THEOREM WaylandInvariance == ~DiscardsOffline => (WaylandSpec => []WInv)
<1>. SUFFICES ASSUME ~DiscardsOffline PROVE WaylandSpec => []WInv
  OBVIOUS
<1>1. WaylandInit => WInv
  BY InitOK
<1>2. WInv /\ [WaylandNext]_wlVars => WInv'
  BY NextKeeps, StutterKeeps
<1> QED
  BY <1>1, <1>2, PTL DEF WaylandSpec

\* Every variable of the backend and of its surroundings keeps its type.
THEOREM WaylandTypes == ~DiscardsOffline => (WaylandSpec => []TypeOK)
<1>1. WInv => TypeOK
  BY DEF WInv
<1> QED
  BY <1>1, WaylandInvariance, PTL

\* The library never sends a request that the compositor must refuse and kill the
\* application for, in any order of registering, renaming, removing, showing, losing
\* the connection and making it again.
THEOREM RequestsAreAccepted == ~DiscardsOffline => (WaylandSpec => []NeverRefused)
<1>1. WInv => NeverRefused
  BY DEF WInv
<1> QED
  BY <1>1, WaylandInvariance, PTL

\* In a session, the names that the compositor has given to windows are exactly those
\* for which the library has a toplevel_session.
THEOREM NamesAlwaysAgree == ~DiscardsOffline => (WaylandSpec => []NamesAgree)
<1>1. WInv => NamesAgree
  BY DEF WInv, GrantsFit, NamesAgree, TypeOK, PartialOK
<1> QED
  BY <1>1, WaylandInvariance, PTL

\* In a session, a window has a toplevel_session exactly when it is on screen.
THEOREM NoWindowIsLeftOut == ~DiscardsOffline => (WaylandSpec => []OnScreenIsTracked)
<1>1. WInv => OnScreenIsTracked
  BY DEF WInv
<1> QED
  BY <1>1, WaylandInvariance, PTL

\* Once connected, the compositor keeps nothing under a name that the application has
\* removed, wherever the removal waited.
THEOREM RemovalsAreMadeUpFor == ~DiscardsOffline => (WaylandSpec => []RemovedIsForgotten)
<1>1. WInv => RemovedIsForgotten
  BY InSession DEF RemovedIsForgotten
<1> QED
  BY <1>1, WaylandInvariance, PTL
=============================================================================
