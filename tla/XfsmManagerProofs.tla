-------------------------- MODULE XfsmManagerProofs --------------------------
(***************************************************************************)
(* Proofs about XfsmManager, for every set of clients of every kind.       *)
(*                                                                         *)
(* The invariant IInv is inductive.  Its first part, ClientsOK, is stated  *)
(* of a manager state, a client list, client states and timers that need   *)
(* not be those of the current state: CompleteSaveYourself is called with  *)
(* the values its caller has just computed, and CompleteKeeps says that it *)
(* leads from such values, if they are in order, to a state in order.      *)
(***************************************************************************)
EXTENDS XfsmManager, SequenceTheorems, TLAPS

\* The list, the states and the timers of the clients fit together, and fit the
\* state ms of the manager; only an XSMP client interacts, waits for phase 2 or
\* saves locally.
ClientsOK(ms, run, cs, tm) ==
  /\ run \in Seq(Clients) /\ IsInjective(run)
  /\ cs \in [Clients -> ClientStates]
  /\ tm \subseteq Clients
  /\ \A c \in Clients \ ToSet(run) : cs[c] = "IDLE" /\ c \notin tm
  /\ \A c \in Clients : cs[c] \in {"SAVING", "SAVINGLOCAL"} => c \in tm
  /\ \A c, d \in Clients : cs[c] = "INTERACTING" /\ cs[d] = "INTERACTING" => c = d
  /\ \A c \in Clients \ XsmpClients : cs[c] \in {"IDLE", "SAVING", "SAVEDONE", "DISCONNECTED"}
  /\ ms \in {"STARTUP", "IDLE"} => \A c \in Clients : cs[c] \in {"IDLE", "SAVINGLOCAL"}
  /\ ms = "SHUTDOWNPHASE2" => \A c \in Clients : cs[c] \notin Busy \cup {"WAITFORPHASE2"}

\* A registered connection belongs to a client in the list, a new one to none.
ConnectionsOK ==
  /\ conn \in [XsmpClients -> ConnStates]
  /\ \A c \in XsmpClients : /\ conn[c] = "registered" => c \in Running
                            /\ conn[c] = "new" => c \notin Running

\* The flags of the D-Bus clients belong to clients in the list, the one of the
\* second round to clients that still save.
FlagsOK ==
  /\ saveReq \subseteq Dbus2Clients
  /\ queried \subseteq Dbus2Clients \cap Running
  /\ \A c \in saveReq : cstate[c] = "SAVING"

\* What the manager keeps about the session, and what the dying phase relies on.
SessionOK ==
  /\ mstate \in ManagerStates
  /\ saveSession \in BOOLEAN
  /\ ckptNamed \in BOOLEAN
  /\ stored \in {"none", "own", "named"}
  /\ dieTimer \in BOOLEAN
  /\ quit \in BOOLEAN
  /\ mstate = "SHUTDOWNPHASE2" => /\ stored = IF saveSession THEN "own" ELSE "none"
                                  /\ ~quit => dieTimer

RequestsOK ==
  /\ idle \in {NoRequest} \cup Checkpoints \cup Shutdowns
  /\ dialog \in {NoRequest} \cup Dialogs
  /\ shutdownType \in ShutdownTypes \ {"ASK"}

ManagerOK ==
  /\ ClientsOK(mstate, running, cstate, timer)
  /\ ConnectionsOK
  /\ FlagsOK
  /\ SessionOK

IInv == ManagerOK /\ RequestsOK

-----------------------------------------------------------------------------
(* Sequences *)

\* Taking an element off a list that holds it at most once leaves a list of the
\* others, each once.
LEMMA RemoveFirstProperties ==
  ASSUME NEW S, NEW s \in Seq(S), IsInjective(s), NEW e
  PROVE  /\ RemoveFirst(s, e) \in Seq(S)
         /\ ToSet(RemoveFirst(s, e)) = ToSet(s) \ {e}
         /\ IsInjective(RemoveFirst(s, e))
<1>1. CASE ~\E i \in 1 .. Len(s) : s[i] = e
  BY <1>1, SMT DEF RemoveFirst, ToSet
<1>2. CASE \E i \in 1 .. Len(s) : s[i] = e
  <2>1. PICK k \in 1 .. Len(s) : s[k] = e
    BY <1>2
  <2>2. {i \in 1 .. Len(s) : s[i] = e} = {k}
    BY <2>1 DEF IsInjective
  <2>3. Min({k}) = k
    BY <2>1 DEF Min
  <2>4. RemoveFirst(s, e) = RemoveAt(s, k)
    BY <1>2, <2>2, <2>3 DEF RemoveFirst, SelectInSeq
  <2>. DEFINE r == [i \in 1 .. Len(s) - 1 |-> IF i < k THEN s[i] ELSE s[i + 1]]
  <2>5. /\ Len(s) \in Nat
        /\ DOMAIN s = 1 .. Len(s)
        /\ \A i \in 1 .. Len(s) : s[i] \in S
    OBVIOUS
  <2>6. r \in Seq(S) /\ Len(r) = Len(s) - 1
    BY <2>1, <2>5
  <2>7. RemoveAt(s, k) = r
    <3>. DEFINE front == SubSeq(s, 1, k - 1)
                back == SubSeq(s, k + 1, Len(s))
    <3>1. /\ front \in Seq(S) /\ Len(front) = k - 1
          /\ \A i \in 1 .. k - 1 : front[i] = s[i]
      BY <2>1, <2>5, SubSeqProperties
    <3>2. /\ back \in Seq(S) /\ Len(back) = Len(s) - k
          /\ \A i \in 1 .. Len(s) - k : back[i] = s[k + i]
      BY SMTT(30)
    <3>. HIDE DEF front, back
    <3>3. /\ front \o back \in Seq(S) /\ Len(front \o back) = Len(s) - 1
          /\ \A i \in 1 .. Len(s) - 1 :
               (front \o back)[i] = IF i <= k - 1 THEN front[i] ELSE back[i - (k - 1)]
      <4>1. /\ front \o back \in Seq(S)
            /\ Len(front \o back) = Len(front) + Len(back)
            /\ \A i \in 1 .. Len(front) + Len(back) :
                 (front \o back)[i] = IF i <= Len(front) THEN front[i]
                                                         ELSE back[i - Len(front)]
        BY <3>1, <3>2, ConcatProperties, Zenon
      <4>2. Len(front) = k - 1 /\ Len(front) + Len(back) = Len(s) - 1
        BY <2>1, <2>5, <3>1, <3>2
      <4>. QED BY <4>1, <4>2, Zenon
    <3>4. ASSUME NEW i \in 1 .. Len(s) - 1 PROVE (front \o back)[i] = r[i]
      BY <2>1, <2>5, <3>1, <3>2, <3>3
    <3>5. front \o back = r
      BY <2>6, <3>3, <3>4, SeqEqual
    <3>. QED BY <3>5 DEF RemoveAt, front, back
  <2>8. ToSet(r) = ToSet(s) \ {e}
    <3>1. ASSUME NEW x \in ToSet(r) PROVE x \in ToSet(s) \ {e}
      BY <2>1, <2>5 DEF ToSet, IsInjective
    <3>2. ASSUME NEW x \in ToSet(s) \ {e} PROVE x \in ToSet(r)
      <4>1. PICK j \in 1 .. Len(s) : s[j] = x
        BY <2>5 DEF ToSet
      <4>2. j # k
        BY <2>1, <4>1
      <4>3. CASE j < k
        <5>1. j \in 1 .. Len(s) - 1 /\ r[j] = x
          BY <2>1, <2>5, <4>1, <4>3
        <5>. QED BY <5>1 DEF ToSet
      <4>4. CASE j > k
        <5>1. j - 1 \in 1 .. Len(s) - 1 /\ r[j - 1] = x
          BY <2>1, <2>5, <4>1, <4>4
        <5>. QED BY <5>1 DEF ToSet
      <4>. QED BY <2>1, <4>1, <4>2, <4>3, <4>4
    <3>. QED BY <3>1, <3>2
  <2>9. IsInjective(r)
    BY <2>1, <2>5 DEF IsInjective
  <2>. QED BY <2>4, <2>6, <2>7, <2>8, <2>9
<1>. QED BY <1>1, <1>2

\* Registering a client that is not in the list keeps the list a list of clients,
\* each once.
LEMMA AppendProps ==
  ASSUME NEW S, NEW s \in Seq(S), IsInjective(s), NEW e \in S, e \notin ToSet(s)
  PROVE  /\ Append(s, e) \in Seq(S)
         /\ ToSet(Append(s, e)) = ToSet(s) \cup {e}
         /\ IsInjective(Append(s, e))
<1>. DEFINE r == Append(s, e)
<1>1. /\ r \in Seq(S) /\ Len(r) = Len(s) + 1 /\ Len(s) \in Nat
      /\ \A i \in 1 .. Len(s) : r[i] = s[i]
      /\ r[Len(s) + 1] = e
      /\ DOMAIN s = 1 .. Len(s) /\ DOMAIN r = 1 .. Len(r)
  BY AppendProperties
<1>. HIDE DEF r
<1>2. \A i \in 1 .. Len(s) : s[i] # e
  BY <1>1 DEF ToSet
<1>3. ToSet(r) = ToSet(s) \cup {e}
  <2>1. ToSet(r) \subseteq ToSet(s) \cup {e}
    BY <1>1 DEF ToSet
  <2>2. ToSet(s) \subseteq ToSet(r)
    <3>. SUFFICES ASSUME NEW i \in 1 .. Len(s) PROVE s[i] \in ToSet(r)
      BY <1>1 DEF ToSet
    <3>. QED BY <1>1 DEF ToSet
  <2>3. e \in ToSet(r)
    <3>1. Len(s) + 1 \in DOMAIN r
      BY <1>1
    <3>. QED BY <1>1, <3>1 DEF ToSet
  <2>. QED BY <2>1, <2>2, <2>3
<1>4. IsInjective(r)
  BY <1>1, <1>2 DEF IsInjective
<1>. QED BY <1>1, <1>3, <1>4 DEF r

-----------------------------------------------------------------------------
(* Finishing a save *)

\* Whatever the caller of xfsm_manager_complete_saveyourself () did to the list,
\* the states and the timers, if they are in order then so is what it leaves:
\* the clients fit the next manager state, those that were saving still are, a
\* save that goes on waits for a client, and a session that dies has been stored
\* as asked and has its timer, or ends.
LEMMA CompleteKeeps ==
  ASSUME NEW ms \in SavePhases, NEW run, NEW cs, NEW tm, NEW save \in BOOLEAN,
         ClientsOK(ms, run, cs, tm), SessionOK,
         running' = run, saveSession' = save,
         CompleteSaveYourself(ms, run, cs, tm, save)
  PROVE  /\ ClientsOK(mstate', running', cstate', timer')
         /\ SessionOK'
         /\ \A c \in Clients : cs[c] = "SAVING" => cstate'[c] = "SAVING"
         /\ mstate' \in SavePhases => \E c \in ToSet(run) : cstate'[c] \in Busy
         /\ \A c \in Clients : cs[c] = "WAITFORPHASE2" /\ cstate'[c] = "SAVING"
              => InState(run, cs, Busy) = {}
<1>1. CASE /\ InState(run, cs, Busy) # {}
           /\ mstate' = ms /\ cstate' = cs /\ timer' = tm
           /\ UNCHANGED <<ckptNamed, stored, dieTimer, quit>>
  BY <1>1 DEF InState, SessionOK, SavePhases, ManagerStates
<1>2. CASE /\ InState(run, cs, Busy) = {} /\ InState(run, cs, {"WAITFORPHASE2"}) # {}
           /\ mstate' = ms
           /\ cstate' = [c \in Clients |->
                IF c \in InState(run, cs, {"WAITFORPHASE2"}) THEN "SAVING" ELSE cs[c]]
           /\ timer' = StartTimers(tm, InState(run, cs, {"WAITFORPHASE2"}))
           /\ UNCHANGED <<ckptNamed, stored, dieTimer, quit>>
  <2>. DEFINE phase2 == InState(run, cs, {"WAITFORPHASE2"})
  <2>1. phase2 \subseteq Clients \cap ToSet(run)
    BY DEF ClientsOK, InState, ToSet
  <2>2. ClientsOK(mstate', running', cstate', timer')
    BY <1>2, <2>1 DEF ClientsOK, ClientStates, StartTimers, SavePhases, InState
  <2>3. SessionOK'
    BY <1>2 DEF SessionOK, SavePhases, ManagerStates
  <2>4. \E c \in ToSet(run) : cstate'[c] \in Busy
    BY <1>2, <2>1 DEF Busy
  <2>. QED BY <1>2, <2>1, <2>2, <2>3, <2>4 DEF ClientsOK
<1>3. CASE /\ InState(run, cs, Busy \cup {"WAITFORPHASE2"}) = {}
           /\ stored' = IF save THEN StoredGroup(ms) ELSE "none"
           /\ ckptNamed' = (ckptNamed /\ ~save)
           /\ timer' = tm
           /\ ms = "CHECKPOINT"
           /\ mstate' = "IDLE"
           /\ cstate' = ResetClients(run, cs)
           /\ UNCHANGED <<dieTimer, quit>>
  <2>1. ClientsOK(mstate', running', cstate', timer')
    BY <1>3 DEF ClientsOK, ClientStates, ResetClients, Busy
  <2>2. SessionOK'
    BY <1>3 DEF SessionOK, ManagerStates, StoredGroup
  <2>3. ASSUME NEW c \in Clients PROVE cs[c] \notin {"SAVING", "WAITFORPHASE2"}
    BY <1>3 DEF ClientsOK, InState, Busy
  <2>. QED BY <1>3, <2>1, <2>2, <2>3 DEF SavePhases
<1>4. CASE /\ InState(run, cs, Busy \cup {"WAITFORPHASE2"}) = {}
           /\ stored' = IF save THEN StoredGroup(ms) ELSE "none"
           /\ ckptNamed' = (ckptNamed /\ ~save)
           /\ timer' = tm
           /\ ms = "SHUTDOWN"
           /\ mstate' = "SHUTDOWNPHASE2"
           /\ cstate' = cs
           /\ AwaitDeath(run)
  <2>1. ASSUME NEW c \in Clients PROVE cs[c] \notin Busy \cup {"WAITFORPHASE2"}
    BY <1>4 DEF ClientsOK, InState, Busy
  <2>2. ClientsOK(mstate', running', cstate', timer')
    BY <1>4, <2>1 DEF ClientsOK
  <2>3. SessionOK'
    BY <1>4 DEF SessionOK, ManagerStates, StoredGroup, AwaitDeath
  <2>. QED BY <1>4, <2>1, <2>2, <2>3 DEF SavePhases, Busy
<1>. QED BY <1>1, <1>2, <1>3, <1>4, Zenon DEF CompleteSaveYourself

-----------------------------------------------------------------------------
(* Dropping a client, starting a save *)

\* A save, once under way, waits for a client that is in it.
Waiting == mstate \in SavePhases => \E c \in Running : cstate[c] \in Busy

\* A client may be dropped at any time, saving or not.
LEMMA CloseKeeps ==
  ASSUME ManagerOK, ~quit, NEW c \in Clients, NEW after \in {"closed", "orphaned"},
         CloseConnection(c, after), UNCHANGED saveSession
  PROVE  ManagerOK' /\ (Waiting => Waiting')
<1>. DEFINE run == RemoveFirst(running, c)
<1>1. /\ run \in Seq(Clients) /\ IsInjective(run)
      /\ ToSet(run) = Running \ {c}
  BY RemoveFirstProperties DEF ManagerOK, ClientsOK, Running
<1>. HIDE DEF run
<1>2. CASE /\ mstate = "SHUTDOWNPHASE2"
           /\ cstate' = [d \in Clients |-> IF d = c /\ c \in Running THEN "DISCONNECTED"
                                                                     ELSE cstate[d]]
           /\ timer' = timer \ {c}
           /\ conn' = IF c \in XsmpClients THEN [conn EXCEPT ![c] = "closed"] ELSE conn
           /\ quit' = (\A d \in Running : cstate'[d] = "DISCONNECTED")
           /\ dieTimer' = (dieTimer /\ ~quit')
           /\ UNCHANGED <<running, saveReq, queried, mstate, ckptNamed, stored>>
  <2>1. ClientsOK(mstate', running', cstate', timer')
    BY <1>2 DEF ManagerOK, ClientsOK, ClientStates, Busy, Running
  <2>2. ConnectionsOK'
    BY <1>2 DEF ManagerOK, ConnectionsOK, ConnStates, Running
  <2>3. FlagsOK'
    BY <1>2 DEF ManagerOK, ClientsOK, FlagsOK, Busy, Running, Clients
  <2>4. SessionOK'
    BY <1>2 DEF ManagerOK, SessionOK
  <2>. QED BY <1>2, <2>1, <2>2, <2>3, <2>4 DEF ManagerOK, Waiting, SavePhases
<1>3. ASSUME Forget(c, after)
      PROVE  /\ ConnectionsOK'
             /\ saveReq' \subseteq Dbus2Clients
             /\ queried' \subseteq Dbus2Clients \cap Running'
  <2>1. Running' = Running \ {c}
    BY <1>1, <1>3 DEF Forget, run, Running
  <2>2. ConnectionsOK'
    BY <1>3, <2>1 DEF Forget, ManagerOK, ConnectionsOK, ConnStates
  <2>. QED BY <1>3, <2>1, <2>2 DEF Forget, ManagerOK, FlagsOK
<1>4. ClientsOK(mstate, run, [cstate EXCEPT ![c] = "IDLE"], timer \ {c})
  BY <1>1 DEF ManagerOK, ClientsOK, ClientStates, Busy, Running
<1>5. CASE /\ mstate \in SavePhases
           /\ Forget(c, after)
           /\ CompleteSaveYourself(mstate, RemoveFirst(running, c),
                [cstate EXCEPT ![c] = "IDLE"], timer \ {c}, saveSession)
  <2>. DEFINE cs == [cstate EXCEPT ![c] = "IDLE"]
  <2>1. running' = run
    BY <1>5 DEF Forget, run
  <2>2. /\ ClientsOK(mstate', running', cstate', timer')
        /\ SessionOK'
        /\ \A d \in Clients : cs[d] = "SAVING" => cstate'[d] = "SAVING"
        /\ mstate' \in SavePhases => \E d \in ToSet(run) : cstate'[d] \in Busy
    BY <1>4, <1>5, <2>1, CompleteKeeps DEF ManagerOK, SessionOK, run
  <2>3. \A d \in saveReq' : cs[d] = "SAVING" /\ d \in Clients
    BY <1>5 DEF Forget, ManagerOK, FlagsOK, ClientsOK, Clients
  <2>. HIDE DEF cs
  <2>4. FlagsOK'
    BY <1>3, <1>5, <2>2, <2>3 DEF FlagsOK
  <2>5. Waiting'
    BY <2>1, <2>2 DEF Waiting, Running
  <2>. QED BY <1>3, <1>5, <2>2, <2>4, <2>5 DEF ManagerOK
<1>6. CASE /\ mstate \in {"STARTUP", "IDLE"}
           /\ Forget(c, after)
           /\ cstate' = [cstate EXCEPT ![c] = "IDLE"]
           /\ timer' = timer \ {c}
           /\ UNCHANGED saveVars
  <2>1. running' = run
    BY <1>6 DEF Forget, run
  <2>2. ClientsOK(mstate', running', cstate', timer')
    BY <1>4, <1>6, <2>1 DEF saveVars
  <2>3. FlagsOK'
    BY <1>3, <1>6 DEF Forget, ManagerOK, FlagsOK, ClientsOK, Clients
  <2>4. SessionOK' /\ Waiting'
    BY <1>6 DEF ManagerOK, SessionOK, Waiting, SavePhases, saveVars
  <2>. QED BY <1>3, <1>6, <2>2, <2>3, <2>4 DEF ManagerOK
<1>. QED BY <1>2, <1>5, <1>6, Zenon DEF CloseConnection

\* A save may start at any time, whatever the clients are doing.
LEMMA BeginKeeps ==
  ASSUME ManagerOK, NEW ms \in SavePhases, NEW save \in BOOLEAN, BeginSave(ms, save)
  PROVE  ManagerOK' /\ Waiting'
<1>. DEFINE cs == [c \in Clients |-> IF c \in Savers THEN "SAVING" ELSE cstate[c]]
            tm == StartTimers(timer, Savers)
<1>1. ClientsOK(ms, running, cs, tm)
  <2>1. Savers \subseteq Clients \cap Running
    BY DEF ManagerOK, ClientsOK, Savers, Running, ToSet
  <2>2. cs \in [Clients -> ClientStates]
    BY DEF ManagerOK, ClientsOK, ClientStates
  <2>3. \A c \in Clients : cs[c] = IF c \in Savers THEN "SAVING" ELSE cstate[c]
    OBVIOUS
  <2>. HIDE DEF cs
  <2>. QED BY <2>1, <2>2, <2>3 DEF ManagerOK, ClientsOK, SavePhases, StartTimers, Running
<1>2. /\ ClientsOK(mstate', running', cstate', timer')
      /\ SessionOK'
      /\ \A c \in Clients : cs[c] = "SAVING" => cstate'[c] = "SAVING"
      /\ mstate' \in SavePhases => \E c \in ToSet(running) : cstate'[c] \in Busy
  BY <1>1, CompleteKeeps DEF BeginSave, ManagerOK
<1>3. ConnectionsOK'
  BY DEF BeginSave, ManagerOK, ConnectionsOK, Running
<1>4. \A c \in saveReq : c \in Clients /\ cs[c] = "SAVING"
  BY DEF ManagerOK, FlagsOK, Clients
<1>. HIDE DEF cs
<1>5. FlagsOK'
  BY <1>2, <1>4 DEF BeginSave, ManagerOK, FlagsOK, Savers, Running
<1>6. Waiting'
  BY <1>2 DEF Waiting, Running, BeginSave
<1>. QED BY <1>2, <1>3, <1>5, <1>6 DEF ManagerOK

\* A step that changes nothing the manager invariant speaks of keeps it.
LEMMA UnchangedKeeps ==
  ASSUME UNCHANGED <<clientVars, saveVars, saveSession>>, ManagerOK
  PROVE  ManagerOK' /\ (Waiting => Waiting')
BY DEF ManagerOK, ClientsOK, ConnectionsOK, FlagsOK, SessionOK, Waiting, Running,
       clientVars, saveVars

\* A shutdown of a known type goes ahead.
LEMMA ProceedKeeps ==
  ASSUME ManagerOK, NEW type \in ShutdownTypes \ {"ASK"}, NEW save \in BOOLEAN,
         Proceed(type, save)
  PROVE  ManagerOK' /\ (Waiting => Waiting') /\ shutdownType' \in ShutdownTypes \ {"ASK"}
<1>1. CASE UNCHANGED <<clientVars, saveVars, saveSession>>
  BY <1>1, UnchangedKeeps DEF Proceed
<1>2. CASE BeginSave("SHUTDOWN", save)
  BY <1>2, BeginKeeps DEF Proceed, SavePhases
<1>. QED BY <1>1, <1>2 DEF Proceed

\* A request for a checkpoint or a shutdown, from a client or from the bus.
LEMMA GlobalKeeps ==
  ASSUME ManagerOK, RequestsOK, NEW shutdown \in BOOLEAN, NEW fast \in BOOLEAN,
         NEW type \in ShutdownTypes, NEW allow \in BOOLEAN,
         SaveYourselfGlobal(shutdown, fast, type, allow)
  PROVE  /\ ManagerOK' /\ (Waiting => Waiting')
         /\ dialog' \in {NoRequest} \cup Dialogs
         /\ shutdownType' \in ShutdownTypes \ {"ASK"}
<1>1. PICK saveOnExit \in BOOLEAN, prompt \in BOOLEAN :
        LET save == allow /\ saveOnExit IN
        \/ /\ ~shutdown
           /\ BeginSave("CHECKPOINT", TRUE)
           /\ UNCHANGED <<dialog, shutdownType>>
        \/ /\ shutdown /\ ~fast /\ type = "ASK" /\ prompt
           /\ dialog' = IF dialog = NoRequest THEN [kind |-> "dialog", save |-> save]
                                              ELSE dialog
           /\ UNCHANGED <<clientVars, saveVars, shutdownType, saveSession>>
        \/ /\ shutdown /\ ~fast /\ type = "ASK" /\ ~prompt
           /\ Proceed("LOGOUT", save)
           /\ UNCHANGED dialog
        \/ /\ shutdown /\ fast /\ type = "ASK"
           /\ Proceed(shutdownType, save)
           /\ UNCHANGED dialog
        \/ /\ shutdown /\ type # "ASK"
           /\ Proceed(type, save)
           /\ UNCHANGED dialog
  BY Zenon DEF SaveYourselfGlobal
<1>. DEFINE save == allow /\ saveOnExit
<1>2. save \in BOOLEAN
  OBVIOUS
<1>. HIDE DEF save
<1>3. "LOGOUT" \in ShutdownTypes \ {"ASK"} /\ "CHECKPOINT" \in SavePhases
  BY DEF ShutdownTypes, SavePhases
<1>4. dialog \in {NoRequest} \cup Dialogs /\ shutdownType \in ShutdownTypes \ {"ASK"}
  BY DEF RequestsOK
<1>5. CASE BeginSave("CHECKPOINT", TRUE) /\ UNCHANGED <<dialog, shutdownType>>
  BY <1>3, <1>4, <1>5, BeginKeeps
<1>6. CASE /\ dialog' = IF dialog = NoRequest THEN [kind |-> "dialog", save |-> save]
                                              ELSE dialog
           /\ UNCHANGED <<clientVars, saveVars, shutdownType, saveSession>>
  BY <1>2, <1>4, <1>6, UnchangedKeeps DEF Dialogs
<1>7. CASE /\ UNCHANGED dialog
           /\ \E t \in ShutdownTypes \ {"ASK"} : Proceed(t, save)
  BY <1>2, <1>4, <1>7, ProceedKeeps
<1>. QED BY <1>1, <1>3, <1>4, <1>5, <1>6, <1>7, Zenon DEF save

-----------------------------------------------------------------------------
(* One lemma per action that looks at a client's state *)

\* xfsm_manager_register_client (), over either transport.
LEMMA RegisterKeeps ==
  ASSUME ManagerOK, NEW c \in Clients, c \notin Running, NEW st \in {"IDLE", "SAVINGLOCAL"},
         running' = Append(running, c), cstate' = [cstate EXCEPT ![c] = st],
         timer' = IF st = "IDLE" THEN timer ELSE StartTimers(timer, {c}),
         \/ UNCHANGED conn
         \/ c \in XsmpClients /\ conn' = [conn EXCEPT ![c] = "registered"],
         c \notin XsmpClients \/ conn'[c] = "registered",
         c \in XsmpClients \/ st = "IDLE",
         mstate' = mstate \/ (mstate = "STARTUP" /\ mstate' = "IDLE"),
         UNCHANGED <<saveReq, queried, saveSession, ckptNamed, stored, dieTimer, quit>>
  PROVE  ManagerOK' /\ (Waiting => Waiting')
<1>1. /\ running' \in Seq(Clients) /\ IsInjective(running')
      /\ Running' = Running \cup {c}
  BY AppendProps DEF ManagerOK, ClientsOK, Running
<1>2. cstate' \in [Clients -> ClientStates] /\ cstate[c] = "IDLE"
  BY DEF ManagerOK, ClientsOK, ClientStates, Running
<1>3. \A d \in Clients : cstate'[d] = IF d = c THEN st ELSE cstate[d]
  BY DEF ManagerOK, ClientsOK
<1>4. ClientsOK(mstate', running', cstate', timer')
  BY <1>1, <1>2, <1>3 DEF ManagerOK, ClientsOK, StartTimers, Busy, Running
<1>5. ConnectionsOK'
  BY <1>1 DEF ManagerOK, ConnectionsOK, ConnStates
<1>6. FlagsOK'
  BY <1>1, <1>2, <1>3 DEF ManagerOK, FlagsOK, Clients
<1>7. SessionOK'
  BY DEF ManagerOK, SessionOK, ManagerStates
<1>8. Waiting => Waiting'
  BY <1>1, <1>2, <1>3 DEF Waiting, SavePhases, Busy, ManagerOK, ClientsOK, Running, ToSet
<1>. QED BY <1>4, <1>5, <1>6, <1>7, <1>8 DEF ManagerOK

\* A step that only moves clients from state to state, and none of the D-Bus
\* clients out of saving, concerns ClientsOK alone.
LEMMA StatesKeep ==
  ASSUME ManagerOK, ClientsOK(mstate', running, cstate', timer'),
         mstate' = mstate \/ (mstate = "SHUTDOWN" /\ mstate' = "CHECKPOINT"),
         \A c \in Dbus2Clients : cstate[c] = "SAVING" => cstate'[c] = "SAVING",
         UNCHANGED <<running, conn, saveReq, queried,
                     saveSession, ckptNamed, stored, dieTimer, quit>>
  PROVE  ManagerOK'
<1>1. ConnectionsOK'
  BY DEF ManagerOK, ConnectionsOK, Running
<1>2. FlagsOK'
  BY DEF ManagerOK, FlagsOK, Running
<1>3. SessionOK'
  BY DEF ManagerOK, SessionOK, ManagerStates
<1>. QED BY <1>1, <1>2, <1>3 DEF ManagerOK

\* The transport of a client moves in a way its registration does not notice.
LEMMA TransportKeeps ==
  ASSUME ManagerOK, ConnectionsOK', UNCHANGED <<running, cstate, timer, saveReq, queried>>,
         UNCHANGED saveVars, UNCHANGED saveSession
  PROVE  ManagerOK' /\ (Waiting => Waiting')
BY DEF ManagerOK, ClientsOK, FlagsOK, SessionOK, Waiting, Running, saveVars

\* A new connection is no client yet: only its own transport state changes.
LEMMA NewClientKeeps ==
  ASSUME IInv, NEW c \in XsmpClients, NewClient(c)
  PROVE  IInv' /\ (Waiting => Waiting')
<1>1. ConnectionsOK'
  BY DEF NewClient, IInv, ManagerOK, ConnectionsOK, ConnStates, Running
<1>2. UNCHANGED saveSession /\ UNCHANGED saveVars /\ RequestsOK'
  BY DEF NewClient, IInv, RequestsOK, requestVars
<1>. QED BY <1>1, <1>2, TransportKeeps DEF NewClient, IInv

\* sm_register_client () turns a new connection into a client at the end of the list.
LEMMA RegisterXsmpKeeps ==
  ASSUME IInv, NEW c \in XsmpClients, NEW resumed \in BOOLEAN, RegisterXsmp(c, resumed)
  PROVE  IInv' /\ (Waiting => Waiting')
<1>. DEFINE st == IF resumed THEN "IDLE" ELSE "SAVINGLOCAL"
<1>1. c \in Clients /\ c \notin Running /\ cstate[c] = "IDLE"
  BY DEF RegisterXsmp, IInv, ManagerOK, ConnectionsOK, ClientsOK, Clients, Running
<1>2. cstate' = [cstate EXCEPT ![c] = st]
  BY <1>1 DEF RegisterXsmp, IInv, ManagerOK, ClientsOK
<1>3. timer' = IF st = "IDLE" THEN timer ELSE StartTimers(timer, {c})
  BY DEF RegisterXsmp
<1>4. conn'[c] = "registered"
  BY DEF RegisterXsmp, IInv, ManagerOK, ConnectionsOK
<1>5. st \in {"IDLE", "SAVINGLOCAL"}
  OBVIOUS
<1>. HIDE DEF st
<1>6. ManagerOK' /\ (Waiting => Waiting')
  BY <1>1, <1>2, <1>3, <1>4, <1>5, RegisterKeeps
     DEF RegisterXsmp, ContinueStartup, IInv, requestVars
<1>. QED BY <1>6 DEF RegisterXsmp, IInv, RequestsOK, requestVars

\* RegisterClient and RegisterClient2 append an idle client.
LEMMA RegisterDbusKeeps ==
  ASSUME IInv, NEW c \in DbusClients \cup Dbus2Clients, NEW resumed \in BOOLEAN,
         RegisterDbus(c, resumed)
  PROVE  IInv' /\ (Waiting => Waiting')
<1>1. c \in Clients /\ c \notin Running /\ cstate[c] = "IDLE" /\ c \notin XsmpClients
  BY ClientKinds DEF RegisterDbus, IInv, ManagerOK, ClientsOK, Clients, Running
<1>2. cstate' = [cstate EXCEPT ![c] = "IDLE"]
  BY <1>1 DEF RegisterDbus, IInv, ManagerOK, ClientsOK
<1>3. ManagerOK' /\ (Waiting => Waiting')
  BY <1>1, <1>2, RegisterKeeps DEF RegisterDbus, ContinueStartup, IInv, requestVars
<1>. QED BY <1>3 DEF RegisterDbus, IInv, RequestsOK, requestVars

\* A newcomer that takes over the id of a running client: nothing is left of the
\* old client, but a save may be left without anybody to wait for.
LEMMA ReplaceClientKeeps ==
  ASSUME IInv, NEW c \in Dbus2Clients, NEW old \in Running, ReplaceClient(old, c)
  PROVE  IInv'
<1>. DEFINE run == RemoveFirst(running, old)
<1>1. /\ run \in Seq(Clients) /\ IsInjective(run)
      /\ ToSet(run) = Running \ {old}
  BY RemoveFirstProperties DEF IInv, ManagerOK, ClientsOK, Running
<1>2. c \in Clients /\ old \in Clients /\ c \notin XsmpClients
  BY ClientKinds DEF Clients, IInv, ManagerOK, ClientsOK, Running, ToSet
<1>3. c \notin ToSet(run)
  BY <1>1 DEF ReplaceClient
<1>. HIDE DEF run
<1>4. /\ running' \in Seq(Clients) /\ IsInjective(running')
      /\ Running' = (Running \ {old}) \cup {c}
  BY <1>1, <1>2, <1>3, AppendProps DEF ReplaceClient, Running, run
<1>5. c = old \/ cstate[c] = "IDLE"
  BY <1>2 DEF ReplaceClient, IInv, ManagerOK, ClientsOK, Running
<1>6. ClientsOK(mstate', running', cstate', timer')
  <2>1. \A d \in Clients : cstate'[d] = IF d = old THEN "IDLE" ELSE cstate[d]
    BY DEF ReplaceClient, IInv, ManagerOK, ClientsOK
  <2>2. cstate' \in [Clients -> ClientStates]
    BY DEF ReplaceClient, IInv, ManagerOK, ClientsOK, ClientStates
  <2>. QED BY <1>4, <1>5, <2>1, <2>2
           DEF ReplaceClient, IInv, ManagerOK, ClientsOK, Busy, Running, saveVars
<1>7. ConnectionsOK'
  BY <1>2, <1>4 DEF ReplaceClient, IInv, ManagerOK, ConnectionsOK, ConnStates
<1>8. FlagsOK'
  BY <1>2, <1>4 DEF ReplaceClient, IInv, ManagerOK, ClientsOK, FlagsOK, Clients
<1>9. SessionOK' /\ RequestsOK'
  BY DEF ReplaceClient, IInv, ManagerOK, SessionOK, RequestsOK, saveVars, requestVars
<1>. QED BY <1>6, <1>7, <1>8, <1>9 DEF IInv, ManagerOK

\* A protocol error, a timeout or a farewell, whatever the client was doing.
LEMMA GoodbyeKeeps ==
  ASSUME IInv, ~quit, NEW c \in Clients, NEW after \in {"closed", "orphaned"},
         CloseConnection(c, after), UNCHANGED requestVars
  PROVE  IInv' /\ (Waiting => Waiting')
BY CloseKeeps DEF IInv, RequestsOK, requestVars

\* xfsm_manager_save_yourself (): a local save, a global one, or a client dropped.
LEMMA SaveYourselfRequestKeeps ==
  ASSUME IInv, NEW c \in XsmpClients, NEW global \in BOOLEAN, NEW shutdown \in BOOLEAN,
         NEW fast \in BOOLEAN, SaveYourselfRequest(c, global, shutdown, fast)
  PROVE  IInv' /\ (Waiting => Waiting')
<1>. c \in Clients
  BY DEF Clients
<1>1. CASE Nuke(c) /\ UNCHANGED <<dialog, shutdownType, saveSession>>
  <2>1. CloseConnection(c, "orphaned") /\ UNCHANGED requestVars /\ ~quit
    BY <1>1 DEF SaveYourselfRequest, Nuke, requestVars
  <2>. QED BY <2>1, GoodbyeKeeps
<1>2. CASE /\ cstate[c] = "IDLE" /\ mstate = "IDLE"
           /\ cstate' = [cstate EXCEPT ![c] = "SAVINGLOCAL"]
           /\ timer' = StartTimers(timer, {c})
           /\ UNCHANGED <<running, conn, saveReq, queried, saveVars,
                          dialog, shutdownType, saveSession>>
  <2>1. c \in Running
    BY DEF SaveYourselfRequest, Speaking
  <2>2. ClientsOK(mstate', running, cstate', timer')
    BY <1>2, <2>1 DEF IInv, ManagerOK, ClientsOK, ClientStates, StartTimers, Running, saveVars
  <2>3. \A d \in Dbus2Clients : cstate[d] = "SAVING" => cstate'[d] = "SAVING"
    BY <1>2 DEF IInv, ManagerOK, ClientsOK, Clients
  <2>4. ManagerOK'
    BY <1>2, <2>2, <2>3, StatesKeep DEF IInv, saveVars
  <2>5. RequestsOK' /\ Waiting'
    BY <1>2 DEF IInv, RequestsOK, Waiting, SavePhases, saveVars, SaveYourselfRequest
  <2>. QED BY <2>4, <2>5 DEF IInv
<1>3. CASE SaveYourselfGlobal(shutdown, fast, "ASK", TRUE)
  <2>1. /\ ManagerOK' /\ (Waiting => Waiting')
        /\ dialog' \in {NoRequest} \cup Dialogs
        /\ shutdownType' \in ShutdownTypes \ {"ASK"}
    BY <1>3, GlobalKeeps DEF IInv, ShutdownTypes
  <2>. QED BY <2>1 DEF SaveYourselfRequest, IInv, RequestsOK
<1>. QED BY <1>1, <1>2, <1>3 DEF SaveYourselfRequest

\* xfsm_manager_interact () stops the timer of the one client it moves, and grants
\* the turn only when nobody has it.
LEMMA InteractRequestKeeps ==
  ASSUME IInv, NEW c \in XsmpClients, InteractRequest(c)
  PROVE  IInv' /\ (Waiting => Waiting')
<1>. c \in Clients /\ c \in Running
  BY DEF Clients, InteractRequest, Speaking
<1>1. CASE Nuke(c)
  BY <1>1, GoodbyeKeeps DEF InteractRequest, Nuke
<1>2. CASE /\ cstate[c] = "SAVING" /\ mstate \in SavePhases
           /\ cstate' = [cstate EXCEPT ![c] = InteractGrant]
           /\ timer' = timer \ {c}
           /\ UNCHANGED <<running, conn, saveReq, queried, saveVars>>
  <2>1. /\ InteractGrant \in {"INTERACTING", "WAITFORINTERACT"}
        /\ InteractGrant = "INTERACTING" => \A d \in Running : cstate[d] # "INTERACTING"
    BY DEF InteractGrant, InState, Running
  <2>2. \A d \in Clients : cstate'[d] = IF d = c THEN InteractGrant ELSE cstate[d]
    BY <1>2 DEF IInv, ManagerOK, ClientsOK
  <2>3. ClientsOK(mstate', running, cstate', timer')
    <3>1. cstate' \in [Clients -> ClientStates]
      BY <1>2, <2>1 DEF IInv, ManagerOK, ClientsOK, ClientStates
    <3>. QED BY <1>2, <2>1, <2>2, <3>1
             DEF IInv, ManagerOK, ClientsOK, SavePhases, Running, saveVars
  <2>4. \A d \in Dbus2Clients : cstate[d] = "SAVING" => cstate'[d] = "SAVING"
    BY <2>2, ClientKinds DEF Clients
  <2>5. ManagerOK'
    BY <1>2, <2>3, <2>4, StatesKeep
       DEF IInv, saveVars, requestVars, InteractRequest
  <2>6. Waiting'
    BY <1>2, <2>1, <2>2 DEF Waiting, Busy, Running
  <2>. QED BY <2>5, <2>6 DEF IInv, RequestsOK, requestVars, InteractRequest
<1>. QED BY <1>1, <1>2, Zenon DEF InteractRequest

\* xfsm_manager_interact_done () passes the turn on to the first client that waits.
LEMMA InteractDoneKeeps ==
  ASSUME IInv, NEW c \in XsmpClients, NEW cancel \in BOOLEAN, InteractDone(c, cancel)
  PROVE  IInv' /\ (Waiting => Waiting')
<1>. c \in Clients /\ c \in Running
  BY DEF Clients, InteractDone, Speaking
<1>1. CASE Nuke(c)
  BY <1>1, GoodbyeKeeps DEF InteractDone, Nuke
<1>2. ASSUME cstate[c] = "INTERACTING", timer' = StartTimers(timer, {c}),
             mstate \in SavePhases, mstate' \in SavePhases,
             cstate' \in [Clients -> ClientStates],
             NEW d \in Clients, d = c \/ cstate[d] = "WAITFORINTERACT",
             \A x \in Clients : cstate'[x] = IF x = c THEN "SAVING"
                                             ELSE IF x = d THEN "INTERACTING" ELSE cstate[x],
             mstate' = mstate \/ (mstate = "SHUTDOWN" /\ mstate' = "CHECKPOINT"),
             UNCHANGED <<running, conn, saveReq, queried, ckptNamed, stored, dieTimer, quit>>
      PROVE  IInv' /\ (Waiting => Waiting')
  <2>1. d \in Running
    BY <1>2 DEF IInv, ManagerOK, ClientsOK, Running
  <2>2. ClientsOK(mstate', running, cstate', timer')
    BY <1>2, <2>1 DEF IInv, ManagerOK, ClientsOK, SavePhases, StartTimers, Running
  <2>3. \A x \in Dbus2Clients : cstate[x] = "SAVING" => cstate'[x] = "SAVING"
    BY <1>2 DEF Clients
  <2>4. ManagerOK'
    BY <1>2, <2>2, <2>3, StatesKeep DEF IInv, requestVars, InteractDone
  <2>5. Waiting'
    BY <1>2 DEF Waiting, Busy, Running
  <2>. QED BY <2>4, <2>5 DEF IInv, RequestsOK, requestVars, InteractDone
<1>3. CASE /\ cstate[c] = "INTERACTING" /\ mstate = "SHUTDOWN" /\ cancel
           /\ mstate' = "CHECKPOINT"
           /\ cstate' = [cstate EXCEPT ![c] = "SAVING"]
           /\ timer' = StartTimers(timer, {c})
           /\ UNCHANGED <<running, conn, saveReq, queried, ckptNamed, stored, dieTimer, quit>>
  <2>1. cstate' \in [Clients -> ClientStates]
    BY <1>3 DEF IInv, ManagerOK, ClientsOK, ClientStates
  <2>2. \A x \in Clients : cstate'[x] = IF x = c THEN "SAVING" ELSE cstate[x]
    BY <1>3 DEF IInv, ManagerOK, ClientsOK
  <2>. QED BY <1>2, <1>3, <2>1, <2>2 DEF SavePhases
<1>4. CASE /\ cstate[c] = "INTERACTING" /\ mstate \in SavePhases
           /\ cstate' = [cstate EXCEPT ![c] = "SAVING"]
           /\ timer' = StartTimers(timer, {c})
           /\ UNCHANGED <<running, conn, saveReq, queried, saveVars>>
  <2>1. cstate' \in [Clients -> ClientStates]
    BY <1>4 DEF IInv, ManagerOK, ClientsOK, ClientStates
  <2>2. \A x \in Clients : cstate'[x] = IF x = c THEN "SAVING" ELSE cstate[x]
    BY <1>4 DEF IInv, ManagerOK, ClientsOK
  <2>. QED BY <1>2, <1>4, <2>1, <2>2 DEF saveVars
<1>5. ASSUME cstate[c] = "INTERACTING", mstate \in SavePhases,
             NEW i \in DOMAIN running, FirstWaiting(i),
             cstate' = [cstate EXCEPT ![c] = "SAVING", ![running[i]] = "INTERACTING"],
             timer' = StartTimers(timer, {c}),
             UNCHANGED <<running, conn, saveReq, queried, saveVars>>
      PROVE  IInv' /\ (Waiting => Waiting')
  <2>. DEFINE d == running[i]
  <2>1. d \in Clients /\ cstate[d] = "WAITFORINTERACT"
    BY <1>5 DEF FirstWaiting, IInv, ManagerOK, ClientsOK
  <2>. HIDE DEF d
  <2>2. cstate' \in [Clients -> ClientStates]
    BY <1>5, <2>1 DEF IInv, ManagerOK, ClientsOK, ClientStates, d
  <2>3. \A x \in Clients : cstate'[x] = IF x = c THEN "SAVING"
                                        ELSE IF x = d THEN "INTERACTING" ELSE cstate[x]
    BY <1>5, <2>1 DEF IInv, ManagerOK, ClientsOK, d
  <2>. QED BY <1>2, <1>5, <2>1, <2>2, <2>3 DEF saveVars
<1>. QED BY <1>1, <1>3, <1>4, <1>5 DEF InteractDone

\* xfsm_manager_save_yourself_phase2 () puts one client to waiting and may release
\* all that wait.
LEMMA Phase2RequestKeeps ==
  ASSUME IInv, NEW c \in XsmpClients, Phase2Request(c)
  PROVE  IInv' /\ (Waiting => Waiting')
<1>. c \in Clients /\ c \in Running
  BY DEF Clients, Phase2Request, Speaking
<1>1. RequestsOK' /\ UNCHANGED saveSession
  BY DEF Phase2Request, IInv, RequestsOK, requestVars
<1>2. CASE /\ mstate \notin SavePhases
           /\ cstate' = [cstate EXCEPT ![c] = "SAVINGLOCAL"]
           /\ timer' = StartTimers(timer, {c})
  <2>1. ClientsOK(mstate', running, cstate', timer')
    BY <1>2 DEF Phase2Request, IInv, ManagerOK, ClientsOK, ClientStates, StartTimers, Busy,
                Running, saveVars
  <2>2. \A d \in Dbus2Clients : cstate[d] = "SAVING" => cstate'[d] = "SAVING"
    BY <1>2, ClientKinds DEF IInv, ManagerOK, ClientsOK, Clients
  <2>3. ManagerOK'
    BY <1>1, <2>1, <2>2, StatesKeep DEF Phase2Request, IInv, saveVars
  <2>4. Waiting'
    BY <1>2 DEF Waiting, Phase2Request, saveVars
  <2>. QED BY <1>1, <2>3, <2>4 DEF IInv
<1>3. CASE mstate \in SavePhases
  <2>. DEFINE cs == [cstate EXCEPT ![c] = "WAITFORPHASE2"]
              go == Released(cs)
  <2>1. /\ cstate' = [d \in Clients |-> IF d \in go THEN "SAVING" ELSE cs[d]]
        /\ timer' = StartTimers(timer \ {c}, go)
    BY <1>3 DEF Phase2Request
  <2>2. /\ cs \in [Clients -> ClientStates]
        /\ \A d \in Clients : cs[d] = IF d = c THEN "WAITFORPHASE2" ELSE cstate[d]
    BY DEF IInv, ManagerOK, ClientsOK, ClientStates
  <2>. HIDE DEF cs
  <2>3. /\ go \subseteq Clients \cap Running
        /\ \A d \in go : cs[d] = "WAITFORPHASE2"
        /\ InState(running, cs, Busy) = {} => c \in go
    BY <2>2 DEF Released, InState, IInv, ManagerOK, ClientsOK, Running, ToSet
  <2>. HIDE DEF go
  <2>4. ClientsOK(mstate', running, cstate', timer')
    BY <1>3, <2>1, <2>2, <2>3 DEF Phase2Request, IInv, ManagerOK, ClientsOK, ClientStates,
       StartTimers, SavePhases, Running, saveVars
  <2>5. \A d \in Dbus2Clients : cstate[d] = "SAVING" => cstate'[d] = "SAVING"
    BY <2>1, <2>2, ClientKinds DEF Clients
  <2>6. ManagerOK'
    BY <1>1, <2>4, <2>5, StatesKeep DEF Phase2Request, IInv, saveVars
  <2>7. Waiting'
    <3>1. CASE c \in go
      BY <2>1, <3>1 DEF Waiting, Busy, Running, Phase2Request
    <3>2. CASE c \notin go
      <4>1. PICK d \in ToSet(running) : cs[d] \in Busy
        BY <2>3, <3>2 DEF InState
      <4>2. d \in Clients
        BY <4>1 DEF IInv, ManagerOK, ClientsOK, ToSet
      <4>3. cstate'[d] \in Busy
        BY <2>1, <2>3, <4>1, <4>2 DEF Busy
      <4>. QED BY <4>1, <4>3 DEF Waiting, Running, Phase2Request
    <3>. QED BY <3>1, <3>2
  <2>. QED BY <1>1, <2>6, <2>7 DEF IInv
<1>. QED BY <1>2, <1>3 DEF Phase2Request

\* An answer, of either transport, in any state.
LEMMA SaveYourselfDoneKeeps ==
  ASSUME IInv, ~quit, NEW c \in Running, SaveYourselfDone(c), UNCHANGED requestVars
  PROVE  IInv' /\ (Waiting => Waiting')
<1>. c \in Clients
  BY DEF IInv, ManagerOK, ClientsOK, Running, ToSet
<1>1. RequestsOK' /\ UNCHANGED saveSession
  BY DEF IInv, RequestsOK, requestVars
<1>2. CASE Nuke(c)
  BY <1>2, GoodbyeKeeps DEF Nuke
<1>3. CASE /\ cstate[c] = "SAVINGLOCAL"
           /\ cstate' = [cstate EXCEPT ![c] = "IDLE"]
           /\ timer' = timer \ {c}
           /\ UNCHANGED <<running, conn, saveReq, queried, saveVars>>
  <2>1. /\ cstate' \in [Clients -> ClientStates]
        /\ \A d \in Clients : cstate'[d] = IF d = c THEN "IDLE" ELSE cstate[d]
    BY <1>3 DEF IInv, ManagerOK, ClientsOK, ClientStates
  <2>2. ClientsOK(mstate', running, cstate', timer')
    BY <1>3, <2>1 DEF IInv, ManagerOK, ClientsOK, Busy, Running, saveVars
  <2>3. \A d \in Dbus2Clients : cstate[d] = "SAVING" => cstate'[d] = "SAVING"
    BY <1>3, <2>1 DEF Clients
  <2>4. ManagerOK'
    BY <1>1, <1>3, <2>2, <2>3, StatesKeep DEF IInv, saveVars
  <2>5. Waiting => Waiting'
    BY <1>3, <2>1 DEF Waiting, Busy, Running, saveVars, IInv, ManagerOK, ClientsOK, ToSet
  <2>. QED BY <1>1, <2>4, <2>5 DEF IInv
<1>4. CASE /\ cstate[c] \in {"SAVING", "WAITFORINTERACT"} /\ mstate \in SavePhases
           /\ queried' = queried \ {c}
           /\ SecondRound(c)
           /\ saveReq' = saveReq \cup {c}
           /\ UNCHANGED <<running, cstate, conn, timer, saveVars>>
  <2>1. c \in Dbus2Clients /\ cstate[c] = "SAVING"
    BY <1>4, ClientKinds DEF SecondRound, IInv, ManagerOK, ClientsOK, Clients
  <2>2. ClientsOK(mstate', running', cstate', timer')
    BY <1>4 DEF IInv, ManagerOK, saveVars
  <2>3. ConnectionsOK' /\ FlagsOK'
    BY <1>4, <2>1 DEF IInv, ManagerOK, ConnectionsOK, FlagsOK, Running
  <2>4. SessionOK' /\ (Waiting => Waiting')
    BY <1>1, <1>4 DEF IInv, ManagerOK, SessionOK, Waiting, Running, saveVars
  <2>. QED BY <1>1, <2>2, <2>3, <2>4 DEF IInv, ManagerOK
<1>5. CASE /\ cstate[c] \in {"SAVING", "WAITFORINTERACT"} /\ mstate \in SavePhases
           /\ queried' = queried \ {c}
           /\ saveReq' = ClearSaveRequest(c)
           /\ UNCHANGED <<running, conn>>
           /\ CompleteSaveYourself(mstate, running, [cstate EXCEPT ![c] = "SAVEDONE"],
                                   timer \ {c}, saveSession)
  <2>. DEFINE cs == [cstate EXCEPT ![c] = "SAVEDONE"]
              tm == timer \ {c}
  <2>1. /\ cs \in [Clients -> ClientStates]
        /\ \A d \in Clients : cs[d] = IF d = c THEN "SAVEDONE" ELSE cstate[d]
    BY DEF IInv, ManagerOK, ClientsOK, ClientStates
  <2>. HIDE DEF cs
  <2>2. ClientsOK(mstate, running, cs, tm)
    BY <1>5, <2>1 DEF IInv, ManagerOK, ClientsOK, SavePhases, Running
  <2>3. /\ ClientsOK(mstate', running', cstate', timer')
        /\ SessionOK'
        /\ \A d \in Clients : cs[d] = "SAVING" => cstate'[d] = "SAVING"
        /\ mstate' \in SavePhases => \E d \in ToSet(running) : cstate'[d] \in Busy
    BY <1>1, <1>5, <2>2, CompleteKeeps DEF IInv, ManagerOK, SessionOK, cs
  <2>4. FlagsOK'
    BY <1>5, <2>1, <2>3 DEF IInv, ManagerOK, FlagsOK, ClearSaveRequest, Clients, Running
  <2>5. ConnectionsOK'
    BY <1>5 DEF IInv, ManagerOK, ConnectionsOK, Running
  <2>6. Waiting'
    BY <1>5, <2>3 DEF Waiting, Running
  <2>. QED BY <1>1, <2>3, <2>4, <2>5, <2>6 DEF IInv, ManagerOK
<1>. QED BY <1>2, <1>3, <1>4, <1>5 DEF SaveYourselfDone

\* xfsm_client_dbus_end_session_response () is an answer, a goodbye, or an error.
LEMMA EndSessionResponseKeeps ==
  ASSUME IInv, NEW c \in DbusClients \cup Dbus2Clients, EndSessionResponse(c)
  PROVE  IInv' /\ (Waiting => Waiting')
<1>1. CASE SaveYourselfDone(c)
  BY <1>1, SaveYourselfDoneKeeps DEF EndSessionResponse
<1>2. CASE CloseConnection(c, "closed")
  BY <1>2, GoodbyeKeeps DEF EndSessionResponse, Clients
<1>3. CASE /\ queried' = queried \ {c}
           /\ UNCHANGED <<running, cstate, conn, timer, saveReq, saveVars>>
  <2>1. UNCHANGED requestVars
    BY DEF EndSessionResponse
  <2>2. ConnectionsOK' /\ FlagsOK' /\ SessionOK' /\ RequestsOK' /\ (Waiting => Waiting')
    BY <1>3, <2>1 DEF IInv, ManagerOK, ConnectionsOK, FlagsOK, SessionOK, RequestsOK,
                      Waiting, Running, saveVars, requestVars
  <2>3. ClientsOK(mstate', running', cstate', timer')
    BY <1>3 DEF IInv, ManagerOK, saveVars
  <2>. QED BY <2>2, <2>3 DEF IInv, ManagerOK
<1>. QED BY <1>1, <1>2, <1>3 DEF EndSessionResponse

\* A broken connection takes its client with it, if it has one.
LEMMA IceIOErrorKeeps ==
  ASSUME IInv, NEW c \in XsmpClients, IceIOError(c)
  PROVE  IInv' /\ (Waiting => Waiting')
<1>1. CASE CloseConnection(c, "closed")
  BY <1>1, GoodbyeKeeps DEF IceIOError, Clients
<1>2. CASE /\ conn' = [conn EXCEPT ![c] = "closed"]
           /\ UNCHANGED <<running, cstate, timer, saveReq, queried, saveVars>>
  <2>1. ConnectionsOK'
    BY <1>2 DEF IInv, ManagerOK, ConnectionsOK, ConnStates, Running
  <2>2. RequestsOK' /\ UNCHANGED saveSession
    BY DEF IceIOError, IInv, RequestsOK, requestVars
  <2>. QED BY <1>2, <2>1, <2>2, TransportKeeps DEF IInv
<1>. QED BY <1>1, <1>2 DEF IceIOError

-----------------------------------------------------------------------------
(* The requests and the timers of the manager itself *)

\* A step that leaves the clients and the save alone.
LEMMA RequestKeeps ==
  ASSUME IInv, UNCHANGED <<clientVars, mstate, saveSession, stored, dieTimer, quit>>,
         ckptNamed' \in BOOLEAN, RequestsOK'
  PROVE  IInv' /\ (Waiting => Waiting')
BY DEF IInv, ManagerOK, ClientsOK, ConnectionsOK, FlagsOK, SessionOK, Waiting, Running,
       clientVars

\* The calls on the bus, the idle source behind them, and the logout dialog.
LEMMA RequestStepKeeps ==
  ASSUME IInv, RequestStep
  PROVE  IInv' /\ (Waiting => Waiting')
<1>1. ASSUME NEW named \in BOOLEAN, DbusCheckpoint(named)
      PROVE  IInv' /\ (Waiting => Waiting')
  BY <1>1, RequestKeeps DEF DbusCheckpoint, IInv, RequestsOK, Checkpoints
<1>2. ASSUME NEW type \in RequestTypes, NEW allow \in BOOLEAN, DbusShutdown(type, allow)
      PROVE  IInv' /\ (Waiting => Waiting')
  <2>1. RequestsOK'
    BY <1>2, ClientKinds DEF DbusShutdown, IInv, RequestsOK, Shutdowns, ShutdownTypes
  <2>2. ckptNamed' \in BOOLEAN
    BY <1>2 DEF DbusShutdown, IInv, ManagerOK, SessionOK, saveVars
  <2>. QED BY <1>2, <2>1, <2>2, RequestKeeps DEF DbusShutdown, saveVars
<1>3. CASE SaveIdle
  <2>1. idle.kind = "shutdown" => idle.type \in ShutdownTypes /\ idle.allow \in BOOLEAN
    BY DEF IInv, RequestsOK, NoRequest, Checkpoints, Shutdowns
  <2>2. "ASK" \in ShutdownTypes
    BY DEF ShutdownTypes
  <2>3. PICK shutdown \in BOOLEAN, type \in ShutdownTypes, allow \in BOOLEAN :
          SaveYourselfGlobal(shutdown, FALSE, type, allow)
    BY <1>3, <2>1, <2>2 DEF SaveIdle
  <2>4. /\ ManagerOK' /\ (Waiting => Waiting')
        /\ dialog' \in {NoRequest} \cup Dialogs
        /\ shutdownType' \in ShutdownTypes \ {"ASK"}
    BY <2>3, GlobalKeeps DEF IInv
  <2>. QED BY <1>3, <2>4 DEF SaveIdle, IInv, RequestsOK
<1>4. CASE DialogCancelled
  <2>1. RequestsOK' /\ ckptNamed' \in BOOLEAN
    BY <1>4 DEF DialogCancelled, IInv, ManagerOK, RequestsOK, SessionOK, saveVars
  <2>. QED BY <1>4, <2>1, RequestKeeps DEF DialogCancelled, saveVars
<1>5. ASSUME NEW type \in RequestTypes \ {"ASK"}, DialogAnswered(type)
      PROVE  IInv' /\ (Waiting => Waiting')
  <2>1. type \in ShutdownTypes \ {"ASK"}
    BY ClientKinds DEF ShutdownTypes
  <2>2. dialog.save \in BOOLEAN
    BY <1>5 DEF DialogAnswered, IInv, RequestsOK, NoRequest, Dialogs
  <2>3. ManagerOK' /\ (Waiting => Waiting') /\ shutdownType' \in ShutdownTypes \ {"ASK"}
    BY <1>5, <2>1, <2>2, ProceedKeeps DEF DialogAnswered, IInv
  <2>. QED BY <1>5, <2>3 DEF DialogAnswered, IInv, RequestsOK
<1>. QED BY <1>1, <1>2, <1>3, <1>4, <1>5 DEF RequestStep

\* xfsm_manager_signal_startup_done () changes the state of the manager alone.
LEMMA StartupDoneKeeps ==
  ASSUME IInv, StartupDone
  PROVE  IInv' /\ (Waiting => Waiting')
<1>1. ClientsOK(mstate', running', cstate', timer')
  BY DEF StartupDone, IInv, ManagerOK, ClientsOK, clientVars
<1>2. ConnectionsOK' /\ FlagsOK' /\ SessionOK' /\ RequestsOK' /\ Waiting'
  BY DEF StartupDone, IInv, ManagerOK, ConnectionsOK, FlagsOK, SessionOK, RequestsOK,
         ManagerStates, Waiting, SavePhases, Running, clientVars, requestVars
<1>. QED BY <1>1, <1>2 DEF IInv, ManagerOK

\* The die timer ends the session whatever the clients do.
LEMMA DieTimeoutKeeps ==
  ASSUME IInv, DieTimeout
  PROVE  IInv' /\ (Waiting => Waiting')
<1>1. ClientsOK(mstate', running', cstate', timer')
  BY DEF DieTimeout, IInv, ManagerOK, ClientsOK, clientVars
<1>2. /\ ConnectionsOK' /\ FlagsOK' /\ SessionOK' /\ RequestsOK'
      /\ Waiting => Waiting'
  BY DEF DieTimeout, IInv, ManagerOK, ConnectionsOK, FlagsOK, SessionOK, RequestsOK,
         Waiting, Running, clientVars, requestVars
<1>. QED BY <1>1, <1>2 DEF IInv, ManagerOK

-----------------------------------------------------------------------------
(* The invariant *)

\* The invariant holds at the start, and no save is under way.
LEMMA InitOK == Init => IInv /\ Waiting
<1>. SUFFICES ASSUME Init PROVE IInv /\ Waiting
  OBVIOUS
<1>1. running \in Seq(Clients) /\ Running = {} /\ IsInjective(running)
  BY DEF Init, Running, ToSet, IsInjective
<1>2. ClientsOK(mstate, running, cstate, timer)
  BY <1>1 DEF Init, ClientsOK, ClientStates, Running
<1>. QED
  BY <1>1, <1>2 DEF Init, IInv, ManagerOK, ConnectionsOK, ConnStates, FlagsOK, SessionOK,
     RequestsOK, ManagerStates, ShutdownTypes, Waiting, SavePhases

\* Every step keeps the invariant, and only a replaced client can leave a save
\* without anybody to wait for.
LEMMA NextKeeps ==
  ASSUME IInv, [Next]_vars
  PROVE  IInv' /\ (Reusers = {} => (Waiting => Waiting'))
<1>1. CASE StartupDone
  BY <1>1, StartupDoneKeeps
<1>2. ASSUME NEW c \in XsmpClients, XsmpStep(c)
      PROVE  IInv' /\ (Waiting => Waiting')
  <2>. c \in Clients
    BY DEF Clients
  <2>1. ASSUME NEW global \in BOOLEAN, NEW shutdown \in BOOLEAN, NEW fast \in BOOLEAN,
               SaveYourselfRequest(c, global, shutdown, fast)
        PROVE  IInv' /\ (Waiting => Waiting')
    BY <2>1, SaveYourselfRequestKeeps
  <2>2. CASE XsmpSaveYourselfDone(c)
    BY <2>2, SaveYourselfDoneKeeps DEF XsmpSaveYourselfDone, Speaking
  <2>3. CASE XsmpCloseConnection(c)
    BY <2>3, GoodbyeKeeps DEF XsmpCloseConnection
  <2>. QED BY <1>2, <2>1, <2>2, <2>3, NewClientKeeps, RegisterXsmpKeeps,
              InteractRequestKeeps, InteractDoneKeeps, Phase2RequestKeeps, IceIOErrorKeeps
           DEF XsmpStep
<1>3. ASSUME NEW c \in DbusClients \cup Dbus2Clients, DbusStep(c)
      PROVE  IInv' /\ (Reusers = {} => (Waiting => Waiting'))
  <2>. c \in Clients
    BY DEF Clients
  <2>1. CASE c \in Reusers /\ \E old \in Running : ReplaceClient(old, c)
    BY <2>1, ReplaceClientKeeps, ClientKinds
  <2>2. CASE StateSaved(c)
    BY <2>2, SaveYourselfDoneKeeps DEF StateSaved
  <2>3. CASE UnregisterClient(c)
    BY <2>3, GoodbyeKeeps DEF UnregisterClient
  <2>. QED BY <1>3, <2>1, <2>2, <2>3, RegisterDbusKeeps, EndSessionResponseKeeps DEF DbusStep
<1>4. ASSUME NEW c \in Clients, SaveTimeout(c)
      PROVE  IInv' /\ (Waiting => Waiting')
  BY <1>4, GoodbyeKeeps DEF SaveTimeout, Nuke
<1>5. CASE RequestStep
  BY <1>5, RequestStepKeeps
<1>6. CASE DieTimeout
  BY <1>6, DieTimeoutKeeps
<1>7. CASE UNCHANGED vars
  <2>1. UNCHANGED <<clientVars, saveVars, saveSession>> /\ UNCHANGED requestVars
    BY <1>7 DEF vars, requestVars
  <2>. QED BY <2>1, UnchangedKeeps DEF IInv, RequestsOK, requestVars
<1>. QED BY <1>1, <1>2, <1>3, <1>4, <1>5, <1>6, <1>7 DEF Next

\* The manager's clients, connections, flags and requests are in order in every
\* reachable state.
THEOREM Invariance == Spec => []IInv
<1>1. Init => IInv
  BY InitOK
<1>2. IInv /\ [Next]_vars => IInv'
  BY NextKeeps
<1>. QED BY <1>1, <1>2, PTL DEF Spec

-----------------------------------------------------------------------------
(* What follows from the invariant: the properties the runs check, for every *)
(* set of clients                                                            *)

\* Every variable keeps its type (TypeOK).
THEOREM TypeCorrect == Spec => []TypeOK
<1>1. IInv => TypeOK
  BY DEF IInv, ManagerOK, ClientsOK, ConnectionsOK, FlagsOK, SessionOK, RequestsOK, TypeOK
<1>. QED BY <1>1, Invariance, PTL

\* The client list holds each client once, a client that is not in it has left no
\* state, timer or flag behind, and no registered connection lost its client.
THEOREM ListStaysConsistent == Spec => []ListConsistent
<1>1. IInv => ListConsistent
  BY DEF IInv, ManagerOK, ClientsOK, ConnectionsOK, FlagsOK, ListConsistent, Running
<1>. QED BY <1>1, Invariance, PTL

\* A client that owes an answer has an armed save timer, whatever the clients and
\* the bus ask for and in whatever order.
THEOREM SavesAreTimed == Spec => []SaveTimerArmed
<1>1. IInv => SaveTimerArmed
  BY DEF IInv, ManagerOK, ClientsOK, SaveTimerArmed
<1>. QED BY <1>1, Invariance, PTL

\* However many clients ask, one at a time talks to the user.
THEOREM OneAtATime == Spec => []OneInteracting
<1>1. IInv => OneInteracting
  BY DEF IInv, ManagerOK, ClientsOK, OneInteracting
<1>. QED BY <1>1, Invariance, PTL

\* Outside a save no client is half way through one.
THEOREM NoSaveLeftOver == Spec => []NoSaveOutsideSave
<1>1. IInv => NoSaveOutsideSave
  BY DEF IInv, ManagerOK, ClientsOK, NoSaveOutsideSave
<1>. QED BY <1>1, Invariance, PTL

\* The mark of the second round never outlives the round.
THEOREM SecondRoundEnds == Spec => []SaveRequestedOnlySaving
<1>1. IInv => SaveRequestedOnlySaving
  BY DEF IInv, ManagerOK, FlagsOK, SaveRequestedOnlySaving
<1>. QED BY <1>1, Invariance, PTL

\* A session that dies has a timer that ends it, also when two requests ran into
\* one another and the dying phase was entered twice.
THEOREM DyingIsTimed == Spec => []DiePhaseBounded
<1>1. IInv => DiePhaseBounded
  BY DEF IInv, ManagerOK, SessionOK, DiePhaseBounded
<1>. QED BY <1>1, Invariance, PTL

\* The dying session was written under its own name, or not at all, as allowed.
THEOREM StoredAsAsked == Spec => []StoredAsAllowed
<1>1. IInv => StoredAsAllowed
  BY DEF IInv, ManagerOK, SessionOK, StoredAsAllowed
<1>. QED BY <1>1, Invariance, PTL

\* As long as no client registers an id that is already running, a save waits for
\* a client that is in it: it is never left hanging with nobody to finish it.
THEOREM SaveNeverHangs == Reusers = {} => (Spec => []SaveWaitsForSomeone)
<1>. SUFFICES ASSUME Reusers = {} PROVE Spec => []SaveWaitsForSomeone
  OBVIOUS
<1>1. Init => IInv /\ Waiting
  BY InitOK
<1>2. IInv /\ Waiting /\ [Next]_vars => IInv' /\ Waiting'
  BY NextKeeps
<1>3. Waiting => SaveWaitsForSomeone
  BY DEF Waiting, SaveWaitsForSomeone, Busy
<1>. QED BY <1>1, <1>2, <1>3, PTL DEF Spec

-----------------------------------------------------------------------------
(* The phase 2 barrier *)

\* If the step releases a client into phase 2 then c is the last of phase 1.
OnlyLast(c) ==
  \A d \in Clients : cstate[d] = "WAITFORPHASE2" /\ cstate'[d] = "SAVING" =>
    \A x \in Running : cstate[x] \in Busy => x = c

\* Dropping a client releases the others only if nobody else is in phase 1.
LEMMA CloseOnlyLast ==
  ASSUME ManagerOK, NEW c \in Clients, NEW after \in {"closed", "orphaned"},
         CloseConnection(c, after), UNCHANGED saveSession
  PROVE  OnlyLast(c)
<1>. DEFINE run == RemoveFirst(running, c)
            cs == [cstate EXCEPT ![c] = "IDLE"]
<1>1. /\ run \in Seq(Clients) /\ IsInjective(run)
      /\ ToSet(run) = Running \ {c}
  BY RemoveFirstProperties DEF ManagerOK, ClientsOK, Running
<1>2. cs \in [Clients -> ClientStates]
  BY DEF ManagerOK, ClientsOK, ClientStates
<1>3. \A d \in Clients : cs[d] = IF d = c THEN "IDLE" ELSE cstate[d]
  BY DEF ManagerOK, ClientsOK
<1>4. CASE mstate \in SavePhases /\ CompleteSaveYourself(mstate, run, cs, timer \ {c}, saveSession)
  <2>1. running' = run
    BY <1>4 DEF CloseConnection, Forget, SavePhases
  <2>. HIDE DEF run, cs
  <2>2. ClientsOK(mstate, run, cs, timer \ {c})
    BY <1>1, <1>2, <1>3, <1>4 DEF ManagerOK, ClientsOK, SavePhases, Running
  <2>3. \A d \in Clients : cs[d] = "WAITFORPHASE2" /\ cstate'[d] = "SAVING"
          => InState(run, cs, Busy) = {}
    BY <1>4, <2>1, <2>2, CompleteKeeps DEF ManagerOK, SessionOK
  <2>4. InState(run, cs, Busy) = {} => \A x \in Running : cstate[x] \in Busy => x = c
    <3>1. ASSUME InState(run, cs, Busy) = {}, NEW x \in Running, x # c
          PROVE  cstate[x] \notin Busy
      <4>1. x \in ToSet(run) /\ x \in Clients
        <5>1. x \in ToSet(run)
          BY <1>1, <3>1
        <5>2. \A y \in ToSet(running) : y \in Clients
          BY DEF ManagerOK, ClientsOK, ToSet
        <5>. QED BY <3>1, <5>1, <5>2 DEF Running
      <4>2. cs[x] \notin Busy
        BY <3>1, <4>1 DEF InState
      <4>. QED BY <1>3, <3>1, <4>1, <4>2
    <3>. QED BY <3>1
  <2>5. CASE cstate'[c] = "SAVING" /\ cstate[c] = "WAITFORPHASE2"
    <3>1. cstate'[c] # "SAVING"
      BY <1>1, <1>3, <1>4 DEF CompleteSaveYourself, InState, ResetClients
    <3>. QED BY <2>5, <3>1
  <2>. QED BY <1>3, <2>3, <2>4, <2>5 DEF OnlyLast
<1>5. CASE \A d \in Clients : cstate'[d] \in {cstate[d], "IDLE", "DISCONNECTED"}
  BY <1>5 DEF OnlyLast
<1>. QED BY <1>3, <1>4, <1>5 DEF CloseConnection

\* An answer, too.
LEMMA DoneOnlyLast ==
  ASSUME IInv, NEW c \in Running, SaveYourselfDone(c), UNCHANGED requestVars
  PROVE  OnlyLast(c)
<1>. c \in Clients
  BY DEF IInv, ManagerOK, ClientsOK, Running, ToSet
<1>1. CASE Nuke(c)
  BY <1>1, CloseOnlyLast DEF Nuke, IInv, requestVars
<1>2. CASE \A d \in Clients : cstate'[d] \in {cstate[d], "IDLE"}
  BY <1>2 DEF OnlyLast
<1>3. CASE /\ cstate[c] \in {"SAVING", "WAITFORINTERACT"} /\ mstate \in SavePhases
           /\ UNCHANGED <<running, conn>>
           /\ CompleteSaveYourself(mstate, running, [cstate EXCEPT ![c] = "SAVEDONE"],
                                   timer \ {c}, saveSession)
  <2>. DEFINE cs == [cstate EXCEPT ![c] = "SAVEDONE"]
  <2>1. /\ cs \in [Clients -> ClientStates]
        /\ \A d \in Clients : cs[d] = IF d = c THEN "SAVEDONE" ELSE cstate[d]
    BY DEF IInv, ManagerOK, ClientsOK, ClientStates
  <2>. HIDE DEF cs
  <2>2. ClientsOK(mstate, running, cs, timer \ {c})
    BY <1>3, <2>1 DEF IInv, ManagerOK, ClientsOK, SavePhases, Running
  <2>3. \A d \in Clients : cs[d] = "WAITFORPHASE2" /\ cstate'[d] = "SAVING"
          => InState(running, cs, Busy) = {}
    BY <1>3, <2>2, CompleteKeeps DEF IInv, ManagerOK, SessionOK, cs, requestVars
  <2>4. InState(running, cs, Busy) = {} => \A x \in Running : cstate[x] \in Busy => x = c
    <3>1. \A x \in Running : x \in Clients
      BY DEF IInv, ManagerOK, ClientsOK, Running, ToSet
    <3>. QED BY <2>1, <3>1 DEF InState, Running
  <2>. QED BY <1>3, <2>1, <2>3, <2>4 DEF OnlyLast
<1>4. CASE /\ cstate[c] = "SAVINGLOCAL"
           /\ cstate' = [cstate EXCEPT ![c] = "IDLE"]
  BY <1>2, <1>4 DEF IInv, ManagerOK, ClientsOK
<1>. QED BY <1>1, <1>2, <1>3, <1>4 DEF SaveYourselfDone

\* And a request for phase 2.
LEMMA Phase2OnlyLast ==
  ASSUME IInv, NEW c \in XsmpClients, Phase2Request(c)
  PROVE  OnlyLast(c)
<1>. c \in Clients
  BY DEF Clients
<1>1. CASE cstate' = [cstate EXCEPT ![c] = "SAVINGLOCAL"]
  BY <1>1 DEF OnlyLast, IInv, ManagerOK, ClientsOK
<1>2. CASE mstate \in SavePhases
  <2>. DEFINE cs == [cstate EXCEPT ![c] = "WAITFORPHASE2"]
  <2>1. cstate' = [d \in Clients |-> IF d \in Released(cs) THEN "SAVING" ELSE cs[d]]
    BY <1>2 DEF Phase2Request
  <2>2. \A d \in Clients : cs[d] = IF d = c THEN "WAITFORPHASE2" ELSE cstate[d]
    BY DEF IInv, ManagerOK, ClientsOK
  <2>. HIDE DEF cs
  <2>3. ASSUME NEW d \in Released(cs), NEW x \in Running, cstate[x] \in Busy PROVE x = c
    <3>1. InState(running, cs, Busy) = {}
      BY <2>3 DEF Released
    <3>2. x \in Clients
      BY DEF IInv, ManagerOK, ClientsOK, Running, ToSet
    <3>. QED BY <2>2, <2>3, <3>1, <3>2 DEF InState, Running
  <2>. QED BY <2>1, <2>2, <2>3 DEF OnlyLast
<1>. QED BY <1>1, <1>2 DEF Phase2Request

\* The action inside PhaseTwoBarrier.
Barrier ==
  /\ UNCHANGED <<idle, dialog>>
  /\ \E c \in Running : cstate[c] = "WAITFORPHASE2" /\ cstate'[c] = "SAVING"
  => \A d, e \in Running :
       /\ cstate[d] \in {"SAVING", "INTERACTING", "WAITFORINTERACT"}
       /\ cstate[e] \in {"SAVING", "INTERACTING", "WAITFORINTERACT"}
       => d = e

\* Whatever lets a client into phase 2, other than a new request that starts the
\* save over, finds at most one client in phase 1: the one it comes from.
LEMMA NextBarrier ==
  ASSUME IInv, [Next]_vars
  PROVE  Barrier
<1>. \A c \in Running : c \in Clients
  BY DEF IInv, ManagerOK, ClientsOK, Running, ToSet
<1>1. ASSUME NEW c, OnlyLast(c) PROVE Barrier
  BY <1>1 DEF OnlyLast, Barrier, Busy
<1>2. ASSUME \A d \in Clients : cstate[d] = "WAITFORPHASE2" => cstate'[d] # "SAVING"
      PROVE  Barrier
  BY <1>2 DEF Barrier
<1>3. CASE UNCHANGED cstate
  BY <1>2, <1>3
<1>4. ASSUME NEW c \in Clients, CloseConnection(c, "closed") \/ Nuke(c), UNCHANGED saveSession
      PROVE  Barrier
  BY <1>1, <1>4, CloseOnlyLast DEF Nuke, IInv
<1>5. ASSUME NEW c \in XsmpClients, XsmpStep(c) PROVE Barrier
  <2>. c \in Clients
    BY DEF Clients
  <2>1. CASE NewClient(c)
    BY <1>3, <2>1 DEF NewClient
  <2>2. ASSUME NEW resumed \in BOOLEAN, RegisterXsmp(c, resumed) PROVE Barrier
    BY <1>2, <2>2 DEF RegisterXsmp, IInv, ManagerOK, ClientsOK
  <2>3. ASSUME NEW global \in BOOLEAN, NEW shutdown \in BOOLEAN, NEW fast \in BOOLEAN,
               SaveYourselfRequest(c, global, shutdown, fast)
        PROVE  Barrier
    <3>1. CASE Nuke(c) /\ UNCHANGED saveSession
      BY <1>4, <3>1
    <3>2. CASE mstate = "IDLE"
      BY <1>2, <3>2 DEF IInv, ManagerOK, ClientsOK
    <3>. QED BY <2>3, <3>1, <3>2 DEF SaveYourselfRequest
  <2>4. CASE InteractRequest(c)
    <3>1. CASE cstate' = [cstate EXCEPT ![c] = InteractGrant]
      BY <1>2, <3>1 DEF InteractGrant, IInv, ManagerOK, ClientsOK
    <3>. QED BY <1>4, <2>4, <3>1 DEF InteractRequest, requestVars
  <2>5. ASSUME NEW cancel \in BOOLEAN, InteractDone(c, cancel) PROVE Barrier
    <3>1. CASE cstate[c] = "INTERACTING" /\ cstate' = [cstate EXCEPT ![c] = "SAVING"]
      BY <1>2, <3>1 DEF IInv, ManagerOK, ClientsOK
    <3>2. ASSUME NEW i \in DOMAIN running, cstate[c] = "INTERACTING",
                 cstate' = [cstate EXCEPT ![c] = "SAVING", ![running[i]] = "INTERACTING"]
          PROVE  Barrier
      BY <1>2, <3>2 DEF IInv, ManagerOK, ClientsOK
    <3>. QED BY <1>4, <2>5, <3>1, <3>2 DEF InteractDone, requestVars
  <2>6. CASE Phase2Request(c)
    BY <1>1, <2>6, Phase2OnlyLast
  <2>7. CASE XsmpSaveYourselfDone(c)
    BY <1>1, <2>7, DoneOnlyLast DEF XsmpSaveYourselfDone, Speaking
  <2>8. CASE XsmpCloseConnection(c)
    BY <1>4, <2>8 DEF XsmpCloseConnection, requestVars
  <2>9. CASE IceIOError(c)
    BY <1>3, <1>4, <2>9 DEF IceIOError, requestVars
  <2>. QED BY <1>5, <2>1, <2>2, <2>3, <2>4, <2>5, <2>6, <2>7, <2>8, <2>9 DEF XsmpStep
<1>6. ASSUME NEW c \in DbusClients \cup Dbus2Clients, DbusStep(c) PROVE Barrier
  <2>. c \in Clients
    BY DEF Clients
  <2>1. ASSUME NEW resumed \in BOOLEAN, RegisterDbus(c, resumed) PROVE Barrier
    BY <1>3, <2>1 DEF RegisterDbus
  <2>2. ASSUME NEW old \in Running, ReplaceClient(old, c) PROVE Barrier
    BY <1>2, <2>2 DEF ReplaceClient, IInv, ManagerOK, ClientsOK
  <2>3. CASE EndSessionResponse(c)
    BY <1>1, <1>3, <1>4, <2>3, DoneOnlyLast DEF EndSessionResponse, requestVars
  <2>4. CASE StateSaved(c)
    BY <1>1, <2>4, DoneOnlyLast DEF StateSaved
  <2>5. CASE UnregisterClient(c)
    BY <1>4, <2>5 DEF UnregisterClient, requestVars
  <2>. QED BY <1>6, <2>1, <2>2, <2>3, <2>4, <2>5 DEF DbusStep
<1>7. ASSUME NEW c \in Clients, SaveTimeout(c) PROVE Barrier
  BY <1>4, <1>7 DEF SaveTimeout, requestVars
<1>8. CASE RequestStep
  <2>1. CASE SaveIdle \/ DialogCancelled \/ \E type \in RequestTypes \ {"ASK"} : DialogAnswered(type)
    BY <2>1 DEF SaveIdle, DialogCancelled, DialogAnswered, Barrier
  <2>2. CASE UNCHANGED clientVars
    BY <1>3, <2>2 DEF clientVars
  <2>. QED BY <1>8, <2>1, <2>2 DEF RequestStep, DbusCheckpoint, DbusShutdown
<1>9. CASE StartupDone \/ DieTimeout \/ UNCHANGED vars
  BY <1>3, <1>9 DEF StartupDone, DieTimeout, vars, clientVars
<1>. QED BY <1>5, <1>6, <1>7, <1>8, <1>9 DEF Next

\* A client enters phase 2 only by a step of the last client of phase 1.
THEOREM PhaseTwoWaits == Spec => PhaseTwoBarrier
<1>1. IInv /\ [Next]_vars => [Barrier]_vars
  BY NextBarrier
<1>. QED BY <1>1, Invariance, PTL DEF Spec, PhaseTwoBarrier, Barrier

-----------------------------------------------------------------------------
(* The last client *)

\* A session that dies has a client left to wait for, or ends; only one that dies has
\* clients that are gone.
DyingOK ==
  /\ mstate = "SHUTDOWNPHASE2" /\ ~quit => \E c \in Running : cstate[c] # "DISCONNECTED"
  /\ mstate # "SHUTDOWNPHASE2" => \A c \in Clients : cstate[c] # "DISCONNECTED"

\* Every client is asked to save itself, those that were gone among them.
EveryoneSaves == DbusClients = {} /\ Xterms = {}

\* No request is suspended while another one is carried out: none comes from a client
\* or has to wait for the dialog.
RequestsWait == Requesters = {} /\ "ASK" \notin RequestTypes

NoneSuspended ==
  /\ dialog = NoRequest
  /\ idle # NoRequest => mstate = "IDLE" /\ (idle.kind = "shutdown" => idle.type # "ASK")

\* A save that ends finds nobody gone.
LEMMA CompleteDies ==
  ASSUME NEW ms \in SavePhases, NEW run \in Seq(Clients), NEW cs \in [Clients -> ClientStates],
         NEW tm, NEW save, \A c \in Clients : cs[c] # "DISCONNECTED",
         CompleteSaveYourself(ms, run, cs, tm, save), running' = run
  PROVE  DyingOK'
<1>1. \A c \in Clients : cstate'[c] # "DISCONNECTED"
  BY DEF CompleteSaveYourself, ResetClients
<1>2. ASSUME mstate' = "SHUTDOWNPHASE2", ~quit' PROVE run # <<>>
  BY <1>2 DEF CompleteSaveYourself, AwaitDeath, SavePhases
<1>3. run # <<>> => \E c \in ToSet(run) : c \in Clients
  <2>1. SUFFICES ASSUME run # <<>> PROVE run[1] \in ToSet(run) /\ run[1] \in Clients
    OBVIOUS
  <2>. QED BY <2>1 DEF ToSet
<1>. QED BY <1>1, <1>2, <1>3 DEF DyingOK, Running

\* The last client to go ends the session.
LEMMA CloseDies ==
  ASSUME IInv, DyingOK, NEW c \in Clients, NEW after \in {"closed", "orphaned"},
         CloseConnection(c, after)
  PROVE  DyingOK'
<1>1. CASE /\ mstate = "SHUTDOWNPHASE2"
           /\ quit' = (\A d \in Running : cstate'[d] = "DISCONNECTED")
           /\ UNCHANGED <<running, mstate>>
  BY <1>1 DEF DyingOK, Running
<1>2. [cstate EXCEPT ![c] = "IDLE"] \in [Clients -> ClientStates]
  BY DEF IInv, ManagerOK, ClientsOK, ClientStates
<1>3. CASE /\ mstate \in SavePhases /\ Forget(c, after)
           /\ CompleteSaveYourself(mstate, RemoveFirst(running, c),
                [cstate EXCEPT ![c] = "IDLE"], timer \ {c}, saveSession)
  <2>1. \A d \in Clients : [cstate EXCEPT ![c] = "IDLE"][d] # "DISCONNECTED"
    BY <1>3 DEF DyingOK, SavePhases, IInv, ManagerOK, ClientsOK
  <2>2. RemoveFirst(running, c) \in Seq(Clients)
    BY RemoveFirstProperties DEF IInv, ManagerOK, ClientsOK
  <2>. QED BY <1>2, <1>3, <2>1, <2>2, CompleteDies DEF Forget
<1>4. CASE /\ mstate \in {"STARTUP", "IDLE"}
           /\ cstate' = [cstate EXCEPT ![c] = "IDLE"] /\ UNCHANGED saveVars
  BY <1>4 DEF DyingOK, saveVars, IInv, ManagerOK, ClientsOK
<1>. QED BY <1>1, <1>3, <1>4, Zenon DEF CloseConnection

\* A save that begins asks those that are gone, or nobody is.
LEMMA BeginDies ==
  ASSUME IInv, DyingOK, NEW ms \in SavePhases, NEW save \in BOOLEAN, BeginSave(ms, save),
         EveryoneSaves \/ mstate # "SHUTDOWNPHASE2"
  PROVE  DyingOK'
<1>. DEFINE cs == [c \in Clients |-> IF c \in Savers THEN "SAVING" ELSE cstate[c]]
<1>1. cs \in [Clients -> ClientStates] /\ running \in Seq(Clients)
  BY DEF IInv, ManagerOK, ClientsOK, ClientStates
<1>2. \A c \in Clients : cs[c] # "DISCONNECTED"
  <2>1. ASSUME NEW c \in Clients, c \notin Savers PROVE cstate[c] # "DISCONNECTED"
    BY <2>1 DEF DyingOK, EveryoneSaves, Savers, IInv, ManagerOK, ClientsOK, Running
  <2>. QED BY <2>1
<1>. QED BY <1>1, <1>2, CompleteDies DEF BeginSave

\* A step that sends nobody away.
LEMMA NobodyGoes ==
  ASSUME DyingOK, Running \subseteq Running',
         \A c \in Clients : cstate'[c] = "DISCONNECTED" => cstate[c] = "DISCONNECTED",
         Running \subseteq Clients,
         ~quit, mstate' = "SHUTDOWNPHASE2" <=> mstate = "SHUTDOWNPHASE2"
  PROVE  DyingOK'
BY DEF DyingOK

LEMMA ProceedDies ==
  ASSUME IInv, DyingOK, NEW type, NEW save \in BOOLEAN, Proceed(type, save),
         EveryoneSaves \/ mstate # "SHUTDOWNPHASE2"
  PROVE  DyingOK'
<1>1. CASE UNCHANGED <<clientVars, saveVars, saveSession>>
  BY <1>1 DEF DyingOK, Running, clientVars, saveVars
<1>2. CASE BeginSave("SHUTDOWN", save)
  BY <1>2, BeginDies DEF SavePhases
<1>. QED BY <1>1, <1>2 DEF Proceed

\* A request that does not ask finds no dialog to wait for.
LEMMA GlobalDies ==
  ASSUME IInv, DyingOK, NEW shutdown \in BOOLEAN, NEW fast \in BOOLEAN,
         NEW type \in ShutdownTypes, NEW allow \in BOOLEAN,
         SaveYourselfGlobal(shutdown, fast, type, allow),
         EveryoneSaves \/ mstate # "SHUTDOWNPHASE2"
  PROVE  DyingOK' /\ (~shutdown \/ type # "ASK" => UNCHANGED dialog)
<1>1. PICK save \in BOOLEAN :
        \/ BeginSave("CHECKPOINT", TRUE)
        \/ UNCHANGED <<clientVars, saveVars>>
        \/ \E t : Proceed(t, save)
  BY Zenon DEF SaveYourselfGlobal
<1>2. DyingOK'
  <2>1. CASE BeginSave("CHECKPOINT", TRUE)
    BY <2>1, BeginDies DEF SavePhases
  <2>2. CASE UNCHANGED <<clientVars, saveVars>>
    BY <2>2 DEF DyingOK, Running, clientVars, saveVars
  <2>3. CASE \E t : Proceed(t, save)
    BY <2>3, ProceedDies
  <2>. QED BY <1>1, <2>1, <2>2, <2>3
<1>3. ~shutdown \/ type # "ASK" => UNCHANGED dialog
  BY DEF SaveYourselfGlobal
<1>. QED BY <1>2, <1>3

LEMMA RequestDies ==
  ASSUME IInv, DyingOK, EveryoneSaves \/ (RequestsWait /\ NoneSuspended), RequestStep
  PROVE  DyingOK' /\ (RequestsWait /\ NoneSuspended => NoneSuspended')
<1>1. CASE \E named \in BOOLEAN : DbusCheckpoint(named)
  BY <1>1 DEF DbusCheckpoint, DyingOK, NoneSuspended, Running, clientVars
<1>2. CASE \E type \in RequestTypes, allow \in BOOLEAN : DbusShutdown(type, allow)
  BY <1>2 DEF DbusShutdown, DyingOK, RequestsWait, NoneSuspended, Running, clientVars, saveVars
<1>3. CASE SaveIdle
  <2>1. idle.kind = "shutdown" => idle.type \in ShutdownTypes /\ idle.allow \in BOOLEAN
    BY DEF IInv, RequestsOK, NoRequest, Checkpoints, Shutdowns
  <2>2. "ASK" \in ShutdownTypes
    BY DEF ShutdownTypes
  <2>3. PICK shutdown \in BOOLEAN, type \in ShutdownTypes, allow \in BOOLEAN :
          /\ SaveYourselfGlobal(shutdown, FALSE, type, allow)
          /\ shutdown => idle.kind = "shutdown" /\ type = idle.type
    BY <1>3, <2>1, <2>2 DEF SaveIdle
  <2>4. idle # NoRequest /\ idle' = NoRequest
    BY <1>3 DEF SaveIdle
  <2>5. EveryoneSaves \/ mstate # "SHUTDOWNPHASE2"
    BY <2>4 DEF NoneSuspended
  <2>6. DyingOK' /\ (~shutdown \/ type # "ASK" => UNCHANGED dialog)
    BY <2>3, <2>5, GlobalDies
  <2>. QED BY <2>3, <2>4, <2>6 DEF NoneSuspended
<1>4. CASE DialogCancelled
  BY <1>4 DEF DialogCancelled, DyingOK, NoneSuspended, Running, clientVars, saveVars
<1>5. CASE \E type \in RequestTypes \ {"ASK"} : DialogAnswered(type)
  <2>1. dialog # NoRequest /\ dialog.save \in BOOLEAN
    BY <1>5 DEF DialogAnswered, IInv, RequestsOK, NoRequest, Dialogs
  <2>2. ~NoneSuspended
    BY <2>1 DEF NoneSuspended
  <2>. QED BY <1>5, <2>1, <2>2, ProceedDies DEF DialogAnswered
<1>. QED BY <1>1, <1>2, <1>3, <1>4, <1>5 DEF RequestStep

\* An answer ends a save, or is one to a question nobody asked.
LEMMA DoneDies ==
  ASSUME IInv, DyingOK, ~quit, NEW c \in Clients, SaveYourselfDone(c)
  PROVE  DyingOK'
<1>1. CASE Nuke(c)
  BY <1>1, CloseDies DEF Nuke
<1>2. CASE /\ cstate' = [cstate EXCEPT ![c] = "IDLE"]
           /\ UNCHANGED <<running, saveVars>>
  BY <1>2, NobodyGoes DEF IInv, ManagerOK, ClientsOK, Running, ToSet, saveVars
<1>3. CASE UNCHANGED <<running, cstate, saveVars>>
  BY <1>3 DEF DyingOK, Running, saveVars
<1>4. CASE /\ mstate \in SavePhases /\ UNCHANGED running
           /\ CompleteSaveYourself(mstate, running, [cstate EXCEPT ![c] = "SAVEDONE"],
                                   timer \ {c}, saveSession)
  <2>. DEFINE cs == [cstate EXCEPT ![c] = "SAVEDONE"]
  <2>1. cs \in [Clients -> ClientStates] /\ running \in Seq(Clients)
    BY DEF IInv, ManagerOK, ClientsOK, ClientStates
  <2>2. \A d \in Clients : cs[d] # "DISCONNECTED"
    BY <1>4 DEF DyingOK, SavePhases, IInv, ManagerOK, ClientsOK
  <2>. QED BY <1>4, <2>1, <2>2, CompleteDies
<1>. QED BY <1>1, <1>2, <1>3, <1>4, Zenon DEF SaveYourselfDone

\* A client moves from one state to another, and none is sent away.
LEMMA MovesDie ==
  ASSUME IInv, DyingOK, ~quit, UNCHANGED running,
         \A c \in Clients : cstate'[c] = "DISCONNECTED" => cstate[c] = "DISCONNECTED",
         mstate' = mstate \/ (mstate = "SHUTDOWN" /\ mstate' = "CHECKPOINT")
  PROVE  DyingOK'
BY NobodyGoes DEF IInv, ManagerOK, ClientsOK, Running, ToSet

LEMMA XsmpDies ==
  ASSUME IInv, DyingOK, NEW c \in XsmpClients, XsmpStep(c)
  PROVE  DyingOK' /\ (RequestsWait /\ NoneSuspended => NoneSuspended')
<1>. c \in Clients
  BY DEF Clients
<1>1. CASE NewClient(c)
  BY <1>1 DEF NewClient, DyingOK, NoneSuspended, Running, requestVars, saveVars
<1>2. CASE \E resumed \in BOOLEAN : RegisterXsmp(c, resumed)
  <2>1. Running \subseteq Running' /\ Running \subseteq Clients
    <3>1. c \notin Running
      BY <1>2 DEF RegisterXsmp, IInv, ManagerOK, ConnectionsOK
    <3>. QED BY <1>2, <3>1, AppendProps
             DEF RegisterXsmp, IInv, ManagerOK, ClientsOK, Running, ToSet
  <2>2. \A d \in Clients : cstate'[d] = "DISCONNECTED" => cstate[d] = "DISCONNECTED"
    BY <1>2 DEF RegisterXsmp, IInv, ManagerOK, ClientsOK
  <2>3. /\ ~quit /\ UNCHANGED <<idle, dialog>>
        /\ mstate' = mstate \/ (mstate = "STARTUP" /\ mstate' = "IDLE")
    BY <1>2 DEF RegisterXsmp, ContinueStartup, requestVars
  <2>. QED BY <2>1, <2>2, <2>3, NobodyGoes DEF NoneSuspended
<1>3. ASSUME NEW global \in BOOLEAN, NEW shutdown \in BOOLEAN, NEW fast \in BOOLEAN,
             SaveYourselfRequest(c, global, shutdown, fast), global => c \in Requesters
      PROVE  DyingOK' /\ (RequestsWait /\ NoneSuspended => NoneSuspended')
  <2>1. CASE Nuke(c) /\ UNCHANGED <<idle, dialog>> /\ (cstate[c] # "IDLE" \/ mstate # "IDLE")
    <3>1. DyingOK'
      BY <2>1, CloseDies DEF Nuke
    <3>2. NoneSuspended => NoneSuspended'
      BY <2>1 DEF NoneSuspended, Nuke, CloseConnection, SavePhases, saveVars
    <3>. QED BY <3>1, <3>2
  <2>2. CASE /\ cstate' = [cstate EXCEPT ![c] = "SAVINGLOCAL"] /\ ~quit
             /\ UNCHANGED <<running, saveVars, idle, dialog>>
    BY <2>2, MovesDie DEF NoneSuspended, IInv, ManagerOK, ClientsOK, saveVars
  <2>3. CASE mstate = "IDLE" /\ global /\ SaveYourselfGlobal(shutdown, fast, "ASK", TRUE)
    <3>1. DyingOK'
      BY <2>3, GlobalDies DEF ShutdownTypes
    <3>. QED BY <1>3, <2>3, <3>1 DEF RequestsWait
  <2>. QED BY <1>3, <2>1, <2>2, <2>3 DEF SaveYourselfRequest
<1>4. ASSUME NEW after \in {"closed", "orphaned"}, CloseConnection(c, after), UNCHANGED requestVars
      PROVE  DyingOK' /\ (RequestsWait /\ NoneSuspended => NoneSuspended')
  <2>1. NoneSuspended => NoneSuspended'
    BY <1>4 DEF NoneSuspended, CloseConnection, SavePhases, saveVars, requestVars
  <2>. QED BY <1>4, <2>1, CloseDies
<1>5. ASSUME ~quit, UNCHANGED <<running, requestVars>>,
             \A d \in Clients : cstate'[d] = "DISCONNECTED" => cstate[d] = "DISCONNECTED",
             mstate' = mstate \/ (mstate = "SHUTDOWN" /\ mstate' = "CHECKPOINT")
      PROVE  DyingOK' /\ (RequestsWait /\ NoneSuspended => NoneSuspended')
  BY <1>5, MovesDie DEF NoneSuspended, requestVars
<1>6. CASE InteractRequest(c)
  <2>1. CASE Nuke(c) /\ UNCHANGED requestVars
    BY <1>4, <2>1 DEF Nuke
  <2>2. CASE /\ cstate' = [cstate EXCEPT ![c] = InteractGrant]
             /\ ~quit /\ UNCHANGED <<running, saveVars, requestVars>>
    BY <1>5, <2>2 DEF InteractGrant, IInv, ManagerOK, ClientsOK, saveVars
  <2>. QED BY <1>6, <2>1, <2>2 DEF InteractRequest
<1>7. ASSUME NEW cancel \in BOOLEAN, InteractDone(c, cancel)
      PROVE  DyingOK' /\ (RequestsWait /\ NoneSuspended => NoneSuspended')
  <2>1. CASE Nuke(c) /\ UNCHANGED requestVars
    BY <1>4, <2>1 DEF Nuke
  <2>2. CASE /\ mstate = "SHUTDOWN" /\ mstate' = "CHECKPOINT" /\ ~quit
             /\ cstate' = [cstate EXCEPT ![c] = "SAVING"]
             /\ UNCHANGED <<running, requestVars>>
    BY <1>5, <2>2 DEF IInv, ManagerOK, ClientsOK
  <2>3. CASE /\ \/ cstate' = [cstate EXCEPT ![c] = "SAVING"]
                \/ \E i \in DOMAIN running :
                     cstate' = [cstate EXCEPT ![c] = "SAVING", ![running[i]] = "INTERACTING"]
             /\ ~quit /\ UNCHANGED <<running, saveVars, requestVars>>
    <3>1. \A d \in Clients : cstate'[d] = "DISCONNECTED" => cstate[d] = "DISCONNECTED"
      BY <2>3 DEF IInv, ManagerOK, ClientsOK
    <3>. QED BY <1>5, <2>3, <3>1 DEF saveVars
  <2>. QED BY <1>7, <2>1, <2>2, <2>3 DEF InteractDone
<1>8. CASE Phase2Request(c)
  <2>1. \A d \in Clients : cstate'[d] = "DISCONNECTED" => cstate[d] = "DISCONNECTED"
    BY <1>8 DEF Phase2Request, IInv, ManagerOK, ClientsOK
  <2>. QED BY <1>5, <1>8, <2>1 DEF Phase2Request, saveVars
<1>9. CASE XsmpSaveYourselfDone(c)
  <2>1. SaveYourselfDone(c) /\ ~quit /\ UNCHANGED requestVars
    BY <1>9 DEF XsmpSaveYourselfDone
  <2>2. DyingOK'
    BY <2>1, DoneDies
  <2>3. NoneSuspended => NoneSuspended'
    <3>1. mstate = "IDLE" => mstate' = "IDLE"
      BY <2>1 DEF SaveYourselfDone, Nuke, CloseConnection, SavePhases, saveVars
    <3>. QED BY <2>1, <3>1 DEF NoneSuspended, requestVars
  <2>. QED BY <2>2, <2>3
<1>10. CASE XsmpCloseConnection(c)
  BY <1>4, <1>10 DEF XsmpCloseConnection
<1>11. CASE IceIOError(c)
  <2>1. CASE UNCHANGED <<running, cstate, saveVars, requestVars>> /\ ~quit
    BY <1>5, <2>1 DEF saveVars
  <2>. QED BY <1>4, <1>11, <2>1 DEF IceIOError
<1>. QED BY <1>1, <1>2, <1>3, <1>6, <1>7, <1>8, <1>9, <1>10, <1>11 DEF XsmpStep

LEMMA DbusDies ==
  ASSUME IInv, DyingOK, NEW c \in DbusClients \cup Dbus2Clients, DbusStep(c)
  PROVE  DyingOK' /\ (NoneSuspended => NoneSuspended')
<1>. c \in Clients
  BY DEF Clients
<1>1. CASE \E resumed \in BOOLEAN : RegisterDbus(c, resumed)
  <2>1. Running \subseteq Running' /\ Running \subseteq Clients
    BY <1>1, AppendProps DEF RegisterDbus, IInv, ManagerOK, ClientsOK, Running, ToSet
  <2>2. /\ ~quit /\ UNCHANGED <<idle, dialog, cstate>>
        /\ mstate' = mstate \/ (mstate = "STARTUP" /\ mstate' = "IDLE")
    BY <1>1 DEF RegisterDbus, ContinueStartup, requestVars
  <2>. QED BY <2>1, <2>2, NobodyGoes DEF NoneSuspended
<1>2. ASSUME NEW old \in Running, ReplaceClient(old, c) PROVE DyingOK' /\ (NoneSuspended => NoneSuspended')
  <2>1. /\ RemoveFirst(running, old) \in Seq(Clients)
        /\ ToSet(RemoveFirst(running, old)) = Running \ {old}
        /\ IsInjective(RemoveFirst(running, old))
    BY RemoveFirstProperties DEF IInv, ManagerOK, ClientsOK, Running
  <2>2. c \in Running'
    BY <1>2, <2>1, AppendProps DEF ReplaceClient, Running
  <2>3. cstate'[c] = "IDLE"
    BY <1>2 DEF ReplaceClient, IInv, ManagerOK, ClientsOK, Running
  <2>4. \A d \in Clients : cstate'[d] = "DISCONNECTED" => cstate[d] = "DISCONNECTED"
    BY <1>2 DEF ReplaceClient, IInv, ManagerOK, ClientsOK
  <2>. QED BY <1>2, <2>2, <2>3, <2>4 DEF ReplaceClient, DyingOK, NoneSuspended, requestVars, saveVars
<1>3. ASSUME NEW after \in {"closed", "orphaned"}, CloseConnection(c, after), UNCHANGED requestVars
      PROVE  DyingOK' /\ (NoneSuspended => NoneSuspended')
  <2>1. NoneSuspended => NoneSuspended'
    BY <1>3 DEF NoneSuspended, CloseConnection, SavePhases, saveVars, requestVars
  <2>. QED BY <1>3, <2>1, CloseDies
<1>4. ASSUME SaveYourselfDone(c), ~quit, UNCHANGED requestVars
      PROVE  DyingOK' /\ (NoneSuspended => NoneSuspended')
  <2>1. DyingOK'
    BY <1>4, DoneDies
  <2>2. mstate = "IDLE" => mstate' = "IDLE"
    BY <1>4 DEF SaveYourselfDone, Nuke, CloseConnection, SavePhases, saveVars
  <2>. QED BY <1>4, <2>1, <2>2 DEF NoneSuspended, requestVars
<1>5. CASE EndSessionResponse(c)
  <2>1. CASE UNCHANGED <<running, cstate, saveVars, requestVars>> /\ ~quit
    BY <2>1 DEF DyingOK, NoneSuspended, Running, saveVars, requestVars
  <2>. QED BY <1>3, <1>4, <1>5, <2>1 DEF EndSessionResponse
<1>. QED BY <1>1, <1>2, <1>3, <1>4, <1>5 DEF DbusStep, StateSaved, UnregisterClient

\* The session of a save that everyone takes part in, or that no other request can run
\* into, ends as soon as its last client is gone; it does not wait for the die timer.
THEOREM LastClientIsEnough ==
  EveryoneSaves \/ RequestsWait => (Spec => []LastClientEndsSession)
<1>. DEFINE Inv == IInv /\ DyingOK /\ (EveryoneSaves \/ NoneSuspended)
<1>. SUFFICES ASSUME EveryoneSaves \/ RequestsWait PROVE Spec => []LastClientEndsSession
  OBVIOUS
<1>1. Init => Inv
  BY InitOK DEF Init, DyingOK, NoneSuspended, Clients
<1>2. Inv /\ [Next]_vars => Inv'
  <2>. SUFFICES ASSUME Inv, [Next]_vars PROVE DyingOK' /\ (EveryoneSaves \/ NoneSuspended')
    BY NextKeeps
  <2>1. CASE StartupDone
    BY <2>1 DEF StartupDone, DyingOK, NoneSuspended, Running, clientVars, requestVars
  <2>2. CASE \E c \in XsmpClients : XsmpStep(c)
    BY <2>2, XsmpDies
  <2>3. CASE \E c \in DbusClients \cup Dbus2Clients : DbusStep(c)
    BY <2>3, DbusDies
  <2>4. CASE \E c \in Clients : SaveTimeout(c)
    <3>1. NoneSuspended => NoneSuspended'
      BY <2>4 DEF SaveTimeout, Nuke, NoneSuspended, CloseConnection, SavePhases, saveVars, requestVars
    <3>. QED BY <2>4, <3>1, CloseDies DEF SaveTimeout, Nuke
  <2>5. CASE RequestStep
    BY <2>5, RequestDies
  <2>6. CASE DieTimeout
    BY <2>6 DEF DieTimeout, DyingOK, NoneSuspended, Running, clientVars, requestVars
  <2>7. CASE UNCHANGED vars
    BY <2>7 DEF vars, DyingOK, NoneSuspended, Running, clientVars, requestVars, saveVars
  <2>. QED BY <2>1, <2>2, <2>3, <2>4, <2>5, <2>6, <2>7, Zenon DEF Next
<1>3. Inv => LastClientEndsSession
  BY DEF DyingOK, LastClientEndsSession
<1>. QED BY <1>1, <1>2, <1>3, PTL DEF Spec

-----------------------------------------------------------------------------
(* The manager implements SessionEnd, as long as no client registers the id of   *)
(* another (Reusers = {}).  Each handler is one step of the promise, or none at  *)
(* all.  CompletePromises says so of the common end of every handler that may    *)
(* finish a save; the lemmas after it each name the step a handler takes.        *)


\* A client that has gone while the session dies has no connection to speak on.
GoneOK == \A c \in XsmpClients : cstate[c] = "DISCONNECTED" => conn[c] # "registered"

RInv == IInv /\ GoneOK

\* A step of the promise, or none.
Promised == Promise!Next \/ UNCHANGED Promise!vars

Kind(ms) == IF ms = "CHECKPOINT" THEN "checkpoint" ELSE "logout"

-----------------------------------------------------------------------------
\* The phase of the promise, without the CASE.
LEMMA PhaseIs ==
  ASSUME IInv, IInv'
  PROVE  /\ quit => Phase = "over"
         /\ ~quit /\ mstate \in {"STARTUP", "IDLE"} => Phase = "rest"
         /\ ~quit /\ mstate = "CHECKPOINT" => Phase = "checkpoint"
         /\ ~quit /\ mstate = "SHUTDOWN" => Phase = "logout"
         /\ ~quit /\ mstate = "SHUTDOWNPHASE2" => Phase = "dying"
         /\ quit' => Phase' = "over"
         /\ ~quit' /\ mstate' \in {"STARTUP", "IDLE"} => Phase' = "rest"
         /\ ~quit' /\ mstate' = "CHECKPOINT" => Phase' = "checkpoint"
         /\ ~quit' /\ mstate' = "SHUTDOWN" => Phase' = "logout"
         /\ ~quit' /\ mstate' = "SHUTDOWNPHASE2" => Phase' = "dying"
BY DEF Phase

\* The end of every handler that may finish a save settles it as promised, from
\* the list and the client states that its caller leaves behind.
LEMMA CompletePromises ==
  ASSUME IInv, IInv', ~quit, NEW ms \in SavePhases, NEW run, NEW cs, NEW tm,
         NEW save \in BOOLEAN, ClientsOK(ms, run, cs, tm), running' = run,
         CompleteSaveYourself(ms, run, cs, tm, save)
  PROVE  /\ Promise!Settle(Kind(ms), InState(run, cs, Busy),
              InState(run, cs, {"WAITFORPHASE2"}), ToSet(run),
              InState(run, cs, {"DISCONNECTED"}))
         /\ \A c \in Clients : cstate'[c] = "DISCONNECTED" => cs[c] = "DISCONNECTED"
<1>. DEFINE o == InState(run, cs, Busy)
            l == InState(run, cs, {"WAITFORPHASE2"})
            g == InState(run, cs, {"DISCONNECTED"})
<1>1. Running' = ToSet(run) /\ \A c \in ToSet(run) : c \in Clients
  BY DEF Running, ClientsOK, ToSet
<1>2. CASE /\ o # {}
           /\ mstate' = ms /\ cstate' = cs /\ timer' = tm
           /\ UNCHANGED <<ckptNamed, stored, dieTimer, quit>>
  <2>1. /\ WhileSaving(Busy)' = o /\ WhileSaving({"WAITFORPHASE2"})' = l
        /\ InState(running, cstate, {"DISCONNECTED"})' = g
    BY <1>2 DEF WhileSaving, InState, Busy
  <2>2. Phase' = Kind(ms)
    BY <1>2, PhaseIs DEF SavePhases, Kind
  <2>. QED BY <1>1, <1>2, <2>1, <2>2 DEF Promise!Settle
<1>3. CASE /\ o = {} /\ l # {}
           /\ mstate' = ms
           /\ cstate' = [c \in Clients |-> IF c \in l THEN "SAVING" ELSE cs[c]]
           /\ timer' = StartTimers(tm, l)
           /\ UNCHANGED <<ckptNamed, stored, dieTimer, quit>>
  <2>1. /\ WhileSaving(Busy)' = l /\ WhileSaving({"WAITFORPHASE2"})' = {}
        /\ InState(running, cstate, {"DISCONNECTED"})' = g
    BY <1>1, <1>3 DEF WhileSaving, InState, Busy
  <2>2. Phase' = Kind(ms)
    BY <1>3, PhaseIs DEF SavePhases, Kind
  <2>. QED BY <1>1, <1>3, <2>1, <2>2 DEF Promise!Settle, InState
<1>4. CASE /\ InState(run, cs, Busy \cup {"WAITFORPHASE2"}) = {}
           /\ ms = "CHECKPOINT"
           /\ mstate' = "IDLE"
           /\ cstate' = ResetClients(run, cs)
           /\ UNCHANGED <<dieTimer, quit>>
  <2>1. /\ WhileSaving(Busy)' = {} /\ WhileSaving({"WAITFORPHASE2"})' = {}
        /\ InState(running, cstate, {"DISCONNECTED"})' = {}
        /\ o = {} /\ l = {}
    BY <1>1, <1>4 DEF WhileSaving, InState, ResetClients, SavePhases
  <2>2. Phase' = "rest" /\ Kind(ms) = "checkpoint"
    BY <1>4, PhaseIs DEF Kind
  <2>. QED BY <1>1, <1>4, <2>1, <2>2 DEF Promise!Settle, ResetClients
<1>5. CASE /\ InState(run, cs, Busy \cup {"WAITFORPHASE2"}) = {}
           /\ ms = "SHUTDOWN"
           /\ mstate' = "SHUTDOWNPHASE2"
           /\ cstate' = cs
           /\ AwaitDeath(run)
  <2>1. /\ WhileSaving(Busy)' = {} /\ WhileSaving({"WAITFORPHASE2"})' = {}
        /\ InState(running, cstate, {"DISCONNECTED"})' = g
        /\ o = {} /\ l = {}
    BY <1>5 DEF WhileSaving, InState, SavePhases
  <2>2. run = <<>> <=> ToSet(run) = {}
    <3>1. run \in Seq(Clients)
      BY DEF ClientsOK
    <3>2. ASSUME run # <<>> PROVE run[1] \in ToSet(run)
      BY <3>1, <3>2 DEF ToSet
    <3>3. ToSet(<<>>) = {}
      BY DEF ToSet
    <3>. QED BY <3>2, <3>3
  <2>3. Kind(ms) = "logout"
    BY <1>5 DEF Kind
  <2>4. Phase' = IF ToSet(run) = {} THEN "over" ELSE "dying"
    BY <1>5, <2>2, PhaseIs DEF AwaitDeath
  <2>5. dieTimer' = (dieTimer \/ ToSet(run) # {})
    BY <1>5, <2>2 DEF AwaitDeath
  <2>. QED BY <1>1, <1>5, <2>1, <2>3, <2>4, <2>5 DEF Promise!Settle
<1>. QED BY <1>2, <1>3, <1>4, <1>5, Zenon DEF CompleteSaveYourself


\* The clients that a drop leaves, as the promise counts them.
LEMMA DropCounts ==
  ASSUME IInv, NEW c \in Clients
  PROVE  LET run == RemoveFirst(running, c)
             cs == [cstate EXCEPT ![c] = "IDLE"] IN
         /\ ToSet(run) = Running \ {c}
         /\ ClientsOK(mstate, run, cs, timer \ {c})
         /\ \A S \in SUBSET (Busy \cup {"WAITFORPHASE2", "DISCONNECTED"}) :
              InState(run, cs, S) = InState(running, cstate, S) \ {c}
<1>. DEFINE run == RemoveFirst(running, c)
            cs == [cstate EXCEPT ![c] = "IDLE"]
<1>1. /\ run \in Seq(Clients) /\ IsInjective(run)
      /\ ToSet(run) = Running \ {c}
  BY RemoveFirstProperties DEF IInv, ManagerOK, ClientsOK, Running
<1>. HIDE DEF run
<1>2. ClientsOK(mstate, run, cs, timer \ {c})
  BY <1>1 DEF IInv, ManagerOK, ClientsOK, ClientStates, Busy, Running
<1>3. ASSUME NEW S \in SUBSET (Busy \cup {"WAITFORPHASE2", "DISCONNECTED"})
      PROVE  InState(run, cs, S) = InState(running, cstate, S) \ {c}
  <2>1. \A d \in Clients : cs[d] = IF d = c THEN "IDLE" ELSE cstate[d]
    BY DEF IInv, ManagerOK, ClientsOK
  <2>2. \A d \in ToSet(run) : d \in Clients
    BY <1>1 DEF ToSet
  <2>. HIDE DEF cs
  <2>. QED BY <1>1, <2>1, <2>2 DEF InState, Running
<1>. QED BY <1>1, <1>2, <1>3 DEF run

\* A client that vanishes, is dropped or takes its leave has left, whatever it was
\* doing, and if it was the one the others waited for then they go on.
LEMMA ClosePromises ==
  ASSUME IInv, IInv', ~quit, NEW c \in Clients, NEW after \in {"closed", "orphaned"},
         CloseConnection(c, after), UNCHANGED saveSession
  PROVE  /\ Promise!Leave(c)
         /\ GoneOK => GoneOK'
<1>. DEFINE run == RemoveFirst(running, c)
            cs == [cstate EXCEPT ![c] = "IDLE"]
<1>1. /\ ToSet(run) = Running \ {c}
      /\ ClientsOK(mstate, run, cs, timer \ {c})
      /\ \A S \in SUBSET (Busy \cup {"WAITFORPHASE2", "DISCONNECTED"}) :
           InState(run, cs, S) = InState(running, cstate, S) \ {c}
  BY DropCounts
<1>2. \A d \in Clients : cs[d] = IF d = c THEN "IDLE" ELSE cstate[d]
  BY DEF IInv, ManagerOK, ClientsOK
<1>3. \A d \in Running : d \in Clients
  BY DEF IInv, ManagerOK, ClientsOK, Running, ToSet
<1>. HIDE DEF run, cs
<1>4. CASE /\ mstate = "SHUTDOWNPHASE2"
           /\ cstate' = [d \in Clients |-> IF d = c /\ c \in Running THEN "DISCONNECTED"
                                                                     ELSE cstate[d]]
           /\ timer' = timer \ {c}
           /\ conn' = IF c \in XsmpClients THEN [conn EXCEPT ![c] = "closed"] ELSE conn
           /\ quit' = (\A d \in Running : cstate'[d] = "DISCONNECTED")
           /\ dieTimer' = (dieTimer /\ ~quit')
           /\ UNCHANGED <<running, saveReq, queried, mstate, ckptNamed, stored>>
  <2>. DEFINE g == InState(running, cstate, {"DISCONNECTED"})
  <2>1. InState(running, cstate, {"DISCONNECTED"})' = g \cup ({c} \cap Running)
    BY <1>3, <1>4 DEF InState, Running
  <2>2. Running' = Running
    BY <1>4 DEF Running
  <2>3. quit' <=> Running \subseteq g \cup ({c} \cap Running)
    BY <1>3, <1>4 DEF InState, Running
  <2>4. /\ Phase = "dying"
        /\ Phase' = IF Running \subseteq g \cup ({c} \cap Running) THEN "over" ELSE "dying"
    BY <1>4, <2>3, PhaseIs
  <2>5. /\ WhileSaving(Busy) = {} /\ WhileSaving(Busy)' = {}
        /\ WhileSaving({"WAITFORPHASE2"}) = {} /\ WhileSaving({"WAITFORPHASE2"})' = {}
    BY <1>4 DEF WhileSaving, SavePhases
  <2>6. dieTimer' = (dieTimer /\ Phase' # "over")
    BY <1>4, <2>3, <2>4
  <2>7. GoneOK => GoneOK'
    BY <1>4, <1>3 DEF GoneOK, IInv, ManagerOK, ConnectionsOK, ClientsOK
  <2>. QED BY <2>1, <2>2, <2>4, <2>5, <2>6, <2>7 DEF Promise!Leave
<1>5. CASE /\ mstate \in SavePhases
           /\ Forget(c, after)
           /\ CompleteSaveYourself(mstate, run, cs, timer \ {c}, saveSession)
  <2>. DEFINE o == InState(running, cstate, Busy)
              l == InState(running, cstate, {"WAITFORPHASE2"})
              g == InState(running, cstate, {"DISCONNECTED"})
  <2>1. running' = run /\ saveSession \in BOOLEAN
    BY <1>5 DEF Forget, run, IInv, ManagerOK, SessionOK
  <2>2. /\ Promise!Settle(Kind(mstate), InState(run, cs, Busy),
             InState(run, cs, {"WAITFORPHASE2"}), ToSet(run),
             InState(run, cs, {"DISCONNECTED"}))
        /\ \A d \in Clients : cstate'[d] = "DISCONNECTED" => cs[d] = "DISCONNECTED"
    BY <1>1, <1>5, <2>1, CompletePromises
  <2>3. Promise!Settle(Kind(mstate), o \ {c}, l \ {c}, Running \ {c}, g \ {c})
    BY <1>1, <2>2
  <2>4. /\ Phase = Kind(mstate) /\ Kind(mstate) \in Promise!Saves
        /\ WhileSaving(Busy) = o /\ WhileSaving({"WAITFORPHASE2"}) = l
    BY <1>5, PhaseIs DEF WhileSaving, SavePhases, Kind, Promise!Saves
  <2>5. GoneOK => GoneOK'
    BY <1>2, <1>5, <2>2 DEF GoneOK, Forget, Clients, IInv, ManagerOK, ConnectionsOK
  <2>. QED BY <2>3, <2>4, <2>5 DEF Promise!Leave
<1>6. CASE /\ mstate \in {"STARTUP", "IDLE"}
           /\ Forget(c, after)
           /\ cstate' = cs
           /\ UNCHANGED saveVars
  <2>1. Running' = Running \ {c}
    BY <1>1, <1>6 DEF Forget, run, Running
  <2>2. Phase = "rest" /\ Phase' = "rest"
    BY <1>6, PhaseIs DEF saveVars
  <2>3. /\ WhileSaving(Busy) = {} /\ WhileSaving(Busy)' = {}
        /\ WhileSaving({"WAITFORPHASE2"}) = {} /\ WhileSaving({"WAITFORPHASE2"})' = {}
    BY <1>6 DEF WhileSaving, SavePhases, saveVars
  <2>4. \A d \in Clients : cstate[d] # "DISCONNECTED" /\ cstate'[d] # "DISCONNECTED"
    BY <1>2, <1>6 DEF IInv, ManagerOK, ClientsOK, saveVars
  <2>5. /\ InState(running, cstate, {"DISCONNECTED"}) = {}
        /\ InState(running, cstate, {"DISCONNECTED"})' = {}
    BY <1>3, <2>1, <2>4 DEF InState, Running
  <2>6. GoneOK'
    BY <2>4 DEF GoneOK, Clients
  <2>. QED BY <1>6, <2>1, <2>2, <2>3, <2>5, <2>6 DEF Promise!Leave, saveVars
<1>. QED BY <1>4, <1>5, <1>6, Zenon DEF CloseConnection, run, cs

\* A save begins, or starts over: in whatever state a request comes out of the idle
\* source or the dialog, it asks clients of the session and forgets what they owed.
LEMMA BeginPromises ==
  ASSUME RInv, IInv', ~quit, NEW ms \in SavePhases, NEW save \in BOOLEAN,
         BeginSave(ms, save)
  PROVE  Promised /\ GoneOK'
<1>. DEFINE cs == [c \in Clients |-> IF c \in Savers THEN "SAVING" ELSE cstate[c]]
            tm == StartTimers(timer, Savers)
            o == InState(running, cstate, Busy)
            l == InState(running, cstate, {"WAITFORPHASE2"})
            g == InState(running, cstate, {"DISCONNECTED"})
<1>1. \A c \in Running : c \in Clients
  BY DEF RInv, IInv, ManagerOK, ClientsOK, Running, ToSet
<1>2. Savers \subseteq Running /\ Savers \subseteq Clients
  BY <1>1 DEF Savers
<1>3. /\ InState(running, cs, Busy) = o \cup Savers
      /\ InState(running, cs, {"WAITFORPHASE2"}) = l \ Savers
      /\ InState(running, cs, {"DISCONNECTED"}) = g \ Savers
  BY <1>1, <1>2 DEF InState, Running, Busy
<1>4. /\ o = WhileSaving(Busy)
      /\ l = WhileSaving({"WAITFORPHASE2"})
  <2>1. CASE mstate \in SavePhases
    BY <2>1 DEF WhileSaving
  <2>2. CASE mstate \notin SavePhases
    <3>1. \A c \in Clients : cstate[c] \notin Busy \cup {"WAITFORPHASE2"}
      BY <2>2 DEF RInv, IInv, ManagerOK, SessionOK, ManagerStates, SavePhases, ClientsOK, Busy
    <3>. QED BY <1>1, <2>2, <3>1 DEF WhileSaving, InState, Running
  <2>. QED BY <2>1, <2>2
<1>5. ClientsOK(ms, running, cs, tm)
  BY <1>2 DEF RInv, IInv, ManagerOK, ClientsOK, ClientStates, StartTimers, SavePhases,
     Savers, Running, Clients
<1>6. /\ Promise!Settle(Kind(ms), InState(running, cs, Busy),
           InState(running, cs, {"WAITFORPHASE2"}), ToSet(running),
           InState(running, cs, {"DISCONNECTED"}))
      /\ \A c \in Clients : cstate'[c] = "DISCONNECTED" => cs[c] = "DISCONNECTED"
  BY <1>5, CompletePromises DEF BeginSave, RInv
<1>7. Phase # "over" /\ Kind(ms) \in Promise!Saves
  BY PhaseIs DEF RInv, Kind, Promise!Saves, IInv, ManagerOK, SessionOK, ManagerStates
<1>8. Promise!Begin(Kind(ms), Savers)
  BY <1>2, <1>3, <1>4, <1>6, <1>7 DEF Promise!Begin, Running
<1>9. GoneOK'
  BY <1>2, <1>6 DEF RInv, GoneOK, BeginSave, Clients
<1>. QED BY <1>2, <1>7, <1>8, <1>9 DEF Promised, Promise!Next

\* A step that changes nothing the promise looks at.
LEMMA StutterPromises ==
  ASSUME UNCHANGED <<mstate, running, cstate, conn, dieTimer, quit>>
  PROVE  Promised /\ (GoneOK => GoneOK')
<1>1. /\ UNCHANGED <<Phase, Running>>
      /\ \A S : InState(running, cstate, S)' = InState(running, cstate, S)
  BY Zenon DEF Phase, Running, InState
<1>2. /\ WhileSaving(Busy)' = WhileSaving(Busy)
      /\ WhileSaving({"WAITFORPHASE2"})' = WhileSaving({"WAITFORPHASE2"})
      /\ InState(running, cstate, {"DISCONNECTED"})' = InState(running, cstate, {"DISCONNECTED"})
  BY <1>1 DEF WhileSaving, Busy, InState
<1>. QED BY <1>1, <1>2 DEF Promised, Promise!vars, GoneOK

\* The global SaveYourself: a save begins, or the request waits in the dialog, or the
\* machine goes to sleep.
LEMMA GlobalPromises ==
  ASSUME RInv, IInv', ~quit, NEW shutdown \in BOOLEAN, NEW fast \in BOOLEAN, NEW type, NEW allow \in BOOLEAN,
         SaveYourselfGlobal(shutdown, fast, type, allow)
  PROVE  Promised /\ GoneOK'
<1>1. ASSUME NEW t, NEW save \in BOOLEAN, Proceed(t, save) PROVE Promised /\ GoneOK'
  BY <1>1, BeginPromises, StutterPromises DEF Proceed, SavePhases, RInv, clientVars, saveVars
<1>2. PICK saveOnExit \in BOOLEAN, prompt \in BOOLEAN :
        \/ BeginSave("CHECKPOINT", TRUE)
        \/ UNCHANGED <<clientVars, saveVars>>
        \/ \E t : Proceed(t, allow /\ saveOnExit)
  BY DEF SaveYourselfGlobal
<1>3. CASE BeginSave("CHECKPOINT", TRUE)
  BY <1>3, BeginPromises DEF SavePhases
<1>4. CASE UNCHANGED <<clientVars, saveVars>>
  BY <1>4, StutterPromises DEF RInv, clientVars, saveVars
<1>5. (allow /\ saveOnExit) \in BOOLEAN
  OBVIOUS
<1>. QED BY <1>1, <1>2, <1>3, <1>4, <1>5, Zenon

-----------------------------------------------------------------------------
\* The promise does not see in which way a client keeps a save waiting, nor what a
\* client does for itself.
LEMMA StatesPromise ==
  ASSUME RInv, ~quit, UNCHANGED <<running, conn, mstate, dieTimer, quit>>,
         \A c \in Clients :
           /\ cstate'[c] = "DISCONNECTED" <=> cstate[c] = "DISCONNECTED"
           /\ mstate \in SavePhases =>
                /\ cstate'[c] \in Busy <=> cstate[c] \in Busy
                /\ cstate'[c] = "WAITFORPHASE2" <=> cstate[c] = "WAITFORPHASE2"
  PROVE  Promised /\ GoneOK'
<1>1. \A c \in Running : c \in Clients
  BY DEF RInv, IInv, ManagerOK, ClientsOK, Running, ToSet
<1>2. UNCHANGED <<Phase, Running>>
  BY Zenon DEF Phase, Running
<1>3. /\ WhileSaving(Busy)' = WhileSaving(Busy)
      /\ WhileSaving({"WAITFORPHASE2"})' = WhileSaving({"WAITFORPHASE2"})
      /\ InState(running, cstate, {"DISCONNECTED"})' = InState(running, cstate, {"DISCONNECTED"})
  BY <1>1 DEF WhileSaving, InState, Running, Busy
<1>4. GoneOK'
  BY DEF RInv, GoneOK, Clients
<1>. QED BY <1>2, <1>3, <1>4 DEF Promised, Promise!vars

LEMMA ClosePromised ==
  ASSUME RInv, IInv', ~quit, NEW c \in Clients,
         CloseConnection(c, "closed") \/ Nuke(c), UNCHANGED requestVars
  PROVE  Promised /\ GoneOK'
BY ClosePromises DEF RInv, Nuke, requestVars, Promised, Promise!Next

\* A client comes when it registers, also in the middle of a save, which does not
\* wait for it.
LEMMA RegisterPromises ==
  ASSUME RInv, IInv', ~quit, NEW c \in Clients, c \notin Running,
         running' = Append(running, c), NEW resumed \in BOOLEAN, ContinueStartup(resumed),
         cstate' = cstate \/ cstate' = [cstate EXCEPT ![c] = "SAVINGLOCAL"],
         \A d \in XsmpClients \ {c} : conn'[d] = conn[d],
         UNCHANGED <<dieTimer, quit>>
  PROVE  Promised /\ GoneOK'
<1>1. \A d \in Running : d \in Clients
  BY DEF RInv, IInv, ManagerOK, ClientsOK, Running, ToSet
<1>2. Running' = Running \cup {c}
  BY AppendProps DEF RInv, IInv, ManagerOK, ClientsOK, Running
<1>3. \A d \in Clients : cstate'[d] = cstate[d] \/ (d = c /\ cstate'[d] = "SAVINGLOCAL")
  BY DEF RInv, IInv, ManagerOK, ClientsOK
<1>4. cstate[c] = "IDLE"
  BY DEF RInv, IInv, ManagerOK, ClientsOK, Running
<1>5. Phase # "over" /\ Phase' = Phase
  BY PhaseIs DEF RInv, IInv, ManagerOK, SessionOK, ManagerStates, ContinueStartup
<1>6. /\ WhileSaving(Busy)' = WhileSaving(Busy)
      /\ WhileSaving({"WAITFORPHASE2"})' = WhileSaving({"WAITFORPHASE2"})
      /\ InState(running, cstate, {"DISCONNECTED"})' = InState(running, cstate, {"DISCONNECTED"})
  BY <1>1, <1>2, <1>3, <1>4 DEF WhileSaving, InState, Running, Busy, ContinueStartup, SavePhases
<1>7. GoneOK'
  BY <1>3, <1>4 DEF RInv, GoneOK, Clients
<1>8. Promise!Come(c)
  BY <1>2, <1>5, <1>6 DEF Promise!Come
<1>. QED BY <1>7, <1>8 DEF Promised, Promise!Next

\* A client that interacts, or waits to, is owed an answer like any other that
\* saves.
LEMMA InteractRequestPromises ==
  ASSUME RInv, IInv', NEW c \in XsmpClients, InteractRequest(c)
  PROVE  Promised /\ GoneOK'
<1>. c \in Clients /\ ~quit
  BY DEF Clients, InteractRequest
<1>1. CASE Nuke(c)
  BY <1>1, ClosePromised DEF InteractRequest
<1>2. CASE /\ cstate[c] = "SAVING"
           /\ cstate' = [cstate EXCEPT ![c] = InteractGrant]
           /\ UNCHANGED <<running, conn, saveVars>>
  <2>1. InteractGrant \in {"INTERACTING", "WAITFORINTERACT"}
    BY DEF InteractGrant
  <2>2. \A d \in Clients : cstate'[d] = IF d = c THEN InteractGrant ELSE cstate[d]
    BY <1>2 DEF RInv, IInv, ManagerOK, ClientsOK
  <2>. QED BY <1>2, <2>1, <2>2, StatesPromise DEF Busy, saveVars
<1>. QED BY <1>1, <1>2 DEF InteractRequest

\* The end of an interaction changes nothing, unless it calls the logout off.
LEMMA InteractDonePromises ==
  ASSUME RInv, IInv', NEW c \in XsmpClients, NEW cancel \in BOOLEAN, InteractDone(c, cancel)
  PROVE  Promised /\ GoneOK'
<1>. c \in Clients /\ ~quit
  BY DEF Clients, InteractDone
<1>1. CASE Nuke(c)
  BY <1>1, ClosePromised DEF InteractDone
<1>2. CASE /\ cstate[c] = "INTERACTING" /\ mstate = "SHUTDOWN" /\ cancel
           /\ mstate' = "CHECKPOINT"
           /\ cstate' = [cstate EXCEPT ![c] = "SAVING"]
           /\ UNCHANGED <<running, conn, saveReq, queried, ckptNamed, stored, dieTimer, quit>>
  <2>1. \A d \in Clients : cstate'[d] = IF d = c THEN "SAVING" ELSE cstate[d]
    BY <1>2 DEF RInv, IInv, ManagerOK, ClientsOK
  <2>2. \A d \in Running : d \in Clients
    BY DEF RInv, IInv, ManagerOK, ClientsOK, Running, ToSet
  <2>3. /\ WhileSaving(Busy)' = WhileSaving(Busy)
        /\ WhileSaving({"WAITFORPHASE2"})' = WhileSaving({"WAITFORPHASE2"})
        /\ InState(running, cstate, {"DISCONNECTED"})' = InState(running, cstate, {"DISCONNECTED"})
        /\ Running' = Running
    BY <1>2, <2>1, <2>2 DEF WhileSaving, InState, Running, Busy, SavePhases
  <2>4. WhileSaving(Busy) # {}
    BY <1>2 DEF WhileSaving, InState, Busy, SavePhases, InteractDone, Speaking, Running
  <2>5. Phase = "logout" /\ Phase' = "checkpoint"
    BY <1>2, PhaseIs DEF RInv
  <2>6. GoneOK'
    BY <1>2, <2>1 DEF RInv, GoneOK, Clients
  <2>. QED BY <1>2, <2>3, <2>4, <2>5, <2>6 DEF Promised, Promise!Next, Promise!CallOff
<1>3. CASE /\ cstate[c] = "INTERACTING"
           /\ cstate' = [cstate EXCEPT ![c] = "SAVING"]
           /\ UNCHANGED <<running, conn, saveVars>>
  <2>1. \A d \in Clients : cstate'[d] = IF d = c THEN "SAVING" ELSE cstate[d]
    BY <1>3 DEF RInv, IInv, ManagerOK, ClientsOK
  <2>. QED BY <1>3, <2>1, StatesPromise DEF Busy, saveVars
<1>4. ASSUME NEW i \in DOMAIN running, FirstWaiting(i), cstate[c] = "INTERACTING",
             cstate' = [cstate EXCEPT ![c] = "SAVING", ![running[i]] = "INTERACTING"],
             UNCHANGED <<running, conn, saveVars>>
      PROVE  Promised /\ GoneOK'
  <2>1. PICK w \in Clients : w = running[i]
    BY DEF RInv, IInv, ManagerOK, ClientsOK
  <2>2. cstate[w] = "WAITFORINTERACT" /\ cstate[c] = "INTERACTING"
    BY <1>4, <2>1 DEF FirstWaiting
  <2>3. \A d \in Clients : cstate'[d] = IF d = w THEN "INTERACTING"
                                        ELSE IF d = c THEN "SAVING" ELSE cstate[d]
    BY <1>4, <2>1 DEF RInv, IInv, ManagerOK, ClientsOK
  <2>4. ASSUME NEW d \in Clients
        PROVE  /\ cstate'[d] = "DISCONNECTED" <=> cstate[d] = "DISCONNECTED"
               /\ cstate'[d] \in Busy <=> cstate[d] \in Busy
               /\ cstate'[d] = "WAITFORPHASE2" <=> cstate[d] = "WAITFORPHASE2"
    BY <2>2, <2>3 DEF Busy
  <2>5. UNCHANGED <<running, conn, mstate, dieTimer, quit>>
    BY <1>4 DEF saveVars
  <2>. QED BY <2>4, <2>5, StatesPromise
<1>. QED BY <1>1, <1>2, <1>3, <1>4 DEF InteractDone

\* A request for phase 2 puts off the rest of an answer, also one that was given.
LEMMA Phase2RequestPromises ==
  ASSUME RInv, IInv', NEW c \in XsmpClients, Phase2Request(c)
  PROVE  Promised /\ GoneOK'
<1>. c \in Clients /\ ~quit
  BY DEF Clients, Phase2Request
<1>1. CASE mstate \notin SavePhases
  <2>1. \A d \in Clients : cstate'[d] = IF d = c THEN "SAVINGLOCAL" ELSE cstate[d]
    BY <1>1 DEF Phase2Request, RInv, IInv, ManagerOK, ClientsOK
  <2>2. cstate[c] # "DISCONNECTED"
    BY DEF RInv, GoneOK, Phase2Request, Speaking
  <2>. QED BY <1>1, <2>1, <2>2, StatesPromise DEF Phase2Request, saveVars
<1>2. CASE mstate \in SavePhases
  <2>. DEFINE cs == [cstate EXCEPT ![c] = "WAITFORPHASE2"]
              o == InState(running, cstate, Busy)
              l == InState(running, cstate, {"WAITFORPHASE2"})
              g == InState(running, cstate, {"DISCONNECTED"})
  <2>1. /\ cstate' = [d \in Clients |-> IF d \in Released(cs) THEN "SAVING" ELSE cs[d]]
        /\ UNCHANGED <<running, conn, mstate, dieTimer, quit>>
    BY <1>2 DEF Phase2Request, saveVars
  <2>2. \A d \in Clients : cs[d] = IF d = c THEN "WAITFORPHASE2" ELSE cstate[d]
    BY DEF RInv, IInv, ManagerOK, ClientsOK
  <2>. HIDE DEF cs
  <2>3. \A d \in Running : d \in Clients
    BY DEF RInv, IInv, ManagerOK, ClientsOK, Running, ToSet
  <2>4. c \in Running /\ Running' = Running
    BY <2>1 DEF Phase2Request, Speaking, Running
  <2>5. /\ InState(running, cs, Busy) = o \ {c}
        /\ InState(running, cs, {"WAITFORPHASE2"}) = l \cup {c}
        /\ InState(running, cs, {"DISCONNECTED"}) = g \ {c}
    BY <2>2, <2>3, <2>4 DEF InState, Running, Busy
  <2>6. /\ WhileSaving(Busy) = o /\ WhileSaving({"WAITFORPHASE2"}) = l
        /\ Phase = Kind(mstate) /\ Phase' = Kind(mstate)
        /\ Kind(mstate) \in Promise!Saves
    BY <1>2, <2>1, PhaseIs DEF WhileSaving, RInv, SavePhases, Kind, Promise!Saves
  <2>7. ASSUME o \ {c} # {} PROVE Promise!PutOff(c)
    <3>1. Released(cs) = {}
      BY <2>5, <2>7 DEF Released
    <3>2. /\ WhileSaving(Busy)' = o \ {c} /\ WhileSaving({"WAITFORPHASE2"})' = l \cup {c}
          /\ InState(running, cstate, {"DISCONNECTED"})' = g \ {c}
      <4>1. \A d \in Clients : cstate'[d] = cs[d]
        BY <2>1, <3>1
      <4>2. \A S : InState(running, cstate, S)' = InState(running, cs, S)
        BY <2>1, <2>3, <4>1 DEF InState, Running
      <4>. QED BY <1>2, <2>1, <2>5, <4>2 DEF WhileSaving, Busy, InState
    <3>. QED BY <2>1, <2>4, <2>6, <2>7, <3>2 DEF Promise!PutOff, Promise!Settle
  <2>8. ASSUME o \ {c} = {} PROVE Promise!PutOff(c)
    <3>1. Released(cs) = l \cup {c}
      BY <2>5, <2>8 DEF Released
    <3>2. /\ WhileSaving(Busy)' = l \cup {c} /\ WhileSaving({"WAITFORPHASE2"})' = {}
          /\ InState(running, cstate, {"DISCONNECTED"})' = g \ {c}
      BY <1>2, <2>1, <2>2, <2>3, <2>4, <2>8, <3>1 DEF WhileSaving, InState, Running, Busy
    <3>. QED BY <2>1, <2>4, <2>6, <2>8, <3>2 DEF Promise!PutOff, Promise!Settle
  <2>9. GoneOK'
    BY <2>1, <2>2 DEF RInv, GoneOK, Clients
  <2>. QED BY <2>7, <2>8, <2>9 DEF Promised, Promise!Next
<1>. QED BY <1>1, <1>2

\* An answer settles the save without the client, except for the first of two, and
\* a client that answers without having been asked leaves.
LEMMA SaveYourselfDonePromises ==
  ASSUME RInv, IInv', ~quit, NEW c \in Running, SaveYourselfDone(c), UNCHANGED requestVars
  PROVE  Promised /\ GoneOK'
<1>. c \in Clients
  BY DEF RInv, IInv, ManagerOK, ClientsOK, Running, ToSet
<1>1. CASE Nuke(c)
  BY <1>1, ClosePromised
<1>2. CASE /\ cstate[c] = "SAVINGLOCAL"
           /\ cstate' = [cstate EXCEPT ![c] = "IDLE"]
           /\ UNCHANGED <<running, conn, saveVars>>
  <2>1. \A d \in Clients : cstate'[d] = IF d = c THEN "IDLE" ELSE cstate[d]
    BY <1>2 DEF RInv, IInv, ManagerOK, ClientsOK
  <2>. QED BY <1>2, <2>1, StatesPromise DEF Busy, saveVars
<1>3. CASE UNCHANGED <<running, cstate, conn, timer, saveVars>>
  BY <1>3, StutterPromises DEF RInv, saveVars
<1>4. CASE /\ cstate[c] \in {"SAVING", "WAITFORINTERACT"} /\ mstate \in SavePhases
           /\ UNCHANGED <<running, conn>>
           /\ CompleteSaveYourself(mstate, running, [cstate EXCEPT ![c] = "SAVEDONE"],
                                   timer \ {c}, saveSession)
  <2>. DEFINE cs == [cstate EXCEPT ![c] = "SAVEDONE"]
              o == InState(running, cstate, Busy)
              l == InState(running, cstate, {"WAITFORPHASE2"})
              g == InState(running, cstate, {"DISCONNECTED"})
  <2>1. /\ cs \in [Clients -> ClientStates]
        /\ \A d \in Clients : cs[d] = IF d = c THEN "SAVEDONE" ELSE cstate[d]
    BY DEF RInv, IInv, ManagerOK, ClientsOK, ClientStates
  <2>2. \A d \in Running : d \in Clients
    BY DEF RInv, IInv, ManagerOK, ClientsOK, Running, ToSet
  <2>. HIDE DEF cs
  <2>3. ClientsOK(mstate, running, cs, timer \ {c})
    BY <1>4, <2>1 DEF RInv, IInv, ManagerOK, ClientsOK, SavePhases, Running
  <2>4. /\ InState(running, cs, Busy) = o \ {c}
        /\ InState(running, cs, {"WAITFORPHASE2"}) = l
        /\ InState(running, cs, {"DISCONNECTED"}) = g
    BY <1>4, <2>1, <2>2 DEF InState, Running, Busy
  <2>5. /\ Promise!Settle(Kind(mstate), InState(running, cs, Busy),
             InState(running, cs, {"WAITFORPHASE2"}), ToSet(running),
             InState(running, cs, {"DISCONNECTED"}))
        /\ \A d \in Clients : cstate'[d] = "DISCONNECTED" => cs[d] = "DISCONNECTED"
    BY <1>4, <2>3, CompletePromises DEF cs, RInv, IInv, ManagerOK, SessionOK
  <2>6. /\ WhileSaving(Busy) = o /\ WhileSaving({"WAITFORPHASE2"}) = l
        /\ Phase = Kind(mstate) /\ Kind(mstate) \in Promise!Saves
    BY <1>4, PhaseIs DEF WhileSaving, RInv, SavePhases, Kind, Promise!Saves
  <2>7. c \in o
    BY <1>4 DEF InState, Busy, Running
  <2>8. Promise!Answer(c)
    BY <2>4, <2>5, <2>6, <2>7 DEF Promise!Answer, Running
  <2>9. GoneOK'
    BY <1>4, <2>1, <2>5 DEF RInv, GoneOK, Clients
  <2>. QED BY <2>8, <2>9 DEF Promised, Promise!Next
<1>. QED BY <1>1, <1>2, <1>3, <1>4 DEF SaveYourselfDone

-----------------------------------------------------------------------------
(* The refinement *)

LEMMA XsmpPromises ==
  ASSUME RInv, IInv', NEW c \in XsmpClients, XsmpStep(c)
  PROVE  Promised /\ GoneOK'
<1>. c \in Clients
  BY DEF Clients
<1>1. CASE NewClient(c)
  <2>1. cstate[c] # "DISCONNECTED" /\ \A d \in XsmpClients \ {c} : conn'[d] = conn[d]
    BY <1>1 DEF NewClient, RInv, IInv, ManagerOK, ClientsOK, ConnectionsOK, Running
  <2>2. UNCHANGED <<Phase, Running, WhileSaving(Busy), WhileSaving({"WAITFORPHASE2"}),
                    InState(running, cstate, {"DISCONNECTED"}), dieTimer>>
    BY <1>1, Zenon DEF NewClient, Phase, Running, WhileSaving, InState, Busy, saveVars
  <2>3. GoneOK'
    BY <1>1, <2>1 DEF NewClient, RInv, GoneOK
  <2>. QED BY <2>2, <2>3 DEF Promised, Promise!vars
<1>2. ASSUME NEW resumed \in BOOLEAN, RegisterXsmp(c, resumed) PROVE Promised /\ GoneOK'
  <2>1. c \notin Running /\ \A d \in XsmpClients \ {c} : conn'[d] = conn[d]
    BY <1>2 DEF RegisterXsmp, RInv, IInv, ManagerOK, ConnectionsOK
  <2>. QED BY <1>2, <2>1, RegisterPromises DEF RegisterXsmp
<1>3. ASSUME NEW global \in BOOLEAN, NEW shutdown \in BOOLEAN, NEW fast \in BOOLEAN,
             SaveYourselfRequest(c, global, shutdown, fast)
      PROVE  Promised /\ GoneOK'
  <2>1. ~quit
    BY <1>3 DEF SaveYourselfRequest
  <2>2. CASE Nuke(c) /\ UNCHANGED requestVars
    BY <2>1, <2>2, ClosePromised
  <2>3. CASE /\ mstate = "IDLE" /\ cstate[c] = "IDLE"
             /\ cstate' = [cstate EXCEPT ![c] = "SAVINGLOCAL"]
             /\ UNCHANGED <<running, conn, saveVars>>
    <3>1. \A d \in Clients : cstate'[d] = IF d = c THEN "SAVINGLOCAL" ELSE cstate[d]
      BY <2>3 DEF RInv, IInv, ManagerOK, ClientsOK
    <3>. QED BY <2>1, <2>3, <3>1, StatesPromise DEF SavePhases, saveVars
  <2>4. CASE SaveYourselfGlobal(shutdown, fast, "ASK", TRUE)
    BY <2>1, <2>4, GlobalPromises
  <2>. QED BY <1>3, <2>2, <2>3, <2>4 DEF SaveYourselfRequest, requestVars
<1>4. CASE XsmpSaveYourselfDone(c)
  BY <1>4, SaveYourselfDonePromises DEF XsmpSaveYourselfDone, Speaking
<1>5. CASE XsmpCloseConnection(c)
  BY <1>5, ClosePromised DEF XsmpCloseConnection
<1>6. CASE IceIOError(c)
  <2>1. CASE CloseConnection(c, "closed")
    BY <1>6, <2>1, ClosePromised DEF IceIOError
  <2>2. CASE /\ conn' = [conn EXCEPT ![c] = "closed"]
             /\ UNCHANGED <<running, cstate, timer, saveReq, queried, saveVars>>
    <3>1. GoneOK'
      BY <2>2 DEF RInv, IInv, ManagerOK, ConnectionsOK, GoneOK
    <3>2. UNCHANGED <<Phase, Running, WhileSaving(Busy), WhileSaving({"WAITFORPHASE2"}),
                      InState(running, cstate, {"DISCONNECTED"}), dieTimer>>
      BY <2>2, Zenon DEF Phase, Running, WhileSaving, InState, Busy, saveVars
    <3>. QED BY <3>1, <3>2 DEF Promised, Promise!vars
  <2>. QED BY <1>6, <2>1, <2>2 DEF IceIOError
<1>. QED BY <1>1, <1>2, <1>3, <1>4, <1>5, <1>6, InteractRequestPromises,
            InteractDonePromises, Phase2RequestPromises DEF XsmpStep

LEMMA DbusPromises ==
  ASSUME RInv, IInv', Reusers = {}, NEW c \in DbusClients \cup Dbus2Clients, DbusStep(c)
  PROVE  Promised /\ GoneOK'
<1>. c \in Clients
  BY DEF Clients
<1>1. ASSUME NEW resumed \in BOOLEAN, RegisterDbus(c, resumed) PROVE Promised /\ GoneOK'
  BY <1>1, RegisterPromises DEF RegisterDbus
<1>2. CASE EndSessionResponse(c)
  <2>1. CASE SaveYourselfDone(c)
    BY <1>2, <2>1, SaveYourselfDonePromises DEF EndSessionResponse
  <2>2. CASE CloseConnection(c, "closed")
    BY <1>2, <2>2, ClosePromised DEF EndSessionResponse
  <2>3. CASE UNCHANGED <<running, cstate, conn, timer, saveReq, saveVars>>
    BY <2>3, StutterPromises DEF RInv, saveVars
  <2>. QED BY <1>2, <2>1, <2>2, <2>3 DEF EndSessionResponse
<1>3. CASE StateSaved(c)
  BY <1>3, SaveYourselfDonePromises DEF StateSaved
<1>4. CASE UnregisterClient(c)
  BY <1>4, ClosePromised DEF UnregisterClient
<1>. QED BY <1>1, <1>2, <1>3, <1>4 DEF DbusStep

LEMMA RequestPromises ==
  ASSUME RInv, IInv', RequestStep
  PROVE  Promised /\ GoneOK'
<1>1. CASE UNCHANGED <<clientVars, mstate, dieTimer, quit>>
  BY <1>1, StutterPromises DEF RInv, clientVars
<1>2. CASE SaveIdle
  <2>1. CASE SaveYourselfGlobal(FALSE, FALSE, "ASK", TRUE)
    BY <1>2, <2>1, GlobalPromises DEF SaveIdle
  <2>2. CASE idle.kind = "shutdown" /\ SaveYourselfGlobal(TRUE, FALSE, idle.type, idle.allow)
    <3>1. idle \in Shutdowns
      BY <1>2, <2>2 DEF SaveIdle, RInv, IInv, RequestsOK, Checkpoints, NoRequest
    <3>2. idle.allow \in BOOLEAN
      BY <3>1 DEF Shutdowns
    <3>3. ~quit
      BY <1>2 DEF SaveIdle
    <3>. QED BY <2>2, <3>2, <3>3, GlobalPromises
  <2>. QED BY <1>2, <2>1, <2>2 DEF SaveIdle
<1>3. ASSUME NEW type \in RequestTypes, DialogAnswered(type) PROVE Promised /\ GoneOK'
  <2>1. dialog.save \in BOOLEAN
    BY <1>3 DEF DialogAnswered, RInv, IInv, RequestsOK, Dialogs
  <2>2. CASE UNCHANGED <<clientVars, saveVars>>
    BY <2>2, StutterPromises DEF RInv, clientVars, saveVars
  <2>3. CASE BeginSave("SHUTDOWN", dialog.save)
    BY <1>3, <2>1, <2>3, BeginPromises DEF DialogAnswered, SavePhases
  <2>. QED BY <1>3, <2>2, <2>3 DEF DialogAnswered, Proceed
<1>. QED BY <1>1, <1>2, <1>3
         DEF RequestStep, DbusCheckpoint, DbusShutdown, DialogCancelled, saveVars

LEMMA NextPromises ==
  ASSUME RInv, IInv', Reusers = {}, [Next]_vars
  PROVE  Promised /\ GoneOK'
<1>1. CASE StartupDone
  <2>1. Phase = "rest" /\ Phase' = "rest"
    BY <1>1, PhaseIs DEF StartupDone, RInv
  <2>2. UNCHANGED <<Running, WhileSaving(Busy), WhileSaving({"WAITFORPHASE2"}),
                    InState(running, cstate, {"DISCONNECTED"}), dieTimer>>
    BY <1>1 DEF StartupDone, Running, WhileSaving, InState, SavePhases, clientVars
  <2>3. GoneOK'
    BY <1>1 DEF StartupDone, RInv, GoneOK, clientVars
  <2>. QED BY <2>1, <2>2, <2>3 DEF Promised, Promise!vars
<1>2. CASE DieTimeout
  <2>1. Phase # "over" /\ Phase' = "over"
    BY <1>2, PhaseIs DEF DieTimeout, RInv, IInv, ManagerOK, SessionOK, ManagerStates
  <2>2. /\ WhileSaving(Busy)' = {} /\ WhileSaving({"WAITFORPHASE2"})' = {}
        /\ UNCHANGED <<Running, InState(running, cstate, {"DISCONNECTED"})>>
    BY <1>2 DEF DieTimeout, Running, WhileSaving, InState, clientVars
  <2>3. GoneOK'
    BY <1>2 DEF DieTimeout, RInv, GoneOK, clientVars
  <2>4. Promise!TimeIsUp
    BY <1>2, <2>1, <2>2 DEF DieTimeout, Promise!TimeIsUp
  <2>. QED BY <2>3, <2>4 DEF Promised, Promise!Next
<1>3. ASSUME NEW c \in Clients, SaveTimeout(c) PROVE Promised /\ GoneOK'
  BY <1>3, ClosePromised DEF SaveTimeout
<1>4. CASE UNCHANGED vars
  BY <1>4, StutterPromises DEF vars, clientVars, saveVars, RInv
<1>. QED BY <1>1, <1>2, <1>3, <1>4, XsmpPromises, DbusPromises, RequestPromises DEF Next

LEMMA InitPromises == Init => GoneOK /\ Promise!Init
<1>. SUFFICES ASSUME Init PROVE GoneOK /\ Promise!Init
  OBVIOUS
<1>1. Running = {}
  BY DEF Init, Running, ToSet
<1>2. Phase = "rest"
  BY DEF Init, Phase
<1>. QED BY <1>1, <1>2 DEF Init, Promise!Init, GoneOK, WhileSaving, InState, SavePhases, Running

\* As long as no client registers the id of another, the manager implements the
\* promise: on every path on which clients answer, interact, put off phase 2, vanish
\* or time out, a save ends with the last answer and the session with its last
\* client or with the timer.
THEOREM ManagerKeepsPromise == Reusers = {} => (Spec => Implements)
<1>. SUFFICES ASSUME Reusers = {} PROVE Spec => Implements
  OBVIOUS
<1>1. Init => RInv /\ Promise!Init
  BY InitOK, InitPromises DEF RInv
<1>2. RInv /\ [Next]_vars => RInv' /\ [Promise!Next]_(Promise!vars)
  BY NextKeeps, NextPromises DEF RInv, Promised
<1>. QED BY <1>1, <1>2, PTL DEF Spec, Implements, Promise!Spec

\* The promise itself never leaves a save without a client that owes an answer, nor
\* waits for a client without a save.
THEOREM PromiseWaits == Promise!Spec => []Promise!SomeoneOwes
<1>. USE DEF Promise!SomeoneOwes, Promise!Saves
<1>1. Promise!Init => Promise!SomeoneOwes
  BY DEF Promise!Init
<1>2. Promise!SomeoneOwes /\ [Promise!Next]_(Promise!vars) => Promise!SomeoneOwes'
  <2>. SUFFICES ASSUME Promise!SomeoneOwes, [Promise!Next]_(Promise!vars)
                PROVE  Promise!SomeoneOwes'
    OBVIOUS
  <2>1. ASSUME NEW p \in {"checkpoint", "logout"}, NEW o, NEW l, NEW h, NEW g,
               Promise!Settle(p, o, l, h, g)
        PROVE  Promise!SomeoneOwes'
    BY <2>1 DEF Promise!Settle
  <2>2. CASE \/ \E p \in Promise!Saves, S \in SUBSET Clients : Promise!Begin(p, S)
             \/ \E c \in Clients : Promise!Answer(c) \/ Promise!PutOff(c)
    BY <2>1, <2>2 DEF Promise!Begin, Promise!Answer, Promise!PutOff
  <2>3. ASSUME NEW c \in Clients, Promise!Come(c) \/ Promise!Leave(c)
        PROVE  Promise!SomeoneOwes'
    BY <2>1, <2>3 DEF Promise!Come, Promise!Leave
  <2>4. CASE Promise!CallOff \/ Promise!TimeIsUp \/ UNCHANGED Promise!vars
    BY <2>4 DEF Promise!CallOff, Promise!TimeIsUp, Promise!vars
  <2>. QED BY <2>2, <2>3, <2>4 DEF Promise!Next
<1>. QED BY <1>1, <1>2, PTL DEF Promise!Spec

=============================================================================
