-------------------------- MODULE XsmpSessionProofs --------------------------
(***************************************************************************)
(* Proofs about XsmpSession, for any number of applications.               *)
(*                                                                         *)
(* The session is made of its parts: what the manager does in it is what   *)
(* XfsmManager does, and what the applications do is what XsmpClient lets  *)
(* them do with any session manager.  What has been proved of the parts    *)
(* therefore holds of the session.                                         *)
(*                                                                         *)
(* What only the two ends achieve together rests on SessionInv: for each   *)
(* state of a client object, what may be on its way in both directions and *)
(* where the application may be.  Each step of the manager moves every     *)
(* client in one of the ways that Moved lists.                             *)
(***************************************************************************)
EXTENDS XsmpSession, XsmpClientProofs

\* The manager of the session, with the theorems about it.
MP == INSTANCE XfsmManagerProofs WITH
  XsmpClients <- Apps, DbusClients <- {}, Dbus2Clients <- {}, Xterms <- {},
  Interactive <- Apps, Requesters <- Apps, Reusers <- {},
  RequestTypes <- {"LOGOUT"}, FailsafeMode <- FALSE

LEMMA ManagerConstants == MP!ClientKinds
BY SessionConstants DEF MP!ClientKinds

\* The two names of the manager's module stand for the same formulas.
LEMMA SameManager == (M!Init <=> MP!Init) /\ (M!Next <=> MP!Next) /\ M!vars = MP!vars
<1>1. M!Init <=> MP!Init
  BY DEF M!Init, MP!Init, M!Clients, MP!Clients, M!NoRequest, MP!NoRequest
<1>2. M!vars = MP!vars
  BY DEF M!vars, MP!vars, M!clientVars, MP!clientVars, M!requestVars, MP!requestVars,
         M!saveVars, MP!saveVars
<1>3. M!Next <=> MP!Next
  BY Zenon DEF
         M!Clients, M!SleepTypes, M!NoRequest, M!SavePhases, M!Busy, M!Running,
         M!InState, M!Speaking, M!StartTimers, M!StoredGroup, M!ResetClients,
         M!AwaitDeath, M!CompleteSaveYourself, M!Forget, M!CloseConnection, M!Nuke,
         M!Savers, M!BeginSave, M!Proceed, M!SaveYourselfGlobal, M!StartupDone,
         M!ContinueStartup, M!NewClient, M!RegisterXsmp, M!RegisterDbus,
         M!ReplaceClient, M!SaveYourselfRequest, M!InteractGrant, M!InteractRequest,
         M!FirstWaiting, M!InteractDone, M!Released, M!Phase2Request,
         M!ClearSaveRequest, M!SecondRound, M!SaveYourselfDone,
         M!XsmpSaveYourselfDone, M!StateSaved, M!EndSessionResponse,
         M!XsmpCloseConnection, M!IceIOError, M!UnregisterClient, M!SaveTimeout,
         M!DbusCheckpoint, M!DbusShutdown, M!SaveIdle, M!DialogCancelled,
         M!DialogAnswered, M!DieTimeout, M!XsmpStep, M!DbusStep, M!RequestStep,
         M!Next, M!clientVars, M!requestVars, M!saveVars, M!vars, M!ToSet,
         M!RemoveFirst, M!RemoveAt, M!SelectInSeq, M!Min,
         MP!Clients, MP!SleepTypes, MP!NoRequest, MP!SavePhases, MP!Busy, MP!Running,
         MP!InState, MP!Speaking, MP!StartTimers, MP!StoredGroup, MP!ResetClients,
         MP!AwaitDeath, MP!CompleteSaveYourself, MP!Forget, MP!CloseConnection,
         MP!Nuke, MP!Savers, MP!BeginSave, MP!Proceed, MP!SaveYourselfGlobal,
         MP!StartupDone, MP!ContinueStartup, MP!NewClient, MP!RegisterXsmp,
         MP!RegisterDbus, MP!ReplaceClient, MP!SaveYourselfRequest, MP!InteractGrant,
         MP!InteractRequest, MP!FirstWaiting, MP!InteractDone, MP!Released,
         MP!Phase2Request, MP!ClearSaveRequest, MP!SecondRound, MP!SaveYourselfDone,
         MP!XsmpSaveYourselfDone, MP!StateSaved, MP!EndSessionResponse,
         MP!XsmpCloseConnection, MP!IceIOError, MP!UnregisterClient, MP!SaveTimeout,
         MP!DbusCheckpoint, MP!DbusShutdown, MP!SaveIdle, MP!DialogCancelled,
         MP!DialogAnswered, MP!DieTimeout, MP!XsmpStep, MP!DbusStep, MP!RequestStep,
         MP!Next, MP!clientVars, MP!requestVars, MP!saveVars, MP!vars, MP!ToSet,
         MP!RemoveFirst, MP!RemoveAt, MP!SelectInSeq, MP!Min
<1>. QED BY <1>1, <1>2, <1>3
-----------------------------------------------------------------------------
(* The session is made of its parts *)

\* What an action of the session does to the manager is a step of the manager, or none.
LEMMA ManagerSteps == [Next]_vars => [M!Next]_(M!vars)
<1>. SUFFICES ASSUME [Next]_vars PROVE M!Next \/ UNCHANGED M!vars
  OBVIOUS
<1>. USE DEF M!Clients
<1>1. UNCHANGED mgrVars => UNCHANGED M!vars
  BY DEF mgrVars, M!vars, M!clientVars, M!requestVars, M!saveVars
<1>2. ASSUME NEW c \in Apps, M!XsmpStep(c) PROVE M!Next
  BY <1>2 DEF M!Next
<1>3. ASSUME NEW c \in Apps, ManagerServes(c) PROVE M!Next \/ UNCHANGED M!vars
  <2>1. CASE ServeRegister(c)
    BY <2>1, <1>2 DEF ServeRegister, M!XsmpStep
  <2>2. CASE ServeInteractRequest(c)
    BY <2>2, <1>2 DEF ServeInteractRequest, M!XsmpStep
  <2>3. CASE \E cancel \in BOOLEAN : ServeInteractDone(c, cancel)
    BY <2>3, <1>2 DEF ServeInteractDone, M!XsmpStep
  <2>4. CASE ServePhase2Request(c)
    BY <2>4, <1>2 DEF ServePhase2Request, M!XsmpStep
  <2>5. CASE ServeDone(c)
    BY <2>5, <1>2 DEF ServeDone, M!XsmpStep
  <2>6. CASE ServeClose(c)
    BY <2>6, <1>2 DEF ServeClose, M!XsmpStep
  <2>7. CASE ServeSaveRequest(c)
    BY <2>7, <1>2 DEF ServeSaveRequest, M!XsmpStep
  <2>8. CASE ServeIOError(c)
    BY <2>8, <1>2 DEF ServeIOError, M!XsmpStep
  <2>9. CASE Unserved(c)
    BY <2>9, <1>1 DEF Unserved
  <2>. QED BY <1>3, <2>1, <2>2, <2>3, <2>4, <2>5, <2>6, <2>7, <2>8, <2>9 DEF ManagerServes
<1>4. ASSUME NEW c \in Apps, SaveTimeout(c) PROVE M!Next
  BY <1>4 DEF SaveTimeout, M!Next
<1>5. CASE StartupDone \/ Ask \/ Start \/ DialogCancelled \/ DieTimeout
  <2>1. M!RequestStep => M!Next
    BY DEF M!Next
  <2>. QED BY <1>5, <2>1 DEF StartupDone, Ask, Start, DialogCancelled, DieTimeout, M!RequestStep, M!Next
<1>6. ASSUME NEW c \in Apps,
             ClientOpens(c) \/ ClientServes(c) \/ ClientReturns(c) \/ ClientActs(c) \/ Breaks(c)
      PROVE  M!Next \/ UNCHANGED M!vars
  <2>1. CASE ClientOpens(c)
    BY <2>1, <1>2 DEF ClientOpens, M!XsmpStep
  <2>. QED BY <1>1, <1>6, <2>1 DEF ClientServes, ClientReturns, ClientActs, Breaks
<1>7. CASE UNCHANGED vars
  BY <1>1, <1>7 DEF vars
<1>. QED BY <1>3, <1>4, <1>5, <1>6, <1>7 DEF Next

\* What an action of the session does to the applications and to what they say is a step
\* of the library, or none.
LEMMA LibrarySteps == [Next]_vars => [\E c \in Apps : LibStep(c)]_libVars
<1>. SUFFICES ASSUME [Next]_vars PROVE (\E c \in Apps : LibStep(c)) \/ UNCHANGED libVars
  OBVIOUS
<1>1. ASSUME NEW c \in Apps, NEW m, Takes(c, m) PROVE LibStep(c)
  BY <1>1 DEF Takes, LibStep, Taken
<1>2. ASSUME NEW c \in Apps, ManagerServes(c) PROVE LibStep(c)
  <2>1. CASE Unserved(c)
    BY <2>1 DEF Unserved, LibStep, Taken
  <2>. QED BY <1>1, <1>2, <2>1 DEF ManagerServes, ServeRegister, ServeInteractRequest,
       ServeInteractDone, ServePhase2Request, ServeDone, ServeClose, ServeSaveRequest, ServeIOError
<1>3. ASSUME NEW c \in Apps, SaveTimeout(c) PROVE UNCHANGED libVars
  BY <1>3 DEF SaveTimeout
<1>4. CASE StartupDone \/ Ask \/ Start \/ DialogCancelled \/ DieTimeout
  BY <1>4 DEF StartupDone, Ask, Start, DialogCancelled, DieTimeout
<1>5. ASSUME NEW c \in Apps,
             ClientOpens(c) \/ ClientServes(c) \/ ClientReturns(c) \/ ClientActs(c) \/ Breaks(c)
      PROVE  LibStep(c) \/ UNCHANGED libVars
  <2>1. CASE ClientServes(c)
    BY <2>1 DEF ClientServes, LibStep
  <2>2. CASE ClientOpens(c) \/ ClientReturns(c) \/ ClientActs(c) \/ Breaks(c)
    BY <2>2 DEF ClientOpens, ClientReturns, ClientActs, Breaks, LibStep, Taken
  <2>. QED BY <1>5, <2>1, <2>2
<1>6. CASE UNCHANGED vars
  BY <1>6 DEF vars
<1>. QED BY <1>2, <1>3, <1>4, <1>5, <1>6 DEF Next

\* In the session the manager behaves as XfsmManager says, with these applications as its
\* only clients: putting its handlers behind the messages that call them adds nothing.
THEOREM ManagerTakesPart == Spec => M!Spec
<1>1. Init => M!Init
  BY DEF Init
<1>. QED BY <1>1, ManagerSteps, PTL DEF Spec, M!Spec

\* In the session each application behaves as XsmpClient says it does with any manager.
THEOREM LibraryTakesPart == Spec => LibSpec
<1>1. Init => LibInit
  BY DEF Init
<1>. QED BY <1>1, LibrarySteps, PTL DEF Spec, LibSpec

-----------------------------------------------------------------------------
(* What the two ends know of each other *)

\* What may be on its way to a client.
Told == ToldByManager \cup {"Registered", "Resumed"}

\* The connection of c broke, and the manager has not noticed yet.
Broken(c) == toManager[c] # <<>> /\ Head(toManager[c]) = "IOError"

\* c is in state s on an open connection, and fs is the stack of its handlers.
At(c, s, fs) == link[c] = "open" /\ state[c] = s /\ frames[c] = fs

\* c waits for the reply to its registration, and no handler runs.
Opening(c) == link[c] \in {"opening", "reopening"} /\ frames[c] = <<>>

\* c is about to hear that a save is complete.
Thawing(c) == At(c, "FROZEN", <<>>) \/ At(c, "IDLE", <<>>)

\* c is told to save itself in the way k, perhaps after some older news.
Asked(c, k, tc) ==
  \/ tc = <<k>> /\ At(c, "IDLE", <<>>)
  \/ tc = <<"SaveComplete", k>> /\ Thawing(c)
  \/ tc = <<"Resumed", k>> /\ Opening(c)

\* In a logout no client is asked for a checkpoint; in a checkpoint that was a logout
\* before, some may have been asked for a logout.
KindsOf(ms) == {"SaveLogout", "SaveQuit"} \cup (IF ms = "SHUTDOWN" THEN {} ELSE {"SaveCheckpoint"})

\* In a logout c has agreed to quit, if it wants to be asked.
Consents(c, ms) == ms = "SHUTDOWN" /\ c \in Interested => agreed[c]

FitsIdle(c, tm, tc) ==
  /\ tm \in {<<>>, <<"SaveRequest">>}
  /\ \/ tc = <<>> /\ At(c, "IDLE", <<>>)
     \/ tc = <<"SaveComplete">> /\ Thawing(c)
     \/ tc = <<"Resumed">> /\ Opening(c)

FitsLocal(c, tm, tc) ==
  \/ tm = <<>> /\ tc = <<"Registered", "SaveLocal">> /\ Opening(c)
  \/ tm = <<>> /\ tc = <<"SaveLocal">> /\ At(c, "REGISTERING", <<>>)
  \/ tm = <<"Done">> /\ tc = <<>> /\ At(c, "FROZEN", <<>>)

FitsSaving(c, ms, tm, tc) ==
  \/ tm = <<>> /\ \E k \in KindsOf(ms) : Asked(c, k, tc)
  \/ /\ tm = <<>> /\ tc = <<>> /\ At(c, "SAVING_PHASE_1", <<"save-state first">>)
     /\ ms = "SHUTDOWN" => c \notin Interested
  \/ tm = <<"InteractRequest">> /\ tc = <<>> /\ At(c, "WAITING_FOR_INTERACT", <<>>)
  \/ /\ Consents(c, ms)
     /\ \/ tm = <<"Done">> /\ tc = <<>> /\ At(c, "FROZEN", <<>>)
        \/ tm = <<>> /\ tc = <<>> /\ At(c, "FROZEN", <<"save-state after">>)
        \/ tm = <<"Phase2Request">> /\ tc = <<>> /\ At(c, "WAITING_FOR_PHASE_2", <<>>)
        \/ tm = <<>> /\ tc = <<"SaveYourselfPhase2">> /\ At(c, "WAITING_FOR_PHASE_2", <<>>)
        \/ tm = <<>> /\ tc = <<>> /\ At(c, "SAVING_PHASE_2", <<"save-state-extended">>)

\* A client that was told of the end of a logout while it waited to interact has
\* answered, or is going to, when it is told to interact after all.
FitsMisled(c, ms, tm, tc) ==
  /\ ms = "CHECKPOINT"
  /\ \/ /\ tm = <<>> /\ tc = <<"ShutdownCancelled", "Interact">>
        /\ At(c, "WAITING_FOR_INTERACT", <<>>)
     \/ tm = <<"Done">> /\ tc = <<"Interact">> /\ At(c, "IDLE", <<>>)
     \/ tm = <<"Done", "InteractDone", "Done">> /\ tc = <<>> /\ At(c, "FROZEN", <<>>)

FitsInteracting(c, ms, tm, tc) ==
  \/ tm = <<>> /\ tc = <<"Interact">> /\ At(c, "WAITING_FOR_INTERACT", <<>>)
  \/ tm = <<>> /\ tc = <<>> /\ At(c, "INTERACTING", <<"quit-requested">>)
  \/ /\ agreed[c] /\ tc = <<>>
     /\ \/ tm = <<"InteractDone">> /\ At(c, "FROZEN", <<"save-state after">>)
        \/ tm = <<"InteractDone", "Done">> /\ At(c, "FROZEN", <<>>)
        \/ tm = <<"InteractDone", "Phase2Request">> /\ At(c, "WAITING_FOR_PHASE_2", <<>>)
  \/ tm = <<"InteractCancel", "Done">> /\ tc = <<>> /\ At(c, "FROZEN", <<>>)
  \/ FitsMisled(c, ms, tm, tc)

FitsWaiting(c, ms, tm, tc) ==
  \/ tm = <<>> /\ tc = <<>> /\ At(c, "WAITING_FOR_INTERACT", <<>>)
  \/ /\ ms = "CHECKPOINT"
     /\ \/ /\ tm = <<>> /\ tc = <<"ShutdownCancelled">>
           /\ At(c, "WAITING_FOR_INTERACT", <<>>)
        \/ tm = <<"Done">> /\ tc = <<>> /\ At(c, "IDLE", <<>>)

FitsPhase2(c, ms, tm, tc) ==
  tm = <<>> /\ tc = <<>> /\ At(c, "WAITING_FOR_PHASE_2", <<>>) /\ Consents(c, ms)

FitsDone(c, ms, tm, tc) ==
  /\ tm = <<>>
  /\ \/ ms = "CHECKPOINT" /\ tc = <<>> /\ Thawing(c)
     \/ /\ \/ ms = "SHUTDOWN" /\ tc = <<>>
           \/ ms = "SHUTDOWNPHASE2" /\ tc = <<"Die">>
        /\ At(c, "FROZEN", <<>>)
        /\ c \in Interested => agreed[c]

\* c, what it has said (tm) and what it is going to hear (tc) fit the state cs of its
\* client object in the state ms of the manager.
Fits(c, ms, cs, tm, tc) ==
  /\ ~cancelled[c]
  /\ cs = "IDLE"            => FitsIdle(c, tm, tc)
  /\ cs = "SAVINGLOCAL"     => FitsLocal(c, tm, tc)
  /\ cs = "SAVING"          => FitsSaving(c, ms, tm, tc)
  /\ cs = "INTERACTING"     => FitsInteracting(c, ms, tm, tc)
  /\ cs = "WAITFORINTERACT" => FitsWaiting(c, ms, tm, tc)
  /\ cs = "WAITFORPHASE2"   => FitsPhase2(c, ms, tm, tc)
  /\ cs = "SAVEDONE"        => FitsDone(c, ms, tm, tc)

\* What a client may have said before it closed its connection.
LastWords(ms, cs, tm) ==
  \/ tm = <<"Close">>
  \/ cs = "IDLE" /\ tm = <<"SaveRequest", "Close">>
  \/ cs = "SAVINGLOCAL" /\ tm = <<"Done", "Close">>
  \/ cs = "SAVING" /\ tm \in {<<"InteractRequest", "Close">>, <<"Done", "Close">>,
                              <<"Phase2Request", "Close">>}
  \/ cs = "INTERACTING" /\ tm \in {<<"InteractDone", "Done", "Close">>,
                                   <<"InteractCancel", "Done", "Close">>,
                                   <<"InteractDone", "Phase2Request", "Close">>}
  \/ cs = "INTERACTING" /\ ms = "CHECKPOINT" /\ tm # <<>> /\ Head(tm) = "Done"
  \/ cs = "WAITFORINTERACT" /\ ms = "CHECKPOINT" /\ tm = <<"Done", "Close">>

\* While the connection of a registered client holds, its two ends fit.
InStep(c) ==
  conn[c] = "registered" /\ ~quit /\ ~Broken(c) =>
    IF link[c] = "none" THEN LastWords(mstate, cstate[c], toManager[c])
                        ELSE Fits(c, mstate, cstate[c], toManager[c], toClient[c])

\* A client that has connected is going to register, and does nothing else.
Arrives(c) ==
  conn[c] = "new" /\ ~Broken(c) =>
    toManager[c] = <<"Register">> /\ toClient[c] = <<>> /\ Opening(c)

\* No handler outlives its connection and meets the next one.
OpensClean(c) ==
  /\ link[c] \in {"opening", "reopening"} => frames[c] = <<>>
  /\ reconnect[c] \/ link[c] = "reopening" => c \in Reconnecting
  /\ link[c] = "none" /\ frames[c] # <<>> /\ reconnect[c] =>
       Nesting = {} \/ mstate = "SHUTDOWNPHASE2"
  /\ "IOError" \in Range(toClient[c]) => c \in Breaking \/ mstate = "SHUTDOWNPHASE2"

\* A client says goodbye last; a connection that breaks breaks for both ends.
Transported(c) ==
  /\ \A i \in DOMAIN toManager[c] :
       /\ toManager[c][i] = "IOError" => i = 1 /\ c \in Breaking
       /\ toManager[c][i] = "Close" => link[c] = "none"
  /\ Broken(c) /\ link[c] # "none" => toClient[c] # <<>> /\ Head(toClient[c]) = "IOError"

\* Who is told to die is at rest, and has agreed if it wants to be asked; it hears nothing
\* before that.
DiesAsked(c) ==
  /\ link[c] = "open" /\ toClient[c] # <<>> /\ Head(toClient[c]) = "Die" =>
       frames[c] = <<>> /\ ~cancelled[c] /\ (c \in Interested => agreed[c])
  /\ link[c] # "none" /\ toClient[c] # <<>> /\ Head(toClient[c]) # "IOError" =>
       \A i \in DOMAIN toClient[c] : toClient[c][i] = "Die" => i = 1

\* A manager that has quit has closed all connections.
HearsOfEnd(c) ==
  quit /\ link[c] # "none" /\ conn[c] # "closed" =>
    toClient[c] # <<>> /\ toClient[c][Len(toClient[c])] = "IOError"

ClientFits(c) ==
  InStep(c) /\ Arrives(c) /\ OpensClean(c) /\ Transported(c) /\ DiesAsked(c) /\ HearsOfEnd(c)

AsksSave(c) == "SaveRequest" \in Range(toManager[c])

\* Requests and registrations wait for one another: at most one request is on its way,
\* suspended or carried out, and while it is no client registers or saves locally.
OneRequest ==
  /\ AtRest \/ Settled
  /\ idle # M!NoRequest => mstate = "IDLE" /\ dialog = M!NoRequest
  /\ idle # M!NoRequest \/ dialog # M!NoRequest => mstate = "IDLE" /\ \A c \in Apps : ~AsksSave(c)
  /\ \A c \in Apps : AsksSave(c) => mstate = "IDLE" /\ \A d \in Apps : AsksSave(d) => c = d

\* Every client takes part in a save; the session only ends once it dies.
EveryoneTakesPart ==
  /\ mstate \notin {"STARTUP", "IDLE"} => \A c \in M!Running : cstate[c] # "IDLE"
  /\ mstate # "SHUTDOWNPHASE2" => \A c \in M!Running : conn[c] = "registered"
  /\ \A c \in Apps : cstate[c] = "DISCONNECTED" => conn[c] # "registered"
  /\ dieTimer \/ quit => mstate = "SHUTDOWNPHASE2"

SessionInv ==
  /\ LibInv /\ MP!IInv
  /\ toClient \in [Apps -> Seq(Told)]
  /\ OneRequest /\ EveryoneTakesPart
  /\ \A c \in Apps : ClientFits(c)

-----------------------------------------------------------------------------
(* Short sequences *)

\* Two lists of two or three elements that agree at each place.
LEMMA SameElements ==
  ASSUME NEW S, NEW u \in Seq(S), NEW v \in Seq(S), Len(u) = Len(v), Len(u) \in {2, 3},
         u[1] = v[1], u[2] = v[2], Len(u) = 3 => u[3] = v[3]
  PROVE  u = v
<1>1. \A i \in 1 .. Len(u) : i = 1 \/ i = 2 \/ (i = 3 /\ Len(u) = 3)
  OBVIOUS
<1>. QED BY <1>1, SeqEqual

\* What joining a message to at most two others gives.
LEMMA Joined ==
  /\ \A a : <<>> \o <<a>> = <<a>>
  /\ \A a, b : <<a>> \o <<b>> = <<a, b>>
  /\ \A a, b, c : <<a, b>> \o <<c>> = <<a, b, c>>
  /\ \A a, b : <<>> \o <<a, b>> = <<a, b>>
<1>1. ASSUME NEW a, NEW b, NEW c PROVE <<a>> \o <<b>> = <<a, b>> /\ <<a, b>> \o <<c>> = <<a, b, c>>
  <2>1. <<a>> \in Seq({a, b, c}) /\ <<b>> \in Seq({a, b, c}) /\ <<c>> \in Seq({a, b, c})
        /\ <<a, b>> \in Seq({a, b, c}) /\ <<a, b, c>> \in Seq({a, b, c})
    OBVIOUS
  <2>2. /\ <<a>> \o <<b>> \in Seq({a, b, c})
        /\ Len(<<a>> \o <<b>>) = 2
        /\ (<<a>> \o <<b>>)[1] = a /\ (<<a>> \o <<b>>)[2] = b
    BY <2>1, ConcatProperties
  <2>3. /\ <<a, b>> \o <<c>> \in Seq({a, b, c})
        /\ Len(<<a, b>> \o <<c>>) = 3
        /\ (<<a, b>> \o <<c>>)[1] = a /\ (<<a, b>> \o <<c>>)[2] = b /\ (<<a, b>> \o <<c>>)[3] = c
    BY <2>1, ConcatProperties
  <2>4. /\ Len(<<a, b>>) = 2 /\ <<a, b>>[1] = a /\ <<a, b>>[2] = b
        /\ Len(<<a, b, c>>) = 3 /\ <<a, b, c>>[1] = a /\ <<a, b, c>>[2] = b /\ <<a, b, c>>[3] = c
    OBVIOUS
  <2>5. <<a>> \o <<b>> = <<a, b>>
    BY <2>1, <2>2, <2>4, SameElements
  <2>6. <<a, b>> \o <<c>> = <<a, b, c>>
    BY <2>1, <2>3, <2>4, SameElements
  <2>. QED BY <2>5, <2>6
<1>2. ASSUME NEW a, NEW b PROVE <<>> \o <<a>> = <<a>> /\ <<>> \o <<a, b>> = <<a, b>>
  BY <<a>> \in Seq({a}), <<a, b>> \in Seq({a, b}), ConcatEmptySeq
<1>. QED BY <1>1, <1>2

-----------------------------------------------------------------------------
(* What the manager tells a client as its state changes *)

\* The client object changes from state cs to cs2 while the manager goes from ms to ms2,
\* and the client is told t.
Moved(ms, cs, ms2, cs2, t) ==
  \/ /\ cs2 = cs /\ t = <<>>
     /\ \/ ms2 = ms
        \/ ms = "SHUTDOWN" /\ ms2 = "CHECKPOINT" /\ cs # "WAITFORINTERACT"
        \/ ms \in {"STARTUP", "IDLE"} /\ ms2 \in {"STARTUP", "IDLE"}
  \/ /\ cs = "WAITFORPHASE2" /\ cs2 = "SAVING" /\ ms2 = ms
     /\ t = <<"SaveYourselfPhase2">>
  \/ /\ cs = "WAITFORINTERACT" /\ cs2 = "INTERACTING" /\ ms2 = ms
     /\ t = <<"Interact">>
  \/ /\ cs = "WAITFORINTERACT" /\ cs2 = cs /\ ms = "SHUTDOWN" /\ ms2 = "CHECKPOINT"
     /\ t = <<"ShutdownCancelled">>
  \/ /\ cs = "SAVEDONE" /\ cs2 = "IDLE" /\ ms = "CHECKPOINT" /\ ms2 = "IDLE"
     /\ t = <<"SaveComplete">>
  \/ /\ cs = "SAVEDONE" /\ cs2 = cs /\ ms = "SHUTDOWN" /\ ms2 = "SHUTDOWNPHASE2"
     /\ t = <<"Die">>
  \/ /\ cs = "IDLE" /\ cs2 = "SAVING" /\ ms = "IDLE" /\ ms2 \in {"CHECKPOINT", "SHUTDOWN"}
     /\ \E k \in KindsOf(ms2) : t = <<k>>

\* A client that hears of its new state in this way still fits it.
LEMMA MoveFits ==
  ASSUME NEW c \in Apps, NEW ms, NEW cs, NEW ms2, NEW cs2, NEW tm, NEW tc \in Seq(Told), NEW t,
         Moved(ms, cs, ms2, cs2, t), Fits(c, ms, cs, tm, tc),
         cs = "IDLE" /\ cs2 = "SAVING" => tm # <<"SaveRequest">>
  PROVE  Fits(c, ms2, cs2, tm, tc \o t)
<1>1. CASE cs2 = cs /\ t = <<>>
  <2>1. tc \o <<>> = tc
    BY ConcatEmptySeq
  <2>2. SUFFICES Fits(c, ms2, cs, tm, tc)
    BY <1>1, <2>1
  <2>3. CASE ms2 = ms
    BY <2>3
  <2>4. CASE ms = "SHUTDOWN" /\ ms2 = "CHECKPOINT" /\ cs # "WAITFORINTERACT"
    <3>1. cs = "SAVING" => FitsSaving(c, ms2, tm, tc)
      BY <2>4 DEF Fits, FitsSaving, Consents, KindsOf
    <3>2. cs = "INTERACTING" => FitsInteracting(c, ms2, tm, tc)
      BY <2>4 DEF Fits, FitsInteracting, FitsMisled
    <3>3. cs = "WAITFORPHASE2" => FitsPhase2(c, ms2, tm, tc)
      BY <2>4 DEF Fits, FitsPhase2, Consents
    <3>4. cs = "SAVEDONE" => FitsDone(c, ms2, tm, tc)
      BY <2>4 DEF Fits, FitsDone, Thawing
    <3>. QED BY <2>4, <3>1, <3>2, <3>3, <3>4 DEF Fits
  <2>5. CASE ms \in {"STARTUP", "IDLE"} /\ ms2 \in {"STARTUP", "IDLE"}
    <3>1. cs = "SAVING" => FitsSaving(c, ms2, tm, tc)
      BY <2>5 DEF Fits, FitsSaving, Consents, KindsOf
    <3>2. cs = "INTERACTING" => FitsInteracting(c, ms2, tm, tc)
      BY <2>5 DEF Fits, FitsInteracting, FitsMisled
    <3>3. cs = "WAITFORINTERACT" => FitsWaiting(c, ms2, tm, tc)
      BY <2>5 DEF Fits, FitsWaiting
    <3>4. cs = "WAITFORPHASE2" => FitsPhase2(c, ms2, tm, tc)
      BY <2>5 DEF Fits, FitsPhase2, Consents
    <3>5. cs = "SAVEDONE" => FitsDone(c, ms2, tm, tc)
      BY <2>5 DEF Fits, FitsDone
    <3>. QED BY <3>1, <3>2, <3>3, <3>4, <3>5 DEF Fits
  <2>6. \A a : <<a>> # <<>>
    OBVIOUS
  <2>7. \A a : t # <<a>>
    BY <1>1, <2>6
  <2>8. \/ ms2 = ms
        \/ ms = "SHUTDOWN" /\ ms2 = "CHECKPOINT" /\ cs # "WAITFORINTERACT"
        \/ ms \in {"STARTUP", "IDLE"} /\ ms2 \in {"STARTUP", "IDLE"}
    BY <2>7, Zenon DEF Moved
  <2>. QED BY <2>3, <2>4, <2>5, <2>8
<1>2. CASE cs = "WAITFORPHASE2" /\ cs2 = "SAVING" /\ ms2 = ms /\ t = <<"SaveYourselfPhase2">>
  BY <1>2, Joined DEF Fits, FitsPhase2, FitsSaving
<1>3. CASE cs = "WAITFORINTERACT" /\ cs2 = "INTERACTING" /\ ms2 = ms /\ t = <<"Interact">>
  <2>1. FitsWaiting(c, ms, tm, tc) /\ ~cancelled[c]
    BY <1>3 DEF Fits
  <2>2. CASE tm = <<>> /\ tc = <<>> /\ At(c, "WAITING_FOR_INTERACT", <<>>)
    BY <1>3, <2>1, <2>2, Joined DEF Fits, FitsInteracting
  <2>3. CASE ms = "CHECKPOINT" /\ tm = <<>> /\ tc = <<"ShutdownCancelled">>
             /\ At(c, "WAITING_FOR_INTERACT", <<>>)
    <3>1. tc \o t = <<"ShutdownCancelled", "Interact">>
      BY <1>3, <2>3, Joined
    <3>2. FitsMisled(c, ms2, tm, tc \o t)
      BY <1>3, <2>3, <3>1 DEF FitsMisled
    <3>. QED BY <1>3, <2>1, <3>2 DEF Fits, FitsInteracting
  <2>4. CASE ms = "CHECKPOINT" /\ tm = <<"Done">> /\ tc = <<>> /\ At(c, "IDLE", <<>>)
    <3>1. tc \o t = <<"Interact">>
      BY <1>3, <2>4, Joined
    <3>2. FitsMisled(c, ms2, tm, tc \o t)
      BY <1>3, <2>4, <3>1 DEF FitsMisled
    <3>. QED BY <1>3, <2>1, <3>2 DEF Fits, FitsInteracting
  <2>. QED BY <2>1, <2>2, <2>3, <2>4 DEF FitsWaiting
<1>4. CASE cs = "WAITFORINTERACT" /\ cs2 = cs /\ ms = "SHUTDOWN" /\ ms2 = "CHECKPOINT"
           /\ t = <<"ShutdownCancelled">>
  BY <1>4, Joined DEF Fits, FitsWaiting
<1>5. CASE cs = "SAVEDONE" /\ cs2 = "IDLE" /\ ms = "CHECKPOINT" /\ t = <<"SaveComplete">>
  BY <1>5, Joined DEF Fits, FitsDone, FitsIdle
<1>6. CASE cs = "SAVEDONE" /\ cs2 = cs /\ ms = "SHUTDOWN" /\ ms2 = "SHUTDOWNPHASE2" /\ t = <<"Die">>
  BY <1>6, Joined DEF Fits, FitsDone
<1>7. CASE cs = "IDLE" /\ cs2 = "SAVING" /\ \E k \in KindsOf(ms2) : t = <<k>>
  BY <1>7, Joined DEF Fits, FitsIdle, FitsSaving, Asked
<1>. QED BY <1>1, <1>2, <1>3, <1>4, <1>5, <1>6, <1>7 DEF Moved

\* So does what a client said before it left.
LEMMA MoveWords ==
  ASSUME NEW ms, NEW cs, NEW ms2, NEW cs2, NEW tm, NEW t,
         Moved(ms, cs, ms2, cs2, t), LastWords(ms, cs, tm),
         cs = "IDLE" /\ cs2 = "SAVING" => tm # <<"SaveRequest", "Close">>
  PROVE  LastWords(ms2, cs2, tm)
BY DEF Moved, LastWords

-----------------------------------------------------------------------------
(* What the invariant of the manager says of the session *)

MgrFacts ==
  /\ mstate \in {"STARTUP", "IDLE", "CHECKPOINT", "SHUTDOWN", "SHUTDOWNPHASE2"}
  /\ cstate \in [Apps -> {"IDLE", "INTERACTING", "SAVEDONE", "SAVING", "SAVINGLOCAL",
                          "WAITFORINTERACT", "WAITFORPHASE2", "DISCONNECTED"}]
  /\ conn \in [Apps -> {"closed", "new", "registered", "orphaned"}]
  /\ M!Running \subseteq Apps
  /\ timer \subseteq M!Running
  /\ \A c \in Apps :
       /\ conn[c] = "registered" => c \in M!Running
       /\ conn[c] = "new" => c \notin M!Running
       /\ c \notin M!Running => cstate[c] = "IDLE"
       /\ mstate \in {"STARTUP", "IDLE"} => cstate[c] \in {"IDLE", "SAVINGLOCAL"}
       /\ mstate = "SHUTDOWNPHASE2" =>
            cstate[c] \notin {"SAVING", "WAITFORINTERACT", "INTERACTING", "WAITFORPHASE2"}
  /\ \A c, d \in Apps : cstate[c] = "INTERACTING" /\ cstate[d] = "INTERACTING" => c = d
  /\ quit \in BOOLEAN /\ dieTimer \in BOOLEAN

LEMMA ManagerFacts == MP!IInv => MgrFacts
<1>. SUFFICES ASSUME MP!IInv PROVE MgrFacts
  OBVIOUS
<1>1. MP!Clients = Apps
  BY DEF MP!Clients
<1>2. M!Running = MP!ToSet(running)
  BY DEF M!Running, M!ToSet, MP!ToSet
<1>3. /\ running \in Seq(Apps)
      /\ cstate \in [Apps -> MP!ClientStates]
      /\ timer \subseteq Apps
      /\ \A c \in Apps \ M!Running : cstate[c] = "IDLE" /\ c \notin timer
      /\ \A c, d \in Apps : cstate[c] = "INTERACTING" /\ cstate[d] = "INTERACTING" => c = d
      /\ mstate \in {"STARTUP", "IDLE"} => \A c \in Apps : cstate[c] \in {"IDLE", "SAVINGLOCAL"}
      /\ mstate = "SHUTDOWNPHASE2" => \A c \in Apps : cstate[c] \notin MP!Busy \cup {"WAITFORPHASE2"}
  BY <1>1, <1>2 DEF MP!IInv, MP!ManagerOK, MP!ClientsOK
<1>4. M!Running \subseteq Apps
  BY <1>3 DEF M!Running, M!ToSet
<1>5. /\ conn \in [Apps -> MP!ConnStates]
      /\ \A c \in Apps : /\ conn[c] = "registered" => c \in M!Running
                         /\ conn[c] = "new" => c \notin M!Running
  BY <1>2 DEF MP!IInv, MP!ManagerOK, MP!ConnectionsOK, MP!Running
<1>6. mstate \in MP!ManagerStates /\ quit \in BOOLEAN /\ dieTimer \in BOOLEAN
  BY DEF MP!IInv, MP!ManagerOK, MP!SessionOK
<1>. QED BY <1>3, <1>4, <1>5, <1>6
     DEF MgrFacts, MP!ClientStates, MP!ConnStates, MP!ManagerStates, MP!Busy

\* Who leaves the list of the clients, leaves the others in it.
LEMMA Leaves ==
  ASSUME MP!IInv, NEW c
  PROVE  M!ToSet(M!RemoveFirst(running, c)) = M!Running \ {c}
<1>1. running \in Seq(MP!Clients) /\ MP!IsInjective(running)
  BY DEF MP!IInv, MP!ManagerOK, MP!ClientsOK
<1>2. MP!ToSet(MP!RemoveFirst(running, c)) = MP!ToSet(running) \ {c}
  BY <1>1, ManagerConstants, MP!RemoveFirstProperties
<1>. QED BY <1>2, Zenon DEF M!Running, M!ToSet, MP!ToSet, M!RemoveFirst, M!RemoveAt, M!SelectInSeq,
     M!Min, MP!RemoveFirst, MP!RemoveAt, MP!SelectInSeq, MP!Min

\* Who enters it is in it with the others.
LEMMA Enters ==
  ASSUME MP!IInv, NEW c \in Apps, running' = Append(running, c)
  PROVE  M!Running' = M!Running \cup {c}
<1>1. running \in Seq(Apps)
  BY DEF MP!IInv, MP!ManagerOK, MP!ClientsOK, MP!Clients
<1>2. /\ Len(Append(running, c)) = Len(running) + 1
      /\ \A i \in 1 .. Len(running) : Append(running, c)[i] = running[i]
      /\ Append(running, c)[Len(running) + 1] = c
      /\ DOMAIN Append(running, c) = 1 .. Len(running) + 1
      /\ DOMAIN running = 1 .. Len(running)
      /\ Len(running) \in Nat
  BY <1>1, AppendProperties
<1>. QED BY <1>2 DEF M!Running, M!ToSet

\* Both invariants of the parts are kept.
LEMMA PartsKeep ==
  ASSUME MP!IInv, LibInv, [Next]_vars
  PROVE  MP!IInv' /\ LibInv' /\ MgrFacts'
<1>1. MP!IInv'
  <2>1. M!Next \/ M!vars' = M!vars
    BY ManagerSteps
  <2>2. MP!vars' = MP!vars <=> M!vars' = M!vars
    BY DEF M!vars, MP!vars, M!clientVars, MP!clientVars, M!requestVars, MP!requestVars,
           M!saveVars, MP!saveVars
  <2>3. [MP!Next]_(MP!vars)
    BY <2>1, <2>2, SameManager
  <2>. QED BY <2>3, ManagerConstants, MP!NextKeeps
<1>2. LibInv'
  <2>1. (\E c \in Apps : LibStep(c)) \/ UNCHANGED libVars
    BY LibrarySteps
  <2>2. CASE \E c \in Apps : LibStep(c)
    BY <2>2, LibraryConstants, StepKeeps
  <2>3. CASE UNCHANGED libVars
    BY <2>3 DEF libVars, connVars, saveVars, LibInv, LibTypeOK, HandlersFit, StateOfHandler,
                CancelledInHandler, NeverComesBackUnasked
  <2>. QED BY <2>1, <2>2, <2>3
<1>3. MgrFacts'
  BY <1>1, ManagerFacts, PTL
<1>. QED BY <1>1, <1>2, <1>3

-----------------------------------------------------------------------------
(* A step of the manager, seen by one client *)

\* Where a client is does not depend on the manager.
LEMMA StillFits ==
  ASSUME UNCHANGED <<state, connVars, saveVars>>, NEW c \in Apps,
         Fits(c, mstate', cstate'[c], toManager'[c], toClient'[c])
  PROVE  Fits(c, mstate, cstate[c], toManager[c], toClient[c])'
<1>. UNCHANGED <<state, link, frames, agreed, cancelled>>
  BY DEF connVars, saveVars
<1>. QED BY DEF Fits, FitsIdle, FitsLocal, FitsSaving, FitsMisled, FitsInteracting, FitsWaiting,
       FitsPhase2, FitsDone, At, Opening, Thawing, Asked, Consents

\* The first and the last of what is said, and all of it.
LEMMA Ends ==
  \A S : \A u, v \in Seq(S) :
    /\ u \o v \in Seq(S)
    /\ Range(u \o v) = Range(u) \cup Range(v)
    /\ u # <<>> => u \o v # <<>> /\ Head(u \o v) = Head(u)
    /\ v # <<>> => u \o v # <<>> /\ (u \o v)[Len(u \o v)] = v[Len(v)]
    /\ u = <<>> => u \o v = v
    /\ v = <<>> => u \o v = u
<1>. SUFFICES ASSUME NEW S, NEW u \in Seq(S), NEW v \in Seq(S)
     PROVE  /\ u \o v \in Seq(S)
            /\ Range(u \o v) = Range(u) \cup Range(v)
            /\ u # <<>> => u \o v # <<>> /\ Head(u \o v) = Head(u)
            /\ v # <<>> => u \o v # <<>> /\ (u \o v)[Len(u \o v)] = v[Len(v)]
            /\ u = <<>> => u \o v = v
            /\ v = <<>> => u \o v = u
  OBVIOUS
<1>1. /\ u \o v \in Seq(S)
      /\ Len(u \o v) = Len(u) + Len(v)
      /\ \A i \in 1 .. Len(u) + Len(v) : (u \o v)[i] = IF i <= Len(u) THEN u[i] ELSE v[i - Len(u)]
  BY ConcatProperties
<1>2. Len(u) \in Nat /\ Len(v) \in Nat /\ (u # <<>> => Len(u) > 0) /\ (v # <<>> => Len(v) > 0)
  OBVIOUS
<1>3. u # <<>> => u \o v # <<>> /\ Head(u \o v) = Head(u)
  BY <1>1, <1>2
<1>4. v # <<>> => u \o v # <<>> /\ (u \o v)[Len(u \o v)] = v[Len(v)]
  BY <1>1, <1>2
<1>5. Range(u \o v) = Range(u) \cup Range(v)
  BY RangeConcatenation
<1>. QED BY <1>1, <1>3, <1>4, <1>5, ConcatEmptySeq

\* What is not said at the end was there before.
LEMMA Places ==
  ASSUME NEW S, NEW u \in Seq(S), NEW v \in Seq(S), NEW x, x \notin Range(v),
         NEW i \in DOMAIN (u \o v), (u \o v)[i] = x
  PROVE  i \in DOMAIN u /\ u[i] = x
<1>1. /\ Len(u) \in Nat /\ Len(v) \in Nat /\ Len(u \o v) = Len(u) + Len(v)
      /\ DOMAIN u = 1 .. Len(u) /\ DOMAIN v = 1 .. Len(v) /\ DOMAIN (u \o v) = 1 .. Len(u \o v)
  BY ConcatProperties
<1>2. \A j \in 1 .. Len(u) + Len(v) : (u \o v)[j] = IF j <= Len(u) THEN u[j] ELSE v[j - Len(u)]
  BY ConcatProperties
<1>3. CASE i <= Len(u)
  BY <1>1, <1>2, <1>3
<1>4. CASE ~(i <= Len(u))
  <2>1. i - Len(u) \in DOMAIN v /\ v[i - Len(u)] = x
    BY <1>1, <1>2, <1>4
  <2>. QED BY <2>1 DEF Range
<1>. QED BY <1>3, <1>4

\* What is said in none, one or two messages.
LEMMA FewSaid ==
  /\ Range(<<>>) = {}
  /\ \A a : Range(<<a>>) = {a}
  /\ \A a, b : Range(<<a, b>>) = {a, b}
BY DEF Range

\* c is served nothing, or its first message.
Serves(c) == \/ toManager'[c] = toManager[c]
             \/ toManager[c] # <<>> /\ toManager'[c] = Tail(toManager[c])

\* What is left of the messages.
LEMMA Left ==
  ASSUME LibInv, NEW c \in Apps, Serves(c)
  PROVE  /\ toManager'[c] \in Seq(Messages)
         /\ \A i \in DOMAIN toManager'[c] :
              \E j \in DOMAIN toManager[c] : j >= i /\ toManager[c][j] = toManager'[c][i]
                                             /\ (toManager'[c] # toManager[c] => j > 1)
<1>1. toManager[c] \in Seq(Messages)
  BY DEF LibInv, LibTypeOK, Messages
<1>2. CASE toManager'[c] = toManager[c]
  BY <1>1, <1>2
<1>3. CASE toManager[c] # <<>> /\ toManager'[c] = Tail(toManager[c])
  <2>1. /\ toManager'[c] \in Seq(Messages)
        /\ Len(toManager'[c]) = Len(toManager[c]) - 1
        /\ \A i \in 1 .. Len(toManager'[c]) : toManager'[c][i] = toManager[c][i + 1]
    BY <1>1, <1>3
  <2>2. ASSUME NEW i \in DOMAIN toManager'[c]
        PROVE  i + 1 \in DOMAIN toManager[c] /\ i + 1 > 1 /\ i + 1 >= i /\ toManager[c][i + 1] = toManager'[c][i]
    <3>1. /\ DOMAIN toManager'[c] = 1 .. Len(toManager'[c]) /\ Len(toManager[c]) \in Nat
          /\ DOMAIN toManager[c] = 1 .. Len(toManager[c])
      BY <1>1, <2>1
    <3>2. i \in 1 .. Len(toManager[c]) - 1 /\ toManager'[c][i] = toManager[c][i + 1]
      BY <2>1, <3>1
    <3>. QED BY <3>1, <3>2
  <2>. QED BY <2>1, <2>2
<1>. QED BY <1>2, <1>3 DEF Serves

\* When the manager tells everyone what tell says, c hears something it expects, if what
\* it said and hears fits the new state of its client object.
LEMMA TellKeeps ==
  ASSUME SessionInv, EveryoneTakesPart', ~quit, NEW tell, Tell(tell),
         UNCHANGED <<state, connVars, saveVars>>,
         mstate = "SHUTDOWNPHASE2" => mstate' = "SHUTDOWNPHASE2",
         NEW c \in Apps, tell[c] \in Seq(Told \ {"IOError"}), Serves(c),
         conn'[c] = "new" => /\ conn[c] = "new" /\ toManager'[c] = toManager[c]
                             /\ tell[c] = <<>> /\ ~quit',
         conn'[c] = "closed" /\ conn[c] # "closed" =>
           c \in Breaking \/ link[c] = "none" \/ mstate' = "SHUTDOWNPHASE2",
         conn'[c] # "closed" => conn[c] # "closed",
         conn'[c] = "registered" /\ ~quit' /\ ~Broken(c)' =>
           IF link[c] = "none" THEN LastWords(mstate', cstate'[c], toManager'[c])
           ELSE Fits(c, mstate', cstate'[c], toManager'[c], toClient[c] \o tell[c]),
         "Die" \in Range(tell[c]) =>
           /\ tell[c] = <<"Die">> /\ conn'[c] = "registered" /\ ~quit'
           /\ cstate'[c] = "SAVEDONE" /\ mstate' = "SHUTDOWNPHASE2"
  PROVE  ClientFits(c)' /\ toClient'[c] \in Seq(Told)
<1>. DEFINE end == IF c \in Shut THEN <<"IOError">> ELSE <<>>
            old == toClient[c]
<1>. UNCHANGED <<state, link, reconnect, frames, agreed, cancelled>>
  BY DEF connVars, saveVars
<1>0. ClientFits(c) /\ old \in Seq(Told)
  BY DEF SessionInv
<1>1. toClient'[c] = old \o tell[c] \o end
  BY DEF Tell
<1>2. end \in Seq(Told) /\ tell[c] \in Seq(Told)
  <2>1. <<"IOError">> \in Seq(Told) /\ <<>> \in Seq(Told)
    BY DEF Told, ToldByManager
  <2>2. tell[c] \in Seq(Told)
    BY SeqMonotonic
  <2>. QED BY <2>1, <2>2
<1>3. /\ old \o tell[c] \in Seq(Told)
      /\ Range(old \o tell[c]) = Range(old) \cup Range(tell[c])
      /\ old # <<>> => old \o tell[c] # <<>> /\ Head(old \o tell[c]) = Head(old)
      /\ old = <<>> => old \o tell[c] = tell[c]
      /\ tell[c] = <<>> => old \o tell[c] = old
  <2>. HIDE DEF old, end
  <2>1. old \in Seq(Told) /\ tell[c] \in Seq(Told)
    BY <1>0, <1>2
  <2>. QED BY <2>1, Ends, SMTT(20)
<1>4. /\ toClient'[c] \in Seq(Told)
      /\ Range(toClient'[c]) = Range(old) \cup Range(tell[c]) \cup Range(end)
      /\ old # <<>> => toClient'[c] # <<>> /\ Head(toClient'[c]) = Head(old)
      /\ old = <<>> /\ tell[c] # <<>> => Head(toClient'[c]) = Head(tell[c])
      /\ old = <<>> /\ tell[c] = <<>> => toClient'[c] = end
      /\ c \in Shut => toClient'[c] # <<>> /\ toClient'[c][Len(toClient'[c])] = "IOError"
      /\ c \notin Shut => toClient'[c] = old \o tell[c]
  <2>1. end # <<>> => end[Len(end)] = "IOError"
    OBVIOUS
  <2>2. c \in Shut <=> end # <<>>
    OBVIOUS
  <2>. DEFINE both == old \o tell[c]
  <2>3. both \in Seq(Told) /\ end \in Seq(Told) /\ toClient'[c] = both \o end
    BY <1>1, <1>2, <1>3
  <2>. HIDE DEF end, both
  <2>4. /\ both \o end \in Seq(Told)
        /\ Range(both \o end) = Range(both) \cup Range(end)
        /\ both # <<>> => both \o end # <<>> /\ Head(both \o end) = Head(both)
        /\ end # <<>> => both \o end # <<>> /\ (both \o end)[Len(both \o end)] = end[Len(end)]
        /\ both = <<>> => both \o end = end
        /\ end = <<>> => both \o end = both
    BY <2>3, Ends, SMTT(20)
  <2>. HIDE DEF old
  <2>. QED BY <1>3, <2>1, <2>2, <2>3, <2>4 DEF both
<1>. HIDE DEF end, old
<1>5. InStep(c)'
  <2>. SUFFICES ASSUME conn'[c] = "registered", ~quit', ~Broken(c)'
       PROVE IF link[c] = "none" THEN LastWords(mstate', cstate'[c], toManager'[c])
             ELSE Fits(c, mstate, cstate[c], toManager[c], toClient[c])'
    BY DEF InStep
  <2>1. c \notin Shut
    BY DEF Shut
  <2>2. toClient'[c] = toClient[c] \o tell[c]
    BY <1>4, <2>1 DEF old
  <2>. QED BY <2>2, StillFits
<1>6. Transported(c)'
  <2>1. Transported(c)
    BY <1>0 DEF ClientFits
  <2>2. ASSUME NEW i \in DOMAIN toManager'[c]
        PROVE  /\ toManager'[c][i] = "IOError" => i = 1 /\ c \in Breaking /\ toManager' [c] = toManager[c]
               /\ toManager'[c][i] = "Close" => link[c] = "none"
    <3>1. LibInv
      BY DEF SessionInv
    <3>2. PICK j \in DOMAIN toManager[c] :
            /\ j >= i /\ toManager[c][j] = toManager'[c][i]
            /\ toManager'[c] # toManager[c] => j > 1
      BY <3>1, Left
    <3>3. i \in Nat /\ i >= 1
      BY <3>1, Left
    <3>. QED BY <2>1, <3>2, <3>3 DEF Transported
  <2>3. Broken(c)' => Broken(c)
    <3>1. SUFFICES ASSUME Broken(c)' PROVE Broken(c)
      OBVIOUS
    <3>2. toManager'[c] # <<>> /\ Head(toManager'[c]) = "IOError"
      BY <3>1 DEF Broken
    <3>3. toManager'[c] \in Seq(Messages)
      BY Left DEF SessionInv
    <3>4. 1 \in DOMAIN toManager'[c] /\ toManager'[c][1] = "IOError"
      BY <3>2, <3>3
    <3>5. toManager'[c] = toManager[c]
      BY <2>2, <3>4
    <3>. QED BY <3>2, <3>5 DEF Broken
  <2>4. Broken(c)' /\ link'[c] # "none" => toClient'[c] # <<>> /\ Head(toClient'[c]) = "IOError"
    BY <1>4, <2>1, <2>3 DEF Transported, old
  <2>. QED BY <2>2, <2>4 DEF Transported
<1>7. OpensClean(c)'
  <2>1. "IOError" \notin Range(tell[c])
    BY DEF Range
  <2>2. c \in Shut => c \in Breaking \/ mstate' = "SHUTDOWNPHASE2"
    BY DEF Shut, EveryoneTakesPart
  <2>3. "IOError" \in Range(end) => c \in Shut
    BY DEF end, Range
  <2>4. "IOError" \in Range(toClient'[c]) => c \in Breaking \/ mstate' = "SHUTDOWNPHASE2"
    BY <1>0, <1>4, <2>1, <2>2, <2>3 DEF ClientFits, OpensClean, old
  <2>. QED BY <1>0, <2>4 DEF ClientFits, OpensClean
<1>8. HearsOfEnd(c)'
  BY <1>4 DEF HearsOfEnd, Shut
<1>9. Arrives(c)'
  <2>. SUFFICES ASSUME conn'[c] = "new", ~Broken(c)'
       PROVE toManager'[c] = <<"Register">> /\ toClient'[c] = <<>> /\ Opening(c)'
    BY DEF Arrives
  <2>1. c \notin Shut
    BY DEF Shut
  <2>2. toClient'[c] = toClient[c]
    BY <1>3, <1>4, <2>1 DEF old
  <2>3. ~Broken(c)
    BY DEF Broken
  <2>. QED BY <1>0, <2>2, <2>3 DEF ClientFits, Arrives, Opening
<1>10. ASSUME link[c] # "none", toClient'[c] # <<>>, Head(toClient'[c]) # "IOError",
              "Die" \in Range(tell[c])
       PROVE  /\ toClient'[c] = <<"Die">>
              /\ frames[c] = <<>> /\ ~cancelled[c] /\ (c \in Interested => agreed[c])
  <2>1. c \notin Shut
    BY <1>10 DEF Shut
  <2>2. ~Broken(c)'
    BY <1>6, <1>10 DEF Transported
  <2>3. Fits(c, mstate', "SAVEDONE", toManager'[c], toClient[c] \o tell[c])
    BY <1>10, <2>2
  <2>. QED BY <1>4, <1>10, <2>1, <2>3 DEF Fits, FitsDone, At, old
<1>11. ASSUME link[c] # "none", toClient'[c] # <<>>, Head(toClient'[c]) # "IOError",
              "Die" \notin Range(tell[c])
       PROVE  \A i \in DOMAIN toClient'[c] :
                toClient'[c][i] = "Die" => i \in DOMAIN old /\ old[i] = "Die"
  <2>1. "Die" \notin Range(end)
    BY DEF end, Range
  <2>. DEFINE both == old \o tell[c]
  <2>2. both \in Seq(Told) /\ end \in Seq(Told) /\ toClient'[c] = both \o end
        /\ old \in Seq(Told) /\ tell[c] \in Seq(Told)
    BY <1>0, <1>1, <1>2, <1>3 DEF old
  <2>4. ASSUME NEW i \in DOMAIN both, both[i] = "Die"
        PROVE  i \in DOMAIN old /\ old[i] = "Die"
    BY <1>11, <2>2, <2>4, Places
  <2>. HIDE DEF both
  <2>5. ASSUME NEW i \in DOMAIN (both \o end), (both \o end)[i] = "Die"
        PROVE  i \in DOMAIN both /\ both[i] = "Die"
    BY <2>1, <2>2, <2>5, Places
  <2>. QED BY <2>2, <2>4, <2>5
<1>12. DiesAsked(c)'
  <2>1. ASSUME link[c] = "open", toClient'[c] # <<>>, Head(toClient'[c]) = "Die"
        PROVE  frames[c] = <<>> /\ ~cancelled[c] /\ (c \in Interested => agreed[c])
    <3>1. CASE "Die" \in Range(tell[c])
      BY <1>10, <2>1, <3>1
    <3>2. CASE "Die" \notin Range(tell[c])
      <4>1. 1 \in DOMAIN toClient'[c] /\ toClient'[c][1] = "Die"
        BY <1>4, <2>1
      <4>2. 1 \in DOMAIN old /\ old[1] = "Die"
        BY <1>11, <2>1, <3>2, <4>1
      <4>3. old # <<>> /\ Head(old) = "Die"
        BY <1>0, <4>2
      <4>. QED BY <1>0, <2>1, <4>3 DEF ClientFits, DiesAsked, old
    <3>. QED BY <3>1, <3>2
  <2>2. ASSUME link[c] # "none", toClient'[c] # <<>>, Head(toClient'[c]) # "IOError",
               NEW i \in DOMAIN toClient'[c], toClient'[c][i] = "Die"
        PROVE  i = 1
    <3>1. CASE "Die" \in Range(tell[c])
      <4>1. toClient'[c] = <<"Die">>
        BY <1>10, <2>2, <3>1
      <4>2. i \in DOMAIN <<"Die">>
        BY <2>2, <4>1
      <4>. QED BY <4>2
    <3>2. CASE "Die" \notin Range(tell[c])
      <4>1. i \in DOMAIN old /\ old[i] = "Die"
        BY <1>11, <2>2, <3>2
      <4>2. old # <<>>
        BY <4>1
      <4>3. Head(old) # "IOError"
        BY <1>4, <2>2, <4>2
      <4>. QED BY <1>0, <2>2, <4>1, <4>2, <4>3 DEF ClientFits, DiesAsked, old
    <3>. QED BY <3>1, <3>2
  <2>. QED BY <2>1, <2>2 DEF DiesAsked
<1>. QED BY <1>4, <1>5, <1>6, <1>7, <1>8, <1>9, <1>12 DEF ClientFits

\* A client is told something, and never that its connection broke.
LEMMA MovedTells ==
  ASSUME NEW ms, NEW cs, NEW ms2, NEW cs2, NEW t, Moved(ms, cs, ms2, cs2, t)
  PROVE  /\ t \in Seq(Told \ {"IOError"})
         /\ "Die" \in Range(t) => /\ t = <<"Die">> /\ cs2 = "SAVEDONE"
                                  /\ ms2 = "SHUTDOWNPHASE2" /\ ms = "SHUTDOWN"
<1>1. t = <<>> \/ \E k \in {"SaveYourselfPhase2", "Interact", "ShutdownCancelled", "SaveComplete",
                            "Die", "SaveCheckpoint", "SaveLogout", "SaveQuit"} : t = <<k>>
  BY DEF Moved, KindsOf
<1>2. t \in Seq(Told \ {"IOError"})
  <2>1. CASE t = <<>>
    BY <2>1
  <2>2. ASSUME NEW k \in {"SaveYourselfPhase2", "Interact", "ShutdownCancelled", "SaveComplete",
                          "Die", "SaveCheckpoint", "SaveLogout", "SaveQuit"}, t = <<k>>
        PROVE  t \in Seq(Told \ {"IOError"})
    <3>1. k \in Told \ {"IOError"}
      BY <2>2 DEF Told, ToldByManager, SaveKinds
    <3>. QED BY <2>2, <3>1
  <2>. QED BY <1>1, <2>1, <2>2
<1>3. ASSUME "Die" \in Range(t)
      PROVE  t = <<"Die">> /\ cs2 = "SAVEDONE" /\ ms2 = "SHUTDOWNPHASE2" /\ ms = "SHUTDOWN"
  <2>1. t = <<"Die">>
    BY <1>1, <1>3 DEF Range
  <2>. QED BY <2>1 DEF Moved, KindsOf
<1>. QED BY <1>2, <1>3

\* The manager serves a message of c, if any, which leaves its client object in state s of
\* the manager state ms, and goes on from there.
LEMMA ActorFits ==
  ASSUME SessionInv, EveryoneTakesPart', ~quit, NEW tell, Tell(tell),
         UNCHANGED <<state, connVars, saveVars>>,
         mstate = "SHUTDOWNPHASE2" => mstate' = "SHUTDOWNPHASE2",
         NEW c \in Apps, Serves(c), conn[c] = "registered", conn'[c] = "registered",
         NEW ms, NEW s, Moved(ms, s, mstate', cstate'[c], tell[c]),
         ms = "SHUTDOWN" /\ mstate' = "SHUTDOWNPHASE2" => ~quit',
         s = "IDLE" /\ cstate'[c] = "SAVING" => ~AsksSave(c)',
         ~Broken(c)' => IF link[c] = "none" THEN LastWords(ms, s, toManager'[c])
                        ELSE Fits(c, ms, s, toManager'[c], toClient[c])
  PROVE  ClientFits(c)' /\ toClient'[c] \in Seq(Told)
<1>1. /\ tell[c] \in Seq(Told \ {"IOError"})
      /\ "Die" \in Range(tell[c]) =>
           /\ tell[c] = <<"Die">> /\ conn'[c] = "registered" /\ ~quit'
           /\ cstate'[c] = "SAVEDONE" /\ mstate' = "SHUTDOWNPHASE2"
  BY MovedTells
<1>2. toClient[c] \in Seq(Told)
  BY DEF SessionInv
<1>3. s = "IDLE" /\ cstate'[c] = "SAVING" =>
        toManager'[c] # <<"SaveRequest">> /\ toManager'[c] # <<"SaveRequest", "Close">>
  <2>1. ASSUME NEW u \in {<<"SaveRequest">>, <<"SaveRequest", "Close">>}
        PROVE  "SaveRequest" \in Range(u)
    <3>1. 1 \in DOMAIN u /\ u[1] = "SaveRequest"
      OBVIOUS
    <3>. QED BY <3>1 DEF Range
  <2>. QED BY <2>1, Zenon DEF AsksSave
<1>4. ASSUME ~Broken(c)'
      PROVE  IF link[c] = "none" THEN LastWords(mstate', cstate'[c], toManager'[c])
             ELSE Fits(c, mstate', cstate'[c], toManager'[c], toClient[c] \o tell[c])
  <2>1. CASE link[c] = "none"
    BY <1>3, <1>4, <2>1, MoveWords
  <2>2. CASE link[c] # "none"
    BY <1>2, <1>3, <1>4, <2>2, MoveFits
  <2>. QED BY <2>1, <2>2
<1>. QED BY <1>1, <1>4, TellKeeps

\* A client that says nothing at this step.
LEMMA OthersFit ==
  ASSUME SessionInv, EveryoneTakesPart', ~quit, NEW tell, Tell(tell),
         UNCHANGED <<state, connVars, saveVars>>,
         mstate = "SHUTDOWNPHASE2" => mstate' = "SHUTDOWNPHASE2",
         NEW d \in Apps, toManager'[d] = toManager[d], conn'[d] = conn[d],
         conn[d] # "registered" => tell[d] = <<>>,
         conn[d] = "registered" =>
           /\ Moved(mstate, cstate[d], mstate', cstate'[d], tell[d])
           /\ mstate = "SHUTDOWN" /\ mstate' = "SHUTDOWNPHASE2" => ~quit'
           /\ cstate[d] = "IDLE" /\ cstate'[d] = "SAVING" => ~AsksSave(d),
         conn[d] = "new" => ~quit'
  PROVE  ClientFits(d)' /\ toClient'[d] \in Seq(Told)
<1>1. CASE conn[d] = "registered" /\ quit'
  <2>1. /\ tell[d] \in Seq(Told \ {"IOError"})
        /\ "Die" \notin Range(tell[d])
    BY <1>1, MovedTells
  <2>. QED BY <1>1, <2>1, TellKeeps DEF Serves
<1>2. CASE conn[d] = "registered" /\ ~quit'
  <2>1. ~Broken(d)' => IF link[d] = "none" THEN LastWords(mstate, cstate[d], toManager'[d])
                       ELSE Fits(d, mstate, cstate[d], toManager'[d], toClient[d])
    BY <1>2 DEF SessionInv, ClientFits, InStep, Broken
  <2>2. cstate[d] = "IDLE" /\ cstate'[d] = "SAVING" => ~AsksSave(d)'
    BY <1>2 DEF AsksSave
  <2>. QED BY <1>2, <2>1, <2>2, ActorFits DEF Serves
<1>3. CASE conn[d] # "registered"
  <2>1. tell[d] = <<>> /\ tell[d] \in Seq(Told \ {"IOError"})
    BY <1>3, EmptySeq, Zenon
  <2>2. Serves(d)
    BY DEF Serves
  <2>3. "Die" \notin Range(tell[d])
    BY <2>1, FewSaid
  <2>. QED BY <1>3, <2>1, <2>2, <2>3, TellKeeps
<1>. QED BY <1>1, <1>2, <1>3

-----------------------------------------------------------------------------
(* Requests and registrations wait for one another *)

Resting == /\ mstate \in {"STARTUP", "IDLE"} /\ idle = M!NoRequest /\ dialog = M!NoRequest
           /\ \A c \in Apps : ~AsksSave(c)

LEMMA RestIs == LibInv => (AtRest <=> Resting)
<1>. SUFFICES ASSUME LibInv PROVE AtRest <=> Resting
  OBVIOUS
<1>1. ASSUME NEW c \in Apps
      PROVE  AsksSave(c) <=> \E i \in 1 .. MaxQueue : i \in DOMAIN toManager[c]
                                                      /\ toManager[c][i] = "SaveRequest"
  <2>1. /\ DOMAIN toManager[c] = 1 .. Len(toManager[c]) /\ Len(toManager[c]) \in Nat
        /\ Len(toManager[c]) <= MaxQueue /\ MaxQueue \in Nat
    BY LibraryConstants DEF LibInv, LibTypeOK, LibraryConstants
  <2>2. DOMAIN toManager[c] \subseteq 1 .. MaxQueue
    BY <2>1
  <2>. QED BY <2>2 DEF AsksSave, Range
<1>. QED BY <1>1 DEF AtRest, Resting

\* A step that starts no save and takes no request leaves those that wait alone.
LEMMA CalmKeeps ==
  ASSUME OneRequest, LibInv, LibInv', UNCHANGED <<idle, dialog>>,
         mstate = "IDLE" => mstate' = "IDLE",
         mstate = "STARTUP" => mstate' \in {"STARTUP", "IDLE"},
         \A c \in Apps : AsksSave(c)' => AsksSave(c),
         Settled => Settled'
  PROVE  OneRequest'
<1>1. AtRest => AtRest'
  <2>1. AtRest <=> Resting
    BY RestIs
  <2>2. AtRest' <=> Resting'
    BY RestIs, PTL
  <2>3. Resting => Resting'
    BY DEF Resting, M!NoRequest
  <2>. QED BY <2>1, <2>2, <2>3
<1>. QED BY <1>1 DEF OneRequest, M!NoRequest

\* While a save is under way, or a request waits for one, the clients are settled.
LEMMA SavesSettled ==
  ASSUME SessionInv
  PROVE  /\ mstate \notin {"STARTUP", "IDLE"} \/ idle # M!NoRequest \/ dialog # M!NoRequest
              \/ (\E c \in Apps : AsksSave(c)) => Settled
         /\ \A c \in Apps : conn[c] = "new" \/ cstate[c] = "SAVINGLOCAL" =>
              mstate \in {"STARTUP", "IDLE"} /\ AtRest
<1>1. AtRest \/ Settled
  BY DEF SessionInv, OneRequest
<1>2. AtRest <=> Resting
  BY RestIs DEF SessionInv
<1>. QED BY <1>1, <1>2 DEF Settled, Resting

-----------------------------------------------------------------------------
(* How the manager goes on with a save *)

\* xfsm_manager_complete_saveyourself () ends the save, or lets it go on.
LEMMA CompleteShape ==
  ASSUME NEW ms \in {"CHECKPOINT", "SHUTDOWN"}, NEW run, NEW cs \in [Apps -> M!ClientStates],
         NEW tm, NEW save, M!CompleteSaveYourself(ms, run, cs, tm, save)
  PROVE  /\ \/ mstate' = ms
            \/ ms = "CHECKPOINT" /\ mstate' = "IDLE"
            \/ ms = "SHUTDOWN" /\ mstate' = "SHUTDOWNPHASE2"
         /\ mstate' # "SHUTDOWNPHASE2" => UNCHANGED <<dieTimer, quit>>
         /\ mstate' = "SHUTDOWNPHASE2" => quit' = (run = <<>>)
         /\ \A d \in Apps :
              /\ mstate' # "IDLE" /\ cs[d] # "IDLE" => cstate'[d] # "IDLE"
              /\ cstate'[d] \in {"SAVINGLOCAL", "DISCONNECTED"} => cs[d] = cstate'[d]
              /\ d \notin M!ToSet(run) => cstate'[d] = cs[d]
         /\ \A d \in Apps \cap M!ToSet(run) :
              /\ mstate' = ms =>
                   cstate'[d] = cs[d] \/ (cs[d] = "WAITFORPHASE2" /\ cstate'[d] = "SAVING")
              /\ mstate' # ms => cs[d] \notin {"SAVING", "WAITFORINTERACT", "INTERACTING", "WAITFORPHASE2"}
              /\ mstate' = "IDLE" => cstate'[d] = "IDLE"
              /\ mstate' = "SHUTDOWNPHASE2" => cstate'[d] = cs[d]
<1>. USE DEF M!Clients, M!InState, M!Busy, M!ClientStates
<1>1. CASE M!InState(run, cs, M!Busy) # {} /\ mstate' = ms /\ cstate' = cs /\ UNCHANGED <<dieTimer, quit>>
  BY <1>1
<1>2. CASE /\ mstate' = ms /\ UNCHANGED <<dieTimer, quit>>
           /\ cstate' = [d \in M!Clients |->
                IF d \in M!InState(run, cs, {"WAITFORPHASE2"}) THEN "SAVING" ELSE cs[d]]
  BY <1>2
<1>3. CASE /\ M!InState(run, cs, M!Busy \cup {"WAITFORPHASE2"}) = {}
           /\ ms = "CHECKPOINT" /\ mstate' = "IDLE" /\ cstate' = M!ResetClients(run, cs)
           /\ UNCHANGED <<dieTimer, quit>>
  BY <1>3 DEF M!ResetClients
<1>4. CASE /\ M!InState(run, cs, M!Busy \cup {"WAITFORPHASE2"}) = {}
           /\ ms = "SHUTDOWN" /\ mstate' = "SHUTDOWNPHASE2" /\ cstate' = cs /\ M!AwaitDeath(run)
  BY <1>4 DEF M!AwaitDeath
<1>. HIDE DEF M!Clients, M!InState, M!Busy
<1>. QED BY <1>1, <1>2, <1>3, <1>4, Zenon DEF M!CompleteSaveYourself

\* What it says to a client that stays, whose object its caller left in state cs[d].
LEMMA CompleteMoves ==
  ASSUME MgrFacts, mstate \in {"CHECKPOINT", "SHUTDOWN"}, NEW run, NEW cs \in [Apps -> M!ClientStates],
         NEW tm, NEW save, M!CompleteSaveYourself(mstate, run, cs, tm, save),
         NEW d \in Apps, d \in M!ToSet(run), conn'[d] = "registered",
         cs[d] \notin {"IDLE", "SAVINGLOCAL", "DISCONNECTED"},
         cs[d] = cstate[d] \/ cs[d] = "SAVEDONE"
  PROVE  /\ Moved(mstate, cs[d], mstate', cstate'[d], Says[d])
         /\ mstate = "SHUTDOWN" /\ mstate' = "SHUTDOWNPHASE2" => ~quit'
<1>1. cs[d] \in {"SAVING", "SAVEDONE", "INTERACTING", "WAITFORINTERACT", "WAITFORPHASE2"}
  BY DEF M!ClientStates
<1>2. CASE mstate' = mstate
  <2>1. Says[d] = IF cstate[d] # "INTERACTING" /\ cstate'[d] = "INTERACTING" THEN <<"Interact">>
                  ELSE IF cstate[d] = "WAITFORPHASE2" /\ cstate'[d] = "SAVING" THEN <<"SaveYourselfPhase2">>
                  ELSE <<>>
    BY <1>2 DEF Says
  <2>2. cstate'[d] = cs[d] \/ (cs[d] = "WAITFORPHASE2" /\ cstate'[d] = "SAVING")
    BY <1>2, CompleteShape
  <2>. QED BY <1>1, <1>2, <2>1, <2>2 DEF Moved
<1>3. CASE mstate = "CHECKPOINT" /\ mstate' = "IDLE"
  <2>1. Says[d] = <<"SaveComplete">>
    BY <1>3 DEF Says, ToEach, CompletesFor
  <2>2. cs[d] = "SAVEDONE" /\ cstate'[d] = "IDLE"
    BY <1>1, <1>3, CompleteShape
  <2>. QED BY <1>3, <2>1, <2>2 DEF Moved
<1>4. CASE mstate = "SHUTDOWN" /\ mstate' = "SHUTDOWNPHASE2"
  <2>1. Says[d] = <<"Die">>
    BY <1>4 DEF Says, ToEach, M!SavePhases
  <2>2. cs[d] = "SAVEDONE" /\ cstate'[d] = cs[d] /\ quit' = (run = <<>>)
    BY <1>1, <1>4, CompleteShape
  <2>3. run # <<>>
    BY DEF M!ToSet
  <2>. QED BY <1>4, <2>1, <2>2, <2>3 DEF Moved
<1>. QED BY <1>2, <1>3, <1>4, CompleteShape

\* The manager has nothing to say to a client that is not registered.
LEMMA NothingForOthers ==
  ASSUME MgrFacts, NEW c \in Apps, conn'[c] # "registered",
         cstate'[c] \in {"IDLE", "DISCONNECTED"} \/ cstate'[c] = cstate[c]
  PROVE  Says[c] = <<>>
BY DEF Says, ToEach, CompletesFor

\* The clients but c move as they are told.
OthersMove(tell, c) ==
  \A d \in Apps \ {c} :
    /\ conn'[d] = conn[d]
    /\ conn[d] = "registered" =>
         /\ Moved(mstate, cstate[d], mstate', cstate'[d], tell[d])
         /\ mstate = "SHUTDOWN" /\ mstate' = "SHUTDOWNPHASE2" => ~quit'
         /\ cstate[d] = "IDLE" /\ cstate'[d] = "SAVING" => ~AsksSave(d)
    /\ conn[d] # "registered" => tell[d] = <<>>
    /\ conn[d] = "new" => ~quit'

\* If they do, and c fits, then the invariant is kept.
LEMMA AllFit ==
  ASSUME SessionInv, [Next]_vars, OneRequest', EveryoneTakesPart', ~quit, NEW tell, Tell(tell),
         UNCHANGED <<state, connVars, saveVars>>,
         mstate = "SHUTDOWNPHASE2" => mstate' = "SHUTDOWNPHASE2",
         NEW c, \A d \in Apps \ {c} : toManager'[d] = toManager[d],
         OthersMove(tell, c),
         c \in Apps => ClientFits(c)' /\ toClient'[c] \in Seq(Told)
  PROVE  SessionInv'
<1>1. MP!IInv' /\ LibInv'
  BY PartsKeep DEF SessionInv
<1>2. ASSUME NEW d \in Apps PROVE ClientFits(d)' /\ toClient'[d] \in Seq(Told)
  <2>1. CASE d # c
    <3>1. /\ toManager'[d] = toManager[d] /\ conn'[d] = conn[d]
          /\ conn[d] # "registered" => tell[d] = <<>>
          /\ conn[d] = "new" => ~quit'
          /\ conn[d] = "registered" =>
               /\ Moved(mstate, cstate[d], mstate', cstate'[d], tell[d])
               /\ mstate = "SHUTDOWN" /\ mstate' = "SHUTDOWNPHASE2" => ~quit'
               /\ cstate[d] = "IDLE" /\ cstate'[d] = "SAVING" => ~AsksSave(d)
      BY <2>1 DEF OthersMove
    <3>. QED BY <3>1, OthersFit
  <2>. QED BY <2>1
<1>3. toClient' \in [Apps -> Seq(Told)]
  <2>1. toClient' = [d \in Apps |-> toClient'[d]]
    BY DEF Tell
  <2>. QED BY <1>2, <2>1
<1>. QED BY <1>1, <1>2, <1>3 DEF SessionInv

\* What the loss of a client does to the others (xfsm_manager_close_connection ()).
LEMMA CloseMoves ==
  ASSUME SessionInv, ~quit, NEW c \in Apps, NEW after \in {"closed", "orphaned"},
         M!CloseConnection(c, after)
  PROVE  /\ EveryoneTakesPart'
         /\ Settled => Settled'
         /\ mstate \in {"STARTUP", "IDLE", "SHUTDOWNPHASE2"} => mstate' = mstate
         /\ conn'[c] = IF mstate = "SHUTDOWNPHASE2" THEN "closed" ELSE after
         /\ Says[c] = <<>>
         /\ OthersMove(Says, c)
<1>0. /\ MgrFacts /\ EveryoneTakesPart /\ MP!IInv
      /\ mstate \notin {"STARTUP", "IDLE"} =>
           \A d \in Apps : conn[d] # "new" /\ cstate[d] # "SAVINGLOCAL"
  BY ManagerFacts, SavesSettled DEF SessionInv, Settled
<1>. DEFINE run == M!RemoveFirst(running, c)
            cs == [cstate EXCEPT ![c] = "IDLE"]
<1>1. M!ToSet(run) = M!Running \ {c}
  BY <1>0, Leaves
<1>. HIDE DEF run
<1>. USE DEF M!Clients
<1>2. CASE /\ mstate = "SHUTDOWNPHASE2" /\ mstate' = mstate
           /\ cstate' = [d \in M!Clients |-> IF d = c /\ c \in M!Running THEN "DISCONNECTED"
                                                                       ELSE cstate[d]]
           /\ conn' = [conn EXCEPT ![c] = "closed"]
           /\ dieTimer' = (dieTimer /\ ~quit') /\ UNCHANGED running
  <2>1. /\ conn'[c] = "closed" /\ cstate'[c] \in {"IDLE", "DISCONNECTED"}
        /\ \A d \in Apps \ {c} : conn'[d] = conn[d] /\ cstate'[d] = cstate[d]
        /\ M!Running' = M!Running
    BY <1>0, <1>2 DEF MgrFacts, M!Running
  <2>2. EveryoneTakesPart'
    <3>1. \A d \in M!Running' : cstate'[d] # "IDLE"
      BY <1>0, <1>2, <2>1 DEF EveryoneTakesPart, MgrFacts
    <3>2. \A d \in Apps : cstate'[d] = "DISCONNECTED" => conn'[d] # "registered"
      BY <1>0, <2>1 DEF EveryoneTakesPart
    <3>. QED BY <1>2, <3>1, <3>2 DEF EveryoneTakesPart
  <2>3. Settled => Settled'
    BY <1>0, <1>2, <2>1 DEF Settled
  <2>4. \A d \in Apps : Says[d] = <<>>
    BY <1>2, <2>1 DEF Says, M!SavePhases
  <2>5. OthersMove(Says, c)
    BY <1>0, <1>2, <2>1, <2>4 DEF OthersMove, Moved
  <2>. QED BY <1>2, <2>1, <2>2, <2>3, <2>4, <2>5
<1>3. CASE /\ mstate \in M!SavePhases
           /\ running' = run /\ conn' = [conn EXCEPT ![c] = after]
           /\ M!CompleteSaveYourself(mstate, run, cs, timer \ {c}, saveSession)
  <2>. USE DEF M!SavePhases
  <2>1. /\ conn'[c] = after
        /\ \A d \in Apps \ {c} : conn'[d] = conn[d]
        /\ M!Running' = M!Running \ {c}
        /\ cs \in [Apps -> M!ClientStates] /\ cs[c] = "IDLE"
        /\ \A d \in Apps \ {c} : cs[d] = cstate[d]
    BY <1>0, <1>1, <1>3 DEF MgrFacts, M!Running, M!ClientStates
  <2>. HIDE DEF cs
  <2>2. /\ \/ mstate' = mstate
           \/ mstate = "CHECKPOINT" /\ mstate' = "IDLE"
           \/ mstate = "SHUTDOWN" /\ mstate' = "SHUTDOWNPHASE2"
        /\ mstate' # "SHUTDOWNPHASE2" => UNCHANGED <<dieTimer, quit>>
        /\ \A d \in Apps :
             /\ mstate' # "IDLE" /\ cs[d] # "IDLE" => cstate'[d] # "IDLE"
             /\ cstate'[d] \in {"SAVINGLOCAL", "DISCONNECTED"} => cs[d] = cstate'[d]
             /\ d \notin M!ToSet(run) => cstate'[d] = cs[d]
    BY <1>3, <2>1, CompleteShape
  <2>3. EveryoneTakesPart'
    <3>1. mstate' \notin {"STARTUP", "IDLE"} => \A d \in M!Running' : cstate'[d] # "IDLE"
      BY <1>0, <1>3, <2>1, <2>2 DEF EveryoneTakesPart, MgrFacts
    <3>2. \A d \in M!Running' : conn'[d] = "registered"
      BY <1>0, <1>3, <2>1 DEF EveryoneTakesPart, MgrFacts
    <3>3. \A d \in Apps : cstate'[d] = "DISCONNECTED" => conn'[d] # "registered"
      BY <1>0, <2>1, <2>2 DEF EveryoneTakesPart
    <3>4. dieTimer' \/ quit' => mstate' = "SHUTDOWNPHASE2"
      BY <1>0, <1>3, <2>2 DEF EveryoneTakesPart
    <3>. QED BY <3>1, <3>2, <3>3, <3>4 DEF EveryoneTakesPart
  <2>4. Settled => Settled'
    BY <1>0, <1>3, <2>1, <2>2 DEF Settled
  <2>5. Says[c] = <<>>
    BY <1>0, <1>1, <2>1, <2>2, NothingForOthers
  <2>6. ASSUME NEW d \in Apps \ {c}, conn[d] = "registered"
        PROVE  /\ Moved(mstate, cstate[d], mstate', cstate'[d], Says[d])
               /\ mstate = "SHUTDOWN" /\ mstate' = "SHUTDOWNPHASE2" => ~quit'
               /\ cstate[d] # "IDLE"
    <3>1. d \in M!ToSet(run) /\ conn'[d] = "registered"
      BY <1>0, <1>1, <2>1, <2>6 DEF MgrFacts
    <3>2. cs[d] = cstate[d] /\ cs[d] \notin {"IDLE", "SAVINGLOCAL", "DISCONNECTED"}
      BY <1>0, <1>3, <2>1, <2>6 DEF EveryoneTakesPart, MgrFacts
    <3>. QED BY <1>0, <1>3, <2>1, <3>1, <3>2, CompleteMoves
  <2>7. ASSUME NEW d \in Apps \ {c}, conn[d] # "registered" PROVE Says[d] = <<>>
    <3>1. conn'[d] # "registered"
      BY <2>1, <2>7
    <3>2. d \notin M!Running
      BY <1>0, <1>3, <2>7 DEF EveryoneTakesPart
    <3>3. cstate'[d] = cstate[d]
      BY <1>1, <2>1, <2>2, <3>2
    <3>. QED BY <1>0, <3>1, <3>3, NothingForOthers
  <2>8. OthersMove(Says, c)
    BY <1>0, <1>3, <2>1, <2>6, <2>7 DEF OthersMove
  <2>. QED BY <1>3, <2>1, <2>3, <2>4, <2>5, <2>8
<1>4. CASE /\ mstate \in {"STARTUP", "IDLE"}
           /\ running' = run /\ conn' = [conn EXCEPT ![c] = after]
           /\ cstate' = [cstate EXCEPT ![c] = "IDLE"]
           /\ UNCHANGED M!saveVars
  <2>1. /\ conn'[c] = after /\ cstate'[c] = "IDLE" /\ mstate' = mstate
        /\ dieTimer' = dieTimer /\ quit' = quit
        /\ \A d \in Apps \ {c} : conn'[d] = conn[d] /\ cstate'[d] = cstate[d]
        /\ M!Running' = M!Running \ {c}
    BY <1>0, <1>1, <1>4 DEF MgrFacts, M!Running, M!saveVars
  <2>2. EveryoneTakesPart'
    BY <1>0, <1>4, <2>1 DEF EveryoneTakesPart, MgrFacts
  <2>3. Settled => Settled'
    BY <1>0, <2>1 DEF Settled
  <2>4. \A d \in Apps : Says[d] = <<>>
    BY <1>4, <2>1 DEF Says, M!SavePhases
  <2>5. OthersMove(Says, c)
    BY <1>4, <2>1, <2>4 DEF OthersMove, Moved
  <2>. QED BY <1>4, <2>1, <2>2, <2>3, <2>4, <2>5
<1>. QED BY <1>2, <1>3, <1>4 DEF M!CloseConnection, M!Forget, run

-----------------------------------------------------------------------------
(* What the manager hears *)

\* A client whose connection holds, or that has closed it, fits or fitted.
Agrees(c, ms, cs, tm, tc) ==
  IF link[c] = "none" THEN LastWords(ms, cs, tm) ELSE Fits(c, ms, cs, tm, tc)

\* The first and the rest of a few messages.
LEMMA Short ==
  /\ \A a : <<a>> # <<>> /\ Head(<<a>>) = a /\ Tail(<<a>>) = <<>>
  /\ \A a, b : <<a, b>> # <<>> /\ Head(<<a, b>>) = a /\ Tail(<<a, b>>) = <<b>>
  /\ \A a, b, d : <<a, b, d>> # <<>> /\ Head(<<a, b, d>>) = a /\ Tail(<<a, b, d>>) = <<b, d>>
<1>1. ASSUME NEW a PROVE <<a>> # <<>> /\ Head(<<a>>) = a /\ Tail(<<a>>) = <<>>
  OBVIOUS
<1>2. ASSUME NEW a, NEW b PROVE <<a, b>> # <<>> /\ Head(<<a, b>>) = a /\ Tail(<<a, b>>) = <<b>>
  OBVIOUS
<1>3. ASSUME NEW a, NEW b, NEW d
      PROVE  <<a, b, d>> # <<>> /\ Head(<<a, b, d>>) = a /\ Tail(<<a, b, d>>) = <<b, d>>
  OBVIOUS
<1>. QED BY <1>1, <1>2, <1>3, Zenon

\* What a registered client that fits may say first (m), and what fits when it has, with
\* the rest still to come (tm).
Meant(c, m, ms, cs, tm, tc) ==
  \/ m = "Close" /\ link[c] = "none"
  \/ cs = "IDLE" /\ m = "SaveRequest" /\ Agrees(c, ms, "IDLE", tm, tc)
  \/ /\ cs = "SAVINGLOCAL" /\ m = "Done"
     /\ Agrees(c, ms, "IDLE", tm, <<"SaveComplete">>)
     /\ link[c] # "none" => tc = <<>>
  \/ cs = "SAVING" /\ m = "InteractRequest" /\ Agrees(c, ms, "WAITFORINTERACT", tm, tc)
  \/ cs = "SAVING" /\ m = "Done" /\ Agrees(c, ms, "SAVEDONE", tm, tc)
  \/ cs = "SAVING" /\ m = "Phase2Request" /\ Agrees(c, ms, "WAITFORPHASE2", tm, tc)
  \/ cs = "INTERACTING" /\ m = "InteractDone" /\ Agrees(c, ms, "SAVING", tm, tc)
  \/ cs = "INTERACTING" /\ m = "InteractCancel" /\ Agrees(c, "CHECKPOINT", "SAVING", tm, tc)
  \/ cs = "INTERACTING" /\ m = "Done" /\ ms = "CHECKPOINT"
  \/ cs = "WAITFORINTERACT" /\ m = "Done" /\ Agrees(c, ms, "SAVEDONE", tm, tc)

LEMMA Heard ==
  ASSUME NEW c \in Apps, NEW ms, NEW tm, NEW tc, tm # <<>>,
         NEW cs \in {"IDLE", "INTERACTING", "SAVEDONE", "SAVING", "SAVINGLOCAL",
                     "WAITFORINTERACT", "WAITFORPHASE2"},
         cs \in {"INTERACTING", "SAVING", "WAITFORINTERACT"} => ms \in {"CHECKPOINT", "SHUTDOWN"},
         Agrees(c, ms, cs, tm, tc)
  PROVE  Meant(c, Head(tm), ms, cs, Tail(tm), tc)
<1>. USE DEF Meant
<1>1. CASE link[c] = "none"
  <2>1. LastWords(ms, cs, tm)
    BY <1>1 DEF Agrees
  <2>2. CASE tm = <<"Close">>
    BY <1>1, <2>2, Short
  <2>3. CASE cs = "IDLE" /\ tm = <<"SaveRequest", "Close">>
    BY <1>1, <2>3, Short DEF Agrees, LastWords
  <2>4. CASE cs = "SAVINGLOCAL" /\ tm = <<"Done", "Close">>
    BY <1>1, <2>4, Short DEF Agrees, LastWords
  <2>5. CASE cs = "SAVING" /\ tm \in {<<"InteractRequest", "Close">>, <<"Done", "Close">>,
                                     <<"Phase2Request", "Close">>}
    <3>1. PICK m \in {"InteractRequest", "Done", "Phase2Request"} : tm = <<m, "Close">>
      BY <2>5
    <3>2. Tail(tm) = <<"Close">> /\ Head(tm) \in {"InteractRequest", "Done", "Phase2Request"}
      BY <3>1, Short
    <3>. QED BY <1>1, <2>5, <3>2 DEF Agrees, LastWords
  <2>6. CASE cs = "INTERACTING" /\ tm = <<"InteractDone", "Done", "Close">>
    <3>1. Head(tm) = "InteractDone" /\ Tail(tm) = <<"Done", "Close">>
      BY <2>6, Short
    <3>. QED BY <1>1, <2>6, <3>1 DEF Agrees, LastWords
  <2>7. CASE cs = "INTERACTING" /\ tm = <<"InteractCancel", "Done", "Close">>
    <3>1. Head(tm) = "InteractCancel" /\ Tail(tm) = <<"Done", "Close">>
      BY <2>7, Short
    <3>. QED BY <1>1, <2>7, <3>1 DEF Agrees, LastWords
  <2>8. CASE cs = "INTERACTING" /\ tm = <<"InteractDone", "Phase2Request", "Close">>
    <3>1. Head(tm) = "InteractDone" /\ Tail(tm) = <<"Phase2Request", "Close">>
      BY <2>8, Short
    <3>. QED BY <1>1, <2>8, <3>1 DEF Agrees, LastWords
  <2>9. CASE cs = "INTERACTING" /\ ms = "CHECKPOINT" /\ Head(tm) = "Done"
    BY <2>9
  <2>10. CASE cs = "WAITFORINTERACT" /\ ms = "CHECKPOINT" /\ tm = <<"Done", "Close">>
    BY <1>1, <2>10, Short DEF Agrees, LastWords
  <2>. QED BY <2>1, <2>2, <2>3, <2>4, <2>5, <2>6, <2>7, <2>8, <2>9, <2>10, Zenon DEF LastWords
<1>2. CASE link[c] # "none"
  <2>1. Fits(c, ms, cs, tm, tc)
    BY <1>2 DEF Agrees
  <2>2. CASE cs = "IDLE"
    BY <1>2, <2>1, <2>2, Short DEF Agrees, Fits, FitsIdle
  <2>3. CASE cs = "SAVINGLOCAL"
    <3>1. ~cancelled[c] /\ tm = <<"Done">> /\ tc = <<>> /\ At(c, "FROZEN", <<>>)
      BY <2>1, <2>3 DEF Fits, FitsLocal
    <3>2. Head(tm) = "Done" /\ Tail(tm) = <<>>
      BY <3>1, Short
    <3>3. Fits(c, ms, "IDLE", <<>>, <<"SaveComplete">>)
      BY <3>1 DEF Fits, FitsIdle, Thawing
    <3>. QED BY <1>2, <2>3, <3>1, <3>2, <3>3 DEF Agrees
  <2>4. CASE cs = "SAVING"
    <3>1. FitsSaving(c, ms, tm, tc) /\ ~cancelled[c]
      BY <2>1, <2>4 DEF Fits
    <3>2. CASE tm = <<"InteractRequest">> /\ tc = <<>> /\ At(c, "WAITING_FOR_INTERACT", <<>>)
      BY <1>2, <2>4, <3>1, <3>2, Short DEF Agrees, Fits, FitsWaiting
    <3>3. CASE Consents(c, ms) /\ tm = <<"Done">> /\ tc = <<>> /\ At(c, "FROZEN", <<>>)
      BY <1>2, <2>4, <3>1, <3>3, Short DEF Agrees, Fits, FitsDone, Consents, Thawing
    <3>4. CASE Consents(c, ms) /\ tm = <<"Phase2Request">> /\ tc = <<>> /\ At(c, "WAITING_FOR_PHASE_2", <<>>)
      BY <1>2, <2>4, <3>1, <3>4, Short DEF Agrees, Fits, FitsPhase2
    <3>. QED BY <3>1, <3>2, <3>3, <3>4 DEF FitsSaving
  <2>5. CASE cs = "INTERACTING"
    <3>1. FitsInteracting(c, ms, tm, tc) /\ ~cancelled[c]
      BY <2>1, <2>5 DEF Fits
    <3>2. CASE agreed[c] /\ tc = <<>> /\ tm = <<"InteractDone">> /\ At(c, "FROZEN", <<"save-state after">>)
      BY <1>2, <2>5, <3>1, <3>2, Short DEF Agrees, Fits, FitsSaving, Consents
    <3>3. CASE agreed[c] /\ tc = <<>> /\ tm = <<"InteractDone", "Done">> /\ At(c, "FROZEN", <<>>)
      BY <1>2, <2>5, <3>1, <3>3, Short DEF Agrees, Fits, FitsSaving, Consents
    <3>4. CASE /\ agreed[c] /\ tc = <<>> /\ tm = <<"InteractDone", "Phase2Request">>
               /\ At(c, "WAITING_FOR_PHASE_2", <<>>)
      BY <1>2, <2>5, <3>1, <3>4, Short DEF Agrees, Fits, FitsSaving, Consents
    <3>5. CASE tm = <<"InteractCancel", "Done">> /\ tc = <<>> /\ At(c, "FROZEN", <<>>)
      BY <1>2, <2>5, <3>1, <3>5, Short DEF Agrees, Fits, FitsSaving, Consents
    <3>6. CASE FitsMisled(c, ms, tm, tc)
      BY <1>2, <2>5, <3>6, Short DEF FitsMisled
    <3>. QED BY <3>1, <3>2, <3>3, <3>4, <3>5, <3>6 DEF FitsInteracting
  <2>6. CASE cs = "WAITFORINTERACT"
    BY <1>2, <2>1, <2>6, Short DEF Agrees, Fits, FitsWaiting, FitsDone, Thawing
  <2>7. CASE cs \in {"WAITFORPHASE2", "SAVEDONE"}
    BY <2>1, <2>7 DEF Fits, FitsPhase2, FitsDone
  <2>. QED BY <2>2, <2>3, <2>4, <2>5, <2>6, <2>7
<1>. QED BY <1>1, <1>2

-----------------------------------------------------------------------------
(* Every action of the manager keeps the invariant *)

\* Serving a message brings no request.
LEMMA AsksLeft ==
  ASSUME LibInv, NEW c \in Apps, Serves(c)
  PROVE  AsksSave(c)' => AsksSave(c)
<1>. SUFFICES ASSUME AsksSave(c)' PROVE AsksSave(c)
  OBVIOUS
<1>1. PICK i \in DOMAIN toManager'[c] : toManager'[c][i] = "SaveRequest"
  BY DEF AsksSave, Range
<1>2. PICK j \in DOMAIN toManager[c] : toManager[c][j] = toManager'[c][i]
  BY Left
<1>. QED BY <1>1, <1>2 DEF AsksSave, Range

\* The manager drops a client, or hears it has gone.
LEMMA GoodbyeFits ==
  ASSUME SessionInv, [Next]_vars, ~quit, NEW c \in Apps, NEW after \in {"closed", "orphaned"},
         M!CloseConnection(c, after), Tell(Says),
         UNCHANGED <<state, connVars, saveVars, idle, dialog>>,
         Serves(c), \A d \in Apps \ {c} : toManager'[d] = toManager[d],
         after = "orphaned" /\ mstate # "SHUTDOWNPHASE2" => conn[c] # "closed",
         after = "closed" => link[c] = "none" \/ c \in Breaking
  PROVE  SessionInv'
<1>1. /\ EveryoneTakesPart'
      /\ Settled => Settled'
      /\ mstate \in {"STARTUP", "IDLE", "SHUTDOWNPHASE2"} => mstate' = mstate
      /\ conn'[c] = IF mstate = "SHUTDOWNPHASE2" THEN "closed" ELSE after
      /\ Says[c] = <<>>
      /\ OthersMove(Says, c)
  BY CloseMoves
<1>2. LibInv /\ OneRequest
  BY DEF SessionInv
<1>3. OneRequest'
  <2>1. \A d \in Apps : Serves(d)
    BY DEF Serves
  <2>2. \A d \in Apps : AsksSave(d)' => AsksSave(d)
    BY <1>2, <2>1, AsksLeft
  <2>3. LibInv'
    BY PartsKeep DEF SessionInv
  <2>. QED BY <1>1, <1>2, <2>2, <2>3, CalmKeeps
<1>4. ClientFits(c)' /\ toClient'[c] \in Seq(Told)
  <2>1. Says[c] \in Seq(Told \ {"IOError"}) /\ ~(Says[c] # <<>>)
    BY <1>1, EmptySeq, Zenon
  <2>3. "Die" \notin Range(Says[c])
    BY <2>1, FewSaid
  <2>2. /\ conn'[c] # "new" /\ conn'[c] # "registered"
        /\ conn'[c] # "closed" => conn[c] # "closed"
        /\ conn'[c] = "closed" => c \in Breaking \/ link[c] = "none" \/ mstate' = "SHUTDOWNPHASE2"
    BY <1>1
  <2>. QED BY <1>1, <2>1, <2>2, <2>3, TellKeeps
<1>. QED BY <1>1, <1>3, <1>4, AllFit

\* What the manager hears from a client that is registered.
LEMMA Hears ==
  ASSUME SessionInv, NEW c \in Apps, NEW m, Takes(c, m)
  PROVE  /\ UNCHANGED <<state, connVars, saveVars>> /\ Serves(c)
         /\ toManager[c] # <<>> /\ Head(toManager[c]) = m /\ toManager'[c] = Tail(toManager[c])
         /\ \A d \in Apps \ {c} : toManager'[d] = toManager[d]
         /\ m # "IOError" => ~Broken(c)
         /\ conn[c] = "registered" /\ ~quit /\ m # "IOError" =>
              Meant(c, m, mstate, cstate[c], toManager'[c], toClient[c])
<1>1. /\ UNCHANGED <<state, connVars, saveVars>>
      /\ toManager[c] # <<>> /\ Head(toManager[c]) = m /\ toManager'[c] = Tail(toManager[c])
      /\ \A d \in Apps \ {c} : toManager'[d] = toManager[d]
  BY DEF Takes, SessionInv, LibInv, LibTypeOK
<1>2. Serves(c)
  BY <1>1 DEF Serves
<1>3. m # "IOError" => ~Broken(c)
  BY <1>1 DEF Broken
<1>4. ASSUME conn[c] = "registered", ~quit, m # "IOError"
      PROVE  /\ cstate[c] \in {"IDLE", "INTERACTING", "SAVEDONE", "SAVING", "SAVINGLOCAL",
                               "WAITFORINTERACT", "WAITFORPHASE2"}
             /\ cstate[c] \in {"INTERACTING", "SAVING", "WAITFORINTERACT"} => mstate \in {"CHECKPOINT", "SHUTDOWN"}
             /\ Agrees(c, mstate, cstate[c], toManager[c], toClient[c])
  <2>1. MgrFacts /\ EveryoneTakesPart /\ InStep(c)
    BY ManagerFacts DEF SessionInv, ClientFits
  <2>. QED BY <1>3, <1>4, <2>1 DEF MgrFacts, EveryoneTakesPart, InStep, Agrees
<1>. QED BY <1>1, <1>2, <1>3, <1>4, Heard

\* During a save: what c says leaves it in state s of the manager state ms, and all go on
\* from there as they are told.
LEMMA SpeaksFits ==
  ASSUME SessionInv, [Next]_vars, ~quit, NEW c \in Apps, NEW m, Takes(c, m), NEW tell, Tell(tell),
         UNCHANGED <<running, conn, idle, dialog>>,
         conn[c] = "registered", mstate \in {"CHECKPOINT", "SHUTDOWN"},
         mstate' # "SHUTDOWNPHASE2" => UNCHANGED <<dieTimer, quit>>,
         NEW ms \in {"CHECKPOINT", "SHUTDOWN"}, NEW s \in {"SAVING", "SAVEDONE", "WAITFORINTERACT", "WAITFORPHASE2"},
         Agrees(c, ms, s, toManager'[c], toClient[c]),
         Moved(ms, s, mstate', cstate'[c], tell[c]),
         ms = "SHUTDOWN" /\ mstate' = "SHUTDOWNPHASE2" => ~quit',
         \A d \in Apps \ {c} :
           /\ conn[d] = "registered" =>
                /\ Moved(mstate, cstate[d], mstate', cstate'[d], tell[d])
                /\ mstate = "SHUTDOWN" /\ mstate' = "SHUTDOWNPHASE2" => ~quit'
           /\ conn[d] # "registered" => tell[d] = <<>> /\ cstate'[d] = cstate[d]
  PROVE  SessionInv'
<1>0. /\ MgrFacts /\ EveryoneTakesPart /\ LibInv /\ OneRequest
      /\ \A d \in Apps : conn[d] # "new" /\ cstate[d] # "SAVINGLOCAL"
  BY ManagerFacts, SavesSettled DEF SessionInv
<1>1. /\ UNCHANGED <<state, connVars, saveVars>> /\ Serves(c)
      /\ \A d \in Apps \ {c} : toManager'[d] = toManager[d]
  BY Hears
<1>2. /\ cstate'[c] \notin {"SAVINGLOCAL", "DISCONNECTED"}
      /\ mstate' # "IDLE" => cstate'[c] # "IDLE"
      /\ mstate' \in {"CHECKPOINT", "SHUTDOWN", "SHUTDOWNPHASE2", "IDLE"}
  BY DEF Moved
<1>3. ASSUME NEW d \in Apps \ {c}, conn[d] = "registered"
      PROVE  /\ cstate'[d] \in {"SAVINGLOCAL", "DISCONNECTED"} => cstate'[d] = cstate[d]
             /\ mstate' # "IDLE" /\ cstate'[d] = "IDLE" => cstate[d] = "IDLE"
  BY <1>3 DEF Moved
<1>4. M!Running' = M!Running
  BY DEF M!Running
<1>5. EveryoneTakesPart'
  <2>1. \A d \in M!Running' : conn'[d] = "registered"
    BY <1>0, <1>4 DEF EveryoneTakesPart
  <2>2. mstate' \notin {"STARTUP", "IDLE"} => \A d \in M!Running' : cstate'[d] # "IDLE"
    BY <1>0, <1>2, <1>3, <1>4 DEF EveryoneTakesPart, MgrFacts
  <2>3. \A d \in Apps : cstate'[d] = "DISCONNECTED" => conn'[d] # "registered"
    BY <1>0, <1>2, <1>3 DEF EveryoneTakesPart
  <2>4. dieTimer' \/ quit' => mstate' = "SHUTDOWNPHASE2"
    BY <1>0 DEF EveryoneTakesPart
  <2>. QED BY <2>1, <2>2, <2>3, <2>4 DEF EveryoneTakesPart
<1>6. OneRequest'
  <2>1. \A d \in Apps : AsksSave(d)' => AsksSave(d)
    BY <1>0, <1>1, AsksLeft DEF Serves
  <2>2. LibInv'
    BY PartsKeep DEF SessionInv
  <2>3. \A d \in Apps : cstate'[d] # "SAVINGLOCAL" /\ conn'[d] # "new"
    BY <1>0, <1>2, <1>3
  <2>4. Settled'
    BY <2>3 DEF Settled
  <2>. QED BY <1>0, <2>1, <2>2, <2>4, CalmKeeps
<1>7. OthersMove(tell, c)
  <2>1. ASSUME NEW d \in Apps \ {c}, conn[d] = "registered" PROVE cstate[d] # "IDLE"
    BY <1>0, <2>1 DEF MgrFacts, EveryoneTakesPart
  <2>. QED BY <1>0, <2>1 DEF OthersMove
<1>8. ClientFits(c)' /\ toClient'[c] \in Seq(Told)
  <2>1. IF link[c] = "none" THEN LastWords(ms, s, toManager'[c])
        ELSE Fits(c, ms, s, toManager'[c], toClient[c])
    BY DEF Agrees
  <2>. QED BY <1>1, <1>5, <2>1, ActorFits
<1>. QED BY <1>1, <1>5, <1>6, <1>7, <1>8, AllFit

LEMMA InteractRequestFits ==
  ASSUME SessionInv, [Next]_vars, NEW c \in Apps, ServeInteractRequest(c)
  PROVE  SessionInv'
<1>0. Takes(c, "InteractRequest") /\ M!InteractRequest(c) /\ Tell(Says) /\ MgrFacts
  BY ManagerFacts DEF ServeInteractRequest, SessionInv
<1>1. ~quit /\ conn[c] = "registered"
  BY <1>0 DEF M!InteractRequest, M!Speaking
<1>2. cstate[c] = "SAVING" /\ Agrees(c, mstate, "WAITFORINTERACT", toManager'[c], toClient[c])
  BY <1>0, <1>1, Hears DEF Meant
<1>3. mstate \in {"CHECKPOINT", "SHUTDOWN"}
  BY <1>0, <1>2 DEF MgrFacts
<1>4. /\ UNCHANGED <<running, conn, idle, dialog, mstate, dieTimer, quit>>
      /\ cstate'[c] \in {"WAITFORINTERACT", "INTERACTING"}
      /\ \A d \in Apps \ {c} : cstate'[d] = cstate[d]
  BY <1>0, <1>2, <1>3 DEF M!InteractRequest, M!SavePhases, M!requestVars, M!saveVars, M!InteractGrant, MgrFacts
<1>5. Moved(mstate, "WAITFORINTERACT", mstate', cstate'[c], Says[c])
  BY <1>2, <1>3, <1>4 DEF Moved, Says
<1>6. \A d \in Apps \ {c} : Moved(mstate, cstate[d], mstate', cstate'[d], Says[d]) /\ Says[d] = <<>>
  BY <1>3, <1>4 DEF Moved, Says
<1>. QED BY <1>0, <1>1, <1>2, <1>3, <1>4, <1>5, <1>6, SpeaksFits

LEMMA InteractDoneFits ==
  ASSUME SessionInv, [Next]_vars, NEW c \in Apps, NEW cancel \in BOOLEAN, ServeInteractDone(c, cancel)
  PROVE  SessionInv'
<1>. DEFINE m == IF cancel THEN "InteractCancel" ELSE "InteractDone"
<1>0. Takes(c, m) /\ M!InteractDone(c, cancel) /\ MgrFacts
  BY ManagerFacts DEF ServeInteractDone, SessionInv
<1>1. ~quit /\ conn[c] = "registered"
  BY <1>0 DEF M!InteractDone, M!Speaking
<1>2. /\ cstate[c] = "INTERACTING"
      /\ Agrees(c, IF cancel THEN "CHECKPOINT" ELSE mstate, "SAVING", toManager'[c], toClient[c])
  BY <1>0, <1>1, Hears DEF Meant
<1>3. mstate \in {"CHECKPOINT", "SHUTDOWN"}
  BY <1>0, <1>2 DEF MgrFacts
<1>4. UNCHANGED <<running, conn, idle, dialog, dieTimer, quit>>
  BY <1>0, <1>2, <1>3 DEF M!InteractDone, M!SavePhases, M!requestVars, M!saveVars
<1>5. CASE cancel /\ mstate = "SHUTDOWN"
  <2>1. mstate' = "CHECKPOINT" /\ cstate' = [cstate EXCEPT ![c] = "SAVING"]
    BY <1>0, <1>2, <1>5 DEF M!InteractDone, M!SavePhases
  <2>. DEFINE tell == ToEach(CancelsFor, "ShutdownCancelled")
  <2>2. Tell(tell)
    BY <1>5, <2>1 DEF ServeInteractDone
  <2>3. Moved("CHECKPOINT", "SAVING", mstate', cstate'[c], tell[c])
    BY <1>0, <1>2, <2>1 DEF Moved, ToEach, CancelsFor, MgrFacts
  <2>4. ASSUME NEW d \in Apps \ {c}
        PROVE  /\ conn[d] = "registered" => Moved(mstate, cstate[d], mstate', cstate'[d], tell[d])
               /\ conn[d] # "registered" => tell[d] = <<>> /\ cstate'[d] = cstate[d]
    <3>1. cstate'[d] = cstate[d]
      BY <1>0, <2>1 DEF MgrFacts
    <3>2. d \in M!Running <=> conn[d] = "registered"
      BY <1>0, <1>3 DEF MgrFacts, SessionInv, EveryoneTakesPart
    <3>. QED BY <1>5, <2>1, <3>1, <3>2 DEF Moved, ToEach, CancelsFor
  <2>. HIDE DEF tell
  <2>. QED BY <1>0, <1>1, <1>2, <1>3, <1>4, <1>5, <2>1, <2>2, <2>3, <2>4, SpeaksFits
<1>6. CASE ~(cancel /\ mstate = "SHUTDOWN")
  <2>1. /\ mstate' = mstate
        /\ \/ cstate' = [cstate EXCEPT ![c] = "SAVING"]
           \/ \E i \in DOMAIN running :
                /\ M!FirstWaiting(i)
                /\ cstate' = [cstate EXCEPT ![c] = "SAVING", ![running[i]] = "INTERACTING"]
    BY <1>0, <1>2, <1>3, <1>6 DEF M!InteractDone, M!SavePhases, M!saveVars
  <2>2. Tell(Says)
    BY <1>3, <1>6, <2>1 DEF ServeInteractDone
  <2>3. /\ cstate'[c] = "SAVING"
        /\ \A d \in Apps \ {c} : \/ cstate'[d] = cstate[d]
                                 \/ /\ d \in M!Running /\ cstate[d] = "WAITFORINTERACT"
                                    /\ cstate'[d] = "INTERACTING"
    <3>1. CASE cstate' = [cstate EXCEPT ![c] = "SAVING"]
      BY <1>0, <3>1 DEF MgrFacts
    <3>2. ASSUME NEW i \in DOMAIN running, M!FirstWaiting(i),
                 cstate' = [cstate EXCEPT ![c] = "SAVING", ![running[i]] = "INTERACTING"]
          PROVE  <2>3
      <4>1. running[i] \in M!Running /\ cstate[running[i]] = "WAITFORINTERACT" /\ running[i] # c
        BY <1>2, <3>2 DEF M!FirstWaiting, M!Running, M!ToSet
      <4>. QED BY <1>0, <3>2, <4>1 DEF MgrFacts
    <3>. QED BY <2>1, <3>1, <3>2
  <2>4. Moved(mstate, "SAVING", mstate', cstate'[c], Says[c])
    BY <1>2, <1>3, <2>1, <2>3 DEF Moved, Says
  <2>5. ASSUME NEW d \in Apps \ {c}
        PROVE  /\ conn[d] = "registered" => Moved(mstate, cstate[d], mstate', cstate'[d], Says[d])
               /\ conn[d] # "registered" => Says[d] = <<>> /\ cstate'[d] = cstate[d]
    <3>1. d \in M!Running => conn[d] = "registered"
      BY <1>3 DEF SessionInv, EveryoneTakesPart
    <3>. QED BY <1>3, <2>1, <2>3, <3>1 DEF Moved, Says
  <2>. QED BY <1>0, <1>1, <1>2, <1>3, <1>4, <1>6, <2>1, <2>2, <2>4, <2>5, SpeaksFits
<1>. QED BY <1>5, <1>6

LEMMA Phase2RequestFits ==
  ASSUME SessionInv, [Next]_vars, NEW c \in Apps, ServePhase2Request(c)
  PROVE  SessionInv'
<1>. DEFINE cs == [cstate EXCEPT ![c] = "WAITFORPHASE2"]
            tell == ToEach(M!Released(cs), "SaveYourselfPhase2")
<1>0. Takes(c, "Phase2Request") /\ M!Phase2Request(c) /\ MgrFacts
  BY ManagerFacts DEF ServePhase2Request, SessionInv
<1>1. ~quit /\ conn[c] = "registered"
  BY <1>0 DEF M!Phase2Request, M!Speaking
<1>2. cstate[c] = "SAVING" /\ Agrees(c, mstate, "WAITFORPHASE2", toManager'[c], toClient[c])
  BY <1>0, <1>1, Hears DEF Meant
<1>3. mstate \in {"CHECKPOINT", "SHUTDOWN"}
  BY <1>0, <1>2 DEF MgrFacts
<1>4. /\ UNCHANGED <<running, conn, idle, dialog, mstate, dieTimer, quit>>
      /\ cstate' = [d \in Apps |-> IF d \in M!Released(cs) THEN "SAVING" ELSE cs[d]]
  BY <1>0, <1>3 DEF M!Phase2Request, M!SavePhases, M!requestVars, M!saveVars, M!Clients
<1>5. Tell(tell)
  BY <1>3 DEF ServePhase2Request, M!SavePhases
<1>6. /\ M!Released(cs) \subseteq {d \in M!Running : cs[d] = "WAITFORPHASE2"}
      /\ cs[c] = "WAITFORPHASE2" /\ \A d \in Apps \ {c} : cs[d] = cstate[d]
  BY <1>0 DEF M!Released, M!InState, M!Running, MgrFacts
<1>7. Moved(mstate, "WAITFORPHASE2", mstate', cstate'[c], tell[c])
  <2>. HIDE DEF cs
  <2>. QED BY <1>3, <1>4, <1>6 DEF Moved, ToEach
<1>8. ASSUME NEW d \in Apps \ {c}
      PROVE  /\ conn[d] = "registered" => Moved(mstate, cstate[d], mstate', cstate'[d], tell[d])
             /\ conn[d] # "registered" => tell[d] = <<>> /\ cstate'[d] = cstate[d]
  <2>1. d \in M!Running => conn[d] = "registered"
    BY <1>3 DEF SessionInv, EveryoneTakesPart
  <2>. HIDE DEF cs
  <2>. QED BY <1>3, <1>4, <1>6, <2>1 DEF Moved, ToEach
<1>9. mstate' # "SHUTDOWNPHASE2" /\ UNCHANGED <<dieTimer, quit>>
  BY <1>3, <1>4
<1>. HIDE DEF tell, cs
<1>. QED BY <1>0, <1>1, <1>2, <1>3, <1>4, <1>5, <1>7, <1>8, <1>9, SpeaksFits

\* A client that saved itself locally is told at once that its save is complete.
LEMMA LocalDoneFits ==
  ASSUME SessionInv, [Next]_vars, NEW c \in Apps, ServeDone(c), cstate[c] = "SAVINGLOCAL"
  PROVE  SessionInv'
<1>. DEFINE tell == ToEach({c}, "SaveComplete")
<1>0. /\ Takes(c, "Done") /\ M!XsmpSaveYourselfDone(c) /\ Tell(tell)
      /\ MgrFacts /\ EveryoneTakesPart /\ LibInv /\ OneRequest
  BY ManagerFacts DEF ServeDone, SessionInv
<1>1. ~quit /\ conn[c] = "registered" /\ UNCHANGED <<idle, dialog>>
  BY <1>0 DEF M!XsmpSaveYourselfDone, M!Speaking, M!requestVars
<1>2. /\ Agrees(c, mstate, "IDLE", toManager'[c], <<"SaveComplete">>)
      /\ link[c] # "none" => toClient[c] = <<>>
  BY <1>0, <1>1, Hears DEF Meant
<1>3. mstate \in {"STARTUP", "IDLE"}
  BY SavesSettled
<1>4. /\ cstate' = [cstate EXCEPT ![c] = "IDLE"]
      /\ UNCHANGED <<running, conn, mstate, dieTimer, quit>>
  BY <1>0 DEF M!XsmpSaveYourselfDone, M!SaveYourselfDone, M!saveVars
<1>5. cstate'[c] = "IDLE" /\ \A d \in Apps \ {c} : cstate'[d] = cstate[d]
  BY <1>0, <1>4 DEF MgrFacts
<1>6. /\ UNCHANGED <<state, connVars, saveVars>> /\ Serves(c)
      /\ \A d \in Apps \ {c} : toManager'[d] = toManager[d]
  BY <1>0, Hears
<1>7. EveryoneTakesPart'
  BY <1>0, <1>3, <1>4, <1>5 DEF EveryoneTakesPart, M!Running, MgrFacts
<1>8. OneRequest'
  <2>1. \A d \in Apps : AsksSave(d)' => AsksSave(d)
    BY <1>0, <1>6, AsksLeft DEF Serves
  <2>2. LibInv'
    BY PartsKeep DEF SessionInv
  <2>3. Settled => Settled'
    BY <1>4, <1>5 DEF Settled
  <2>. QED BY <1>0, <1>1, <1>3, <1>4, <2>1, <2>2, <2>3, CalmKeeps
<1>9. OthersMove(tell, c)
  BY <1>1, <1>3, <1>4, <1>5 DEF OthersMove, Moved, ToEach
<1>10. ClientFits(c)' /\ toClient'[c] \in Seq(Told)
  <2>0. tell[c] = <<"SaveComplete">> /\ tell[c] \in Seq(Told \ {"IOError"})
    BY DEF ToEach, Told, ToldByManager
  <2>1. tell[c] = <<"SaveComplete">> /\ tell[c] \in Seq(Told \ {"IOError"})
        /\ "Die" \notin Range(tell[c])
    <3>. HIDE DEF tell
    <3>. QED BY <2>0, FewSaid
  <2>2. link[c] # "none" => toClient[c] \o tell[c] = <<"SaveComplete">>
    BY <1>2, <2>1, Joined
  <2>3. IF link[c] = "none" THEN LastWords(mstate', cstate'[c], toManager'[c])
        ELSE Fits(c, mstate', cstate'[c], toManager'[c], toClient[c] \o tell[c])
    <3>1. CASE link[c] = "none"
      BY <1>2, <1>4, <1>5, <3>1 DEF Agrees
    <3>2. CASE link[c] # "none"
      <4>1. Fits(c, mstate, "IDLE", toManager'[c], <<"SaveComplete">>)
        BY <1>2, <3>2 DEF Agrees
      <4>. QED BY <1>4, <1>5, <2>2, <3>2, <4>1
    <3>. QED BY <3>1, <3>2
  <2>. HIDE DEF tell
  <2>. QED BY <1>0, <1>1, <1>3, <1>4, <1>5, <1>6, <1>7, <2>1, <2>3, TellKeeps
<1>. HIDE DEF tell
<1>. QED BY <1>0, <1>1, <1>3, <1>4, <1>6, <1>7, <1>8, <1>9, <1>10, AllFit

LEMMA DoneFits ==
  ASSUME SessionInv, [Next]_vars, NEW c \in Apps, ServeDone(c)
  PROVE  SessionInv'
<1>0. Takes(c, "Done") /\ M!XsmpSaveYourselfDone(c) /\ MgrFacts
  BY ManagerFacts DEF ServeDone, SessionInv
<1>1. ~quit /\ conn[c] = "registered" /\ UNCHANGED <<idle, dialog>> /\ M!SaveYourselfDone(c)
  BY <1>0 DEF M!XsmpSaveYourselfDone, M!Speaking, M!requestVars
<1>2. Meant(c, "Done", mstate, cstate[c], toManager'[c], toClient[c])
  BY <1>0, <1>1, Hears
<1>3. CASE cstate[c] = "SAVINGLOCAL"
  BY <1>3, LocalDoneFits
<1>4. CASE cstate[c] = "INTERACTING"
  <2>1. M!CloseConnection(c, "orphaned") /\ Tell(Says)
    BY <1>1, <1>4 DEF M!SaveYourselfDone, M!Nuke, ServeDone
  <2>2. /\ UNCHANGED <<state, connVars, saveVars>> /\ Serves(c)
        /\ \A d \in Apps \ {c} : toManager'[d] = toManager[d]
    BY <1>0, Hears
  <2>. QED BY <1>1, <2>1, <2>2, GoodbyeFits
<1>5. CASE cstate[c] \in {"SAVING", "WAITFORINTERACT"}
  <2>1. Agrees(c, mstate, "SAVEDONE", toManager'[c], toClient[c])
    BY <1>2, <1>5 DEF Meant
  <2>2. mstate \in {"CHECKPOINT", "SHUTDOWN"}
    BY <1>0, <1>5 DEF MgrFacts
  <2>. DEFINE cs == [cstate EXCEPT ![c] = "SAVEDONE"]
  <2>3. /\ M!CompleteSaveYourself(mstate, running, cs, timer \ {c}, saveSession)
        /\ UNCHANGED <<running, conn>> /\ Tell(Says)
    BY <1>1, <1>5, <2>2 DEF M!SaveYourselfDone, M!SavePhases, M!SecondRound, ServeDone
  <2>4. /\ cs \in [Apps -> M!ClientStates] /\ cs[c] = "SAVEDONE"
        /\ \A d \in Apps \ {c} : cs[d] = cstate[d]
    BY <1>0 DEF MgrFacts, M!ClientStates
  <2>. HIDE DEF cs
  <2>5. M!ToSet(running) = M!Running
    BY DEF M!Running
  <2>6. /\ mstate' # "SHUTDOWNPHASE2" => UNCHANGED <<dieTimer, quit>>
        /\ \A d \in Apps : d \notin M!Running => cstate'[d] = cs[d]
    BY <2>2, <2>3, <2>4, <2>5, CompleteShape
  <2>7. ASSUME NEW d \in Apps, conn[d] = "registered"
        PROVE  /\ Moved(mstate, cs[d], mstate', cstate'[d], Says[d])
               /\ mstate = "SHUTDOWN" /\ mstate' = "SHUTDOWNPHASE2" => ~quit'
    <3>1. d \in M!Running /\ cstate[d] \notin {"IDLE", "DISCONNECTED", "SAVINGLOCAL"}
      BY <1>0, <2>2, <2>7, SavesSettled DEF MgrFacts, SessionInv, EveryoneTakesPart
    <3>2. conn'[d] = "registered" /\ cs[d] \notin {"IDLE", "SAVINGLOCAL", "DISCONNECTED"}
          /\ (cs[d] = cstate[d] \/ cs[d] = "SAVEDONE")
      BY <2>3, <2>4, <2>7, <3>1
    <3>. QED BY <1>0, <2>2, <2>3, <2>4, <2>5, <3>1, <3>2, CompleteMoves
  <2>8. ASSUME NEW d \in Apps \ {c}, conn[d] # "registered"
        PROVE  Says[d] = <<>> /\ cstate'[d] = cstate[d]
    <3>1. d \notin M!Running
      BY <2>2, <2>8 DEF SessionInv, EveryoneTakesPart
    <3>2. cstate'[d] = cstate[d] /\ conn'[d] # "registered"
      BY <2>3, <2>4, <2>6, <2>8, <3>1
    <3>. QED BY <1>0, <3>2, NothingForOthers
  <2>9. Moved(mstate, "SAVEDONE", mstate', cstate'[c], Says[c])
    BY <1>1, <2>4, <2>7
  <2>10. \A d \in Apps \ {c} : conn[d] = "registered" =>
           Moved(mstate, cstate[d], mstate', cstate'[d], Says[d])
    BY <2>4, <2>7
  <2>. QED BY <1>0, <1>1, <2>1, <2>2, <2>3, <2>6, <2>7, <2>8, <2>9, <2>10, SpeaksFits
<1>. QED BY <1>2, <1>3, <1>4, <1>5 DEF Meant

\* The transport of a client that is not registered is closed.
LEMMA TransportGone ==
  ASSUME SessionInv, [Next]_vars, ~quit, NEW c \in Apps, conn[c] # "registered",
         conn' = [conn EXCEPT ![c] = "closed"], Tell(Says),
         UNCHANGED <<running, cstate, mstate, dieTimer, quit, idle, dialog>>,
         UNCHANGED <<state, connVars, saveVars>>,
         Serves(c), \A d \in Apps \ {c} : toManager'[d] = toManager[d],
         link[c] = "none" \/ c \in Breaking
  PROVE  SessionInv'
<1>0. MgrFacts /\ EveryoneTakesPart /\ LibInv /\ OneRequest
  BY ManagerFacts DEF SessionInv
<1>1. conn'[c] = "closed" /\ \A d \in Apps \ {c} : conn'[d] = conn[d]
  BY <1>0 DEF MgrFacts
<1>2. EveryoneTakesPart'
  BY <1>0, <1>1 DEF EveryoneTakesPart, M!Running
<1>3. OneRequest'
  <2>1. \A d \in Apps : AsksSave(d)' => AsksSave(d)
    BY <1>0, AsksLeft DEF Serves
  <2>2. LibInv'
    BY PartsKeep DEF SessionInv
  <2>3. Settled => Settled'
    BY <1>1 DEF Settled
  <2>. QED BY <1>0, <2>1, <2>2, <2>3, CalmKeeps
<1>4. Says = [d \in Apps |-> <<>>]
  BY DEF Says, M!SavePhases
<1>5. \A d \in Apps : Says[d] = <<>>
  BY <1>4
<1>6. OthersMove(Says, c)
  BY <1>1, <1>5 DEF OthersMove, Moved
<1>7. ClientFits(c)' /\ toClient'[c] \in Seq(Told)
  <2>1. Says[c] \in Seq(Told \ {"IOError"}) /\ ~(Says[c] # <<>>)
    BY <1>5, EmptySeq, Zenon
  <2>2. "Die" \notin Range(Says[c])
    BY <1>5, FewSaid
  <2>. QED BY <1>1, <1>2, <2>1, <2>2, TellKeeps
<1>. QED BY <1>2, <1>3, <1>6, <1>7, AllFit

LEMMA CloseFits ==
  ASSUME SessionInv, [Next]_vars, NEW c \in Apps, ServeClose(c)
  PROVE  SessionInv'
<1>1. /\ Takes(c, "Close") /\ Tell(Says)
      /\ \/ conn[c] \in {"new", "registered"} /\ M!XsmpCloseConnection(c)
         \/ conn[c] = "orphaned" /\ M!IceIOError(c)
  BY DEF ServeClose
<1>2. /\ UNCHANGED <<state, connVars, saveVars>> /\ Serves(c)
      /\ \A d \in Apps \ {c} : toManager'[d] = toManager[d]
  BY <1>1, Hears
<1>3. link[c] = "none"
  <2>1. toManager[c] \in Seq(Messages) /\ toManager[c] # <<>> /\ Head(toManager[c]) = "Close"
    BY <1>1 DEF Takes, SessionInv, LibInv, LibTypeOK, Messages
  <2>2. 1 \in DOMAIN toManager[c] /\ toManager[c][1] = "Close"
    BY <2>1
  <2>. QED BY <2>2 DEF SessionInv, ClientFits, Transported
<1>4. CASE conn[c] \in {"new", "registered"} /\ M!XsmpCloseConnection(c)
  <2>1. ~quit /\ M!CloseConnection(c, "closed") /\ UNCHANGED <<idle, dialog>>
    BY <1>4 DEF M!XsmpCloseConnection, M!requestVars
  <2>. QED BY <1>1, <1>2, <1>3, <2>1, GoodbyeFits
<1>5. CASE conn[c] = "orphaned" /\ M!IceIOError(c)
  <2>1. /\ ~quit /\ conn[c] # "registered" /\ conn' = [conn EXCEPT ![c] = "closed"]
        /\ UNCHANGED <<running, cstate, mstate, dieTimer, quit, idle, dialog>>
    BY <1>5 DEF M!IceIOError, M!Speaking, M!requestVars, M!saveVars
  <2>. QED BY <1>1, <1>2, <1>3, <2>1, TransportGone
<1>. QED BY <1>1, <1>4, <1>5

LEMMA IOErrorFits ==
  ASSUME SessionInv, [Next]_vars, NEW c \in Apps, ServeIOError(c)
  PROVE  SessionInv'
<1>1. Takes(c, "IOError") /\ Tell(Says) /\ M!IceIOError(c)
  BY DEF ServeIOError
<1>2. /\ UNCHANGED <<state, connVars, saveVars>> /\ Serves(c)
      /\ \A d \in Apps \ {c} : toManager'[d] = toManager[d]
  BY <1>1, Hears
<1>3. c \in Breaking
  <2>1. toManager[c] \in Seq(Messages) /\ toManager[c] # <<>> /\ Head(toManager[c]) = "IOError"
    BY <1>1 DEF Takes, SessionInv, LibInv, LibTypeOK, Messages
  <2>2. 1 \in DOMAIN toManager[c] /\ toManager[c][1] = "IOError"
    BY <2>1
  <2>. QED BY <2>2 DEF SessionInv, ClientFits, Transported
<1>4. ~quit /\ UNCHANGED <<idle, dialog>>
  BY <1>1 DEF M!IceIOError, M!requestVars
<1>5. CASE M!Speaking(c)
  <2>1. M!CloseConnection(c, "closed")
    BY <1>1, <1>5 DEF M!IceIOError
  <2>. QED BY <1>1, <1>2, <1>3, <1>4, <2>1, GoodbyeFits
<1>6. CASE ~M!Speaking(c)
  <2>1. /\ conn[c] # "registered" /\ conn' = [conn EXCEPT ![c] = "closed"]
        /\ UNCHANGED <<running, cstate, mstate, dieTimer, quit>>
    <3>1. conn[c] = "registered" => c \in M!Running
      BY ManagerFacts DEF SessionInv, MgrFacts
    <3>. QED BY <1>1, <1>6, <3>1 DEF M!IceIOError, M!Speaking, M!saveVars
  <2>. QED BY <1>1, <1>2, <1>3, <1>4, <2>1, TransportGone
<1>. QED BY <1>5, <1>6

\* A client that does nothing, and hears and is asked nothing, still fits; its timer may
\* expire.
Untouched(d) ==
  /\ state'[d] = state[d] /\ link'[d] = link[d] /\ frames'[d] = frames[d]
  /\ (reconnect'[d] => reconnect[d]) /\ agreed'[d] = agreed[d] /\ cancelled'[d] = cancelled[d]
  /\ toManager'[d] = toManager[d] /\ toClient'[d] = toClient[d]

LEMMA UntouchedFits ==
  ASSUME UNCHANGED <<mstate, cstate, quit>>, NEW d \in Apps, conn'[d] = conn[d],
         ClientFits(d), Untouched(d)
  PROVE  ClientFits(d)'
<1>1. UNCHANGED <<mstate, cstate, quit>> /\ conn'[d] = conn[d]
  OBVIOUS
<1>2. ASSUME Fits(d, mstate, cstate[d], toManager[d], toClient[d])
      PROVE  Fits(d, mstate, cstate[d], toManager[d], toClient[d])'
  <2>1. \A s, fs : At(d, s, fs) => At(d, s, fs)'
    BY DEF At, Untouched
  <2>2. Opening(d) => Opening(d)'
    BY DEF Opening, Untouched
  <2>3. \A ms : Consents(d, ms) => Consents(d, ms)'
    BY DEF Consents, Untouched
  <2>4. Thawing(d) => Thawing(d)'
    BY <2>1 DEF Thawing
  <2>5. \A k, tc : Asked(d, k, tc) => Asked(d, k, tc)'
    BY <2>1, <2>2, <2>4 DEF Asked
  <2>6. \A tm, tc : FitsIdle(d, tm, tc) => FitsIdle(d, tm, tc)'
    BY <2>1, <2>2, <2>4 DEF FitsIdle
  <2>7. \A tm, tc : FitsLocal(d, tm, tc) => FitsLocal(d, tm, tc)'
    BY <2>1, <2>2 DEF FitsLocal
  <2>8. \A ms, tm, tc : FitsSaving(d, ms, tm, tc) => FitsSaving(d, ms, tm, tc)'
    BY <2>1, <2>3, <2>5, ZenonT(60) DEF FitsSaving
  <2>9. \A ms, tm, tc : FitsInteracting(d, ms, tm, tc) => FitsInteracting(d, ms, tm, tc)'
    BY <2>1 DEF FitsInteracting, FitsMisled, Untouched
  <2>10. \A ms, tm, tc : FitsWaiting(d, ms, tm, tc) => FitsWaiting(d, ms, tm, tc)'
    BY <2>1 DEF FitsWaiting
  <2>11. \A ms, tm, tc : FitsPhase2(d, ms, tm, tc) => FitsPhase2(d, ms, tm, tc)'
    BY <2>1, <2>3 DEF FitsPhase2
  <2>12. \A ms, tm, tc : FitsDone(d, ms, tm, tc) => FitsDone(d, ms, tm, tc)'
    BY <2>1, <2>4 DEF FitsDone, Untouched
  <2>. QED BY <1>1, <1>2, <2>6, <2>7, <2>8, <2>9, <2>10, <2>11, <2>12 DEF Fits, Untouched
<1>3. InStep(d)'
  BY <1>1, <1>2 DEF ClientFits, InStep, Broken, Untouched
<1>4. Arrives(d)' /\ Transported(d)'
  BY <1>1 DEF ClientFits, Arrives, Transported, Broken, Opening, Untouched
<1>5. OpensClean(d)' /\ DiesAsked(d)' /\ HearsOfEnd(d)'
  BY <1>1 DEF ClientFits, OpensClean, DiesAsked, HearsOfEnd, Untouched
<1>. QED BY <1>3, <1>4, <1>5 DEF ClientFits

\* What is said to a manager that is gone, or does not listen, gets lost.
LEMMA UnservedFits ==
  ASSUME SessionInv, [Next]_vars, NEW c \in Apps, Unserved(c)
  PROVE  SessionInv'
<1>0. /\ toManager[c] # <<>> /\ toManager' = [toManager EXCEPT ![c] = Tail(@)]
      /\ UNCHANGED <<state, connVars, saveVars, mgrVars, toClient>>
      /\ quit \/ conn[c] \in {"closed", "orphaned"}
      /\ MgrFacts /\ EveryoneTakesPart /\ LibInv /\ OneRequest
  BY ManagerFacts DEF SessionInv, Unserved
<1>. UNCHANGED <<state, link, reconnect, frames, agreed, cancelled>>
  BY <1>0 DEF connVars, saveVars
<1>. UNCHANGED mgrVars
  BY <1>0
<1>. USE DEF mgrVars
<1>1. Serves(c) /\ \A d \in Apps \ {c} : toManager'[d] = toManager[d]
  BY <1>0 DEF Serves, LibInv, LibTypeOK
<1>2. MP!IInv' /\ LibInv'
  BY PartsKeep DEF SessionInv
<1>3. EveryoneTakesPart'
  BY <1>0 DEF EveryoneTakesPart, M!Running
<1>4. OneRequest'
  <2>1. \A d \in Apps : AsksSave(d)' => AsksSave(d)
    BY <1>0, <1>1, AsksLeft DEF Serves
  <2>2. Settled => Settled'
    BY DEF Settled
  <2>. QED BY <1>0, <1>2, <2>1, <2>2, CalmKeeps
<1>5. ASSUME NEW d \in Apps \ {c} PROVE ClientFits(d)'
  BY <1>0, <1>1, UntouchedFits DEF SessionInv, Untouched
<1>6. ClientFits(c)'
  <2>1. ClientFits(c)
    BY DEF SessionInv
  <2>2. InStep(c)' /\ OpensClean(c)' /\ DiesAsked(c)' /\ HearsOfEnd(c)'
    BY <1>0, <2>1 DEF ClientFits, InStep, OpensClean, DiesAsked, HearsOfEnd
  <2>3. Arrives(c)'
    <3>1. quit => conn[c] # "new"
      BY <1>0, SavesSettled DEF EveryoneTakesPart
    <3>. QED BY <1>0, <3>1 DEF Arrives
  <2>4. Transported(c)'
    <3>1. /\ toManager'[c] \in Seq(Messages)
          /\ \A i \in DOMAIN toManager'[c] :
               \E j \in DOMAIN toManager[c] : j > 1 /\ toManager[c][j] = toManager'[c][i]
      <4>1. toManager'[c] # toManager[c]
        <5>1. toManager[c] \in Seq(Messages) /\ toManager'[c] = Tail(toManager[c])
              /\ toManager[c] # <<>>
          BY <1>0 DEF LibInv, LibTypeOK, Messages
        <5>2. Len(toManager'[c]) = Len(toManager[c]) - 1 /\ Len(toManager[c]) \in Nat
          BY <5>1
        <5>. QED BY <5>2
      <4>. QED BY <1>0, <1>1, <4>1, Left
    <3>2. \A i \in DOMAIN toManager'[c] :
            toManager'[c][i] # "IOError" /\ (toManager'[c][i] = "Close" => link[c] = "none")
      BY <2>1, <3>1 DEF ClientFits, Transported
    <3>3. ~Broken(c)'
      <4>1. SUFFICES ASSUME toManager'[c] # <<>>, Head(toManager'[c]) = "IOError" PROVE FALSE
        BY DEF Broken
      <4>2. 1 \in DOMAIN toManager'[c] /\ toManager'[c][1] = "IOError"
        BY <3>1, <4>1
      <4>. QED BY <3>2, <4>2
    <3>. QED BY <3>2, <3>3 DEF Transported
  <2>. QED BY <2>2, <2>3, <2>4 DEF ClientFits
<1>. QED BY <1>0, <1>2, <1>3, <1>4, <1>5, <1>6 DEF SessionInv

LEMMA SaveTimeoutFits ==
  ASSUME SessionInv, [Next]_vars, NEW c \in Apps, SaveTimeout(c)
  PROVE  SessionInv'
<1>1. /\ Tell(Says) /\ UNCHANGED libVars
      /\ ~quit /\ c \in timer /\ M!CloseConnection(c, "orphaned") /\ UNCHANGED <<idle, dialog>>
  BY DEF SaveTimeout, M!SaveTimeout, M!Nuke, M!requestVars
<1>2. UNCHANGED <<state, connVars, saveVars, toManager>>
  BY <1>1 DEF libVars
<1>3. mstate # "SHUTDOWNPHASE2" => conn[c] # "closed"
  BY <1>1, ManagerFacts DEF SessionInv, MgrFacts, EveryoneTakesPart
<1>. QED BY <1>1, <1>2, <1>3, GoodbyeFits DEF Serves

\* A step of the manager at which it serves nobody.
LEMMA NobodySpeaks ==
  ASSUME SessionInv, [Next]_vars, OneRequest', EveryoneTakesPart', ~quit, NEW tell, Tell(tell),
         UNCHANGED <<libVars, conn>>,
         mstate = "SHUTDOWNPHASE2" => mstate' = "SHUTDOWNPHASE2",
         \A d \in Apps :
           /\ conn[d] = "registered" =>
                /\ Moved(mstate, cstate[d], mstate', cstate'[d], tell[d])
                /\ mstate = "SHUTDOWN" /\ mstate' = "SHUTDOWNPHASE2" => ~quit'
                /\ cstate[d] = "IDLE" /\ cstate'[d] = "SAVING" => ~AsksSave(d)
           /\ conn[d] # "registered" => tell[d] = <<>>
           /\ conn[d] = "new" => ~quit'
  PROVE  SessionInv'
<1>. DEFINE nobody == CHOOSE x : x \notin Apps
<1>1. nobody \notin Apps
  BY NoSetContainsEverything
<1>. HIDE DEF nobody
<1>2. UNCHANGED <<state, connVars, saveVars, toManager>>
  BY DEF libVars
<1>3. OthersMove(tell, nobody)
  BY DEF OthersMove
<1>. QED BY <1>1, <1>2, <1>3, AllFit

\* Nothing is said, and no connection closed.
LEMMA Silent ==
  ASSUME toClient \in [Apps -> Seq(Told)], UNCHANGED <<toClient, conn, quit>>, ~quit
  PROVE  Tell(Nothing)
<1>1. Shut = {}
  BY DEF Shut
<1>2. ASSUME NEW c \in Apps
      PROVE  toClient[c] \o Nothing[c] \o (IF c \in Shut THEN <<"IOError">> ELSE <<>>) = toClient[c]
  <2>1. Nothing[c] = <<>> /\ (IF c \in Shut THEN <<"IOError">> ELSE <<>>) = <<>>
    BY <1>1 DEF Nothing
  <2>. QED BY <2>1, ConcatEmptySeq
<1>3. toClient' = [c \in Apps |-> toClient[c]]
  OBVIOUS
<1>. QED BY <1>2, <1>3 DEF Tell

LEMMA StartupDoneFits ==
  ASSUME SessionInv, [Next]_vars, StartupDone
  PROVE  SessionInv'
<1>0. MgrFacts /\ EveryoneTakesPart /\ LibInv /\ OneRequest /\ toClient \in [Apps -> Seq(Told)]
  BY ManagerFacts DEF SessionInv
<1>1. /\ ~quit /\ mstate = "STARTUP" /\ mstate' = "IDLE"
      /\ UNCHANGED <<running, cstate, conn, idle, dialog, dieTimer, quit, toClient, libVars>>
  BY DEF StartupDone, M!StartupDone, M!clientVars, M!requestVars
<1>2. EveryoneTakesPart'
  BY <1>0, <1>1 DEF EveryoneTakesPart, M!Running
<1>3. OneRequest'
  <2>1. \A d \in Apps : AsksSave(d)' => AsksSave(d)
    BY <1>1 DEF AsksSave, libVars
  <2>2. LibInv'
    BY PartsKeep DEF SessionInv
  <2>3. Settled => Settled'
    BY <1>1 DEF Settled
  <2>. QED BY <1>0, <1>1, <2>1, <2>2, <2>3, CalmKeeps
<1>4. Tell(Nothing)
  BY <1>0, <1>1, Silent
<1>5. \A d \in Apps : Moved(mstate, cstate[d], mstate', cstate'[d], Nothing[d]) /\ Nothing[d] = <<>>
  BY <1>1 DEF Moved, Nothing
<1>. QED BY <1>1, <1>2, <1>3, <1>4, <1>5, NobodySpeaks

LEMMA AskFits ==
  ASSUME SessionInv, [Next]_vars, Ask, Orderly
  PROVE  SessionInv'
<1>0. MgrFacts /\ EveryoneTakesPart /\ LibInv /\ OneRequest /\ toClient \in [Apps -> Seq(Told)]
  BY ManagerFacts DEF SessionInv
<1>1. /\ ~quit /\ mstate = "IDLE" /\ AtRest /\ Settled
      /\ UNCHANGED <<mstate, running, cstate, conn, dialog, dieTimer, quit, toClient, libVars>>
  BY DEF Ask, M!DbusCheckpoint, M!DbusShutdown, M!clientVars, M!saveVars
<1>2. EveryoneTakesPart'
  BY <1>0, <1>1 DEF EveryoneTakesPart, M!Running
<1>3. OneRequest'
  <2>1. Resting
    BY <1>0, <1>1, RestIs
  <2>2. dialog' = M!NoRequest /\ mstate' = "IDLE" /\ \A d \in Apps : ~AsksSave(d)'
    BY <1>1, <2>1 DEF Resting, AsksSave, libVars
  <2>3. Settled'
    BY <1>1 DEF Settled
  <2>. QED BY <2>2, <2>3 DEF OneRequest, M!NoRequest
<1>4. Tell(Nothing)
  BY <1>0, <1>1, Silent
<1>5. \A d \in Apps : Moved(mstate, cstate[d], mstate', cstate'[d], Nothing[d]) /\ Nothing[d] = <<>>
  BY <1>1 DEF Moved, Nothing
<1>. QED BY <1>1, <1>2, <1>3, <1>4, <1>5, NobodySpeaks

LEMMA DialogCancelledFits ==
  ASSUME SessionInv, [Next]_vars, DialogCancelled
  PROVE  SessionInv'
<1>0. MgrFacts /\ EveryoneTakesPart /\ LibInv /\ OneRequest /\ toClient \in [Apps -> Seq(Told)]
  BY ManagerFacts DEF SessionInv
<1>1. /\ ~quit /\ dialog # M!NoRequest /\ dialog' = M!NoRequest
      /\ UNCHANGED <<mstate, running, cstate, conn, idle, dieTimer, quit, toClient, libVars>>
  BY DEF DialogCancelled, M!DialogCancelled, M!clientVars, M!saveVars
<1>2. EveryoneTakesPart'
  BY <1>0, <1>1 DEF EveryoneTakesPart, M!Running
<1>3. OneRequest'
  <2>1. Settled /\ mstate = "IDLE" /\ \A d \in Apps : ~AsksSave(d)
    BY <1>0, <1>1, SavesSettled DEF OneRequest
  <2>2. Settled' /\ mstate' = "IDLE" /\ \A d \in Apps : ~AsksSave(d)'
    BY <1>1, <2>1 DEF Settled, AsksSave, libVars
  <2>. QED BY <1>1, <2>2 DEF OneRequest, M!NoRequest
<1>4. Tell(Nothing)
  BY <1>0, <1>1, Silent
<1>5. \A d \in Apps : Moved(mstate, cstate[d], mstate', cstate'[d], Nothing[d]) /\ Nothing[d] = <<>>
  BY <1>1 DEF Moved, Nothing
<1>6. \A d \in Apps : cstate'[d] = cstate[d] /\ (cstate[d] = "IDLE" => cstate'[d] # "SAVING")
  BY <1>1
<1>. QED BY <1>1, <1>2, <1>3, <1>4, <1>5, <1>6, NobodySpeaks

LEMMA DieTimeoutFits ==
  ASSUME SessionInv, [Next]_vars, DieTimeout
  PROVE  SessionInv'
<1>0. MgrFacts /\ EveryoneTakesPart /\ LibInv /\ OneRequest
  BY ManagerFacts DEF SessionInv
<1>1. /\ ~quit /\ dieTimer /\ Tell(Nothing)
      /\ UNCHANGED <<mstate, running, cstate, conn, idle, dialog, libVars>>
  BY DEF DieTimeout, M!DieTimeout, M!clientVars, M!requestVars
<1>2. mstate = "SHUTDOWNPHASE2" /\ \A d \in Apps : conn[d] # "new"
  BY <1>0, <1>1, SavesSettled DEF EveryoneTakesPart
<1>3. EveryoneTakesPart'
  BY <1>0, <1>1, <1>2 DEF EveryoneTakesPart, M!Running
<1>4. OneRequest'
  <2>1. \A d \in Apps : AsksSave(d)' => AsksSave(d)
    BY <1>1 DEF AsksSave, libVars
  <2>2. LibInv'
    BY PartsKeep DEF SessionInv
  <2>3. Settled => Settled'
    BY <1>1 DEF Settled
  <2>. QED BY <1>0, <1>1, <1>2, <2>1, <2>2, <2>3, CalmKeeps
<1>5. \A d \in Apps : Moved(mstate, cstate[d], mstate', cstate'[d], Nothing[d]) /\ Nothing[d] = <<>>
  BY <1>1 DEF Moved, Nothing
<1>. QED BY <1>1, <1>2, <1>3, <1>4, <1>5, NobodySpeaks

\* What xfsm_manager_save_yourself_global () does when no client saves itself locally:
\* without clients the save ends as it begins.
LEMMA BeginShape ==
  ASSUME MgrFacts, mstate = "IDLE", Settled,
         NEW ms \in {"CHECKPOINT", "SHUTDOWN"}, NEW save, M!BeginSave(ms, save)
  PROVE  /\ UNCHANGED <<running, conn>>
         /\ \A d \in Apps : cstate[d] = "IDLE"
         /\ \/ /\ mstate' = ms /\ UNCHANGED <<dieTimer, quit>>
               /\ \A d \in Apps : cstate'[d] = IF d \in M!Running THEN "SAVING" ELSE "IDLE"
               /\ \A d \in Apps : d \in M!Running /\ conn[d] = "registered" =>
                                    \E k \in KindsOf(ms) : SaveSays[d] = <<k>>
            \/ /\ mstate' \in {"IDLE", "SHUTDOWNPHASE2"} /\ M!Running = {}
               /\ mstate' = "IDLE" => UNCHANGED <<dieTimer, quit>>
               /\ \A d \in Apps : cstate'[d] = "IDLE"
         /\ \A d \in Apps : d \notin M!Running => SaveSays[d] = <<>>
<1>. DEFINE cs == [d \in Apps |-> IF d \in M!Savers THEN "SAVING" ELSE cstate[d]]
<1>. USE DEF M!Clients
<1>1. M!Savers = M!Running
  BY DEF M!Savers
<1>2. \A d \in Apps : cstate[d] = "IDLE"
  BY DEF Settled, MgrFacts
<1>3. /\ UNCHANGED <<running, conn>>
      /\ M!CompleteSaveYourself(ms, running, cs, M!StartTimers(timer, M!Savers), save)
  BY DEF M!BeginSave
<1>4. \A d \in Apps : cs[d] = IF d \in M!Running THEN "SAVING" ELSE "IDLE"
  BY <1>1, <1>2
<1>5. M!ToSet(running) = M!Running /\ M!Running \subseteq Apps
  BY DEF M!Running, MgrFacts
<1>. HIDE DEF cs
<1>6. \/ /\ mstate' = ms /\ UNCHANGED <<dieTimer, quit>> /\ cstate' = cs
      \/ /\ mstate' \in {"IDLE", "SHUTDOWNPHASE2"} /\ M!Running = {}
         /\ mstate' = "IDLE" => UNCHANGED <<dieTimer, quit>>
         /\ \A d \in Apps : cstate'[d] = "IDLE"
  <2>1. CASE M!Running = {}
    <3>1. /\ \/ /\ ms = "CHECKPOINT" /\ mstate' = "IDLE" /\ cstate' = M!ResetClients(running, cs)
                /\ UNCHANGED <<dieTimer, quit>>
             \/ ms = "SHUTDOWN" /\ mstate' = "SHUTDOWNPHASE2" /\ cstate' = cs
      BY <1>3, <1>5, <2>1 DEF M!CompleteSaveYourself, M!InState
    <3>2. \A d \in Apps : M!ResetClients(running, cs)[d] = cs[d]
      BY <1>5, <2>1 DEF M!ResetClients
    <3>. QED BY <1>4, <2>1, <3>1, <3>2
  <2>2. CASE M!Running # {}
    <3>1. M!InState(running, cs, M!Busy) # {}
      BY <1>4, <1>5, <2>2 DEF M!InState, M!Busy
    <3>2. M!InState(running, cs, M!Busy \cup {"WAITFORPHASE2"}) # {}
      BY <3>1 DEF M!InState
    <3>. QED BY <1>3, <3>1, <3>2 DEF M!CompleteSaveYourself
  <2>. QED BY <2>1, <2>2
<1>7. \A d \in Apps : d \notin M!Running => SaveSays[d] = <<>>
  BY <1>1 DEF SaveSays, ToEach
<1>8. ASSUME mstate' = ms, NEW d \in Apps, d \in M!Running, conn[d] = "registered"
      PROVE  \E k \in KindsOf(ms) : SaveSays[d] = <<k>>
  BY <1>1, <1>2, <1>8 DEF SaveSays, ToEach, M!SavePhases, KindsOf
<1>. QED BY <1>2, <1>3, <1>4, <1>6, <1>7, <1>8

\* A save begins, perhaps at the request of a client, when no other request waits.
LEMMA BeginFits ==
  ASSUME SessionInv, [Next]_vars, ~quit, mstate = "IDLE", Settled,
         NEW ms \in {"CHECKPOINT", "SHUTDOWN"}, NEW save, M!BeginSave(ms, save), Tell(SaveSays),
         UNCHANGED <<state, connVars, saveVars>>,
         idle' = M!NoRequest, dialog' = M!NoRequest,
         NEW c, \A d \in Apps \ {c} : toManager'[d] = toManager[d],
         c \in Apps => /\ Serves(c) /\ conn[c] = "registered"
                       /\ Agrees(c, "IDLE", "IDLE", toManager'[c], toClient[c]),
         \A d \in Apps : ~AsksSave(d)'
  PROVE  SessionInv'
<1>0. MgrFacts /\ EveryoneTakesPart /\ LibInv /\ OneRequest
  BY ManagerFacts DEF SessionInv
<1>1. /\ UNCHANGED <<running, conn>>
      /\ \A d \in Apps : cstate[d] = "IDLE"
      /\ \/ /\ mstate' = ms /\ UNCHANGED <<dieTimer, quit>>
            /\ \A d \in Apps : cstate'[d] = IF d \in M!Running THEN "SAVING" ELSE "IDLE"
            /\ \A d \in Apps : d \in M!Running /\ conn[d] = "registered" =>
                                 \E k \in KindsOf(ms) : SaveSays[d] = <<k>>
         \/ /\ mstate' \in {"IDLE", "SHUTDOWNPHASE2"} /\ M!Running = {}
            /\ mstate' = "IDLE" => UNCHANGED <<dieTimer, quit>>
            /\ \A d \in Apps : cstate'[d] = "IDLE"
      /\ \A d \in Apps : d \notin M!Running => SaveSays[d] = <<>>
  BY <1>0, BeginShape
<1>2. M!Running' = M!Running /\ \A d \in Apps : (d \in M!Running <=> conn[d] = "registered")
  BY <1>0, <1>1 DEF M!Running, MgrFacts, EveryoneTakesPart
<1>3. EveryoneTakesPart'
  <2>1. mstate' \notin {"STARTUP", "IDLE"} => \A d \in M!Running' : cstate'[d] # "IDLE"
    BY <1>0, <1>1, <1>2 DEF MgrFacts
  <2>2. \A d \in M!Running' : conn'[d] = "registered"
    BY <1>0, <1>1, <1>2 DEF MgrFacts
  <2>3. \A d \in Apps : cstate'[d] # "DISCONNECTED"
    BY <1>1
  <2>4. dieTimer' \/ quit' => mstate' = "SHUTDOWNPHASE2"
    BY <1>0, <1>1 DEF EveryoneTakesPart
  <2>. QED BY <2>1, <2>2, <2>3, <2>4 DEF EveryoneTakesPart
<1>4. OneRequest'
  <2>1. \A d \in Apps : conn'[d] # "new" /\ cstate'[d] # "SAVINGLOCAL"
    BY <1>1 DEF Settled
  <2>2. Settled'
    BY <2>1 DEF Settled
  <2>. QED BY <2>2 DEF OneRequest, M!NoRequest
<1>5. ASSUME NEW d \in Apps, conn[d] = "registered"
      PROVE  /\ Moved("IDLE", "IDLE", mstate', cstate'[d], SaveSays[d])
             /\ cstate[d] = "IDLE"
  <2>1. d \in M!Running
    BY <1>2, <1>5
  <2>2. mstate' = ms /\ cstate'[d] = "SAVING" /\ \E k \in KindsOf(ms) : SaveSays[d] = <<k>>
    BY <1>1, <1>5, <2>1
  <2>. QED BY <1>1, <2>2, Zenon DEF Moved
<1>6. \A d \in Apps : conn[d] # "new"
  BY DEF Settled
<1>7. OthersMove(SaveSays, c)
  <2>1. \A d \in Apps \ {c} : AsksSave(d)' <=> AsksSave(d)
    BY DEF AsksSave
  <2>. QED BY <1>1, <1>2, <1>5, <1>6, <2>1 DEF OthersMove
<1>8. c \in Apps => ClientFits(c)' /\ toClient'[c] \in Seq(Told)
  <2>. SUFFICES ASSUME c \in Apps PROVE ClientFits(c)' /\ toClient'[c] \in Seq(Told)
    OBVIOUS
  <2>1. IF link[c] = "none" THEN LastWords("IDLE", "IDLE", toManager'[c])
        ELSE Fits(c, "IDLE", "IDLE", toManager'[c], toClient[c])
    BY DEF Agrees
  <2>2. conn'[c] = "registered" /\ ~AsksSave(c)'
    BY <1>1
  <2>. QED BY <1>3, <1>5, <2>1, <2>2, ActorFits
<1>. QED BY <1>3, <1>4, <1>7, <1>8, AllFit

\* A request is carried out, perhaps one a client made: a save begins, or the dialog is
\* shown.
LEMMA RequestFits ==
  ASSUME SessionInv, [Next]_vars, ~quit, mstate = "IDLE", Settled, Tell(SaveSays),
         UNCHANGED <<state, connVars, saveVars>>, idle' = M!NoRequest,
         \/ \E ms \in {"CHECKPOINT", "SHUTDOWN"} : \E save :
              M!BeginSave(ms, save) /\ dialog' = M!NoRequest
         \/ UNCHANGED <<running, cstate, conn, mstate, dieTimer, quit>>,
         NEW c, \A d \in Apps \ {c} : toManager'[d] = toManager[d],
         c \in Apps => /\ Serves(c) /\ conn[c] = "registered"
                       /\ Agrees(c, "IDLE", "IDLE", toManager'[c], toClient[c])
                       /\ cstate[c] = "IDLE",
         \A d \in Apps : ~AsksSave(d)'
  PROVE  SessionInv'
<1>0. MgrFacts /\ EveryoneTakesPart
  BY ManagerFacts DEF SessionInv
<1>1. CASE \E ms \in {"CHECKPOINT", "SHUTDOWN"} : \E save :
             M!BeginSave(ms, save) /\ dialog' = M!NoRequest
  BY <1>1, BeginFits
<1>2. CASE UNCHANGED <<running, cstate, conn, mstate, dieTimer, quit>>
  <2>1. EveryoneTakesPart'
    BY <1>0, <1>2 DEF EveryoneTakesPart, M!Running
  <2>2. OneRequest'
    BY <1>2 DEF OneRequest, Settled, M!NoRequest
  <2>3. \A d \in Apps : SaveSays[d] = <<>>
    BY <1>2 DEF SaveSays, ToEach, M!SavePhases
  <2>4. \A d \in Apps : Moved(mstate, cstate[d], mstate', cstate'[d], SaveSays[d])
    BY <1>2, <2>3 DEF Moved
  <2>5. OthersMove(SaveSays, c)
    BY <1>2, <2>3, <2>4 DEF OthersMove
  <2>6. c \in Apps => ClientFits(c)' /\ toClient'[c] \in Seq(Told)
    <3>. SUFFICES ASSUME c \in Apps PROVE ClientFits(c)' /\ toClient'[c] \in Seq(Told)
      OBVIOUS
    <3>1. IF link[c] = "none" THEN LastWords("IDLE", "IDLE", toManager'[c])
          ELSE Fits(c, "IDLE", "IDLE", toManager'[c], toClient[c])
      BY DEF Agrees
    <3>2. conn'[c] = "registered" /\ Moved("IDLE", "IDLE", mstate', cstate'[c], SaveSays[c])
      BY <1>2, <2>4
    <3>. QED BY <1>2, <2>1, <3>1, <3>2, ActorFits
  <2>. QED BY <1>2, <2>1, <2>2, <2>5, <2>6, AllFit
<1>. QED BY <1>1, <1>2

\* What a request of the global kind comes to.
LEMMA GlobalShape ==
  ASSUME NEW shutdown \in BOOLEAN, NEW fast \in BOOLEAN, NEW type, NEW allow,
         M!SaveYourselfGlobal(shutdown, fast, type, allow)
  PROVE  \/ \E ms \in {"CHECKPOINT", "SHUTDOWN"} : \E save : M!BeginSave(ms, save) /\ dialog' = dialog
         \/ UNCHANGED <<running, cstate, conn, mstate, dieTimer, quit>>
<1>1. ASSUME NEW t, NEW save, M!Proceed(t, save), dialog' = dialog
      PROVE  \/ \E ms \in {"CHECKPOINT", "SHUTDOWN"} : \E s : M!BeginSave(ms, s) /\ dialog' = dialog
             \/ UNCHANGED <<running, cstate, conn, mstate, dieTimer, quit>>
  BY <1>1 DEF M!Proceed, M!clientVars, M!saveVars
<1>2. CASE M!BeginSave("CHECKPOINT", TRUE) /\ UNCHANGED dialog
  BY <1>2
<1>3. CASE UNCHANGED <<M!clientVars, M!saveVars>>
  BY <1>3 DEF M!clientVars, M!saveVars
<1>4. CASE \E t, save : M!Proceed(t, save) /\ UNCHANGED dialog
  BY <1>1, <1>4
<1>5. \/ M!BeginSave("CHECKPOINT", TRUE) /\ UNCHANGED dialog
      \/ UNCHANGED <<M!clientVars, M!saveVars>>
      \/ \E t, save : M!Proceed(t, save) /\ UNCHANGED dialog
  <2>. HIDE DEF M!BeginSave, M!Proceed, M!clientVars, M!saveVars
  <2>. QED BY Zenon DEF M!SaveYourselfGlobal
<1>. QED BY <1>2, <1>3, <1>4, <1>5

LEMMA StartFits ==
  ASSUME SessionInv, [Next]_vars, Start
  PROVE  SessionInv'
<1>0. OneRequest /\ Tell(SaveSays) /\ UNCHANGED libVars
  BY DEF SessionInv, Start
<1>1. UNCHANGED <<state, connVars, saveVars, toManager>>
  BY <1>0 DEF libVars
<1>2. /\ ~quit /\ mstate = "IDLE" /\ idle' = M!NoRequest
      /\ \A d \in Apps : ~AsksSave(d)
      /\ idle # M!NoRequest \/ dialog # M!NoRequest
      /\ \/ \E ms \in {"CHECKPOINT", "SHUTDOWN"} : \E save :
              M!BeginSave(ms, save) /\ dialog' = M!NoRequest
         \/ UNCHANGED <<running, cstate, conn, mstate, dieTimer, quit>>
  <2>1. CASE M!SaveIdle
    <3>1. ~quit /\ idle # M!NoRequest /\ idle' = M!NoRequest
      BY <2>1 DEF M!SaveIdle
    <3>2. \/ \E ms \in {"CHECKPOINT", "SHUTDOWN"} : \E save : M!BeginSave(ms, save) /\ dialog' = dialog
          \/ UNCHANGED <<running, cstate, conn, mstate, dieTimer, quit>>
      BY <2>1, GlobalShape DEF M!SaveIdle
    <3>. QED BY <1>0, <3>1, <3>2 DEF OneRequest
  <2>2. CASE M!DialogAnswered("LOGOUT")
    <3>1. /\ ~quit /\ dialog # M!NoRequest /\ dialog' = M!NoRequest /\ idle' = idle
          /\ \E save : M!BeginSave("SHUTDOWN", save)
      BY <2>2 DEF M!DialogAnswered, M!Proceed, M!SleepTypes
    <3>. QED BY <1>0, <3>1 DEF OneRequest
  <2>. QED BY <2>1, <2>2 DEF Start
<1>3. Settled
  BY <1>2, SavesSettled
<1>. DEFINE nobody == CHOOSE x : x \notin Apps
<1>4. nobody \notin Apps
  BY NoSetContainsEverything
<1>5. \A d \in Apps : ~AsksSave(d)' /\ toManager'[d] = toManager[d]
  BY <1>1, <1>2 DEF AsksSave
<1>. HIDE DEF nobody
<1>. QED BY <1>0, <1>1, <1>2, <1>3, <1>4, <1>5, RequestFits

LEMMA SaveRequestFits ==
  ASSUME SessionInv, [Next]_vars, NEW c \in Apps, ServeSaveRequest(c)
  PROVE  SessionInv'
<1>0. /\ Takes(c, "SaveRequest") /\ M!SaveYourselfRequest(c, TRUE, TRUE, FALSE)
      /\ MgrFacts /\ OneRequest /\ LibInv
  BY ManagerFacts DEF SessionInv, ServeSaveRequest
<1>1. ~quit /\ conn[c] = "registered" /\ idle' = idle
  BY <1>0 DEF M!SaveYourselfRequest, M!Speaking
<1>2. /\ cstate[c] = "IDLE" /\ Agrees(c, mstate, "IDLE", toManager'[c], toClient[c])
      /\ UNCHANGED <<state, connVars, saveVars>> /\ Serves(c) /\ ~Broken(c)
      /\ toManager[c] # <<>> /\ Head(toManager[c]) = "SaveRequest"
      /\ toManager'[c] = Tail(toManager[c])
      /\ \A d \in Apps \ {c} : toManager'[d] = toManager[d]
  BY <1>0, <1>1, Hears DEF Meant
<1>3. AsksSave(c)
  <2>1. toManager[c] \in Seq(Messages)
    BY <1>0 DEF LibInv, LibTypeOK, Messages
  <2>2. 1 \in DOMAIN toManager[c] /\ toManager[c][1] = "SaveRequest"
    BY <1>2, <2>1
  <2>. QED BY <2>2 DEF AsksSave, Range
<1>4. mstate = "IDLE" /\ idle = M!NoRequest /\ dialog = M!NoRequest /\ Settled
      /\ \A d \in Apps \ {c} : ~AsksSave(d)
  BY <1>0, <1>3, SavesSettled DEF OneRequest
<1>5. \A d \in Apps : ~AsksSave(d)'
  <2>1. \A d \in Apps \ {c} : ~AsksSave(d)'
    BY <1>2, <1>4 DEF AsksSave
  <2>2. ~AsksSave(c)'
    <3>1. InStep(c)
      BY DEF SessionInv, ClientFits
    <3>2. toManager[c] \in {<<"SaveRequest">>, <<"SaveRequest", "Close">>}
      <4>1. CASE link[c] = "none"
        <5>1. LastWords(mstate, "IDLE", toManager[c])
          BY <1>1, <1>2, <3>1, <4>1 DEF InStep
        <5>2. toManager[c] # <<"Close">>
          BY <1>2, Short
        <5>. QED BY <5>1, <5>2 DEF LastWords
      <4>2. CASE link[c] # "none"
        BY <1>1, <1>2, <3>1, <4>2 DEF InStep, Fits, FitsIdle
      <4>. QED BY <4>1, <4>2
    <3>3. toManager'[c] \in {<<>>, <<"Close">>}
      <4>1. CASE toManager[c] = <<"SaveRequest">>
        BY <1>2, <4>1, Short
      <4>2. CASE toManager[c] = <<"SaveRequest", "Close">>
        BY <1>2, <4>2, Short
      <4>. QED BY <3>2, <4>1, <4>2
    <3>. QED BY <3>3 DEF AsksSave, Range
  <2>. QED BY <2>1, <2>2
<1>6. \/ \E ms \in {"CHECKPOINT", "SHUTDOWN"} : \E save :
           M!BeginSave(ms, save) /\ dialog' = M!NoRequest
      \/ UNCHANGED <<running, cstate, conn, mstate, dieTimer, quit>>
  <2>1. M!SaveYourselfGlobal(TRUE, FALSE, "ASK", TRUE)
    BY <1>0, <1>2, <1>4 DEF M!SaveYourselfRequest
  <2>. QED BY <1>4, <2>1, GlobalShape
<1>7. Tell(SaveSays)
  BY <1>2, <1>4 DEF ServeSaveRequest
<1>. QED BY <1>1, <1>2, <1>4, <1>5, <1>6, <1>7, RequestFits

\* A client is registered.
LEMMA RegisterFits ==
  ASSUME SessionInv, [Next]_vars, NEW c \in Apps, ServeRegister(c)
  PROVE  SessionInv'
<1>0. Takes(c, "Register") /\ MgrFacts /\ EveryoneTakesPart /\ OneRequest /\ LibInv /\ MP!IInv
  BY ManagerFacts DEF SessionInv, ServeRegister
<1>. PICK resumed \in BOOLEAN :
       /\ M!RegisterXsmp(c, resumed)
       /\ Tell([Nothing EXCEPT ![c] = IF resumed THEN <<"Resumed">> ELSE <<"Registered", "SaveLocal">>])
  BY DEF ServeRegister
<1>. DEFINE t == IF resumed THEN <<"Resumed">> ELSE <<"Registered", "SaveLocal">>
            tell == [Nothing EXCEPT ![c] = t]
<1>1. /\ UNCHANGED <<state, connVars, saveVars>> /\ Serves(c) /\ ~Broken(c)
      /\ toManager'[c] = Tail(toManager[c])
      /\ \A d \in Apps \ {c} : toManager'[d] = toManager[d]
  BY <1>0, Hears
<1>2. /\ ~quit /\ conn[c] = "new" /\ running' = Append(running, c)
      /\ conn' = [conn EXCEPT ![c] = "registered"]
      /\ cstate' = IF resumed THEN cstate ELSE [cstate EXCEPT ![c] = "SAVINGLOCAL"]
      /\ mstate' = mstate \/ (mstate = "STARTUP" /\ mstate' = "IDLE")
      /\ UNCHANGED <<idle, dialog, dieTimer, quit>>
  BY DEF M!RegisterXsmp, M!ContinueStartup, M!requestVars
<1>3. mstate \in {"STARTUP", "IDLE"} /\ mstate' \in {"STARTUP", "IDLE"}
  BY <1>2, SavesSettled
<1>4. /\ conn'[c] = "registered" /\ \A d \in Apps \ {c} : conn'[d] = conn[d] /\ cstate'[d] = cstate[d]
      /\ cstate'[c] = IF resumed THEN "IDLE" ELSE "SAVINGLOCAL"
  BY <1>0, <1>2 DEF MgrFacts
<1>5. M!Running' = M!Running \cup {c}
  BY <1>0, <1>2, Enters
<1>6. EveryoneTakesPart'
  BY <1>0, <1>2, <1>3, <1>4, <1>5 DEF EveryoneTakesPart, MgrFacts
<1>7. OneRequest'
  <2>1. \A d \in Apps : AsksSave(d)' => AsksSave(d)
    BY <1>0, <1>1, AsksLeft DEF Serves
  <2>2. LibInv'
    BY PartsKeep DEF SessionInv
  <2>3. ~Settled
    BY <1>2 DEF Settled
  <2>. QED BY <1>0, <1>2, <1>3, <2>1, <2>2, <2>3, CalmKeeps
<1>8. tell[c] = t /\ \A d \in Apps \ {c} : tell[d] = <<>>
  BY DEF Nothing
<1>9. t \in Seq(Told \ {"IOError"}) /\ Head(t) # "Die" /\ t # <<>>
  <2>1. {"Resumed", "Registered", "SaveLocal"} \subseteq Told \ {"IOError"}
    BY DEF Told, ToldByManager, SaveKinds
  <2>2. /\ <<"Resumed">> \in Seq({"Resumed", "Registered", "SaveLocal"})
        /\ <<"Registered", "SaveLocal">> \in Seq({"Resumed", "Registered", "SaveLocal"})
    OBVIOUS
  <2>3. Head(t) # "Die" /\ t # <<>>
    BY Short
  <2>4. t \in Seq({"Resumed", "Registered", "SaveLocal"})
    BY <2>2, Zenon
  <2>. HIDE DEF t
  <2>. QED BY <2>1, <2>3, <2>4, SeqMonotonic
<1>10. Tell(tell)
  OBVIOUS
<1>. HIDE DEF tell
<1>11. OthersMove(tell, c)
  BY <1>2, <1>3, <1>4, <1>8 DEF OthersMove, Moved
<1>12. ClientFits(c)' /\ toClient'[c] \in Seq(Told)
  <2>1. toManager[c] = <<"Register">> /\ toClient[c] = <<>> /\ Opening(c)
    BY <1>1, <1>2 DEF SessionInv, ClientFits, Arrives
  <2>2. toManager'[c] = <<>> /\ link[c] # "none" /\ ~cancelled[c]
    BY <1>0, <1>1, <2>1, Short DEF Opening, LibInv, HandlersFit, CancelledInHandler
  <2>3. toClient[c] \o tell[c] = t
    BY <1>8, <2>1, Joined
  <2>4. Fits(c, mstate', cstate'[c], toManager'[c], toClient[c] \o tell[c])
    <3>1. CASE resumed
      BY <1>4, <2>1, <2>2, <2>3, <3>1 DEF Fits, FitsIdle
    <3>2. CASE ~resumed
      BY <1>4, <2>1, <2>2, <2>3, <3>2 DEF Fits, FitsLocal
    <3>. QED BY <3>1, <3>2
  <2>5. tell[c] \in Seq(Told \ {"IOError"}) /\ "Die" \notin Range(tell[c])
    <3>1. "Die" \notin Range(t)
      BY FewSaid
    <3>. HIDE DEF t
    <3>. QED BY <1>8, <1>9, <3>1
  <2>. HIDE DEF t
  <2>. QED BY <1>0, <1>1, <1>2, <1>3, <1>4, <1>6, <1>10, <2>2, <2>4, <2>5, TellKeeps
<1>. HIDE DEF t
<1>. QED BY <1>1, <1>2, <1>3, <1>6, <1>7, <1>10, <1>11, <1>12, AllFit
-----------------------------------------------------------------------------
(* Every action of a client keeps the invariant *)

\* One client acts; it asks for a save only while all is calm.
LEMMA ClientAlone ==
  ASSUME SessionInv, [Next]_vars, UNCHANGED mgrVars, NEW c \in Apps,
         \A d \in Apps \ {c} : Untouched(d),
         toClient' \in [Apps -> Seq(Told)],
         AsksSave(c)' => AsksSave(c) \/ (AtRest /\ Settled /\ mstate = "IDLE"),
         ClientFits(c)'
  PROVE  SessionInv'
<1>0. MgrFacts /\ EveryoneTakesPart /\ LibInv /\ OneRequest /\ \A d \in Apps : ClientFits(d)
  BY ManagerFacts DEF SessionInv
<1>1. UNCHANGED <<mstate, running, cstate, conn, idle, dialog, dieTimer, quit>>
  BY DEF mgrVars
<1>2. MP!IInv' /\ LibInv'
  BY PartsKeep DEF SessionInv
<1>3. EveryoneTakesPart'
  BY <1>0, <1>1 DEF EveryoneTakesPart, M!Running
<1>4. \A d \in Apps \ {c} : AsksSave(d)' => AsksSave(d)
  BY DEF Untouched, AsksSave
<1>5. OneRequest'
  <2>1. CASE AsksSave(c)' => AsksSave(c)
    <3>1. Settled => Settled'
      BY <1>1 DEF Settled
    <3>. QED BY <1>0, <1>1, <1>2, <1>4, <2>1, <3>1, CalmKeeps
  <2>2. CASE AtRest /\ Settled /\ mstate = "IDLE"
    <3>1. Resting
      BY <1>0, <2>2, RestIs
    <3>2. /\ idle' = M!NoRequest /\ dialog' = M!NoRequest /\ mstate' = "IDLE"
          /\ \A d \in Apps : AsksSave(d)' => d = c
      BY <1>1, <1>4, <2>2, <3>1 DEF Resting
    <3>3. Settled'
      BY <1>1, <2>2 DEF Settled
    <3>. QED BY <3>2, <3>3 DEF OneRequest, M!NoRequest
  <2>. QED BY <2>1, <2>2
<1>6. \A d \in Apps : ClientFits(d)'
  <2>1. ASSUME NEW d \in Apps \ {c} PROVE ClientFits(d)'
    BY <1>0, <1>1, UntouchedFits
  <2>. QED BY <2>1
<1>. QED BY <1>2, <1>3, <1>5, <1>6 DEF SessionInv

\* What becomes of what c is told: it stays, or the first of it is served.
Hearing(c) ==
  \/ toClient'[c] = toClient[c]
  \/ toClient[c] # <<>> /\ toClient'[c] = Tail(toClient[c])

LEMMA HeardRest ==
  ASSUME NEW c \in Apps, toClient[c] \in Seq(Told), toClient[c] # <<>>, toClient'[c] = Tail(toClient[c])
  PROVE  /\ toClient'[c] \in Seq(Told)
         /\ Range(toClient'[c]) \subseteq Range(toClient[c])
         /\ \A i \in DOMAIN toClient'[c] : i + 1 \in DOMAIN toClient[c] /\ i \in Nat \ {0}
                                           /\ toClient[c][i + 1] = toClient'[c][i]
         /\ toClient'[c] # <<>> => toClient'[c][Len(toClient'[c])] = toClient[c][Len(toClient[c])]
         /\ toClient'[c] = <<>> => Head(toClient[c]) = toClient[c][Len(toClient[c])]
<1>1. /\ toClient'[c] \in Seq(Told)
      /\ Len(toClient'[c]) = Len(toClient[c]) - 1 /\ Len(toClient[c]) \in Nat
      /\ \A i \in 1 .. Len(toClient'[c]) : toClient'[c][i] = toClient[c][i + 1]
      /\ Head(toClient[c]) = toClient[c][1]
  OBVIOUS
<1>2. DOMAIN toClient'[c] = 1 .. Len(toClient'[c]) /\ DOMAIN toClient[c] = 1 .. Len(toClient[c])
  BY <1>1
<1>3. \A i \in DOMAIN toClient'[c] : i + 1 \in DOMAIN toClient[c] /\ i \in Nat \ {0}
                                     /\ toClient[c][i + 1] = toClient'[c][i]
  BY <1>1, <1>2
<1>4. Range(toClient'[c]) \subseteq Range(toClient[c])
  BY <1>3 DEF Range
<1>5. toClient'[c] # <<>> => toClient'[c][Len(toClient'[c])] = toClient[c][Len(toClient[c])]
  BY <1>1
<1>6. toClient'[c] = <<>> => Head(toClient[c]) = toClient[c][Len(toClient[c])]
  <2>1. Len(<<>>) = 0
    OBVIOUS
  <2>2. Len(toClient'[c]) = 0 => Len(toClient[c]) = 1
    BY <1>1
  <2>. QED BY <1>1, <2>1, <2>2
<1>. QED BY <1>1, <1>3, <1>4, <1>5, <1>6

\* A client that is connected, or becomes so, answers msgs to what it is told, and nothing
\* of its connection changes.
LEMMA AnswerFits ==
  ASSUME SessionInv, LibInv', UNCHANGED mgrVars, NEW c \in Apps,
         link[c] # "none", link'[c] = "open", reconnect'[c] = reconnect[c],
         NEW msgs \in Seq(SaidByClient \ {"Close"}), toManager'[c] = toManager[c] \o msgs,
         \/ /\ toClient'[c] = toClient[c] /\ link[c] = "open"
            /\ \/ frames[c] # <<>>
               \/ frames'[c] = frames[c] /\ cancelled'[c] = cancelled[c] /\ agreed'[c] = agreed[c]
         \/ /\ toClient[c] # <<>> /\ toClient'[c] = Tail(toClient[c])
            /\ Head(toClient[c]) # "IOError",
         conn[c] = "registered" /\ ~quit /\ ~Broken(c) =>
           Fits(c, mstate, cstate[c], toManager[c], toClient[c])'
  PROVE  ClientFits(c)'
<1>0. ClientFits(c) /\ toClient[c] \in Seq(Told) /\ toManager[c] \in Seq(Messages)
  BY DEF SessionInv, LibInv, LibTypeOK, Messages
<1>1. UNCHANGED <<mstate, cstate, conn, quit>>
  BY DEF mgrVars
<1>2. /\ msgs \in Seq(Messages)
      /\ "IOError" \notin Range(msgs) /\ "Close" \notin Range(msgs)
      /\ msgs # <<>> => Head(msgs) # "IOError"
  <2>1. \A i \in DOMAIN msgs : msgs[i] \in SaidByClient \ {"Close"}
    OBVIOUS
  <2>2. "IOError" \notin SaidByClient
    BY DEF SaidByClient
  <2>3. SaidByClient \ {"Close"} \subseteq Messages
    BY DEF Messages
  <2>. QED BY <2>1, <2>2, <2>3, SeqMonotonic DEF Range
<1>3. Broken(c)' <=> Broken(c)
  <2>1. CASE toManager[c] = <<>>
    BY <1>0, <1>2, <2>1, Ends, SMTT(20) DEF Broken
  <2>2. CASE toManager[c] # <<>>
    BY <1>0, <1>2, <2>2, Ends, SMTT(20) DEF Broken
  <2>. QED BY <2>1, <2>2
<1>4. ASSUME toClient[c] # <<>>, toClient'[c] = Tail(toClient[c]), Head(toClient[c]) # "IOError"
      PROVE  ~Broken(c)
  BY <1>0, <1>4 DEF ClientFits, Transported
<1>5. InStep(c)'
  BY <1>1, <1>3 DEF InStep
<1>6. Arrives(c)'
  <2>1. SUFFICES ASSUME conn[c] = "new", ~Broken(c) PROVE FALSE
    BY <1>1, <1>3 DEF Arrives
  <2>. QED BY <1>0, <2>1 DEF ClientFits, Arrives, Opening
<1>7. OpensClean(c)'
  <2>1. Range(toClient'[c]) \subseteq Range(toClient[c])
    BY <1>0, HeardRest
  <2>. QED BY <1>0, <1>1, <2>1 DEF ClientFits, OpensClean
<1>8. Transported(c)'
  <2>1. ASSUME NEW i \in DOMAIN toManager'[c]
        PROVE  /\ toManager'[c][i] = "IOError" => i = 1 /\ c \in Breaking
               /\ toManager'[c][i] # "Close"
    <3>1. toManager'[c][i] = "IOError" => i \in DOMAIN toManager[c] /\ toManager[c][i] = "IOError"
      BY <1>0, <1>2, <2>1, Places
    <3>2. toManager'[c][i] = "Close" => i \in DOMAIN toManager[c] /\ toManager[c][i] = "Close"
      BY <1>0, <1>2, <2>1, Places
    <3>. QED BY <1>0, <3>1, <3>2 DEF ClientFits, Transported
  <2>2. Broken(c)' => toClient'[c] # <<>> /\ Head(toClient'[c]) = "IOError"
    BY <1>0, <1>3, <1>4 DEF ClientFits, Transported
  <2>. QED BY <2>1, <2>2 DEF Transported
<1>9. DiesAsked(c)'
  <2>1. CASE toClient'[c] = toClient[c] /\ link[c] = "open"
            /\ frames'[c] = frames[c] /\ cancelled'[c] = cancelled[c] /\ agreed'[c] = agreed[c]
    BY <1>0, <2>1 DEF ClientFits, DiesAsked
  <2>2. CASE toClient'[c] = toClient[c] /\ link[c] = "open" /\ frames[c] # <<>>
    BY <1>0, <2>2 DEF ClientFits, DiesAsked
  <2>3. CASE toClient[c] # <<>> /\ toClient'[c] = Tail(toClient[c]) /\ Head(toClient[c]) # "IOError"
    <3>1. \A i \in DOMAIN toClient'[c] : toClient'[c][i] # "Die"
      <4>1. ASSUME NEW i \in DOMAIN toClient'[c], toClient'[c][i] = "Die" PROVE FALSE
        <5>1. i + 1 \in DOMAIN toClient[c] /\ toClient[c][i + 1] = "Die" /\ i \in Nat \ {0}
          BY <1>0, <2>3, <4>1, HeardRest
        <5>2. i + 1 = 1
          BY <1>0, <2>3, <5>1 DEF ClientFits, DiesAsked
        <5>. QED BY <5>1, <5>2
      <4>. QED BY <4>1
    <3>2. toClient'[c] # <<>> => Head(toClient'[c]) # "Die"
      <4>1. toClient'[c] \in Seq(Told)
        BY <1>0, <2>3, HeardRest
      <4>2. toClient'[c] # <<>> => 1 \in DOMAIN toClient'[c] /\ Head(toClient'[c]) = toClient'[c][1]
        BY <4>1
      <4>. QED BY <3>1, <4>2
    <3>. QED BY <3>1, <3>2 DEF DiesAsked
  <2>. QED BY <2>1, <2>2, <2>3
<1>10. HearsOfEnd(c)'
  <2>1. CASE toClient'[c] = toClient[c]
    BY <1>0, <1>1, <2>1 DEF ClientFits, HearsOfEnd
  <2>2. CASE toClient[c] # <<>> /\ toClient'[c] = Tail(toClient[c]) /\ Head(toClient[c]) # "IOError"
    <3>1. SUFFICES ASSUME quit, conn[c] # "closed"
          PROVE  toClient'[c] # <<>> /\ toClient'[c][Len(toClient'[c])] = "IOError"
      BY <1>1 DEF HearsOfEnd
    <3>2. toClient[c][Len(toClient[c])] = "IOError"
      BY <1>0, <3>1 DEF ClientFits, HearsOfEnd
    <3>. QED BY <1>0, <2>2, <3>2, HeardRest
  <2>. QED BY <2>1, <2>2
<1>. QED BY <1>5, <1>6, <1>7, <1>8, <1>9, <1>10 DEF ClientFits

\* A client that has no connection any more.
LEMMA GoneFits ==
  ASSUME SessionInv, LibInv', UNCHANGED mgrVars, NEW c \in Apps, link'[c] = "none", Hearing(c),
         reconnect'[c] => c \in Reconnecting,
         frames'[c] # <<>> /\ reconnect'[c] => Nesting = {} \/ mstate = "SHUTDOWNPHASE2",
         \/ toManager'[c] = toManager[c]
         \/ link[c] = "open" /\ toManager'[c] = toManager[c] \o <<"Close">>,
         conn[c] = "registered" /\ ~quit /\ ~Broken(c) =>
           LastWords(mstate, cstate[c], toManager'[c]),
         conn[c] = "new" => Broken(c)
  PROVE  ClientFits(c)'
<1>0. ClientFits(c) /\ toClient[c] \in Seq(Told) /\ toManager[c] \in Seq(Messages)
  BY DEF SessionInv, LibInv, LibTypeOK, Messages
<1>1. UNCHANGED <<mstate, cstate, conn, quit>>
  BY DEF mgrVars
<1>2. <<"Close">> \in Seq(Messages) /\ Head(<<"Close">>) # "IOError" /\ "IOError" \notin Range(<<"Close">>)
  BY FewSaid DEF Messages, SaidByClient
<1>3. Broken(c)' <=> Broken(c)
  <2>1. CASE toManager'[c] = toManager[c]
    BY <2>1 DEF Broken
  <2>2. CASE toManager'[c] = toManager[c] \o <<"Close">>
    <3>1. CASE toManager[c] = <<>>
      BY <1>0, <1>2, <2>2, <3>1, Ends, SMTT(20) DEF Broken
    <3>2. CASE toManager[c] # <<>>
      BY <1>0, <1>2, <2>2, <3>2, Ends, SMTT(20) DEF Broken
    <3>. QED BY <3>1, <3>2
  <2>. QED BY <2>1, <2>2
<1>4. InStep(c)'
  BY <1>1, <1>3 DEF InStep
<1>5. Arrives(c)'
  BY <1>1, <1>3 DEF Arrives
<1>6. OpensClean(c)'
  <2>1. Range(toClient'[c]) \subseteq Range(toClient[c])
    BY <1>0, HeardRest DEF Hearing
  <2>. QED BY <1>0, <1>1, <2>1 DEF ClientFits, OpensClean
<1>7. Transported(c)'
  <2>1. ASSUME NEW i \in DOMAIN toManager'[c], toManager'[c][i] = "IOError"
        PROVE  i = 1 /\ c \in Breaking
    <3>1. i \in DOMAIN toManager[c] /\ toManager[c][i] = "IOError"
      <4>1. CASE toManager'[c] = toManager[c]
        BY <2>1, <4>1
      <4>2. CASE toManager'[c] = toManager[c] \o <<"Close">>
        BY <1>0, <1>2, <2>1, <4>2, Places
      <4>. QED BY <4>1, <4>2
    <3>. QED BY <1>0, <3>1 DEF ClientFits, Transported
  <2>. QED BY <2>1 DEF Transported
<1>8. DiesAsked(c)' /\ HearsOfEnd(c)'
  BY DEF DiesAsked, HearsOfEnd
<1>. QED BY <1>4, <1>5, <1>6, <1>7, <1>8 DEF ClientFits

\* A connection that breaks breaks for both ends.
LEMMA BreaksFits ==
  ASSUME SessionInv, [Next]_vars, NEW c \in Apps, Breaks(c)
  PROVE  SessionInv'
<1>0. /\ c \in Breaking /\ link[c] # "none" /\ LibInv /\ toClient \in [Apps -> Seq(Told)]
      /\ toManager' = [toManager EXCEPT ![c] = <<"IOError">>]
      /\ toClient' = [toClient EXCEPT ![c] = <<"IOError">>]
      /\ UNCHANGED <<state, connVars, saveVars, mgrVars>>
      /\ ClientFits(c)
  BY DEF Breaks, SessionInv
<1>1. UNCHANGED <<state, link, reconnect, frames, agreed, cancelled, mstate, cstate, conn, quit>>
  BY <1>0 DEF connVars, saveVars, mgrVars
<1>2. toManager'[c] = <<"IOError">> /\ toClient'[c] = <<"IOError">>
  BY <1>0 DEF LibInv, LibTypeOK
<1>3. \A d \in Apps \ {c} : Untouched(d)
  BY <1>0, <1>1 DEF Untouched, LibInv, LibTypeOK
<1>4. <<"IOError">> \in Seq(Told) /\ Head(<<"IOError">>) = "IOError" /\ Len(<<"IOError">>) = 1
      /\ <<"IOError">>[1] = "IOError" /\ DOMAIN <<"IOError">> = {1} /\ <<"IOError">> # <<>>
  BY DEF Told, ToldByManager
<1>5. toClient' \in [Apps -> Seq(Told)]
  BY <1>0, <1>4
<1>6. ~AsksSave(c)'
  BY <1>2, FewSaid DEF AsksSave
<1>7. Broken(c)'
  BY <1>2, <1>4 DEF Broken
<1>8. ClientFits(c)'
  <2>1. InStep(c)' /\ Arrives(c)'
    BY <1>7 DEF InStep, Arrives
  <2>2. OpensClean(c)'
    BY <1>0, <1>1 DEF ClientFits, OpensClean
  <2>3. Transported(c)' /\ DiesAsked(c)' /\ HearsOfEnd(c)'
    BY <1>0, <1>2, <1>4 DEF Transported, DiesAsked, HearsOfEnd
  <2>. QED BY <2>1, <2>2, <2>3 DEF ClientFits
<1>. QED BY <1>0, <1>3, <1>5, <1>6, <1>8, ClientAlone

\* A registered client fits, while its connection holds.
LEMMA Fitting ==
  ASSUME SessionInv, NEW c \in Apps, conn[c] = "registered", ~quit, ~Broken(c)
  PROVE  /\ link[c] = "none" => LastWords(mstate, cstate[c], toManager[c])
         /\ link[c] # "none" => Fits(c, mstate, cstate[c], toManager[c], toClient[c])
         /\ cstate[c] \in {"IDLE", "INTERACTING", "SAVEDONE", "SAVING", "SAVINGLOCAL",
                           "WAITFORINTERACT", "WAITFORPHASE2"}
         /\ mstate \in {"STARTUP", "IDLE", "CHECKPOINT", "SHUTDOWN", "SHUTDOWNPHASE2"}
<1>1. InStep(c) /\ MgrFacts /\ EveryoneTakesPart
  BY ManagerFacts DEF SessionInv, ClientFits
<1>2. cstate[c] # "DISCONNECTED"
  BY <1>1 DEF EveryoneTakesPart
<1>. QED BY <1>1, <1>2 DEF InStep, MgrFacts

\* What a client that fits may hear first (m), and what fits then.
News(c, m, ms, cs, tm, rest) ==
  \/ /\ m = "SaveLocal" /\ cs = "SAVINGLOCAL" /\ tm = <<>> /\ rest = <<>>
     /\ At(c, "REGISTERING", <<>>)
  \/ m \in KindsOf(ms) /\ cs = "SAVING" /\ tm = <<>> /\ rest = <<>> /\ At(c, "IDLE", <<>>)
  \/ /\ \/ m = "SaveComplete" /\ Thawing(c)
        \/ m = "Resumed" /\ Opening(c)
     /\ \/ cs = "IDLE" /\ tm \in {<<>>, <<"SaveRequest">>} /\ rest = <<>>
        \/ cs = "SAVING" /\ tm = <<>> /\ \E k \in KindsOf(ms) : rest = <<k>>
  \/ /\ m = "Registered" /\ cs = "SAVINGLOCAL" /\ tm = <<>> /\ rest = <<"SaveLocal">>
     /\ Opening(c)
  \/ /\ m = "SaveYourselfPhase2" /\ cs = "SAVING" /\ tm = <<>> /\ rest = <<>>
     /\ At(c, "WAITING_FOR_PHASE_2", <<>>) /\ Consents(c, ms)
  \/ /\ m = "Interact" /\ cs = "INTERACTING" /\ rest = <<>>
     /\ \/ tm = <<>> /\ At(c, "WAITING_FOR_INTERACT", <<>>)
        \/ ms = "CHECKPOINT" /\ tm = <<"Done">> /\ At(c, "IDLE", <<>>)
  \/ /\ m = "ShutdownCancelled" /\ ms = "CHECKPOINT" /\ tm = <<>>
     /\ At(c, "WAITING_FOR_INTERACT", <<>>)
     /\ \/ cs = "INTERACTING" /\ rest = <<"Interact">>
        \/ cs = "WAITFORINTERACT" /\ rest = <<>>
  \/ /\ m = "Die" /\ cs = "SAVEDONE" /\ ms = "SHUTDOWNPHASE2" /\ tm = <<>> /\ rest = <<>>
     /\ At(c, "FROZEN", <<>>)

LEMMA NewsComes ==
  ASSUME SessionInv, NEW c \in Apps, conn[c] = "registered", ~quit, ~Broken(c),
         link[c] # "none", toClient[c] # <<>>
  PROVE  /\ News(c, Head(toClient[c]), mstate, cstate[c], toManager[c], Tail(toClient[c]))
         /\ ~cancelled[c]
<1>. DEFINE tm == toManager[c]
            tc == toClient[c]
            cs == cstate[c]
<1>1. /\ Fits(c, mstate, cs, tm, tc)
      /\ cs \in {"IDLE", "INTERACTING", "SAVEDONE", "SAVING", "SAVINGLOCAL",
                 "WAITFORINTERACT", "WAITFORPHASE2"}
      /\ tc # <<>>
  BY Fitting
<1>. HIDE DEF tm, tc, cs
<1>2. News(c, Head(tc), mstate, cs, tm, Tail(tc))
  <2>1. CASE cs = "IDLE"
    BY <1>1, <2>1, Short DEF Fits, FitsIdle, News
  <2>2. CASE cs = "SAVINGLOCAL"
    BY <1>1, <2>2, Short DEF Fits, FitsLocal, News
  <2>3. CASE cs = "SAVING"
    <3>1. FitsSaving(c, mstate, tm, tc)
      BY <1>1, <2>3 DEF Fits
    <3>2. ASSUME NEW k \in KindsOf(mstate), tm = <<>>, Asked(c, k, tc)
          PROVE  News(c, Head(tc), mstate, cs, tm, Tail(tc))
      <4>1. CASE tc = <<k>> /\ At(c, "IDLE", <<>>)
        BY <2>3, <3>2, <4>1, Short DEF News
      <4>2. CASE tc = <<"SaveComplete", k>> /\ Thawing(c)
        BY <2>3, <3>2, <4>2, Short DEF News
      <4>3. CASE tc = <<"Resumed", k>> /\ Opening(c)
        BY <2>3, <3>2, <4>3, Short DEF News
      <4>. QED BY <3>2, <4>1, <4>2, <4>3 DEF Asked
    <3>3. CASE tm = <<>> /\ tc = <<"SaveYourselfPhase2">> /\ At(c, "WAITING_FOR_PHASE_2", <<>>)
               /\ Consents(c, mstate)
      BY <2>3, <3>3, Short DEF News
    <3>. QED BY <1>1, <3>1, <3>2, <3>3 DEF FitsSaving
  <2>4. CASE cs = "INTERACTING"
    <3>1. FitsInteracting(c, mstate, tm, tc)
      BY <1>1, <2>4 DEF Fits
    <3>2. CASE FitsMisled(c, mstate, tm, tc)
      BY <1>1, <2>4, <3>2, Short DEF FitsMisled, News
    <3>. QED BY <1>1, <2>4, <3>1, <3>2, Short DEF FitsInteracting, News
  <2>5. CASE cs = "WAITFORINTERACT"
    BY <1>1, <2>5, Short DEF Fits, FitsWaiting, News
  <2>6. CASE cs = "WAITFORPHASE2"
    BY <1>1, <2>6 DEF Fits, FitsPhase2
  <2>7. CASE cs = "SAVEDONE"
    BY <1>1, <2>7, Short DEF Fits, FitsDone, News
  <2>. QED BY <1>1, <2>1, <2>2, <2>3, <2>4, <2>5, <2>6, <2>7
<1>. QED BY <1>1, <1>2 DEF Fits, tm, tc, cs

\* When a handler of a client that fits runs, the client has nothing to hear, and the
\* manager waits for it.
Runs(c, ms, cs, tm) ==
  \/ /\ cs = "SAVING" /\ tm = <<>> /\ At(c, "SAVING_PHASE_1", <<"save-state first">>)
     /\ ms = "SHUTDOWN" => c \notin Interested
  \/ /\ cs = "SAVING" /\ tm = <<>> /\ Consents(c, ms)
     /\ \/ At(c, "FROZEN", <<"save-state after">>)
        \/ At(c, "SAVING_PHASE_2", <<"save-state-extended">>)
  \/ cs = "INTERACTING" /\ tm = <<>> /\ At(c, "INTERACTING", <<"quit-requested">>)
  \/ /\ cs = "INTERACTING" /\ tm = <<"InteractDone">> /\ agreed[c]
     /\ At(c, "FROZEN", <<"save-state after">>)

LEMMA HandlerRuns ==
  ASSUME SessionInv, NEW c \in Apps, conn[c] = "registered", ~quit, ~Broken(c),
         link[c] = "open", frames[c] # <<>>
  PROVE  Runs(c, mstate, cstate[c], toManager[c]) /\ toClient[c] = <<>> /\ ~cancelled[c]
<1>1. /\ Fits(c, mstate, cstate[c], toManager[c], toClient[c])
      /\ cstate[c] \in {"IDLE", "INTERACTING", "SAVEDONE", "SAVING", "SAVINGLOCAL",
                        "WAITFORINTERACT", "WAITFORPHASE2"}
  BY Fitting
<1>. USE DEF Fits, At
<1>2. CASE cstate[c] \in {"IDLE", "SAVINGLOCAL", "WAITFORINTERACT", "WAITFORPHASE2", "SAVEDONE"}
  BY <1>1, <1>2 DEF FitsIdle, FitsLocal, FitsWaiting, FitsPhase2, FitsDone, Opening, Thawing
<1>3. CASE cstate[c] = "SAVING"
  BY <1>1, <1>3 DEF FitsSaving, Asked, Opening, Thawing, Runs
<1>4. CASE cstate[c] = "INTERACTING"
  BY <1>1, <1>4 DEF FitsInteracting, FitsMisled, Runs
<1>. QED BY <1>1, <1>2, <1>3, <1>4

\* What an application does is its own.
Alone(c) ==
  \A d \in Apps \ {c} :
    /\ state'[d] = state[d] /\ link'[d] = link[d] /\ frames'[d] = frames[d]
    /\ reconnect'[d] = reconnect[d] /\ agreed'[d] = agreed[d] /\ cancelled'[d] = cancelled[d]
    /\ toManager'[d] = toManager[d]

LEMMA LibAlone ==
  ASSUME LibTypeOK, NEW c \in Apps,
         \/ Open(c) \/ (\E resumed \in BOOLEAN : Opened(c, resumed)) \/ OpenFailed(c)
         \/ TimerExpires(c) \/ Disconnect(c) \/ RequestShutdown(c) \/ HandlerReturns(c)
         \/ \E m \in ToldByManager : Receive(c, m)
  PROVE  Alone(c)
<1>. USE DEF LibTypeOK
<1>1. \A s : Become(c, s) => \A d \in Apps \ {c} : state'[d] = state[d]
  BY DEF Become
<1>2. \A msgs : Say(c, msgs) => \A d \in Apps \ {c} : toManager'[d] = toManager[d]
  BY DEF Say
<1>3. \A f : Push(c, f) => \A d \in Apps \ {c} : frames'[d] = frames[d]
  BY DEF Push
<1>4. Disconnected(c) => \A d \in Apps \ {c} :
        /\ state'[d] = state[d] /\ link'[d] = link[d] /\ reconnect'[d] = reconnect[d]
        /\ agreed'[d] = agreed[d] /\ toManager'[d] = toManager[d]
  BY <1>1, <1>2 DEF Disconnected, StopsTimer
<1>5. CASE Open(c)
  BY <1>2, <1>5 DEF Open, Alone, saveVars
<1>6. CASE \E resumed \in BOOLEAN : Opened(c, resumed)
  BY <1>1, <1>6 DEF Opened, Alone, saveVars
<1>7. CASE OpenFailed(c) \/ TimerExpires(c)
  BY <1>7 DEF OpenFailed, TimerExpires, Alone, saveVars
<1>8. CASE Disconnect(c)
  BY <1>4, <1>8 DEF Disconnect, Alone
<1>9. CASE RequestShutdown(c)
  BY <1>2, <1>9 DEF RequestShutdown, Alone, saveVars, connVars
<1>10. CASE HandlerReturns(c)
  <2>1. \A cancel, s, msgs : AfterInteract(c, cancel, s, msgs) =>
          \A d \in Apps \ {c} : state'[d] = state[d] /\ toManager'[d] = toManager[d]
    BY <1>1, <1>2 DEF AfterInteract
  <2>2. SavedFirst(c) => \A d \in Apps \ {c} : state'[d] = state[d] /\ toManager'[d] = toManager[d]
    BY <1>1, <1>2 DEF SavedFirst
  <2>3. ASSUME NEW cancel \in BOOLEAN, QuitRequestedReturns(c, cancel) PROVE Alone(c)
    <3>1. \A d \in Apps \ {c} : /\ state'[d] = state[d] /\ toManager'[d] = toManager[d]
                                /\ frames'[d] = frames[d]
      BY <1>1, <1>2, <2>1, <2>3 DEF QuitRequestedReturns
    <3>2. \A d \in Apps \ {c} : /\ cancelled'[d] = cancelled[d] /\ agreed'[d] = agreed[d]
                                /\ link'[d] = link[d] /\ reconnect'[d] = reconnect[d]
      BY <2>3 DEF QuitRequestedReturns, connVars
    <3>. QED BY <3>1, <3>2 DEF Alone
  <2>4. CASE SaveStateReturns(c)
    BY <2>1, <2>2, <2>4 DEF SaveStateReturns, LowersCancellation, Alone, connVars
  <2>5. CASE SaveStateExtendedReturns(c)
    BY <1>1, <1>2, <2>5 DEF SaveStateExtendedReturns, Alone, connVars
  <2>6. CASE ReturnsToNothing(c)
    BY <2>6 DEF ReturnsToNothing, Crash, Alone
  <2>. QED BY <1>10, <2>3, <2>4, <2>5, <2>6 DEF HandlerReturns
<1>11. ASSUME NEW m \in ToldByManager, Receive(c, m) PROVE Alone(c)
  <2>1. CASE m \in SaveKinds /\ SaveYourself(c, m)
    <3>1. SavedFirst(c) => \A d \in Apps \ {c} : state'[d] = state[d] /\ toManager'[d] = toManager[d]
      BY <1>1, <1>2 DEF SavedFirst
    <3>2. \A d \in Apps \ {c} : state'[d] = state[d] /\ toManager'[d] = toManager[d]
      BY <1>1, <1>2, <2>1, <3>1 DEF SaveYourself
    <3>3. \A d \in Apps \ {c} : frames'[d] = frames[d] /\ cancelled'[d] = cancelled[d]
      BY <1>3, <2>1 DEF SaveYourself
    <3>. QED BY <2>1, <3>2, <3>3 DEF SaveYourself, Alone, connVars
  <2>2. CASE Interact(c) \/ SaveYourselfPhase2(c)
    BY <1>1, <1>2, <1>3, <2>2 DEF Interact, SaveYourselfPhase2, Alone, connVars
  <2>3. CASE SaveComplete(c) \/ ShutdownCancelled(c)
    BY <1>1, <1>2, <2>3 DEF SaveComplete, ShutdownCancelled, Alone, connVars, saveVars
  <2>4. CASE Die(c)
    BY <1>4, <2>4 DEF Die, Alone
  <2>5. CASE ConnectionLost(c)
    BY <1>1, <2>5 DEF ConnectionLost, Alone
  <2>. QED BY <1>11, <2>1, <2>2, <2>3, <2>4, <2>5 DEF Receive
<1>. QED BY <1>5, <1>6, <1>7, <1>8, <1>9, <1>10, <1>11

\* A client that speaks on what it is told, or goes away: the invariant is kept if the client fits.
LEMMA AloneFits ==
  ASSUME SessionInv, [Next]_vars, UNCHANGED mgrVars, NEW c \in Apps, Alone(c),
         \A d \in Apps \ {c} : toClient'[d] = toClient[d], toClient' \in [Apps -> Seq(Told)],
         AsksSave(c)' => AsksSave(c) \/ (AtRest /\ Settled /\ mstate = "IDLE"),
         ClientFits(c)'
  PROVE  SessionInv'
<1>1. \A d \in Apps \ {c} : Untouched(d)
  BY DEF Alone, Untouched
<1>. QED BY <1>1, ClientAlone

\* No new request.
LEMMA AsksNoMore ==
  ASSUME SessionInv, NEW c \in Apps, NEW msgs \in Seq(SaidByClient), "SaveRequest" \notin Range(msgs),
         toManager'[c] = toManager[c] \o msgs
  PROVE  AsksSave(c)' => AsksSave(c)
<1>1. toManager[c] \in Seq(Messages) /\ msgs \in Seq(Messages)
  <2>1. SaidByClient \subseteq Messages
    BY DEF Messages
  <2>. QED BY <2>1, SeqMonotonic DEF SessionInv, LibInv, LibTypeOK, Messages
<1>2. Range(toManager'[c]) = Range(toManager[c]) \cup Range(msgs)
  BY <1>1, Ends, SMTT(20)
<1>. QED BY <1>2 DEF AsksSave

-----------------------------------------------------------------------------
(* ... the return of a handler *)

\* Two messages joined to one.
LEMMA JoinedThree == \A a, b, c : <<a>> \o <<b, c>> = <<a, b, c>>
<1>. SUFFICES ASSUME NEW a, NEW b, NEW c PROVE <<a>> \o <<b, c>> = <<a, b, c>>
  OBVIOUS
<1>1. <<a>> \in Seq({a, b, c}) /\ <<b, c>> \in Seq({a, b, c}) /\ <<a, b, c>> \in Seq({a, b, c})
  OBVIOUS
<1>2. /\ <<a>> \o <<b, c>> \in Seq({a, b, c})
      /\ Len(<<a>> \o <<b, c>>) = 3
      /\ (<<a>> \o <<b, c>>)[1] = a /\ (<<a>> \o <<b, c>>)[2] = b /\ (<<a>> \o <<b, c>>)[3] = c
  BY <1>1, ConcatProperties
<1>3. /\ Len(<<a, b, c>>) = 3
      /\ <<a, b, c>>[1] = a /\ <<a, b, c>>[2] = b /\ <<a, b, c>>[3] = c
  OBVIOUS
<1>. QED BY <1>1, <1>2, <1>3, SameElements

\* What a client answers.
Answers == SaidByClient \ {"Close", "SaveRequest"}

LEMMA AnswersAre ==
  /\ <<>> \in Seq(Answers) /\ <<"Done">> \in Seq(Answers) /\ <<"InteractRequest">> \in Seq(Answers)
  /\ <<"InteractDone">> \in Seq(Answers) /\ <<"InteractCancel">> \in Seq(Answers)
  /\ <<"Phase2Request">> \in Seq(Answers) /\ <<"InteractDone", "Done">> \in Seq(Answers)
BY DEF Answers, SaidByClient

\* c answers with msgs, and nothing of its connection changes.
Replies(c, msgs) ==
  /\ toManager'[c] = toManager[c] \o msgs
  /\ link'[c] = link[c] /\ reconnect'[c] = reconnect[c]

\* What is said on a connection that is there.
LEMMA ReturnSays ==
  ASSUME LibTypeOK, NEW c \in Apps, HandlerReturns(c), link[c] = "open"
  PROVE  \E msgs \in Seq(Answers) : Replies(c, msgs)
<1>1. \A msgs : Say(c, msgs) => toManager'[c] = toManager[c] \o msgs
  BY DEF Say, LibTypeOK
<1>2. ASSUME NEW cancel, NEW s, NEW done \in Seq(Answers), AfterInteract(c, cancel, s, done)
      PROVE  \E msgs \in Seq(Answers) : toManager'[c] = toManager[c] \o msgs
  <2>1. done \o <<"Phase2Request">> \in Seq(Answers) /\ done \o <<"Done">> \in Seq(Answers)
    BY AnswersAre, ConcatProperties
  <2>. QED BY <1>1, <1>2, <2>1 DEF AfterInteract
<1>3. ASSUME NEW cancel \in BOOLEAN, QuitRequestedReturns(c, cancel)
      PROVE  \E msgs \in Seq(Answers) : Replies(c, msgs)
  <2>. DEFINE done == IF cancelled[c] THEN <<>>
                      ELSE IF cancel THEN <<"InteractCancel">> ELSE <<"InteractDone">>
              off == cancel \/ cancelled[c]
              s == IF cancelled[c] THEN "IDLE" ELSE "FROZEN"
  <2>1. done \in Seq(Answers)
    BY AnswersAre
  <2>2. UNCHANGED connVars /\ (Say(c, done) \/ AfterInteract(c, off, s, done))
    BY <1>3 DEF QuitRequestedReturns
  <2>. HIDE DEF done, off, s
  <2>3. \E msgs \in Seq(Answers) : toManager'[c] = toManager[c] \o msgs
    BY <1>1, <1>2, <2>1, <2>2
  <2>. QED BY <2>2, <2>3 DEF Replies, connVars
<1>4. CASE SaveStateReturns(c)
  <2>. DEFINE s == IF cancelled[c] THEN "IDLE" ELSE state[c]
  <2>1. SavedFirst(c) \/ AfterInteract(c, cancelled[c], s, <<>>)
    BY <1>4 DEF SaveStateReturns
  <2>. HIDE DEF s
  <2>2. CASE SavedFirst(c)
    BY <1>1, <1>4, <2>2, AnswersAre DEF SavedFirst, SaveStateReturns, Replies, connVars
  <2>3. CASE AfterInteract(c, cancelled[c], s, <<>>)
    BY <1>2, <1>4, <2>3, AnswersAre DEF SaveStateReturns, Replies, connVars
  <2>. QED BY <2>1, <2>2, <2>3
<1>5. CASE SaveStateExtendedReturns(c)
  BY <1>1, <1>5, AnswersAre DEF SaveStateExtendedReturns, Replies, connVars
<1>. QED BY <1>3, <1>4, <1>5 DEF HandlerReturns, ReturnsToNothing

\* What c does as its only handler f returns, and nobody cancels.
Returned(c, s, says) ==
  state'[c] = s /\ frames'[c] = <<>> /\ toManager'[c] = toManager[c] \o says

LEMMA ReturnShape ==
  ASSUME LibTypeOK, NEW c \in Apps, HandlerReturns(c), link[c] = "open", ~cancelled[c],
         NEW f, frames[c] = <<f>>
  PROVE  /\ ~cancelled'[c] /\ link'[c] = "open"
         /\ f = "quit-requested" =>
              \/ Returned(c, "FROZEN", <<"InteractCancel", "Done">>)
              \/ /\ agreed'[c]
                 /\ \/ /\ state'[c] = "FROZEN" /\ frames'[c] = <<"save-state after">>
                       /\ toManager'[c] = toManager[c] \o <<"InteractDone">>
                    \/ Returned(c, "FROZEN", <<"InteractDone", "Done">>)
                    \/ Returned(c, "WAITING_FOR_PHASE_2", <<"InteractDone", "Phase2Request">>)
         /\ f # "quit-requested" => agreed'[c] = agreed[c]
         /\ f \in {"save-state first", "save-state-extended"} => Returned(c, "FROZEN", <<"Done">>)
         /\ f = "save-state after" =>
              Returned(c, state[c], <<"Done">>)
              \/ Returned(c, "WAITING_FOR_PHASE_2", <<"Phase2Request">>)
<1>1. \A msgs : Say(c, msgs) => toManager'[c] = toManager[c] \o msgs
  BY DEF Say, LibTypeOK
<1>2. \A s : Become(c, s) => state'[c] = s
  BY DEF Become, LibTypeOK
<1>3. Head(frames[c]) = f /\ Tail(frames[c]) = <<>> /\ frames[c] # <<>>
  BY Short
<1>4. ASSUME NEW cancel \in BOOLEAN, QuitRequestedReturns(c, cancel)
      PROVE  /\ ~cancelled'[c] /\ link'[c] = "open" /\ f = "quit-requested"
             /\ \/ Returned(c, "FROZEN", <<"InteractCancel", "Done">>)
                \/ /\ agreed'[c]
                   /\ \/ /\ state'[c] = "FROZEN" /\ frames'[c] = <<"save-state after">>
                         /\ toManager'[c] = toManager[c] \o <<"InteractDone">>
                      \/ Returned(c, "FROZEN", <<"InteractDone", "Done">>)
                      \/ Returned(c, "WAITING_FOR_PHASE_2", <<"InteractDone", "Phase2Request">>)
  <2>1. /\ ~cancelled'[c] /\ link'[c] = "open" /\ f = "quit-requested" /\ agreed'[c] = ~cancel
    BY <1>3, <1>4 DEF QuitRequestedReturns, connVars, LibTypeOK
  <2>2. CASE cancel
    <3>1. /\ AfterInteract(c, TRUE, "FROZEN", <<"InteractCancel">>)
          /\ frames' = [frames EXCEPT ![c] = Tail(@)]
      BY <1>4, <2>2 DEF QuitRequestedReturns
    <3>2. frames'[c] = <<>>
      BY <1>3, <3>1 DEF LibTypeOK
    <3>3. state'[c] = "FROZEN" /\ toManager'[c] = toManager[c] \o (<<"InteractCancel">> \o <<"Done">>)
      BY <1>1, <1>2, <3>1 DEF AfterInteract
    <3>. QED BY <2>1, <3>2, <3>3, Joined DEF Returned
  <2>3. CASE ~cancel
    <3>1. CASE needsSave[c]
      <4>1. /\ Become(c, "FROZEN") /\ Say(c, <<"InteractDone">>)
            /\ frames' = [frames EXCEPT ![c] = <<"save-state after">> \o Tail(@)]
        BY <1>4, <2>3, <3>1 DEF QuitRequestedReturns
      <4>2. frames'[c] = <<"save-state after">> \o <<>>
        BY <1>3, <4>1 DEF LibTypeOK
      <4>3. <<"save-state after">> \o <<>> = <<"save-state after">>
        OBVIOUS
      <4>. QED BY <1>1, <1>2, <2>1, <2>3, <4>1, <4>2, <4>3
    <3>2. CASE ~needsSave[c]
      <4>1. /\ AfterInteract(c, FALSE, "FROZEN", <<"InteractDone">>)
            /\ frames' = [frames EXCEPT ![c] = Tail(@)]
        BY <1>4, <2>3, <3>2 DEF QuitRequestedReturns
      <4>2. frames'[c] = <<>>
        BY <1>3, <4>1 DEF LibTypeOK
      <4>3. \/ state'[c] = "FROZEN" /\ toManager'[c] = toManager[c] \o (<<"InteractDone">> \o <<"Done">>)
            \/ /\ state'[c] = "WAITING_FOR_PHASE_2"
               /\ toManager'[c] = toManager[c] \o (<<"InteractDone">> \o <<"Phase2Request">>)
        BY <1>1, <1>2, <4>1 DEF AfterInteract
      <4>. QED BY <2>1, <2>3, <4>2, <4>3, Joined DEF Returned
    <3>. QED BY <3>1, <3>2
  <2>. QED BY <2>2, <2>3
<1>5. ASSUME SaveStateReturns(c)
      PROVE  /\ ~cancelled'[c] /\ link'[c] = "open" /\ agreed'[c] = agreed[c]
             /\ \/ f = "save-state first" /\ Returned(c, "FROZEN", <<"Done">>)
                \/ /\ f = "save-state after"
                   /\ \/ Returned(c, state[c], <<"Done">>)
                      \/ Returned(c, "WAITING_FOR_PHASE_2", <<"Phase2Request">>)
  <2>1. /\ ~cancelled'[c] /\ link'[c] = "open" /\ agreed'[c] = agreed[c] /\ frames'[c] = <<>>
    BY <1>3, <1>5 DEF SaveStateReturns, LowersCancellation, connVars, LibTypeOK
  <2>2. CASE f = "save-state first" /\ SavedFirst(c)
    BY <1>1, <1>2, <2>1, <2>2 DEF SavedFirst, Returned
  <2>3. CASE f = "save-state after" /\ AfterInteract(c, cancelled[c], IF cancelled[c] THEN "IDLE" ELSE state[c], <<>>)
    <3>1. \/ state'[c] = state[c] /\ toManager'[c] = toManager[c] \o (<<>> \o <<"Done">>)
          \/ /\ state'[c] = "WAITING_FOR_PHASE_2"
             /\ toManager'[c] = toManager[c] \o (<<>> \o <<"Phase2Request">>)
      BY <1>1, <1>2, <2>3 DEF AfterInteract
    <3>. QED BY <2>1, <2>3, <3>1, Joined DEF Returned
  <2>. QED BY <1>3, <1>5, <2>1, <2>2, <2>3 DEF SaveStateReturns
<1>6. ASSUME SaveStateExtendedReturns(c)
      PROVE  /\ ~cancelled'[c] /\ link'[c] = "open" /\ agreed'[c] = agreed[c]
             /\ f = "save-state-extended" /\ Returned(c, "FROZEN", <<"Done">>)
  BY <1>1, <1>2, <1>3, <1>6 DEF SaveStateExtendedReturns, Returned, connVars, LibTypeOK
<1>7. ~ReturnsToNothing(c)
  BY DEF ReturnsToNothing
<1>. QED BY <1>4, <1>5, <1>6, <1>7, Zenon DEF HandlerReturns

\* The answer of a handler is the one that the manager waits for.
LEMMA ReturnMeant ==
  ASSUME SessionInv, UNCHANGED mgrVars, NEW c \in Apps, HandlerReturns(c), toClient'[c] = toClient[c],
         conn[c] = "registered", ~quit, ~Broken(c), link[c] = "open", frames[c] # <<>>
  PROVE  Fits(c, mstate, cstate[c], toManager[c], toClient[c])'
<1>0. /\ Runs(c, mstate, cstate[c], toManager[c]) /\ toClient[c] = <<>> /\ ~cancelled[c]
      /\ LibTypeOK
  BY HandlerRuns DEF SessionInv, LibInv
<1>1. mstate' = mstate /\ cstate'[c] = cstate[c] /\ toClient'[c] = <<>>
  BY <1>0 DEF mgrVars
<1>2. ASSUME NEW f, frames[c] = <<f>>
      PROVE  /\ ~cancelled'[c] /\ link'[c] = "open"
             /\ f = "quit-requested" =>
                  \/ Returned(c, "FROZEN", <<"InteractCancel", "Done">>)
                  \/ /\ agreed'[c]
                     /\ \/ /\ state'[c] = "FROZEN" /\ frames'[c] = <<"save-state after">>
                           /\ toManager'[c] = toManager[c] \o <<"InteractDone">>
                        \/ Returned(c, "FROZEN", <<"InteractDone", "Done">>)
                        \/ Returned(c, "WAITING_FOR_PHASE_2", <<"InteractDone", "Phase2Request">>)
             /\ f # "quit-requested" => agreed'[c] = agreed[c]
             /\ f \in {"save-state first", "save-state-extended"} => Returned(c, "FROZEN", <<"Done">>)
             /\ f = "save-state after" =>
                  Returned(c, state[c], <<"Done">>)
                  \/ Returned(c, "WAITING_FOR_PHASE_2", <<"Phase2Request">>)
  BY <1>0, <1>2, ReturnShape
<1>3. /\ <<>> \o <<"Done">> = <<"Done">> /\ <<>> \o <<"Phase2Request">> = <<"Phase2Request">>
      /\ <<>> \o <<"InteractDone">> = <<"InteractDone">>
      /\ <<"InteractDone">> \o <<"Done">> = <<"InteractDone", "Done">>
      /\ <<"InteractDone">> \o <<"Phase2Request">> = <<"InteractDone", "Phase2Request">>
      /\ <<>> \o <<"InteractDone", "Done">> = <<"InteractDone", "Done">>
      /\ <<>> \o <<"InteractDone", "Phase2Request">> = <<"InteractDone", "Phase2Request">>
      /\ <<>> \o <<"InteractCancel", "Done">> = <<"InteractCancel", "Done">>
  BY Joined
<1>4. CASE /\ cstate[c] = "SAVING" /\ toManager[c] = <<>>
           /\ At(c, "SAVING_PHASE_1", <<"save-state first">>)
           /\ mstate = "SHUTDOWN" => c \notin Interested
  <2>1. /\ frames[c] = <<"save-state first">>
        /\ ~cancelled'[c] /\ link'[c] = "open" /\ Returned(c, "FROZEN", <<"Done">>)
    BY <1>2, <1>4 DEF At
  <2>2. toManager'[c] = <<"Done">> /\ At(c, "FROZEN", <<>>)' /\ Consents(c, mstate)'
    BY <1>1, <1>3, <1>4, <2>1 DEF Returned, At, Consents
  <2>. QED BY <1>1, <1>4, <2>1, <2>2 DEF Fits, FitsSaving
<1>5. CASE /\ cstate[c] = "SAVING" /\ toManager[c] = <<>> /\ Consents(c, mstate)
           /\ \/ At(c, "FROZEN", <<"save-state after">>)
              \/ At(c, "SAVING_PHASE_2", <<"save-state-extended">>)
  <2>1. PICK f : /\ frames[c] = <<f>> /\ f \in {"save-state after", "save-state-extended"}
                 /\ f = "save-state after" => state[c] = "FROZEN"
    <3>1. \/ frames[c] = <<"save-state after">> /\ state[c] = "FROZEN"
          \/ frames[c] = <<"save-state-extended">>
      BY <1>5 DEF At
    <3>2. "save-state-extended" # "save-state after"
      OBVIOUS
    <3>. QED BY <3>1, <3>2, Zenon
  <2>2. /\ ~cancelled'[c] /\ link'[c] = "open" /\ agreed'[c] = agreed[c]
        /\ \/ Returned(c, "FROZEN", <<"Done">>)
           \/ Returned(c, "WAITING_FOR_PHASE_2", <<"Phase2Request">>)
    BY <1>2, <2>1 DEF Returned
  <2>3. Consents(c, mstate)'
    BY <1>1, <1>5, <2>2 DEF Consents
  <2>4. \/ toManager'[c] = <<"Done">> /\ At(c, "FROZEN", <<>>)'
        \/ toManager'[c] = <<"Phase2Request">> /\ At(c, "WAITING_FOR_PHASE_2", <<>>)'
    BY <1>3, <1>5, <2>2 DEF Returned, At
  <2>. QED BY <1>1, <1>5, <2>2, <2>3, <2>4 DEF Fits, FitsSaving
<1>6. CASE /\ cstate[c] = "INTERACTING" /\ toManager[c] = <<>>
           /\ At(c, "INTERACTING", <<"quit-requested">>)
  <2>1. /\ frames[c] = <<"quit-requested">>
        /\ ~cancelled'[c] /\ link'[c] = "open"
        /\ \/ Returned(c, "FROZEN", <<"InteractCancel", "Done">>)
           \/ /\ agreed'[c]
              /\ \/ /\ state'[c] = "FROZEN" /\ frames'[c] = <<"save-state after">>
                    /\ toManager'[c] = toManager[c] \o <<"InteractDone">>
                 \/ Returned(c, "FROZEN", <<"InteractDone", "Done">>)
                 \/ Returned(c, "WAITING_FOR_PHASE_2", <<"InteractDone", "Phase2Request">>)
    BY <1>2, <1>6 DEF At
  <2>2. \/ toManager'[c] = <<"InteractCancel", "Done">> /\ At(c, "FROZEN", <<>>)'
        \/ /\ agreed'[c]
           /\ \/ toManager'[c] = <<"InteractDone">> /\ At(c, "FROZEN", <<"save-state after">>)'
              \/ toManager'[c] = <<"InteractDone", "Done">> /\ At(c, "FROZEN", <<>>)'
              \/ /\ toManager'[c] = <<"InteractDone", "Phase2Request">>
                 /\ At(c, "WAITING_FOR_PHASE_2", <<>>)'
    BY <1>3, <1>6, <2>1 DEF Returned, At
  <2>. QED BY <1>1, <1>6, <2>1, <2>2 DEF Fits, FitsInteracting
<1>7. CASE /\ cstate[c] = "INTERACTING" /\ toManager[c] = <<"InteractDone">> /\ agreed[c]
           /\ At(c, "FROZEN", <<"save-state after">>)
  <2>0. /\ frames[c] = <<"save-state after">> /\ state[c] = "FROZEN"
        /\ "save-state after" # "quit-requested"
    BY <1>7 DEF At
  <2>1. /\ ~cancelled'[c] /\ link'[c] = "open" /\ agreed'[c] = agreed[c]
        /\ \/ Returned(c, state[c], <<"Done">>)
           \/ Returned(c, "WAITING_FOR_PHASE_2", <<"Phase2Request">>)
    BY <1>2, <2>0, Zenon
  <2>2. \/ toManager'[c] = <<"InteractDone", "Done">> /\ At(c, "FROZEN", <<>>)'
        \/ /\ toManager'[c] = <<"InteractDone", "Phase2Request">>
           /\ At(c, "WAITING_FOR_PHASE_2", <<>>)'
    BY <1>3, <1>7, <2>0, <2>1 DEF Returned, At
  <2>3. agreed'[c]
    BY <1>7, <2>1, Zenon
  <2>. QED BY <1>1, <1>7, <2>1, <2>2, <2>3 DEF Fits, FitsInteracting
<1>. QED BY <1>0, <1>4, <1>5, <1>6, <1>7 DEF Runs

LEMMA ReturnFits ==
  ASSUME SessionInv, [Next]_vars, NEW c \in Apps, ClientReturns(c)
  PROVE  SessionInv'
<1>0. /\ HandlerReturns(c) /\ UNCHANGED mgrVars /\ toClient' = toClient
      /\ LibInv /\ LibTypeOK /\ LibInv' /\ ClientFits(c) /\ toClient \in [Apps -> Seq(Told)]
      /\ toManager[c] \in Seq(Messages)
  BY PartsKeep DEF ClientReturns, SessionInv, LibInv, LibTypeOK, Messages
<1>1. Alone(c)
  BY <1>0, LibAlone
<1>2. frames[c] # <<>> /\ link[c] \in {"none", "open"}
  <2>1. frames[c] # <<>>
    BY <1>0 DEF HandlerReturns, QuitRequestedReturns, SaveStateReturns, SaveStateExtendedReturns,
                ReturnsToNothing
  <2>. QED BY <1>0, <2>1 DEF ClientFits, OpensClean, LibTypeOK, Links
<1>3. CASE link[c] = "open"
  <2>1. PICK msgs \in Seq(Answers) : Replies(c, msgs)
    BY <1>0, <1>3, ReturnSays
  <2>2. /\ msgs \in Seq(SaidByClient) /\ msgs \in Seq(SaidByClient \ {"Close"})
        /\ "SaveRequest" \notin Range(msgs)
    <3>1. Answers \subseteq SaidByClient /\ Answers \subseteq SaidByClient \ {"Close"}
          /\ "SaveRequest" \notin Answers
      BY DEF Answers
    <3>. QED BY <3>1, SeqMonotonic DEF Range
  <2>3. AsksSave(c)' => AsksSave(c)
    BY <2>1, <2>2, AsksNoMore DEF Replies
  <2>4. conn[c] = "registered" /\ ~quit /\ ~Broken(c) =>
          Fits(c, mstate, cstate[c], toManager[c], toClient[c])'
    BY <1>0, <1>2, <1>3, ReturnMeant
  <2>5. ClientFits(c)'
    BY <1>0, <1>2, <1>3, <2>1, <2>2, <2>4, AnswerFits DEF Replies
  <2>. QED BY <1>0, <1>1, <2>3, <2>5, AloneFits
<1>4. CASE link[c] = "none"
  <2>1. /\ link'[c] = "none" /\ toManager'[c] = toManager[c]
        /\ reconnect'[c] => reconnect[c]
    <3>1. CASE SaveStateReturns(c)
      <4>1. SaysNothing(c) /\ SavedFirst(c)
        BY <1>4, <3>1 DEF SaveStateReturns, SaysNothing
      <4>2. Say(c, <<>>)
        BY <4>1 DEF SaysNothing, SavedFirst
      <4>3. toManager'[c] = toManager[c] \o <<>>
        BY <1>0, <4>2 DEF Say, LibTypeOK
      <4>. QED BY <1>0, <1>4, <3>1, <4>3, ConcatEmptySeq DEF SaveStateReturns, connVars
    <3>2. CASE ReturnsToNothing(c)
      BY <1>0, <1>4, <3>2 DEF ReturnsToNothing, Crash, LibTypeOK
    <3>. QED BY <1>0, <1>4, <3>1, <3>2 DEF HandlerReturns, QuitRequestedReturns, SaveStateExtendedReturns
  <2>2. AsksSave(c)' => AsksSave(c)
    BY <2>1 DEF AsksSave
  <2>3. /\ reconnect'[c] => c \in Reconnecting
        /\ frames'[c] # <<>> /\ reconnect'[c] => Nesting = {} \/ mstate = "SHUTDOWNPHASE2"
    BY <1>0, <1>2, <1>4, <2>1 DEF ClientFits, OpensClean
  <2>4. conn[c] = "registered" /\ ~quit /\ ~Broken(c) => LastWords(mstate, cstate[c], toManager'[c])
    BY <1>4, <2>1, Fitting
  <2>5. conn[c] = "new" => Broken(c)
    BY <1>0, <1>4 DEF ClientFits, Arrives, Opening
  <2>6. ClientFits(c)'
    BY <1>0, <2>1, <2>3, <2>4, <2>5, GoneFits DEF Hearing
  <2>. QED BY <1>0, <1>1, <2>2, <2>6, AloneFits
<1>. QED BY <1>2, <1>3, <1>4

-----------------------------------------------------------------------------
(* ... and what a client does when it hears something *)

LEMMA ReceiveSays ==
  ASSUME LibTypeOK, NEW c \in Apps, NEW m \in ToldByManager \ {"Die", "IOError"}, Receive(c, m)
  PROVE  \E msgs \in Seq(Answers) : Replies(c, msgs)
<1>1. \A msgs : Say(c, msgs) => toManager'[c] = toManager[c] \o msgs
  BY DEF Say, LibTypeOK
<1>2. UNCHANGED connVars =>
        (\A msgs \in Seq(Answers) : Say(c, msgs) => Replies(c, msgs))
  BY <1>1 DEF Replies, connVars
<1>3. CASE m \in SaveKinds /\ SaveYourself(c, m)
  <2>1. UNCHANGED connVars
    BY <1>3 DEF SaveYourself
  <2>2. \E msgs \in {<<>>, <<"Done">>, <<"InteractRequest">>} : Say(c, msgs)
    BY <1>3 DEF SaveYourself, SavedFirst
  <2>. QED BY <1>2, <2>1, <2>2, AnswersAre
<1>4. CASE Interact(c)
  BY <1>2, <1>4, AnswersAre DEF Interact
<1>5. CASE SaveYourselfPhase2(c)
  BY <1>2, <1>5, AnswersAre DEF SaveYourselfPhase2
<1>6. CASE SaveComplete(c)
  <2>1. toManager[c] \o <<>> = toManager[c]
    BY ConcatEmptySeq DEF LibTypeOK
  <2>2. Replies(c, <<>>)
    BY <1>6, <2>1 DEF SaveComplete, Replies, connVars
  <2>. QED BY <2>2, AnswersAre
<1>7. CASE ShutdownCancelled(c)
  <2>1. CASE FlagsCancellation(c)
    <3>1. toManager[c] \o <<>> = toManager[c]
      BY ConcatEmptySeq DEF LibTypeOK
    <3>2. Replies(c, <<>>)
      BY <1>7, <2>1, <3>1 DEF ShutdownCancelled, Replies, connVars
    <3>. QED BY <3>2, AnswersAre
  <2>2. CASE ~FlagsCancellation(c)
    <3>1. \E msgs \in {<<>>, <<"Done">>} : Say(c, msgs)
      BY <1>7, <2>2 DEF ShutdownCancelled
    <3>. QED BY <1>2, <1>7, <3>1, AnswersAre DEF ShutdownCancelled
  <2>. QED BY <2>1, <2>2
<1>. QED BY <1>3, <1>4, <1>5, <1>6, <1>7 DEF Receive, ToldByManager, SaveKinds

\* c, which fits, serves the message m.
LEMMA NewsMeant ==
  ASSUME SessionInv, UNCHANGED mgrVars, NEW c \in Apps,
         NEW m \in ToldByManager \ {"Die", "IOError"}, Receive(c, m),
         toClient[c] # <<>>, m = Head(toClient[c]), toClient'[c] = Tail(toClient[c]),
         conn[c] = "registered", ~quit, ~Broken(c)
  PROVE  Fits(c, mstate, cstate[c], toManager[c], toClient[c])'
<1>. DEFINE rest == Tail(toClient[c])
<1>0. /\ link[c] = "open" /\ LibTypeOK
      /\ News(c, m, mstate, cstate[c], toManager[c], rest) /\ ~cancelled[c]
  BY NewsComes DEF SessionInv, LibInv, Receive
<1>. HIDE DEF rest
<1>1. mstate' = mstate /\ cstate'[c] = cstate[c] /\ toClient'[c] = rest
  BY DEF mgrVars, rest
<1>2. \A msgs : Say(c, msgs) => toManager'[c] = toManager[c] \o msgs
  BY <1>0 DEF Say, LibTypeOK
<1>3. \A s : Become(c, s) => state'[c] = s
  BY <1>0 DEF Become, LibTypeOK
<1>4. ASSUME NEW f \in Frames, frames[c] = <<>>, Push(c, f) PROVE frames'[c] = <<f>>
  <2>1. frames'[c] = <<f>> \o <<>>
    BY <1>0, <1>4 DEF Push, LibTypeOK
  <2>. QED BY <2>1
<1>5. /\ <<>> \o <<"Done">> = <<"Done">> /\ <<>> \o <<"InteractRequest">> = <<"InteractRequest">>
      /\ <<"Done">> \o <<"InteractDone", "Done">> = <<"Done", "InteractDone", "Done">>
      /\ toManager[c] \o <<>> = toManager[c]
  <2>1. <<"Done">> \o <<"InteractDone", "Done">> = <<"Done", "InteractDone", "Done">>
    BY JoinedThree
  <2>2. toManager[c] \o <<>> = toManager[c]
    BY <1>0, ConcatEmptySeq DEF LibTypeOK
  <2>. QED BY <2>1, <2>2, Joined
<1>6. CASE m \in SaveKinds
  <2>1. SaveYourself(c, m)
    BY <1>6 DEF Receive, SaveKinds
  <2>2. CASE /\ m = "SaveLocal" /\ cstate[c] = "SAVINGLOCAL" /\ toManager[c] = <<>> /\ rest = <<>>
             /\ At(c, "REGISTERING", <<>>)
    <3>1. /\ Become(c, "FROZEN") /\ Say(c, <<"Done">>) /\ UNCHANGED <<link, frames, cancelled>>
      BY <2>1, <2>2 DEF SaveYourself, At, Interrupts, connVars
    <3>2. toManager'[c] = <<"Done">> /\ At(c, "FROZEN", <<>>)' /\ ~cancelled'[c]
      BY <1>0, <1>2, <1>3, <1>5, <2>2, <3>1 DEF At
    <3>. QED BY <1>1, <2>2, <3>2 DEF Fits, FitsLocal
  <2>3. CASE /\ m \in KindsOf(mstate) /\ cstate[c] = "SAVING" /\ toManager[c] = <<>> /\ rest = <<>>
             /\ At(c, "IDLE", <<>>)
    <3>1. /\ UNCHANGED <<link, agreed>> /\ link[c] = "open" /\ frames[c] = <<>> /\ state[c] = "IDLE"
      BY <2>1, <2>3 DEF SaveYourself, connVars, At
    <3>2. CASE DoQuitRequested(m) /\ c \in Interested
      <4>1. /\ Become(c, "WAITING_FOR_INTERACT") /\ Say(c, <<"InteractRequest">>)
            /\ UNCHANGED <<frames, cancelled>>
        BY <2>1, <3>1, <3>2 DEF SaveYourself, Interrupts
      <4>2. /\ toManager'[c] = <<"InteractRequest">> /\ At(c, "WAITING_FOR_INTERACT", <<>>)'
            /\ ~cancelled'[c]
        BY <1>0, <1>2, <1>3, <1>5, <2>3, <3>1, <4>1 DEF At
      <4>. QED BY <1>1, <2>3, <4>2 DEF Fits, FitsSaving
    <3>3. CASE ~(DoQuitRequested(m) /\ c \in Interested) /\ DoSaveState(m)
      <4>1. /\ Become(c, "SAVING_PHASE_1") /\ Say(c, <<>>) /\ Push(c, "save-state first")
            /\ UNCHANGED cancelled
        BY <2>1, <3>1, <3>3 DEF SaveYourself, Interrupts
      <4>2. /\ toManager'[c] = <<>> /\ state'[c] = "SAVING_PHASE_1" /\ ~cancelled'[c]
        BY <1>0, <1>2, <1>3, <1>5, <2>3, <4>1
      <4>3. frames'[c] = <<"save-state first">>
        BY <1>4, <3>1, <4>1 DEF Frames
      <4>4. mstate = "SHUTDOWN" => c \notin Interested
        BY <2>3, <3>3 DEF KindsOf, DoQuitRequested
      <4>. QED BY <1>1, <2>3, <3>1, <4>2, <4>3, <4>4 DEF Fits, FitsSaving, At
    <3>4. CASE ~(DoQuitRequested(m) /\ c \in Interested) /\ ~DoSaveState(m)
      <4>1. SavedFirst(c) /\ cancelled' = [cancelled EXCEPT ![c] = FALSE] /\ UNCHANGED frames
        BY <2>1, <3>1, <3>4 DEF SaveYourself, Interrupts
      <4>2. toManager'[c] = <<"Done">> /\ At(c, "FROZEN", <<>>)' /\ ~cancelled'[c]
        BY <1>0, <1>2, <1>3, <1>5, <2>3, <3>1, <4>1 DEF At, SavedFirst, LibTypeOK
      <4>3. c \notin Interested
        BY <3>4 DEF DoSaveState, DoQuitRequested
      <4>. QED BY <1>1, <2>3, <4>2, <4>3 DEF Fits, FitsSaving, Consents
    <3>. QED BY <3>2, <3>3, <3>4
  <2>. QED BY <1>0, <1>6, <2>2, <2>3 DEF News, SaveKinds
<1>7. CASE m = "Interact"
  <2>1. /\ Interact(c) /\ cstate[c] = "INTERACTING" /\ rest = <<>>
        /\ \/ toManager[c] = <<>> /\ At(c, "WAITING_FOR_INTERACT", <<>>)
           \/ mstate = "CHECKPOINT" /\ toManager[c] = <<"Done">> /\ At(c, "IDLE", <<>>)
    BY <1>0, <1>7 DEF Receive, SaveKinds, News, KindsOf
  <2>2. link'[c] = "open" /\ ~cancelled'[c]
    BY <1>0, <2>1 DEF Interact, connVars
  <2>3. CASE toManager[c] = <<>> /\ At(c, "WAITING_FOR_INTERACT", <<>>)
    <3>1. Become(c, "INTERACTING") /\ Say(c, <<>>) /\ Push(c, "quit-requested") /\ frames[c] = <<>>
      BY <2>1, <2>3 DEF Interact, At
    <3>2. toManager'[c] = <<>> /\ state'[c] = "INTERACTING"
      BY <1>2, <1>3, <1>5, <2>3, <3>1
    <3>3. frames'[c] = <<"quit-requested">>
      BY <1>4, <3>1 DEF Frames
    <3>. QED BY <1>1, <2>1, <2>2, <3>2, <3>3 DEF Fits, FitsInteracting, At
  <2>4. CASE mstate = "CHECKPOINT" /\ toManager[c] = <<"Done">> /\ At(c, "IDLE", <<>>)
    <3>1. Become(c, "FROZEN") /\ Say(c, <<"InteractDone", "Done">>) /\ UNCHANGED frames
      BY <2>1, <2>4 DEF Interact, At
    <3>2. toManager'[c] = <<"Done", "InteractDone", "Done">> /\ At(c, "FROZEN", <<>>)'
      BY <1>2, <1>3, <1>5, <2>2, <2>4, <3>1 DEF At
    <3>. QED BY <1>1, <2>1, <2>2, <2>4, <3>2 DEF Fits, FitsInteracting, FitsMisled
  <2>. QED BY <2>1, <2>3, <2>4
<1>8. CASE m = "SaveYourselfPhase2"
  <2>1. /\ SaveYourselfPhase2(c) /\ cstate[c] = "SAVING" /\ rest = <<>> /\ toManager[c] = <<>>
        /\ At(c, "WAITING_FOR_PHASE_2", <<>>) /\ Consents(c, mstate)
    BY <1>0, <1>8 DEF Receive, SaveKinds, News, KindsOf
  <2>2. Become(c, "SAVING_PHASE_2") /\ Say(c, <<>>) /\ Push(c, "save-state-extended")
        /\ frames[c] = <<>> /\ UNCHANGED <<link, cancelled, agreed>> /\ link[c] = "open"
    BY <2>1 DEF SaveYourselfPhase2, At, connVars
  <2>3. toManager'[c] = <<>> /\ state'[c] = "SAVING_PHASE_2" /\ ~cancelled'[c]
    BY <1>0, <1>2, <1>3, <1>5, <2>1, <2>2
  <2>4. frames'[c] = <<"save-state-extended">>
    BY <1>4, <2>2 DEF Frames
  <2>5. Consents(c, mstate)'
    BY <1>1, <2>1, <2>2 DEF Consents
  <2>. QED BY <1>1, <2>1, <2>2, <2>3, <2>4, <2>5 DEF Fits, FitsSaving, At
<1>9. CASE m = "SaveComplete"
  <2>1. /\ SaveComplete(c) /\ Thawing(c)
        /\ \/ cstate[c] = "IDLE" /\ toManager[c] \in {<<>>, <<"SaveRequest">>} /\ rest = <<>>
           \/ cstate[c] = "SAVING" /\ toManager[c] = <<>> /\ \E k \in KindsOf(mstate) : rest = <<k>>
    BY <1>0, <1>9 DEF Receive, SaveKinds, News, KindsOf
  <2>2. At(c, "IDLE", <<>>)' /\ toManager'[c] = toManager[c] /\ ~cancelled'[c]
    BY <1>0, <1>3, <2>1 DEF SaveComplete, connVars, saveVars, Thawing, At
  <2>3. CASE cstate[c] = "IDLE" /\ toManager[c] \in {<<>>, <<"SaveRequest">>} /\ rest = <<>>
    BY <1>1, <2>2, <2>3 DEF Fits, FitsIdle
  <2>4. CASE cstate[c] = "SAVING" /\ toManager[c] = <<>> /\ \E k \in KindsOf(mstate) : rest = <<k>>
    <3>1. PICK k \in KindsOf(mstate) : rest = <<k>>
      BY <2>4
    <3>2. Asked(c, k, toClient[c])'
      BY <1>1, <2>2, <3>1 DEF Asked
    <3>. QED BY <1>1, <2>2, <2>4, <3>2 DEF Fits, FitsSaving
  <2>. QED BY <2>1, <2>3, <2>4
<1>10. CASE m = "ShutdownCancelled"
  <2>1. /\ ShutdownCancelled(c) /\ mstate = "CHECKPOINT" /\ toManager[c] = <<>>
        /\ At(c, "WAITING_FOR_INTERACT", <<>>)
        /\ \/ cstate[c] = "INTERACTING" /\ rest = <<"Interact">>
           \/ cstate[c] = "WAITFORINTERACT" /\ rest = <<>>
    BY <1>0, <1>10 DEF Receive, SaveKinds, News, KindsOf
  <2>2. Become(c, "IDLE") /\ Say(c, <<"Done">>) /\ UNCHANGED <<link, frames, cancelled>>
    BY <2>1 DEF ShutdownCancelled, FlagsCancellation, At, connVars
  <2>3. toManager'[c] = <<"Done">> /\ At(c, "IDLE", <<>>)' /\ ~cancelled'[c]
    BY <1>0, <1>2, <1>3, <1>5, <2>1, <2>2 DEF At
  <2>. QED BY <1>1, <2>1, <2>3 DEF Fits, FitsInteracting, FitsMisled, FitsWaiting
<1>. QED BY <1>6, <1>7, <1>8, <1>9, <1>10 DEF ToldByManager

\* c hears something, and the invariant is kept if c then fits.
LEMMA ServesAlone ==
  ASSUME SessionInv, [Next]_vars, NEW c \in Apps, UNCHANGED mgrVars, toClient[c] # <<>>,
         toClient' = [toClient EXCEPT ![c] = Tail(@)], Alone(c),
         AsksSave(c)' => AsksSave(c), ClientFits(c)'
  PROVE  SessionInv'
<1>1. toClient \in [Apps -> Seq(Told)]
  BY DEF SessionInv
<1>2. toClient'[c] = Tail(toClient[c]) /\ \A d \in Apps \ {c} : toClient'[d] = toClient[d]
  BY <1>1
<1>3. Tail(toClient[c]) \in Seq(Told)
  BY <1>1, HeadTailProperties
<1>4. toClient' \in [Apps -> Seq(Told)]
  BY <1>1, <1>3
<1>. QED BY <1>2, <1>4, AloneFits

\* The manager accepts the client.
LEMMA OpenedFits ==
  ASSUME SessionInv, [Next]_vars, NEW c \in Apps, UNCHANGED mgrVars, toClient[c] # <<>>,
         toClient' = [toClient EXCEPT ![c] = Tail(@)],
         Head(toClient[c]) \in {"Registered", "Resumed"},
         Opened(c, Head(toClient[c]) = "Resumed")
  PROVE  SessionInv'
<1>. DEFINE m == Head(toClient[c])
            rest == Tail(toClient[c])
<1>0. /\ LibInv /\ LibTypeOK /\ LibInv' /\ ClientFits(c) /\ toClient \in [Apps -> Seq(Told)]
      /\ toManager[c] \in Seq(Messages)
  BY PartsKeep DEF SessionInv, LibInv, LibTypeOK, Messages
<1>1. Alone(c)
  BY <1>0, LibAlone
<1>2. /\ link[c] \in {"opening", "reopening"} /\ link'[c] = "open"
      /\ state'[c] = IF m = "Resumed" THEN "IDLE" ELSE "REGISTERING"
      /\ UNCHANGED <<frames, cancelled, agreed, reconnect, toManager>>
  BY <1>0 DEF Opened, Become, saveVars, LibTypeOK
<1>3. mstate' = mstate /\ cstate'[c] = cstate[c] /\ toClient'[c] = rest /\ conn' = conn /\ quit' = quit
  BY <1>0 DEF mgrVars
<1>4. AsksSave(c)' => AsksSave(c)
  BY <1>2 DEF AsksSave
<1>5. toManager'[c] = toManager[c] \o <<>> /\ <<>> \in Seq(SaidByClient \ {"Close"})
  BY <1>0, <1>2, ConcatEmptySeq
<1>6. ASSUME conn[c] = "registered", ~quit, ~Broken(c)
      PROVE  Fits(c, mstate, cstate[c], toManager[c], toClient[c])'
  <2>1. /\ News(c, m, mstate, cstate[c], toManager[c], rest) /\ ~cancelled[c]
    BY <1>2, <1>6, NewsComes
  <2>. HIDE DEF rest, m
  <2>2. CASE m = "Registered"
    <3>1. /\ cstate[c] = "SAVINGLOCAL" /\ toManager[c] = <<>> /\ rest = <<"SaveLocal">>
          /\ frames[c] = <<>>
      BY <2>1, <2>2 DEF News, Opening, KindsOf
    <3>2. At(c, "REGISTERING", <<>>)'
      BY <1>2, <2>2, <3>1 DEF At
    <3>. QED BY <1>2, <1>3, <2>1, <3>1, <3>2 DEF Fits, FitsLocal
  <2>3. CASE m = "Resumed"
    <3>1. /\ frames[c] = <<>>
          /\ \/ cstate[c] = "IDLE" /\ toManager[c] \in {<<>>, <<"SaveRequest">>} /\ rest = <<>>
             \/ cstate[c] = "SAVING" /\ toManager[c] = <<>> /\ \E k \in KindsOf(mstate) : rest = <<k>>
      BY <2>1, <2>3 DEF News, Opening, KindsOf
    <3>2. At(c, "IDLE", <<>>)'
      BY <1>2, <2>3, <3>1 DEF At
    <3>3. CASE cstate[c] = "IDLE" /\ toManager[c] \in {<<>>, <<"SaveRequest">>} /\ rest = <<>>
      BY <1>2, <1>3, <2>1, <3>2, <3>3 DEF Fits, FitsIdle
    <3>4. CASE cstate[c] = "SAVING" /\ toManager[c] = <<>> /\ \E k \in KindsOf(mstate) : rest = <<k>>
      <4>1. PICK k \in KindsOf(mstate) : rest = <<k>>
        BY <3>4
      <4>2. Asked(c, k, toClient[c])'
        BY <1>3, <3>2, <4>1 DEF Asked
      <4>. QED BY <1>2, <1>3, <2>1, <3>4, <4>2 DEF Fits, FitsSaving
    <3>. QED BY <3>1, <3>3, <3>4
  <2>. QED BY <2>2, <2>3 DEF m
<1>7. ClientFits(c)'
  <2>1. link[c] # "none" /\ reconnect'[c] = reconnect[c] /\ Head(toClient[c]) # "IOError"
    BY <1>2
  <2>. HIDE DEF m, rest
  <2>2. toClient'[c] = Tail(toClient[c])
    BY <1>3 DEF rest
  <2>. QED BY <1>0, <1>2, <1>5, <1>6, <2>1, <2>2, AnswerFits
<1>. QED BY <1>1, <1>4, <1>7, ServesAlone

\* c hears anything but its end.
LEMMA HearsNews ==
  ASSUME SessionInv, [Next]_vars, NEW c \in Apps, UNCHANGED mgrVars, toClient[c] # <<>>,
         toClient' = [toClient EXCEPT ![c] = Tail(@)],
         NEW m \in ToldByManager \ {"Die", "IOError"}, m = Head(toClient[c]), Receive(c, m)
  PROVE  SessionInv'
<1>0. /\ LibInv /\ LibTypeOK /\ LibInv' /\ toClient \in [Apps -> Seq(Told)] /\ link[c] = "open"
  BY PartsKeep DEF SessionInv, LibInv, Receive
<1>1. Alone(c)
  BY <1>0, LibAlone
<1>2. PICK msgs \in Seq(Answers) : Replies(c, msgs)
  BY <1>0, ReceiveSays
<1>3. /\ msgs \in Seq(SaidByClient) /\ msgs \in Seq(SaidByClient \ {"Close"})
      /\ "SaveRequest" \notin Range(msgs)
  <2>1. Answers \subseteq SaidByClient /\ Answers \subseteq SaidByClient \ {"Close"}
        /\ "SaveRequest" \notin Answers
    BY DEF Answers
  <2>. QED BY <2>1, SeqMonotonic DEF Range
<1>4. AsksSave(c)' => AsksSave(c)
  BY <1>2, <1>3, AsksNoMore DEF Replies
<1>5. toClient'[c] = Tail(toClient[c]) /\ Head(toClient[c]) # "IOError"
  BY <1>0
<1>6. conn[c] = "registered" /\ ~quit /\ ~Broken(c) =>
        Fits(c, mstate, cstate[c], toManager[c], toClient[c])'
  BY <1>5, NewsMeant
<1>7. ClientFits(c)'
  BY <1>0, <1>2, <1>3, <1>5, <1>6, AnswerFits DEF Replies
<1>. QED BY <1>1, <1>4, <1>7, ServesAlone

\* No handler can run the main loop, or no client whose connection breaks comes back on its
\* own: a handler is never suspended on one connection and resumed on the next.
OneConnection == Nesting = {} \/ Breaking \cap Reconnecting = {}

\* A client that fits does not hear that its connection broke.
LEMMA NoErrorFits ==
  ASSUME SessionInv, NEW c \in Apps, conn[c] = "registered", ~quit, ~Broken(c),
         link[c] # "none", toClient[c] # <<>>
  PROVE  Head(toClient[c]) # "IOError"
<1>1. News(c, Head(toClient[c]), mstate, cstate[c], toManager[c], Tail(toClient[c]))
  BY NewsComes
<1>. QED BY <1>1 DEF News, KindsOf

\* The client finds its connection broken.
LEMMA LostFits ==
  ASSUME SessionInv, [Next]_vars, OneConnection, NEW c \in Apps, UNCHANGED mgrVars,
         toClient[c] # <<>>, toClient' = [toClient EXCEPT ![c] = Tail(@)],
         Head(toClient[c]) = "IOError", OpenFailed(c) \/ Receive(c, "IOError")
  PROVE  SessionInv'
<1>0. /\ LibInv /\ LibTypeOK /\ LibInv' /\ ClientFits(c) /\ toClient \in [Apps -> Seq(Told)]
  BY PartsKeep DEF SessionInv, LibInv
<1>1. OpenFailed(c) \/ ConnectionLost(c)
  BY DEF Receive, SaveKinds
<1>2. Alone(c)
  BY <1>0, LibAlone DEF ToldByManager
<1>3. /\ link[c] # "none" /\ link'[c] = "none" /\ toManager'[c] = toManager[c]
      /\ frames'[c] = frames[c]
      /\ reconnect'[c] => reconnect[c] \/ link[c] = "reopening" \/ c \in Reconnecting
  BY <1>0, <1>1 DEF OpenFailed, ConnectionLost, StartAutoReconnect, saveVars, LibTypeOK
<1>4. reconnect'[c] => c \in Reconnecting
  BY <1>0, <1>3 DEF ClientFits, OpensClean
<1>5. "IOError" \in Range(toClient[c])
  <2>1. 1 \in DOMAIN toClient[c] /\ toClient[c][1] = "IOError"
    BY <1>0
  <2>. QED BY <2>1 DEF Range
<1>6. frames'[c] # <<>> /\ reconnect'[c] => Nesting = {} \/ mstate = "SHUTDOWNPHASE2"
  BY <1>0, <1>4, <1>5 DEF ClientFits, OpensClean, OneConnection
<1>7. /\ ~(conn[c] = "registered" /\ ~quit /\ ~Broken(c))
      /\ conn[c] = "new" => Broken(c)
  BY <1>0, <1>3, NoErrorFits DEF ClientFits, Arrives
<1>8. Hearing(c)
  BY <1>0 DEF Hearing
<1>9. ClientFits(c)'
  BY <1>0, <1>3, <1>4, <1>6, <1>7, <1>8, GoneFits
<1>10. AsksSave(c)' => AsksSave(c)
  BY <1>3 DEF AsksSave
<1>. QED BY <1>2, <1>9, <1>10, ServesAlone

LEMMA ClosesIs == <<"Close">> \in Seq(SaidByClient) /\ "SaveRequest" \notin Range(<<"Close">>)
BY FewSaid DEF SaidByClient

\* What a client disconnects with.
LEMMA Disconnecting ==
  ASSUME LibTypeOK, NEW c \in Apps, Disconnected(c)
  PROVE  /\ link'[c] = "none" /\ ~reconnect'[c]
         /\ link[c] = "open" => toManager'[c] = toManager[c] \o <<"Close">>
         /\ link[c] # "open" => toManager'[c] = toManager[c]
<1>1. toManager[c] \o <<>> = toManager[c]
  BY ConcatEmptySeq DEF LibTypeOK
<1>. QED BY <1>1 DEF Disconnected, StopsTimer, Say, LibTypeOK

\* The client quits as it is told to.
LEMMA DieFits ==
  ASSUME SessionInv, [Next]_vars, NEW c \in Apps, UNCHANGED mgrVars,
         toClient[c] # <<>>, toClient' = [toClient EXCEPT ![c] = Tail(@)],
         Head(toClient[c]) = "Die", Receive(c, "Die")
  PROVE  SessionInv'
<1>0. /\ LibInv /\ LibTypeOK /\ LibInv' /\ ClientFits(c) /\ toClient \in [Apps -> Seq(Told)]
      /\ Die(c) /\ link[c] = "open"
  BY PartsKeep DEF SessionInv, LibInv, Receive, SaveKinds
<1>1. Alone(c)
  BY <1>0, LibAlone DEF ToldByManager
<1>2. link'[c] = "none" /\ ~reconnect'[c] /\ toManager'[c] = toManager[c] \o <<"Close">>
  BY <1>0, Disconnecting DEF Die
<1>3. ASSUME conn[c] = "registered", ~quit, ~Broken(c)
      PROVE  LastWords(mstate, cstate[c], toManager'[c])
  <2>1. News(c, "Die", mstate, cstate[c], toManager[c], Tail(toClient[c]))
    BY <1>0, <1>3, NewsComes
  <2>2. toManager[c] = <<>>
    BY <2>1 DEF News, KindsOf
  <2>3. toManager'[c] = <<"Close">>
    BY <1>2, <2>2, Joined
  <2>. QED BY <2>3 DEF LastWords
<1>4. conn[c] = "new" => Broken(c)
  BY <1>0 DEF ClientFits, Arrives
<1>5. Hearing(c)
  BY <1>0 DEF Hearing
<1>6. ClientFits(c)'
  BY <1>0, <1>2, <1>3, <1>4, <1>5, GoneFits
<1>7. AsksSave(c)' => AsksSave(c)
  BY <1>2, AsksNoMore, ClosesIs
<1>. QED BY <1>1, <1>6, <1>7, ServesAlone

\* What comes for a client without a connection is lost.
LEMMA LostNewsFits ==
  ASSUME SessionInv, [Next]_vars, NEW c \in Apps, UNCHANGED mgrVars, UNCHANGED libVars,
         toClient[c] # <<>>, toClient' = [toClient EXCEPT ![c] = Tail(@)], link[c] = "none"
  PROVE  SessionInv'
<1>0. /\ LibInv /\ LibTypeOK /\ LibInv' /\ ClientFits(c) /\ toClient \in [Apps -> Seq(Told)]
  BY PartsKeep DEF SessionInv, LibInv
<1>1. UNCHANGED <<state, link, frames, reconnect, agreed, cancelled, toManager>>
  BY DEF libVars, connVars, saveVars
<1>2. Alone(c)
  BY <1>1 DEF Alone
<1>3. /\ reconnect'[c] => c \in Reconnecting
      /\ frames'[c] # <<>> /\ reconnect'[c] => Nesting = {} \/ mstate = "SHUTDOWNPHASE2"
      /\ conn[c] = "new" => Broken(c)
  BY <1>0, <1>1 DEF ClientFits, OpensClean, Arrives
<1>4. conn[c] = "registered" /\ ~quit /\ ~Broken(c) => LastWords(mstate, cstate[c], toManager'[c])
  BY <1>1, Fitting
<1>5. Hearing(c)
  BY <1>0 DEF Hearing
<1>6. ClientFits(c)'
  BY <1>0, <1>1, <1>3, <1>4, <1>5, GoneFits
<1>7. AsksSave(c)' => AsksSave(c)
  BY <1>1 DEF AsksSave
<1>. QED BY <1>2, <1>6, <1>7, ServesAlone

LEMMA ServesFits ==
  ASSUME SessionInv, [Next]_vars, OneConnection, NEW c \in Apps, ClientServes(c)
  PROVE  SessionInv'
<1>1. /\ toClient[c] # <<>> /\ toClient' = [toClient EXCEPT ![c] = Tail(@)] /\ UNCHANGED mgrVars
      /\ \/ Head(toClient[c]) \in {"Registered", "Resumed"} /\ Opened(c, Head(toClient[c]) = "Resumed")
         \/ Head(toClient[c]) = "IOError" /\ OpenFailed(c)
         \/ Head(toClient[c]) \in ToldByManager /\ Receive(c, Head(toClient[c]))
         \/ link[c] = "none" /\ UNCHANGED libVars
  BY DEF ClientServes
<1>2. CASE Head(toClient[c]) \in {"Registered", "Resumed"} /\ Opened(c, Head(toClient[c]) = "Resumed")
  BY <1>1, <1>2, OpenedFits
<1>3. CASE Head(toClient[c]) = "IOError" /\ OpenFailed(c)
  BY <1>1, <1>3, LostFits
<1>4. CASE Head(toClient[c]) \in ToldByManager /\ Receive(c, Head(toClient[c]))
  <2>1. CASE Head(toClient[c]) = "IOError"
    BY <1>1, <1>4, <2>1, LostFits
  <2>2. CASE Head(toClient[c]) = "Die"
    BY <1>1, <1>4, <2>2, DieFits
  <2>3. CASE Head(toClient[c]) \notin {"IOError", "Die"}
    BY <1>1, <1>4, <2>3, HearsNews
  <2>. QED BY <2>1, <2>2, <2>3
<1>5. CASE link[c] = "none" /\ UNCHANGED libVars
  BY <1>1, <1>5, LostNewsFits
<1>. QED BY <1>1, <1>2, <1>3, <1>4, <1>5

-----------------------------------------------------------------------------
(* ... and what it does of its own accord *)

\* A client may go at any time: the manager makes sense of what it said last.
LEMMA Parting ==
  ASSUME SessionInv, NEW c \in Apps, conn[c] = "registered", ~quit, ~Broken(c),
         link[c] = "open", frames[c] = <<>>
  PROVE  LastWords(mstate, cstate[c], toManager[c] \o <<"Close">>)
<1>. DEFINE tm == toManager[c]
            tc == toClient[c]
            cs == cstate[c]
<1>1. /\ Fits(c, mstate, cs, tm, tc)
      /\ cs \in {"IDLE", "INTERACTING", "SAVEDONE", "SAVING", "SAVINGLOCAL",
                 "WAITFORINTERACT", "WAITFORPHASE2"}
      /\ tm \in Seq(Messages)
  BY Fitting DEF SessionInv, LibInv, LibTypeOK, Messages
<1>. SUFFICES LastWords(mstate, cs, tm \o <<"Close">>)
  OBVIOUS
<1>. HIDE DEF tm, tc, cs
<1>. USE DEF Fits, LastWords
<1>2. tm = <<>> => tm \o <<"Close">> = <<"Close">>
  BY Joined
<1>3. tm # <<>> => tm \o <<"Close">> # <<>> /\ Head(tm \o <<"Close">>) = Head(tm)
  <2>1. <<"Close">> \in Seq(Messages)
    BY DEF Messages, SaidByClient
  <2>. QED BY <1>1, <2>1, Ends, SMTT(20)
<1>4. CASE tm = <<>>
  BY <1>2, <1>4
<1>5. CASE tm # <<>> /\ cs \in {"IDLE", "SAVINGLOCAL"}
  <2>1. \/ cs = "IDLE" /\ tm = <<"SaveRequest">>
        \/ cs = "SAVINGLOCAL" /\ tm = <<"Done">>
    BY <1>1, <1>5 DEF FitsIdle, FitsLocal
  <2>. QED BY <2>1, Joined
<1>6. CASE tm # <<>> /\ cs = "SAVING"
  <2>1. tm \in {<<"InteractRequest">>, <<"Done">>, <<"Phase2Request">>}
    BY <1>1, <1>6 DEF FitsSaving
  <2>. QED BY <1>6, <2>1, Joined
<1>7. CASE tm # <<>> /\ cs = "INTERACTING"
  <2>1. \/ tm \in {<<"InteractDone", "Done">>, <<"InteractDone", "Phase2Request">>,
                   <<"InteractCancel", "Done">>}
        \/ mstate = "CHECKPOINT" /\ Head(tm) = "Done"
    BY <1>1, <1>7, Short DEF FitsInteracting, FitsMisled, At
  <2>2. CASE tm \in {<<"InteractDone", "Done">>, <<"InteractDone", "Phase2Request">>,
                      <<"InteractCancel", "Done">>}
    <3>1. tm \o <<"Close">> \in {<<"InteractDone", "Done", "Close">>,
                                  <<"InteractCancel", "Done", "Close">>,
                                  <<"InteractDone", "Phase2Request", "Close">>}
      <4>1. CASE tm = <<"InteractDone", "Done">>
        <5>1. tm \o <<"Close">> = <<"InteractDone", "Done", "Close">>
          BY <4>1, Joined
        <5>. QED BY <5>1
      <4>2. CASE tm = <<"InteractDone", "Phase2Request">>
        <5>1. tm \o <<"Close">> = <<"InteractDone", "Phase2Request", "Close">>
          BY <4>2, Joined
        <5>. QED BY <5>1
      <4>3. CASE tm = <<"InteractCancel", "Done">>
        <5>1. tm \o <<"Close">> = <<"InteractCancel", "Done", "Close">>
          BY <4>3, Joined
        <5>. QED BY <5>1
      <4>. QED BY <2>2, <4>1, <4>2, <4>3
    <3>. QED BY <1>7, <3>1
  <2>3. CASE mstate = "CHECKPOINT" /\ Head(tm) = "Done"
    BY <1>3, <1>7, <2>3
  <2>. QED BY <2>1, <2>2, <2>3
<1>8. CASE tm # <<>> /\ cs = "WAITFORINTERACT"
  BY <1>1, <1>8, Joined DEF FitsWaiting
<1>9. CASE tm # <<>> /\ cs \in {"WAITFORPHASE2", "SAVEDONE"}
  BY <1>1, <1>9 DEF FitsPhase2, FitsDone
<1>. QED BY <1>1, <1>4, <1>5, <1>6, <1>7, <1>8, <1>9

LEMMA DisconnectFits ==
  ASSUME SessionInv, [Next]_vars, NEW c \in Apps, UNCHANGED mgrVars, UNCHANGED toClient, Disconnect(c)
  PROVE  SessionInv'
<1>0. /\ LibInv /\ LibTypeOK /\ LibInv' /\ ClientFits(c) /\ toClient' \in [Apps -> Seq(Told)]
      /\ Disconnected(c) /\ link[c] \in {"none", "open"} /\ frames[c] = <<>> /\ frames' = frames
  BY PartsKeep DEF SessionInv, LibInv, Disconnect, Listening, LibTypeOK, Links
<1>1. Alone(c)
  BY <1>0, LibAlone
<1>2. /\ link'[c] = "none" /\ ~reconnect'[c]
      /\ link[c] = "open" => toManager'[c] = toManager[c] \o <<"Close">>
      /\ link[c] # "open" => toManager'[c] = toManager[c]
  BY <1>0, Disconnecting
<1>3. conn[c] = "registered" /\ ~quit /\ ~Broken(c) => LastWords(mstate, cstate[c], toManager'[c])
  BY <1>0, <1>2, Fitting, Parting
<1>4. conn[c] = "new" => Broken(c)
  BY <1>0 DEF ClientFits, Arrives, Opening
<1>5. Hearing(c)
  BY DEF Hearing
<1>6. ClientFits(c)'
  BY <1>0, <1>2, <1>3, <1>4, <1>5, GoneFits
<1>7. AsksSave(c)' => AsksSave(c)
  <2>1. CASE link[c] = "open"
    BY <1>2, <2>1, AsksNoMore, ClosesIs
  <2>2. CASE link[c] # "open"
    BY <1>2, <2>2 DEF AsksSave
  <2>. QED BY <2>1, <2>2
<1>. QED BY <1>0, <1>1, <1>6, <1>7, AloneFits

\* The timer finds its work done.
LEMMA TimerFits ==
  ASSUME SessionInv, [Next]_vars, NEW c \in Apps, UNCHANGED mgrVars, UNCHANGED toClient, TimerExpires(c)
  PROVE  SessionInv'
<1>0. /\ LibTypeOK /\ ClientFits(c) /\ toClient' \in [Apps -> Seq(Told)]
      /\ UNCHANGED <<mstate, cstate, conn, quit>>
  BY DEF SessionInv, LibInv, mgrVars
<1>1. Alone(c)
  BY <1>0, LibAlone
<1>2. Untouched(c)
  BY <1>0 DEF TimerExpires, Untouched, saveVars, LibTypeOK
<1>3. ClientFits(c)'
  BY <1>0, <1>2, UntouchedFits
<1>4. AsksSave(c)' => AsksSave(c)
  BY <1>2 DEF Untouched, AsksSave
<1>. QED BY <1>0, <1>1, <1>3, <1>4, AloneFits

\* A client asks for a logout while all is calm.
LEMMA ShutdownRequestFits ==
  ASSUME SessionInv, [Next]_vars, NEW c \in Apps, UNCHANGED mgrVars, UNCHANGED toClient,
         AtRest, Settled, mstate = "IDLE", RequestShutdown(c)
  PROVE  SessionInv'
<1>0. /\ LibInv /\ LibTypeOK /\ LibInv' /\ ClientFits(c) /\ toClient' \in [Apps -> Seq(Told)]
      /\ link[c] = "open" /\ frames[c] = <<>> /\ toManager[c] \in Seq(Messages)
  BY PartsKeep DEF SessionInv, LibInv, LibTypeOK, RequestShutdown, Messages
<1>1. Alone(c)
  BY <1>0, LibAlone
<1>2. /\ toManager'[c] = toManager[c] \o <<"SaveRequest">>
      /\ UNCHANGED <<state, link, frames, reconnect, agreed, cancelled>>
  BY <1>0 DEF RequestShutdown, Say, connVars, saveVars, LibTypeOK
<1>3. ASSUME conn[c] = "registered", ~quit, ~Broken(c)
      PROVE  Fits(c, mstate, cstate[c], toManager[c], toClient[c])'
  <2>1. cstate[c] = "IDLE"
    <3>1. MgrFacts
      BY ManagerFacts DEF SessionInv
    <3>. QED BY <3>1 DEF Settled, MgrFacts
  <2>2. FitsIdle(c, toManager[c], toClient[c]) /\ ~cancelled[c]
    BY <1>0, <1>3, <2>1, Fitting DEF Fits
  <2>3. toManager[c] = <<>>
    <3>1. ~AsksSave(c)
      BY <1>0, RestIs DEF Resting
    <3>2. toManager[c] # <<"SaveRequest">>
      BY <3>1, FewSaid DEF AsksSave
    <3>. QED BY <2>2, <3>2 DEF FitsIdle
  <2>4. toManager'[c] = <<"SaveRequest">>
    BY <1>2, <2>3, Joined
  <2>5. mstate' = mstate /\ cstate'[c] = cstate[c] /\ toClient'[c] = toClient[c]
    BY DEF mgrVars
  <2>6. FitsIdle(c, toManager[c], toClient[c])'
    BY <1>2, <2>2, <2>4, <2>5 DEF FitsIdle, At, Thawing, Opening
  <2>. QED BY <1>2, <2>1, <2>2, <2>5, <2>6 DEF Fits
<1>4. <<"SaveRequest">> \in Seq(SaidByClient \ {"Close"})
  BY DEF SaidByClient
<1>5. ClientFits(c)'
  BY <1>0, <1>2, <1>3, <1>4, AnswerFits
<1>. QED BY <1>0, <1>1, <1>5, AloneFits

LEMMA ActsFit ==
  ASSUME SessionInv, [Next]_vars, Orderly, NEW c \in Apps, ClientActs(c)
  PROVE  SessionInv'
BY TimerFits, ShutdownRequestFits, DisconnectFits DEF ClientActs

\* A client connects, again or for the first time.
LEMMA OpensFits ==
  ASSUME SessionInv, [Next]_vars, Orderly, NEW c \in Apps, ClientOpens(c)
  PROVE  SessionInv'
<1>0. /\ MgrFacts /\ EveryoneTakesPart /\ LibInv /\ LibTypeOK /\ toClient \in [Apps -> Seq(Told)]
      /\ AtRest /\ Open(c) /\ ClientFits(c)
      /\ ~quit /\ mstate \in {"STARTUP", "IDLE"} /\ conn[c] = "closed" /\ c \notin M!Running
      /\ conn' = [conn EXCEPT ![c] = "new"] /\ toClient' = [toClient EXCEPT ![c] = <<>>]
      /\ UNCHANGED <<mstate, running, cstate, idle, dialog, dieTimer, quit>>
  BY ManagerFacts DEF SessionInv, LibInv, ClientOpens, M!NewClient, M!requestVars, M!saveVars
<1>1. MP!IInv' /\ LibInv'
  BY PartsKeep DEF SessionInv
<1>2. Alone(c)
  BY <1>0, LibAlone
<1>3. /\ conn'[c] = "new" /\ toClient'[c] = <<>>
      /\ \A d \in Apps \ {c} : conn'[d] = conn[d] /\ toClient'[d] = toClient[d]
  BY <1>0 DEF MgrFacts
<1>4. toManager'[c] = <<"Register">>
  <2>1. toManager'[c] = <<>> \o <<"Register">>
    BY <1>0 DEF Open, Say, LibTypeOK
  <2>. QED BY <2>1, Joined
<1>5. /\ frames[c] = <<>> /\ frames' = frames
      /\ link'[c] \in {"opening", "reopening"}
      /\ reconnect'[c] => reconnect[c]
      /\ link'[c] = "reopening" => reconnect[c]
  <2>1. frames[c] = <<>> \/ reconnect[c]
    BY <1>0 DEF Open
  <2>2. frames[c] # <<>> => FALSE
    <3>1. SUFFICES ASSUME frames[c] # <<>> PROVE FALSE
      OBVIOUS
    <3>2. Nesting = {}
      BY <1>0, <2>1, <3>1 DEF ClientFits, OpensClean, Open
    <3>. QED BY <1>0, <3>1, <3>2 DEF Open, Listening
  <2>. QED BY <1>0, <2>2 DEF Open, saveVars, LibTypeOK
<1>6. toClient' \in [Apps -> Seq(Told)]
  <2>1. <<>> \in Seq(Told)
    BY EmptySeq, Zenon
  <2>. QED BY <1>0, <2>1
<1>7. /\ DOMAIN <<"Register">> = {1} /\ <<"Register">>[1] = "Register" /\ Range(<<>>) = {}
      /\ Head(<<"Register">>) = "Register"
  BY FewSaid
<1>8. ~AsksSave(c)' /\ \A d \in Apps \ {c} : AsksSave(d)' => AsksSave(d)
  BY <1>2, <1>4, FewSaid DEF AsksSave, Alone
<1>9. OneRequest'
  <2>1. Resting
    BY <1>0, RestIs
  <2>2. Resting'
    BY <1>0, <1>8, <2>1 DEF Resting, M!NoRequest
  <2>3. AtRest'
    <3>1. AtRest' <=> Resting'
      BY <1>1, RestIs, PTL
    <3>. QED BY <2>2, <3>1
  <2>. QED BY <2>2, <2>3 DEF OneRequest, Resting, M!NoRequest
<1>10. EveryoneTakesPart'
  <2>1. \A d \in M!Running : d # c
    BY <1>0
  <2>2. M!Running' = M!Running
    BY <1>0 DEF M!Running
  <2>. QED BY <1>0, <1>3, <2>1, <2>2 DEF EveryoneTakesPart, MgrFacts
<1>11. ClientFits(c)'
  <2>1. ~Broken(c)'
    BY <1>4, <1>7 DEF Broken
  <2>2. InStep(c)' /\ Arrives(c)'
    BY <1>3, <1>4, <1>5 DEF InStep, Arrives, Opening
  <2>3. OpensClean(c)'
    BY <1>0, <1>3, <1>5, <1>7 DEF ClientFits, OpensClean
  <2>4. Transported(c)'
    BY <1>4, <1>7, <2>1 DEF Transported
  <2>5. DiesAsked(c)' /\ HearsOfEnd(c)'
    BY <1>0, <1>3, <1>5 DEF DiesAsked, HearsOfEnd
  <2>. QED BY <2>2, <2>3, <2>4, <2>5 DEF ClientFits
<1>12. \A d \in Apps : ClientFits(d)'
  <2>1. ASSUME NEW d \in Apps \ {c} PROVE ClientFits(d)'
    <3>1. Untouched(d) /\ ClientFits(d) /\ conn'[d] = conn[d]
      BY <1>2, <1>3 DEF Alone, Untouched, SessionInv
    <3>. QED BY <1>0, <3>1, UntouchedFits
  <2>. QED BY <1>11, <2>1
<1>. QED BY <1>1, <1>6, <1>9, <1>10, <1>12 DEF SessionInv

-----------------------------------------------------------------------------
(* The session *)

\* At first no application is connected, and the two ends fit.
LEMMA InitFits == Init => SessionInv
<1>. SUFFICES ASSUME Init PROVE SessionInv
  OBVIOUS
<1>1. LibInv
  BY LibInitOK DEF Init
<1>2. MP!IInv
  BY SameManager, ManagerConstants, MP!InitOK DEF Init
<1>3. /\ mstate = "STARTUP" /\ running = <<>> /\ cstate = [c \in Apps |-> "IDLE"]
      /\ conn = [c \in Apps |-> "closed"] /\ idle = M!NoRequest /\ dialog = M!NoRequest
      /\ ~dieTimer /\ ~quit
      /\ toClient = [c \in Apps |-> <<>>]
      /\ link = [c \in Apps |-> "none"] /\ frames = [c \in Apps |-> <<>>]
      /\ reconnect = [c \in Apps |-> FALSE] /\ toManager = [c \in Apps |-> <<>>]
  BY DEF Init, LibInit, M!Init, M!Clients
<1>4. \A S : <<>> \in Seq(S)
  OBVIOUS
<1>5. toClient \in [Apps -> Seq(Told)]
  BY <1>3, <1>4
<1>6. \A c \in Apps : ~AsksSave(c)
  BY <1>3, FewSaid DEF AsksSave
<1>7. OneRequest
  BY <1>1, <1>3, <1>6, RestIs DEF OneRequest, Resting
<1>8. M!Running = {}
  BY <1>3 DEF M!Running, M!ToSet
<1>9. EveryoneTakesPart
  BY <1>3, <1>8 DEF EveryoneTakesPart
<1>10. ASSUME NEW c \in Apps PROVE ClientFits(c)
  <2>1. DOMAIN <<>> = {} /\ Range(<<>>) = {}
    BY FewSaid
  <2>2. InStep(c) /\ Arrives(c) /\ DiesAsked(c) /\ HearsOfEnd(c)
    BY <1>3 DEF InStep, Arrives, DiesAsked, HearsOfEnd
  <2>3. OpensClean(c) /\ Transported(c)
    BY <1>3, <2>1 DEF OpensClean, Transported, Broken
  <2>. QED BY <2>2, <2>3 DEF ClientFits
<1>. QED BY <1>1, <1>2, <1>5, <1>7, <1>9, <1>10 DEF SessionInv

\* What the manager does for a client, and of its own accord.
LEMMA ManagerStepFits ==
  ASSUME SessionInv, [Next]_vars, Orderly,
         \/ \E c \in Apps : ManagerServes(c) \/ SaveTimeout(c)
         \/ StartupDone \/ Ask \/ Start \/ DialogCancelled \/ DieTimeout
  PROVE  SessionInv'
<1>1. ASSUME NEW c \in Apps, ManagerServes(c) PROVE SessionInv'
  BY <1>1, RegisterFits, InteractRequestFits, InteractDoneFits, Phase2RequestFits, DoneFits,
     CloseFits, SaveRequestFits, IOErrorFits, UnservedFits DEF ManagerServes
<1>. QED BY <1>1, SaveTimeoutFits, StartupDoneFits, AskFits, StartFits, DialogCancelledFits,
            DieTimeoutFits

\* What a client does of its own accord, and the end of its connection.
LEMMA ClientReturnsFits ==
  ASSUME SessionInv, [Next]_vars, NEW c \in Apps, ClientReturns(c)
  PROVE  SessionInv'
BY ReturnFits DEF ClientReturns

LEMMA StutterFits == ASSUME SessionInv, UNCHANGED vars PROVE SessionInv'
<1>1. [Next]_vars
  OBVIOUS
<1>2. MP!IInv' /\ LibInv'
  BY <1>1, PartsKeep DEF SessionInv
<1>3. UNCHANGED <<libVars, mgrVars, toClient>>
  BY DEF vars
<1>4. ASSUME NEW c \in Apps PROVE ClientFits(c)'
  <2>1. ClientFits(c) /\ Untouched(c) /\ conn'[c] = conn[c]
    BY <1>3 DEF SessionInv, Untouched, libVars, connVars, saveVars, mgrVars
  <2>. QED BY <1>3, <2>1, UntouchedFits DEF mgrVars
<1>5. OneRequest'
  BY <1>3 DEF SessionInv, OneRequest, AtRest, Settled, AsksSave, libVars, connVars, mgrVars
<1>6. EveryoneTakesPart'
  BY <1>3 DEF SessionInv, EveryoneTakesPart, M!Running, mgrVars
<1>. QED BY <1>2, <1>3, <1>4, <1>5, <1>6 DEF SessionInv

\* Every step leaves the two ends fitting.
LEMMA SessionSteps ==
  ASSUME SessionInv, [Next]_vars, Orderly, OneConnection
  PROVE  SessionInv'
<1>1. ASSUME NEW c \in Apps,
             ClientOpens(c) \/ ClientServes(c) \/ ClientReturns(c) \/ ClientActs(c) \/ Breaks(c)
      PROVE  SessionInv'
  BY <1>1, OpensFits, ServesFits, ClientReturnsFits, ActsFit, BreaksFits
<1>. QED BY <1>1, ManagerStepFits, StutterFits DEF Next

\* The two ends always fit: what has been said, what is going to be heard and where the
\* application is agree with the state of its client object in the manager (the handlers of
\* sm-layer.c and xfsm-manager.c on one side, those of xfce-session-client-xsmp.c on the other).
THEOREM TwoEndsFit == Orderly /\ OneConnection => (Spec => []SessionInv)
<1>. SUFFICES ASSUME Orderly, OneConnection PROVE Spec => []SessionInv
  OBVIOUS
<1>1. Init => SessionInv
  BY InitFits
<1>2. SessionInv /\ [Next]_vars => SessionInv'
  BY SessionSteps
<1>. QED BY <1>1, <1>2, PTL DEF Spec

\* When nothing is on its way, manager and application agree on where the application is,
\* and the manager waits for exactly those whose handlers run.
THEOREM QuietEndsAgree == Orderly /\ OneConnection => (Spec => []EndsAgree)
<1>1. SessionInv => EndsAgree
  <2>. SUFFICES ASSUME SessionInv, NEW c \in Apps,
                       link[c] = "open", conn[c] = "registered", Quiet(c)
                PROVE  /\ state[c] \in Means(cstate[c])
                       /\ cstate[c] \in {"SAVING", "INTERACTING"} <=> frames[c] # <<>>
    BY DEF EndsAgree
  <2>1. toManager[c] = <<>> /\ toClient[c] = <<>> /\ ~Broken(c) /\ ~quit
    BY DEF Quiet, Broken, SessionInv, ClientFits, HearsOfEnd
  <2>2. Fits(c, mstate, cstate[c], <<>>, <<>>)
        /\ cstate[c] \in {"IDLE", "INTERACTING", "SAVEDONE", "SAVING", "SAVINGLOCAL",
                          "WAITFORINTERACT", "WAITFORPHASE2"}
    BY <2>1, Fitting
  <2>. USE Short DEF Fits, At, Opening, Thawing, Means
  <2>3. CASE cstate[c] = "IDLE"
    BY <2>2, <2>3 DEF FitsIdle
  <2>4. CASE cstate[c] = "SAVINGLOCAL"
    BY <2>2, <2>4 DEF FitsLocal
  <2>5. CASE cstate[c] = "SAVING"
    BY <2>2, <2>5 DEF FitsSaving, Asked
  <2>6. CASE cstate[c] = "INTERACTING"
    BY <2>2, <2>6 DEF FitsInteracting, FitsMisled
  <2>7. CASE cstate[c] = "WAITFORINTERACT"
    BY <2>2, <2>7 DEF FitsWaiting
  <2>8. CASE cstate[c] = "WAITFORPHASE2"
    BY <2>2, <2>8 DEF FitsPhase2
  <2>9. CASE cstate[c] = "SAVEDONE"
    BY <2>2, <2>9 DEF FitsDone
  <2>. QED BY <2>2, <2>3, <2>4, <2>5, <2>6, <2>7, <2>8, <2>9
<1>. QED BY <1>1, TwoEndsFit, PTL

\* A client that wants to be asked is only told to die when it agreed to in this logout.
THEOREM NobodyDiesUnasked == Orderly /\ OneConnection => (Spec => NoQuitUnasked)
<1>. DEFINE A == \A c \in Interested :
       link[c] = "open" /\ toClient[c] # <<>> /\ Head(toClient[c]) = "Die" /\ ClientServes(c)
         => agreed[c]
<1>1. SessionInv => A
  <2>1. Interested \subseteq Apps
    BY LibraryConstants DEF LibraryConstants
  <2>. QED BY <2>1 DEF SessionInv, ClientFits, DiesAsked
<1>2. SessionInv /\ [Next]_vars => [A]_vars
  BY <1>1
<1>. QED BY <1>2, TwoEndsFit, PTL DEF Spec, NoQuitUnasked

-----------------------------------------------------------------------------
(* Nobody is dropped *)

\* Closing the connection of a client disturbs no other's.
LEMMA OneCloses ==
  ASSUME MgrFacts, NEW d \in Apps, NEW after, M!CloseConnection(d, after)
  PROVE  /\ \A c \in Apps \ {d} : conn'[c] = conn[c]
         /\ conn'[d] \in {"closed", after}
<1>1. conn' = [conn EXCEPT ![d] = "closed"] \/ conn' = [conn EXCEPT ![d] = after]
  BY Zenon DEF M!CloseConnection, M!Forget
<1>. QED BY <1>1 DEF MgrFacts

\* What the manager starts disturbs no connection.
LEMMA SavesOpen ==
  /\ \A ms, save : M!BeginSave(ms, save) => UNCHANGED conn
  /\ \A type, save : M!Proceed(type, save) => UNCHANGED conn
  /\ \A shutdown, fast, type, allow :
       M!SaveYourselfGlobal(shutdown, fast, type, allow) => UNCHANGED conn
<1>1. ASSUME NEW ms, NEW save, M!BeginSave(ms, save) PROVE UNCHANGED conn
  BY <1>1 DEF M!BeginSave
<1>2. ASSUME NEW type, NEW save, M!Proceed(type, save) PROVE UNCHANGED conn
  BY <1>1, <1>2 DEF M!Proceed, M!clientVars
<1>3. ASSUME NEW shutdown, NEW fast, NEW type, NEW allow,
             M!SaveYourselfGlobal(shutdown, fast, type, allow)
      PROVE  UNCHANGED conn
  <2>. PICK saveOnExit \in BOOLEAN, prompt \in BOOLEAN :
         LET save == allow /\ saveOnExit IN
         \/ M!BeginSave("CHECKPOINT", TRUE)
         \/ UNCHANGED conn
         \/ M!Proceed("LOGOUT", save)
         \/ M!Proceed(shutdownType, save)
         \/ M!Proceed(type, save)
    BY <1>3 DEF M!SaveYourselfGlobal, M!clientVars
  <2>. QED BY <1>1, <1>2
<1>. QED BY <1>1, <1>2, <1>3

\* What a client says disturbs no other's connection.
LEMMA OthersOpen ==
  ASSUME MgrFacts, NEW d \in Apps, NEW c \in Apps, c # d,
         \/ ServeInteractRequest(d) \/ (\E cancel \in BOOLEAN : ServeInteractDone(d, cancel))
         \/ ServePhase2Request(d) \/ ServeDone(d) \/ ServeSaveRequest(d)
  PROVE  conn'[c] = conn[c]
<1>1. M!CloseConnection(d, "orphaned") => conn'[c] = conn[c]
  BY OneCloses
<1>2. CASE ServeInteractRequest(d)
  BY <1>1, <1>2 DEF ServeInteractRequest, M!InteractRequest, M!Nuke
<1>3. CASE \E cancel \in BOOLEAN : ServeInteractDone(d, cancel)
  BY <1>1, <1>3 DEF ServeInteractDone, M!InteractDone, M!Nuke
<1>4. CASE ServePhase2Request(d)
  BY <1>4 DEF ServePhase2Request, M!Phase2Request
<1>5. CASE ServeDone(d)
  BY <1>1, <1>5 DEF ServeDone, M!XsmpSaveYourselfDone, M!SaveYourselfDone, M!Nuke
<1>6. CASE ServeSaveRequest(d)
  <2>1. M!CloseConnection(d, "orphaned") \/ UNCHANGED conn
    BY <1>6, SavesOpen DEF ServeSaveRequest, M!SaveYourselfRequest, M!Nuke
  <2>. QED BY <1>1, <2>1
<1>. QED BY <1>2, <1>3, <1>4, <1>5, <1>6

\* What a client says during a save, and fits, disturbs no connection: but the answer of
\* one that was misled.
LEMMA AnswersKept ==
  ASSUME SessionInv, NEW d \in Apps, ~Misled(d),
         \/ ServeInteractRequest(d) \/ (\E cancel \in BOOLEAN : ServeInteractDone(d, cancel))
         \/ ServePhase2Request(d) \/ ServeDone(d) \/ ServeSaveRequest(d)
  PROVE  UNCHANGED conn
<1>1. CASE ServeInteractRequest(d)
  <2>1. Takes(d, "InteractRequest") /\ M!InteractRequest(d) /\ MgrFacts
    BY <1>1, ManagerFacts DEF ServeInteractRequest, SessionInv
  <2>2. cstate[d] = "SAVING"
    BY <2>1, Hears DEF Meant, M!InteractRequest, M!Speaking
  <2>3. mstate \in {"CHECKPOINT", "SHUTDOWN"}
    BY <2>1, <2>2 DEF MgrFacts
  <2>. QED BY <2>1, <2>2, <2>3 DEF M!InteractRequest, M!SavePhases
<1>2. ASSUME NEW cancel \in BOOLEAN, ServeInteractDone(d, cancel) PROVE UNCHANGED conn
  <2>. DEFINE m == IF cancel THEN "InteractCancel" ELSE "InteractDone"
  <2>1. Takes(d, m) /\ M!InteractDone(d, cancel) /\ MgrFacts
    BY <1>2, ManagerFacts DEF ServeInteractDone, SessionInv
  <2>2. cstate[d] = "INTERACTING"
    BY <2>1, Hears DEF Meant, M!InteractDone, M!Speaking
  <2>3. mstate \in {"CHECKPOINT", "SHUTDOWN"}
    BY <2>1, <2>2 DEF MgrFacts
  <2>. QED BY <2>1, <2>2, <2>3 DEF M!InteractDone, M!SavePhases
<1>3. CASE ServePhase2Request(d)
  BY <1>3 DEF ServePhase2Request, M!Phase2Request
<1>4. CASE ServeDone(d)
  <2>1. Takes(d, "Done") /\ M!XsmpSaveYourselfDone(d) /\ MgrFacts
    BY <1>4, ManagerFacts DEF ServeDone, SessionInv
  <2>2. M!SaveYourselfDone(d) /\ ~quit /\ conn[d] = "registered"
    BY <2>1 DEF M!XsmpSaveYourselfDone, M!Speaking
  <2>3. toManager[d] # <<>> /\ Head(toManager[d]) = "Done"
    BY <2>1 DEF Takes
  <2>4. cstate[d] \in {"SAVINGLOCAL", "SAVING", "WAITFORINTERACT"}
    BY <2>1, <2>2, <2>3, Hears DEF Meant, Misled
  <2>5. cstate[d] # "SAVINGLOCAL" => mstate \in {"CHECKPOINT", "SHUTDOWN"}
    BY <2>1, <2>4 DEF MgrFacts
  <2>. QED BY <2>2, <2>4, <2>5 DEF M!SaveYourselfDone, M!SavePhases
<1>5. CASE ServeSaveRequest(d)
  <2>1. Takes(d, "SaveRequest") /\ M!SaveYourselfRequest(d, TRUE, TRUE, FALSE)
    BY <1>5 DEF ServeSaveRequest
  <2>2. cstate[d] = "IDLE"
    BY <2>1, Hears DEF Meant, M!SaveYourselfRequest, M!Speaking
  <2>3. AsksSave(d)
    <3>1. toManager[d] # <<>> /\ Head(toManager[d]) = "SaveRequest" /\ toManager[d] \in Seq(Messages)
      BY <2>1 DEF Takes, SessionInv, LibInv, LibTypeOK, Messages
    <3>2. 1 \in DOMAIN toManager[d] /\ toManager[d][1] = "SaveRequest"
      BY <3>1
    <3>. QED BY <3>2 DEF AsksSave, Range
  <2>4. mstate = "IDLE"
    BY <2>3 DEF SessionInv, OneRequest
  <2>. QED BY <2>1, <2>2, <2>4, SavesOpen DEF M!SaveYourselfRequest
<1>. QED BY <1>1, <1>2, <1>3, <1>4, <1>5

\* Which client a step drops.
LEMMA Dropping ==
  ASSUME SessionInv, [Next]_vars, NEW c \in Apps, conn[c] # "orphaned", conn'[c] = "orphaned"
  PROVE  SaveTimeout(c) \/ Misled(c)
<1>. SUFFICES ASSUME ~Misled(c) PROVE SaveTimeout(c)
  OBVIOUS
<1>0. MgrFacts
  BY ManagerFacts DEF SessionInv
<1>1. ASSUME NEW d \in Apps, ManagerServes(d) PROVE FALSE
  <2>1. CASE ServeRegister(d)
    <3>1. conn' = [conn EXCEPT ![d] = "registered"]
      BY <2>1 DEF ServeRegister, M!RegisterXsmp
    <3>. QED BY <1>0, <3>1 DEF MgrFacts
  <2>2. CASE \/ ServeInteractRequest(d) \/ (\E cancel \in BOOLEAN : ServeInteractDone(d, cancel))
             \/ ServePhase2Request(d) \/ ServeDone(d) \/ ServeSaveRequest(d)
    <3>1. ASSUME d # c PROVE conn'[c] = conn[c]
      BY <1>0, <2>2, <3>1, OthersOpen
    <3>2. d = c => UNCHANGED conn
      BY <2>2, AnswersKept
    <3>. QED BY <3>1, <3>2
  <2>3. CASE ServeClose(d) \/ ServeIOError(d)
    <3>1. M!XsmpCloseConnection(d) \/ M!IceIOError(d)
      BY <2>3 DEF ServeClose, ServeIOError
    <3>2. M!CloseConnection(d, "closed") \/ conn' = [conn EXCEPT ![d] = "closed"]
      BY <3>1 DEF M!XsmpCloseConnection, M!IceIOError
    <3>. QED BY <1>0, <3>2, OneCloses DEF MgrFacts
  <2>4. CASE Unserved(d)
    BY <2>4 DEF Unserved, mgrVars
  <2>. QED BY <1>1, <2>1, <2>2, <2>3, <2>4 DEF ManagerServes
<1>2. ASSUME NEW d \in Apps, SaveTimeout(d) PROVE d = c
  <2>1. M!CloseConnection(d, "orphaned")
    BY <1>2 DEF SaveTimeout, M!SaveTimeout, M!Nuke
  <2>. QED BY <1>0, <2>1, OneCloses
<1>3. StartupDone \/ Ask \/ DialogCancelled \/ DieTimeout => UNCHANGED conn
  BY DEF StartupDone, Ask, DialogCancelled, DieTimeout, M!StartupDone, M!DbusCheckpoint,
         M!DbusShutdown, M!DialogCancelled, M!DieTimeout, M!clientVars
<1>4. Start => UNCHANGED conn
  BY SavesOpen DEF Start, M!SaveIdle, M!DialogAnswered
<1>5. ASSUME NEW d \in Apps, ClientOpens(d) PROVE FALSE
  <2>1. conn' = [conn EXCEPT ![d] = "new"]
    BY <1>5 DEF ClientOpens, M!NewClient
  <2>. QED BY <1>0, <2>1 DEF MgrFacts
<1>6. ASSUME NEW d \in Apps, ClientServes(d) \/ ClientReturns(d) \/ ClientActs(d) \/ Breaks(d)
      PROVE  UNCHANGED conn
  BY <1>6 DEF ClientServes, ClientReturns, ClientActs, Breaks, mgrVars
<1>7. UNCHANGED vars => UNCHANGED conn
  BY DEF vars, mgrVars
<1>. QED BY <1>1, <1>2, <1>3, <1>4, <1>5, <1>6, <1>7 DEF Next

\* The manager drops no client for breaking the protocol, however its requests, the user's
\* and the broken connections interleave: only one that was too slow, and one that the
\* manager itself misled.
THEOREM NobodyIsDropped == Orderly /\ OneConnection => (Spec => NeverDropped)
<1>. DEFINE A == \A c \in Apps : conn[c] # "orphaned" /\ conn'[c] = "orphaned"
                                   => SaveTimeout(c) \/ Misled(c)
<1>1. SessionInv /\ [Next]_vars => [A]_vars
  BY Dropping
<1>. QED BY <1>1, TwoEndsFit, PTL DEF Spec, NeverDropped

-----------------------------------------------------------------------------
(* What the parts promise *)

\* The manager's own promises hold of the session whatever its applications do, also when
\* requests are made at any time and connections break under running handlers.
LEMMA ManagerPartOf == Spec => MP!Spec
<1>1. Init => MP!Init
  BY SameManager DEF Init
<1>2. [Next]_vars => [MP!Next]_(MP!vars)
  <2>1. [Next]_vars => M!Next \/ UNCHANGED M!vars
    BY ManagerSteps
  <2>2. UNCHANGED M!vars => UNCHANGED MP!vars
    BY DEF M!vars, MP!vars, M!clientVars, MP!clientVars, M!requestVars, MP!requestVars,
           M!saveVars, MP!saveVars
  <2>. QED BY <2>1, <2>2, SameManager
<1>. QED BY <1>1, <1>2, PTL DEF Spec, MP!Spec

\* In the session, too: two clients never talk to the user at once, a save that is under way
\* waits for someone, no client enters phase 2 before all have left phase 1, and the last
\* client to die ends the session.
THEOREM SessionSaves ==
  Spec => /\ []MP!OneInteracting
          /\ []MP!SaveWaitsForSomeone
          /\ MP!PhaseTwoBarrier
<1>1. MP!Spec => []MP!OneInteracting
  BY ManagerConstants, MP!OneAtATime
<1>2. MP!Spec => []MP!SaveWaitsForSomeone
  BY ManagerConstants, MP!SaveNeverHangs
<1>3. MP!Spec => MP!PhaseTwoBarrier
  BY ManagerConstants, MP!PhaseTwoWaits
<1>. QED BY <1>1, <1>2, <1>3, ManagerPartOf, PTL

\* The session keeps the promise of SessionEnd: every save ends only when all that were
\* asked have answered, left or run out of time.
THEOREM SessionKeepsPromise == Spec => MP!Implements
<1>1. MP!Spec => MP!Implements
  BY ManagerConstants, MP!ManagerKeepsPromise
<1>. QED BY <1>1, ManagerPartOf, PTL

\* With XSMP clients only, the last one to die ends the session: no other hypothesis is
\* needed.
THEOREM LastOneEndsSession == Spec => []MP!LastClientEndsSession
<1>1. MP!EveryoneSaves
  BY DEF MP!EveryoneSaves
<1>2. MP!Spec => []MP!LastClientEndsSession
  BY <1>1, ManagerConstants, MP!LastClientIsEnough
<1>. QED BY <1>2, ManagerPartOf, PTL

\* In the session, too, no cancellation is left over for the next save, every handler runs
\* in its state, and no timer brings back an application that has disconnected.
THEOREM SessionLibrary ==
  Spec => [](CancelledInHandler /\ StateOfHandler /\ NeverComesBackUnasked)
BY LibraryTakesPart, NoCancellationLeftOver, HandlersMatchStates, StaysDisconnected, PTL

=============================================================================
