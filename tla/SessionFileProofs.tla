--------------------------- MODULE SessionFileProofs ---------------------------
(***************************************************************************)
(* Proofs about SessionFile, for any clients, places, names and            *)
(* properties that they set or delete.                                     *)
(*                                                                         *)
(* That a saved session is whole needs two things that the run's           *)
(* properties do not say: at the moment it is written, what it refers to   *)
(* is the state the manager holds (HeldStateExists); and afterwards the    *)
(* clients it lists are running or waiting for the next session, so that   *)
(* no discard command is run for one of them (SavedFits).                  *)
(***************************************************************************)
EXTENDS SessionFile, TLAPS

\* The properties of a client are those of its queue; without one there are none.
QueuesFit ==
  /\ \A c \in Ids : props[c] = [n \in DOMAIN props[c] |-> props[c][n]]
  /\ \A c \in Ids : owner[c] = "none" => props[c] = NewProperties
  /\ mstate = "OFF" => \A c \in Ids : owner[c] = "none"
  /\ saving \subseteq In("running")
  /\ mstate \notin SavePhases => saving = {}

\* After a saved logout, the clients it lists stay as they are.
SavedFits ==
  saved => /\ mstate \in {"SHUTDOWNPHASE2", "OFF"}
           /\ mstate = "SHUTDOWNPHASE2" =>
                \A c \in Lists(sessionName) : owner[c] \in {"running", "restart"}

FileInv ==
  /\ TypeOK /\ QueuesFit /\ HeldStateExists
  /\ SavedFits /\ SavedSessionIsWhole /\ SavedSessionIsComplete

-----------------------------------------------------------------------------
(* The states that properties refer to *)

LEMMA StateHolds ==
  ASSUME NEW c, NEW p, NEW x \in StateOf(c, p)
  PROVE  \E v \in Versions : x = <<c, v>>
BY DEF StateOf

\* The discard command of a client removes nothing of another.
LEMMA StatesApart ==
  ASSUME NEW c, NEW d, c # d, NEW p, NEW q
  PROVE  StateOf(c, p) \cap StateOf(d, q) = {}
BY DEF StateOf

LEMMA StateNew ==
  ASSUME NEW c
  PROVE  StateOf(c, NewProperties) = {} /\ StateOf(c, [RestartCommand |-> TRUE]) = {}
BY DEF StateOf, NewProperties

\* What is stored and loaded again refers to the same state.
LEMMA StateStored ==
  ASSUME NEW c, NEW p
  PROVE  StateOf(c, Store(p)) = StateOf(c, p)
BY DEF StateOf, Store

LEMMA StateLoaded ==
  ASSUME NEW c, NEW p
  PROVE  StateOf(c, Load(p)) = StateOf(c, p)
BY DEF StateOf, Load, Set

LEMMA StateSet ==
  ASSUME NEW c, NEW p, NEW new, "DiscardCommand" \notin DOMAIN new
  PROVE  StateOf(c, Set(p, new)) = StateOf(c, p)
BY DEF StateOf, Set

LEMMA StateRemoved ==
  ASSUME NEW c, NEW p, NEW name
  PROVE  StateOf(c, Remove(p, name)) \subseteq StateOf(c, p)
BY DEF StateOf, Remove

LEMMA StateSaved ==
  ASSUME NEW c, NEW p, NEW v
  PROVE  StateOf(c, Set(p, [RestartCommand |-> TRUE, DiscardCommand |-> v])) \subseteq {<<c, v>>}
BY DEF StateOf, Set

-----------------------------------------------------------------------------
(* Handlers *)

\* The clients of a save: whatever a step changes about the queues, it leaves
\* clients alone that keep theirs.
LEMMA CompleteFits ==
  ASSUME FileInv, NEW ms \in SavePhases, NEW own, NEW sv, NEW save \in BOOLEAN,
         Complete(ms, own, sv, save),
         owner' = own, sessionName' = sessionName, disk' = disk, broken' \subseteq broken,
         own \in [Ids -> {"none", "pending", "starting", "running", "restart"}],
         sv \subseteq Ids,
         \A c \in Ids : own[c] # "none" =>
           /\ own[c] = owner[c] /\ props'[c] = props[c]
           /\ c \in broken => c \in broken'
  PROVE  /\ SavedFits' /\ SavedSessionIsWhole' /\ SavedSessionIsComplete'
         /\ mstate' \in {"IDLE", "CHECKPOINT", "SHUTDOWN", "SHUTDOWNPHASE2"}
         /\ saving' = sv /\ (mstate' \notin SavePhases => sv = {})
         /\ leaving' \in BOOLEAN /\ saved' \in BOOLEAN
         /\ checkpointName' \in Names \cup {NoName}
         /\ DOMAIN file' \subseteq Names
         /\ \A n \in DOMAIN file' :
              /\ DOMAIN file'[n] \subseteq Ids
              /\ \A c \in DOMAIN file'[n] : DOMAIN file'[n][c] \subseteq PropertyNames
<1>1. /\ mstate' \in {"IDLE", "CHECKPOINT", "SHUTDOWN", "SHUTDOWNPHASE2"}
      /\ saving' = sv /\ (mstate' \notin SavePhases => sv = {})
      /\ leaving' \in BOOLEAN /\ saved' \in BOOLEAN
      /\ checkpointName' \in Names \cup {NoName}
  BY DEF Complete, StoreSession, SavePhases, FileInv, TypeOK
<1>2. Group(ms) \in Names
  BY SessionFileAssumption DEF Group, FileInv, TypeOK
<1>3. /\ DOMAIN file' \subseteq Names
      /\ \A n \in DOMAIN file' :
           /\ DOMAIN file'[n] \subseteq Ids
           /\ \A c \in DOMAIN file'[n] : DOMAIN file'[n][c] \subseteq PropertyNames
  <2>1. CASE file' = file
    BY <2>1 DEF FileInv, TypeOK
  <2>2. CASE file' = [n \in DOMAIN file \cup {Group(ms)} |->
                        IF n = Group(ms) THEN [c \in Stored(own) |-> Store(props[c])]
                                         ELSE file[n]]
    <3>1. \A c \in Ids : DOMAIN Store(props[c]) \subseteq PropertyNames
      BY DEF Store, PropertyNames
    <3>2. Stored(own) \subseteq Ids
      BY DEF Stored
    <3> QED
      BY <1>2, <2>2, <3>1, <3>2 DEF FileInv, TypeOK
  <2> QED
    BY <2>1, <2>2 DEF Complete, StoreSession
<1>4. CASE ~saved'
  BY <1>1, <1>3, <1>4 DEF SavedFits, SavedSessionIsWhole, SavedSessionIsComplete
<1>5. CASE saved'
  <2>1. /\ ms = "SHUTDOWN" /\ sv = {} /\ mstate' = "SHUTDOWNPHASE2"
        /\ file' = [n \in DOMAIN file \cup {Group(ms)} |->
                      IF n = Group(ms) THEN [c \in Stored(own) |-> Store(props[c])]
                                       ELSE file[n]]
    BY <1>5 DEF Complete, StoreSession, SavePhases
  <2>2. Group(ms) = sessionName
    BY <2>1 DEF Group
  <2>3. /\ sessionName \in DOMAIN file'
        /\ file'[sessionName] = [c \in Stored(own) |-> Store(props[c])]
    BY <2>1, <2>2
  <2>4. Lists(sessionName)' = Stored(own)
    BY <2>3 DEF Lists
  <2>5. SavedFits'
    BY <2>1, <2>4 DEF SavedFits, Stored
  <2>6. SavedSessionIsWhole'
    <3> SUFFICES ASSUME NEW c \in Stored(own), c \notin broken'
                 PROVE  StateOf(c, file'[sessionName][c]) \subseteq disk
      BY <2>4 DEF SavedSessionIsWhole
    <3>1. c \in Ids /\ own[c] # "none"
      BY DEF Stored
    <3>2. c \notin broken /\ StateOf(c, props[c]) \subseteq disk
      BY <3>1 DEF FileInv, HeldStateExists
    <3> QED
      BY <2>3, <3>2, StateStored
  <2>7. SavedSessionIsComplete'
    <3> SUFFICES ASSUME NEW c \in Ids \ DbusIds, own[c] = "running"
                 PROVE  \/ /\ c \in Stored(own) /\ file'[sessionName][c] = props[c]
                           /\ RestartStyle(props[c]) # "Never"
                        \/ /\ c \notin Stored(own)
                           /\ RestartStyle(props[c]) = "Never" \/ ~Useful(props[c])
      BY <2>4 DEF SavedSessionIsComplete, In
    <3>1. CASE c \in Stored(own)
      <4>1. DOMAIN props[c] \cap PropertyNames = DOMAIN props[c]
        BY DEF FileInv, TypeOK
      <4>2. Store(props[c]) = [n \in DOMAIN props[c] |-> props[c][n]]
        BY <4>1 DEF Store, PropertyNames
      <4>3. Store(props[c]) = props[c]
        BY <4>2 DEF FileInv, QueuesFit
      <4> QED
        BY <2>3, <3>1, <4>3 DEF Stored
    <3>2. CASE c \notin Stored(own)
      BY <3>2 DEF Stored
    <3> QED
      BY <3>1, <3>2
  <2> QED
    BY <1>1, <1>3, <2>5, <2>6, <2>7
<1> QED
  BY <1>4, <1>5

\* xfsm_manager_handle_failed_properties () is called for clients that the stored
\* session does not list.
LEMMA HandleFailedFits ==
  ASSUME FileInv, NEW c \in Ids, owner[c] # "none", HandleFailed(c),
         saved /\ mstate = "SHUTDOWNPHASE2" => c \notin Lists(sessionName),
         mstate # "OFF", c \notin saving,
         UNCHANGED <<mstate, restVars, saving>>
  PROVE  FileInv'
<1>1. \/ /\ owner' = [owner EXCEPT ![c] = "restart"] \/ owner' = [owner EXCEPT ![c] = "starting"]
         /\ UNCHANGED <<props, disk, broken>>
      \/ Free(c) /\ RunDiscardCommand(c)
  BY DEF HandleFailed
<1>2. /\ \A d \in Ids : d # c => owner'[d] = owner[d] /\ props'[d] = props[d]
      /\ broken \ {c} = broken' \ {c}
  BY <1>1 DEF Free, FileInv, TypeOK
<1>3. \/ /\ owner'[c] \in {"restart", "starting"}
         /\ props'[c] = props[c] /\ disk' = disk /\ broken' = broken
      \/ owner'[c] = "none" /\ props'[c] = NewProperties
  BY <1>1 DEF Free, FileInv, TypeOK
<1>4. ASSUME NEW d \in Ids \ {c}, NEW p, StateOf(d, p) \subseteq disk
      PROVE  StateOf(d, p) \subseteq disk'
  <2>1. StateOf(d, p) \cap StateOf(c, props[c]) = {}
    BY StatesApart
  <2> QED
    BY <1>1, <1>4, <2>1 DEF RunDiscardCommand
<1>5. TypeOK'
  BY <1>1 DEF FileInv, TypeOK, restVars, nameVars, Free, RunDiscardCommand, NewProperties
<1>6. QueuesFit'
  <2>1. NewProperties = [n \in DOMAIN NewProperties |-> NewProperties[n]]
    BY DEF NewProperties
  <2>2. \A d \in Ids : props'[d] = [n \in DOMAIN props'[d] |-> props'[d][n]]
    BY <1>2, <1>3, <2>1 DEF FileInv, QueuesFit
  <2>3. \A d \in Ids : owner'[d] = "none" => props'[d] = NewProperties
    BY <1>2, <1>3 DEF FileInv, QueuesFit
  <2>4. saving' \subseteq In("running")' /\ (mstate' \notin SavePhases => saving' = {})
    BY <1>2 DEF FileInv, QueuesFit, In
  <2> QED
    BY <2>2, <2>3, <2>4 DEF QueuesFit
<1>7. HeldStateExists'
  <2> SUFFICES ASSUME NEW d \in Ids, owner'[d] # "none", d \notin broken'
               PROVE  StateOf(d, props'[d]) \subseteq disk'
    BY DEF HeldStateExists
  <2>1. CASE d = c
    <3>1. props'[d] = props[d] /\ disk' = disk /\ d \notin broken
      BY <1>3, <2>1
    <3> QED
      BY <2>1, <3>1 DEF FileInv, HeldStateExists
  <2>2. CASE d # c
    <3>1. StateOf(d, props[d]) \subseteq disk /\ props'[d] = props[d]
      BY <1>2, <2>2 DEF FileInv, HeldStateExists
    <3> QED
      BY <1>4, <2>2, <3>1
  <2> QED
    BY <2>1, <2>2
<1>8. /\ Lists(sessionName)' = Lists(sessionName)
      /\ UNCHANGED <<file, saved, sessionName, mstate>>
  BY DEF Lists, restVars, nameVars
<1>9. SavedFits' /\ SavedSessionIsComplete'
  <2>1. SavedFits'
    BY <1>2, <1>8 DEF FileInv, SavedFits, Lists, TypeOK
  <2>2. ASSUME NEW d \in Ids, owner'[d] = "running"
        PROVE  owner[d] = "running" /\ props'[d] = props[d]
    BY <1>2, <1>3, <2>2
  <2>3. SavedSessionIsComplete'
    BY <1>8, <2>2 DEF FileInv, SavedSessionIsComplete, In
  <2> QED
    BY <2>1, <2>3
<1>10. SavedSessionIsWhole'
  <2> SUFFICES ASSUME saved, NEW d \in Lists(sessionName), d \notin broken'
               PROVE  StateOf(d, file[sessionName][d]) \subseteq disk'
    BY <1>8 DEF SavedSessionIsWhole
  <2>1. d \in Ids \ {c}
    BY DEF FileInv, SavedFits, TypeOK, Lists
  <2>2. StateOf(d, file[sessionName][d]) \subseteq disk
    BY <1>2, <2>1 DEF FileInv, SavedSessionIsWhole
  <2> QED
    BY <1>4, <2>1, <2>2
<1> QED
  BY <1>5, <1>6, <1>7, <1>9, <1>10 DEF FileInv

\* A client that is started or registers: it is an XSMP client only before the
\* session is saved for the last time.
LEMMA OwnerFits ==
  ASSUME FileInv, NEW c \in Ids, NEW queue \in {"starting", "running"},
         owner' = [owner EXCEPT ![c] = queue], mstate # "OFF", c \notin saving,
         queue = "running" \/ ~saved, ~saved \/ c \in DbusIds,
         UNCHANGED <<mstate, restVars, props, disk, broken, saving>>
  PROVE  FileInv'
<1>1. TypeOK'
  BY DEF FileInv, TypeOK, restVars, nameVars
<1>2. \A d \in Ids : owner'[d] = IF d = c THEN queue ELSE owner[d]
  BY DEF FileInv, TypeOK
<1>3. QueuesFit'
  BY <1>2 DEF FileInv, QueuesFit, In
<1>4. HeldStateExists'
  <2>1. owner[c] = "none" => StateOf(c, props[c]) = {}
    BY StateNew DEF FileInv, QueuesFit
  <2> QED
    BY <1>2, <2>1 DEF FileInv, HeldStateExists
<1>5. SavedFits' /\ SavedSessionIsWhole' /\ SavedSessionIsComplete'
  BY <1>2 DEF FileInv, SavedFits, SavedSessionIsWhole, SavedSessionIsComplete, In, Lists, TypeOK,
              restVars, nameVars
<1> QED
  BY <1>1, <1>3, <1>4, <1>5 DEF FileInv

\* A client says something of itself, while no saved session is at stake.
LEMMA PropertiesFit ==
  ASSUME FileInv, NEW c \in Ids, NEW p, ~saved, owner[c] # "none",
         props' = [props EXCEPT ![c] = p],
         p = [n \in DOMAIN p |-> p[n]], DOMAIN p \subseteq PropertyNames,
         broken' \subseteq broken, disk' \subseteq Ids \X Versions,
         c \notin broken' => StateOf(c, p) \subseteq disk',
         \A d \in Ids : d # c => /\ d \in broken => d \in broken'
                                 /\ StateOf(d, props[d]) \subseteq disk =>
                                      StateOf(d, props[d]) \subseteq disk',
         UNCHANGED <<mstate, restVars, owner, saving>>
  PROVE  FileInv'
<1>1. \A d \in Ids : props'[d] = IF d = c THEN p ELSE props[d]
  BY DEF FileInv, TypeOK
<1>2. TypeOK'
  BY <1>1 DEF FileInv, TypeOK, restVars, nameVars
<1>3. QueuesFit'
  BY <1>1 DEF FileInv, QueuesFit, In
<1>4. HeldStateExists'
  BY <1>1 DEF FileInv, HeldStateExists
<1>5. SavedFits' /\ SavedSessionIsWhole' /\ SavedSessionIsComplete'
  BY DEF SavedFits, SavedSessionIsWhole, SavedSessionIsComplete, restVars
<1> QED
  BY <1>2, <1>3, <1>4, <1>5 DEF FileInv

-----------------------------------------------------------------------------
(* Actions *)

\* A session is loaded as it was stored, or all of it is new.
LEMMA LoadSettingsFits == ASSUME FileInv, LoadSettings PROVE FileInv'
<1>1. PICK name \in Names : /\ sessionName' = name /\ confName' \in Names
                            /\ (Lists(name) # {} /\ Pending(file[name])) \/ LoadFailsafe
  BY DEF LoadSettings, FileInv, TypeOK
<1>2. /\ mstate' = "STARTUP" /\ saved' = FALSE /\ saving = {} /\ saving' = {} /\ disk' = disk
      /\ UNCHANGED <<leaving, file, checkpointName, idle, saveSession>>
  BY DEF LoadSettings, FileInv, QueuesFit, SavePhases
<1>3. SavedFits' /\ SavedSessionIsWhole' /\ SavedSessionIsComplete'
  BY <1>2 DEF SavedFits, SavedSessionIsWhole, SavedSessionIsComplete
<1>4. NewProperties = [n \in DOMAIN NewProperties |-> NewProperties[n]] /\ DOMAIN NewProperties = {}
  BY DEF NewProperties
<1>5. CASE Lists(name) # {} /\ Pending(file[name])
  <2> DEFINE group == file[name]
  <2>1. /\ name \in DOMAIN file /\ DOMAIN group \subseteq Ids
        /\ \A c \in DOMAIN group : DOMAIN group[c] \subseteq PropertyNames
    BY <1>5 DEF Lists, FileInv, TypeOK
  <2>2. /\ owner' = [c \in Ids |-> IF c \in DOMAIN group THEN "pending" ELSE "none"]
        /\ props' = [c \in Ids |-> IF c \in DOMAIN group THEN Load(group[c]) ELSE NewProperties]
        /\ broken' = {c \in DOMAIN group : ~(StateOf(c, group[c]) \subseteq disk)}
    BY <1>5 DEF Pending
  <2>3. \A c \in DOMAIN group : /\ Load(group[c]) = [n \in DOMAIN Load(group[c]) |-> Load(group[c])[n]]
                                /\ DOMAIN Load(group[c]) \subseteq PropertyNames
    BY <2>1 DEF Load, Set, PropertyNames
  <2> HIDE DEF group
  <2>4. TypeOK'
    <3>1. /\ owner' \in [Ids -> {"none", "pending", "starting", "running", "restart"}]
          /\ DOMAIN props' = Ids /\ broken' \subseteq Ids
      BY <2>1, <2>2
    <3>2. \A c \in Ids : DOMAIN props'[c] \subseteq PropertyNames
      BY <1>4, <2>2, <2>3
    <3> QED
      BY <1>1, <1>2, <3>1, <3>2 DEF FileInv, TypeOK
  <2>5. QueuesFit'
    BY <1>2, <1>4, <2>1, <2>2, <2>3 DEF QueuesFit, In
  <2>6. HeldStateExists'
    BY <1>2, <2>1, <2>2, StateLoaded DEF HeldStateExists
  <2> QED
    BY <1>3, <2>4, <2>5, <2>6 DEF FileInv
<1>6. CASE LoadFailsafe
  <2> DEFINE command == [RestartCommand |-> TRUE]
  <2>1. PICK S \in SUBSET Fresh :
          /\ owner' = [c \in Ids |-> IF c \in S THEN "pending" ELSE "none"]
          /\ props' = [c \in Ids |-> IF c \in S THEN command ELSE NewProperties]
          /\ broken' = {}
    BY <1>6 DEF LoadFailsafe
  <2>2. \A c \in Ids : StateOf(c, command) = {} /\ StateOf(c, NewProperties) = {}
    BY StateNew
  <2>3. command = [n \in DOMAIN command |-> command[n]] /\ DOMAIN command \subseteq PropertyNames
    BY DEF PropertyNames
  <2> HIDE DEF command
  <2>4. TypeOK'
    <3>1. /\ owner' \in [Ids -> {"none", "pending", "starting", "running", "restart"}]
          /\ DOMAIN props' = Ids /\ broken' \subseteq Ids
      BY <2>1
    <3>2. \A c \in Ids : DOMAIN props'[c] \subseteq PropertyNames
      BY <1>4, <2>1, <2>3
    <3> QED
      BY <1>1, <1>2, <3>1, <3>2 DEF FileInv, TypeOK
  <2>5. QueuesFit'
    BY <1>2, <1>4, <2>1, <2>3 DEF QueuesFit, In
  <2>6. HeldStateExists'
    BY <2>1, <2>2 DEF HeldStateExists
  <2> QED
    BY <1>3, <2>4, <2>5, <2>6 DEF FileInv
<1> QED
  BY <1>1, <1>5, <1>6

LEMMA StartFits ==
  ASSUME FileInv, NEW c \in Ids, StartProperties(c) \/ StartFails(c)
  PROVE  FileInv'
<1>1. owner[c] \notin {"none", "running", "restart"} /\ c \notin saving /\ mstate # "OFF"
  BY DEF StartProperties, StartFails, FileInv, QueuesFit, In
<1>2. saved /\ mstate = "SHUTDOWNPHASE2" => c \notin Lists(sessionName)
  BY <1>1 DEF FileInv, SavedFits
<1>3. CASE HandleFailed(c) /\ UNCHANGED <<mstate, restVars, saving>>
  BY <1>1, <1>2, <1>3, HandleFailedFits
<1>4. CASE /\ mstate = "STARTUP" /\ owner' = [owner EXCEPT ![c] = "starting"]
           /\ UNCHANGED <<mstate, restVars, props, disk, broken, saving>>
  <2>1. ~saved
    BY <1>4 DEF FileInv, SavedFits
  <2> QED
    BY <1>1, <1>4, <2>1, OwnerFits
<1> QED
  BY <1>3, <1>4 DEF StartProperties, StartFails

LEMMA RegisterFits ==
  ASSUME FileInv, NEW c \in Ids, Register(c) \/ RegisterNew(c)
  PROVE  FileInv'
<1>1. /\ owner[c] # "running" /\ c \notin saving /\ mstate # "OFF"
      /\ owner' = [owner EXCEPT ![c] = "running"]
      /\ UNCHANGED <<mstate, restVars, props, disk, broken, saving>>
  BY DEF Register, RegisterNew, Accepts, Fresh, FileInv, QueuesFit, In
<1>2. ~saved \/ c \in DbusIds
  BY DEF Register, RegisterNew, Accepts, FileInv, SavedFits
<1> QED
  BY <1>1, <1>2, OwnerFits

LEMMA SetPropertiesFits ==
  ASSUME FileInv, NEW c \in Ids, NEW new \in Descriptions[c], SetProperties(c, new)
  PROVE  FileInv'
<1> DEFINE p == Set(props[c], new)
<1>1. ~saved /\ owner[c] # "none" /\ c \in In("running")
  BY DEF SetProperties, FileInv, SavedFits, In
<1>2. DOMAIN new \subseteq {"RestartCommand", "RestartStyleHint"}
  BY SessionFileAssumption
<1>3. p = [n \in DOMAIN p |-> p[n]] /\ DOMAIN p \subseteq PropertyNames
  BY <1>2 DEF Set, FileInv, TypeOK, PropertyNames
<1>4. StateOf(c, p) = StateOf(c, props[c])
  BY <1>2, StateSet
<1>5. /\ props' = [props EXCEPT ![c] = p]
      /\ UNCHANGED <<mstate, restVars, owner, disk, broken, saving>>
  BY DEF SetProperties
<1>6. c \notin broken => StateOf(c, p) \subseteq disk
  BY <1>1, <1>4 DEF FileInv, HeldStateExists
<1>7. disk \subseteq Ids \X Versions
  BY DEF FileInv, TypeOK
<1> HIDE DEF p
<1> QED
  BY <1>1, <1>3, <1>5, <1>6, <1>7, PropertiesFit

LEMMA DeletePropertyFits ==
  ASSUME FileInv, NEW c \in Ids, NEW name, DeleteProperty(c, name)
  PROVE  FileInv'
<1> DEFINE p == Remove(props[c], name)
<1>1. ~saved /\ owner[c] # "none"
  BY DEF DeleteProperty, FileInv, SavedFits
<1>2. p = [n \in DOMAIN p |-> p[n]] /\ DOMAIN p \subseteq PropertyNames
  BY DEF Remove, FileInv, TypeOK
<1>3. StateOf(c, p) \subseteq StateOf(c, props[c])
  BY StateRemoved
<1>4. /\ props' = [props EXCEPT ![c] = p]
      /\ UNCHANGED <<mstate, restVars, owner, disk, broken, saving>>
  BY DEF DeleteProperty
<1>5. c \notin broken => StateOf(c, p) \subseteq disk
  BY <1>1, <1>3 DEF FileInv, HeldStateExists
<1>6. disk \subseteq Ids \X Versions
  BY DEF FileInv, TypeOK
<1> HIDE DEF p
<1> QED
  BY <1>1, <1>2, <1>4, <1>5, <1>6, PropertiesFit

\* The discard command that is run removes the state that was held, never the one
\* that takes its place.
LEMMA SaveStateFits ==
  ASSUME FileInv, NEW c \in Ids, NEW v \in Places[c], SaveState(c, v)
  PROVE  FileInv'
<1> DEFINE p == Set(props[c], [RestartCommand |-> TRUE, DiscardCommand |-> v])
<1>1. c \in saving /\ owner[c] = "running" /\ ~saved
  BY DEF SaveState, FileInv, QueuesFit, In, SavedFits, SavePhases
<1>2. v \in Versions
  BY SessionFileAssumption
<1>3. p = [n \in DOMAIN p |-> p[n]] /\ DOMAIN p \subseteq PropertyNames
  BY DEF Set, FileInv, TypeOK, PropertyNames
<1>4. StateOf(c, p) \subseteq {<<c, v>>}
  BY StateSaved
<1>5. <<c, v>> \in disk' /\ disk' \subseteq Ids \X Versions
  BY <1>2 DEF SaveState, Merge, DiscardChanged, FileInv, TypeOK
<1>6. ASSUME NEW d \in Ids, d # c, StateOf(d, props[d]) \subseteq disk
      PROVE  StateOf(d, props[d]) \subseteq disk'
  <2>1. StateOf(d, props[d]) \cap StateOf(c, props[c]) = {}
    BY <1>6, StatesApart
  <2> QED
    BY <1>6, <2>1 DEF SaveState, Merge
<1>7. /\ props' = [props EXCEPT ![c] = p] /\ broken' = broken \ {c}
      /\ UNCHANGED <<mstate, restVars, owner, saving>>
  BY DEF SaveState
<1> HIDE DEF p
<1>8. broken' \subseteq broken /\ \A d \in Ids : d # c => (d \in broken => d \in broken')
  BY <1>7
<1>9. owner[c] # "none"
  BY <1>1
<1> QED
  BY <1>1, <1>3, <1>4, <1>5, <1>6, <1>7, <1>8, <1>9, PropertiesFit

\* A save that leaves the queues and the properties alone.
LEMMA SaveFits ==
  ASSUME FileInv, NEW ms \in SavePhases, NEW save \in BOOLEAN, NEW sv \in SUBSET In("running"),
         Complete(ms, owner, sv, save), saveSession' \in BOOLEAN, idle' \in BOOLEAN,
         UNCHANGED <<nameVars, queueVars>>
  PROVE  FileInv'
<1>1. UNCHANGED <<sessionName, confName, owner, props, disk, broken>>
  BY DEF nameVars, queueVars
<1>2. /\ SavedFits' /\ SavedSessionIsWhole' /\ SavedSessionIsComplete'
      /\ mstate' \in {"IDLE", "CHECKPOINT", "SHUTDOWN", "SHUTDOWNPHASE2"}
      /\ saving' = sv /\ (mstate' \notin SavePhases => sv = {})
      /\ leaving' \in BOOLEAN /\ saved' \in BOOLEAN
      /\ checkpointName' \in Names \cup {NoName}
      /\ DOMAIN file' \subseteq Names
      /\ \A n \in DOMAIN file' :
           /\ DOMAIN file'[n] \subseteq Ids
           /\ \A c \in DOMAIN file'[n] : DOMAIN file'[n][c] \subseteq PropertyNames
  <2>1. owner \in [Ids -> {"none", "pending", "starting", "running", "restart"}] /\ sv \subseteq Ids
    BY DEF FileInv, TypeOK, In
  <2> QED
    BY <1>1, <2>1, CompleteFits
<1>3. TypeOK'
  BY <1>1, <1>2 DEF FileInv, TypeOK, In
<1>4. QueuesFit'
  BY <1>1, <1>2 DEF FileInv, QueuesFit, In
<1>5. HeldStateExists'
  BY <1>1 DEF FileInv, HeldStateExists
<1> QED
  BY <1>2, <1>3, <1>4, <1>5 DEF FileInv

LEMMA SaveBegins ==
  ASSUME FileInv, CheckpointIdled \/ \E ms \in SavePhases, save \in BOOLEAN : SaveRequest(ms, save)
  PROVE  FileInv'
<1>1. PICK ms \in SavePhases, save \in BOOLEAN :
         /\ SaveYourselfGlobal(ms, save) /\ idle' \in BOOLEAN
  BY DEF CheckpointIdled, SaveRequest, SavePhases, FileInv, TypeOK
<1> QED
  BY <1>1, SaveFits DEF SaveYourselfGlobal

LEMMA SaveYourselfDoneFits ==
  ASSUME FileInv, NEW c \in Ids, SaveYourselfDone(c)
  PROVE  FileInv'
<1>1. saving \ {c} \subseteq In("running") /\ saveSession \in BOOLEAN /\ idle \in BOOLEAN
  BY DEF FileInv, QueuesFit, TypeOK
<1> QED
  BY <1>1, SaveFits DEF SaveYourselfDone

LEMMA CloseConnectionFits ==
  ASSUME FileInv, NEW c \in Ids, CloseConnection(c)
  PROVE  FileInv'
<1>1. CASE mstate \in {"STARTUP", "IDLE"} /\ HandleFailed(c)
           /\ UNCHANGED <<mstate, restVars, saving>>
  <2>1. owner[c] # "none" /\ c \notin saving
    BY <1>1 DEF CloseConnection, FileInv, QueuesFit, SavePhases
  <2> QED
    BY <1>1, <2>1, HandleFailedFits
<1>2. CASE /\ mstate \in SavePhases /\ Free(c)
           /\ Complete(mstate, [owner EXCEPT ![c] = "none"], saving \ {c}, saveSession)
           /\ UNCHANGED <<disk, nameVars, idle, saveSession>>
  <2> DEFINE own == [owner EXCEPT ![c] = "none"]
  <2>1. /\ own \in [Ids -> {"none", "pending", "starting", "running", "restart"}]
        /\ owner' = own /\ DOMAIN props' = Ids
        /\ \A d \in Ids : d # c => own[d] = owner[d] /\ props'[d] = props[d]
        /\ own[c] = "none" /\ props'[c] = NewProperties
        /\ broken' = broken \ {c}
    BY <1>2 DEF FileInv, TypeOK, Free
  <2> HIDE DEF own
  <2>2. \A d \in Ids : own[d] # "none" =>
          /\ own[d] = owner[d] /\ props'[d] = props[d] /\ (d \in broken => d \in broken')
    BY <2>1
  <2>3. /\ saving \ {c} \subseteq Ids /\ saveSession \in BOOLEAN
        /\ UNCHANGED <<disk, sessionName, confName, idle, saveSession>>
        /\ broken' \subseteq broken
    BY <1>2, <2>1 DEF FileInv, TypeOK, nameVars
  <2>4. Complete(mstate, own, saving \ {c}, saveSession)
    BY <1>2 DEF own
  <2>5. /\ SavedFits' /\ SavedSessionIsWhole' /\ SavedSessionIsComplete'
        /\ mstate' \in {"IDLE", "CHECKPOINT", "SHUTDOWN", "SHUTDOWNPHASE2"}
        /\ saving' = saving \ {c} /\ (mstate' \notin SavePhases => saving \ {c} = {})
        /\ leaving' \in BOOLEAN /\ saved' \in BOOLEAN
        /\ checkpointName' \in Names \cup {NoName}
        /\ DOMAIN file' \subseteq Names
        /\ \A n \in DOMAIN file' :
             /\ DOMAIN file'[n] \subseteq Ids
             /\ \A d \in DOMAIN file'[n] : DOMAIN file'[n][d] \subseteq PropertyNames
    BY <1>2, <2>1, <2>2, <2>3, <2>4, CompleteFits
  <2>6. NewProperties = [n \in DOMAIN NewProperties |-> NewProperties[n]] /\ DOMAIN NewProperties = {}
    BY DEF NewProperties
  <2>7. TypeOK'
    <3>1. \A d \in Ids : DOMAIN props'[d] \subseteq PropertyNames
      BY <2>1, <2>6 DEF FileInv, TypeOK
    <3> QED
      BY <2>1, <2>3, <2>5, <3>1 DEF FileInv, TypeOK
  <2>8. QueuesFit'
    <3>1. \A d \in Ids : props'[d] = [n \in DOMAIN props'[d] |-> props'[d][n]]
      BY <2>1, <2>6 DEF FileInv, QueuesFit
    <3>2. \A d \in Ids : owner'[d] = "none" => props'[d] = NewProperties
      BY <2>1 DEF FileInv, QueuesFit
    <3>3. saving' \subseteq In("running")' /\ (mstate' \notin SavePhases => saving' = {})
      BY <2>1, <2>5 DEF FileInv, QueuesFit, In
    <3> QED
      BY <2>5, <3>1, <3>2, <3>3 DEF QueuesFit
  <2>9. HeldStateExists'
    BY <2>1, <2>3 DEF FileInv, HeldStateExists
  <2> QED
    BY <2>5, <2>7, <2>8, <2>9 DEF FileInv
<1> QED
  BY <1>1, <1>2 DEF CloseConnection

\* What changes neither clients nor the file.
LEMMA PhaseFits ==
  ASSUME FileInv,
         StartupDone \/ (\E c \in Ids : CancelShutdown(c))
           \/ \E name \in CheckpointNames : CheckpointRequest(name)
  PROVE  FileInv'
<1> DEFINE Phased ==
      /\ ~saved /\ saving' = saving /\ saved' = saved
      /\ mstate' \in {"IDLE", "CHECKPOINT"} /\ (mstate' = "IDLE" => saving = {})
      /\ checkpointName' \in Names \cup {NoName} /\ idle' \in BOOLEAN
      /\ UNCHANGED <<leaving, file, confName, sessionName, saveSession, owner, props, disk, broken>>
<1>1. Phased
  <2>1. mstate # "OFF" /\ mstate # "SHUTDOWNPHASE2" /\ (mstate \notin SavePhases => saving = {})
    BY DEF StartupDone, CancelShutdown, CheckpointRequest, FileInv, QueuesFit
  <2>2. CASE StartupDone
    BY <2>1, <2>2 DEF StartupDone, restVars, nameVars, queueVars, FileInv, TypeOK, SavedFits, SavePhases
  <2>3. ASSUME NEW c \in Ids, CancelShutdown(c) PROVE Phased
    BY <2>1, <2>3 DEF CancelShutdown, restVars, nameVars, queueVars, FileInv, TypeOK, SavedFits
  <2>4. ASSUME NEW name \in CheckpointNames, CheckpointRequest(name) PROVE Phased
    BY <2>1, <2>4, SessionFileAssumption
       DEF CheckpointRequest, nameVars, queueVars, FileInv, TypeOK, SavedFits, SavePhases
  <2> QED
    BY <2>2, <2>3, <2>4
<1>2. TypeOK'
  BY <1>1 DEF FileInv, TypeOK
<1>3. QueuesFit'
  <2>1. props' = props /\ owner' = owner /\ saving' = saving /\ mstate' # "OFF"
        /\ (mstate' \notin SavePhases => saving = {})
    BY <1>1 DEF SavePhases
  <2> QED
    BY <2>1 DEF FileInv, QueuesFit, In
<1>4. HeldStateExists'
  BY <1>1 DEF FileInv, HeldStateExists
<1>5. SavedFits' /\ SavedSessionIsWhole' /\ SavedSessionIsComplete'
  BY <1>1 DEF SavedFits, SavedSessionIsWhole, SavedSessionIsComplete
<1> QED
  BY <1>2, <1>3, <1>4, <1>5 DEF FileInv

LEMMA EndFits == ASSUME FileInv, End PROVE FileInv'
<1>1. NewProperties = [n \in DOMAIN NewProperties |-> NewProperties[n]] /\ DOMAIN NewProperties = {}
  BY DEF NewProperties
<1>2. TypeOK'
  BY <1>1 DEF End, nameVars, FileInv, TypeOK
<1>3. QueuesFit'
  BY <1>1 DEF End, QueuesFit, In
<1>4. HeldStateExists'
  BY DEF End, HeldStateExists
<1>5. SavedFits' /\ SavedSessionIsWhole' /\ SavedSessionIsComplete'
  BY DEF End, nameVars, FileInv, SavedFits, SavedSessionIsWhole, SavedSessionIsComplete, Lists
<1> QED
  BY <1>2, <1>3, <1>4, <1>5 DEF FileInv

LEMMA StutterFits == ASSUME FileInv, UNCHANGED vars PROVE FileInv'
<1>1. UNCHANGED <<mstate, leaving, file, confName, sessionName, checkpointName, idle, owner, props,
                  disk, broken, saving, saveSession, saved>>
  BY DEF vars, nameVars, queueVars
<1>2. TypeOK' /\ QueuesFit'
  BY <1>1 DEF FileInv, TypeOK, QueuesFit, In
<1>3. HeldStateExists' /\ SavedFits' /\ SavedSessionIsWhole' /\ SavedSessionIsComplete'
  BY <1>1 DEF FileInv, HeldStateExists, SavedFits, SavedSessionIsWhole, SavedSessionIsComplete,
              Lists, In
<1> QED
  BY <1>2, <1>3 DEF FileInv

-----------------------------------------------------------------------------
(* Theorems *)

\* The inductive invariant: queues, properties, states on disk and the stored
\* session fit together through any number of sessions.
THEOREM FileInvariance == Spec => []FileInv
<1>1. Init => FileInv
  <2> SUFFICES ASSUME Init PROVE FileInv
    OBVIOUS
  <2>1. NewProperties = [n \in DOMAIN NewProperties |-> NewProperties[n]] /\ DOMAIN NewProperties = {}
    BY DEF NewProperties
  <2>2. TypeOK
    <3>1. DOMAIN file = {} /\ owner \in [Ids -> {"none"}]
      BY DEF Init
    <3>2. DOMAIN props = Ids /\ \A c \in Ids : DOMAIN props[c] \subseteq PropertyNames
      BY <2>1 DEF Init
    <3> QED
      BY <3>1, <3>2, SessionFileAssumption DEF Init, TypeOK
  <2>3. QueuesFit
    <3>1. \A c \in Ids : props[c] = NewProperties /\ owner[c] = "none"
      BY DEF Init
    <3> QED
      BY <2>1, <3>1 DEF Init, QueuesFit
  <2> QED
    BY <2>2, <2>3 DEF Init, FileInv, HeldStateExists, SavedFits, SavedSessionIsWhole, SavedSessionIsComplete
<1>2. FileInv /\ [Next]_vars => FileInv'
  <2> SUFFICES ASSUME FileInv, [Next]_vars PROVE FileInv'
    OBVIOUS
  <2>1. CASE LoadSettings
    BY <2>1, LoadSettingsFits
  <2>2. CASE StartupDone \/ (\E c \in Ids : CancelShutdown(c))
             \/ \E name \in CheckpointNames : CheckpointRequest(name)
    BY <2>2, PhaseFits
  <2>3. CASE CheckpointIdled
             \/ \E ms \in SavePhases, save \in BOOLEAN : SaveRequest(ms, ms = "CHECKPOINT" \/ save)
    <3>1. CheckpointIdled \/ \E ms \in SavePhases, save \in BOOLEAN : SaveRequest(ms, save)
      BY <2>3
    <3> QED
      BY <3>1, SaveBegins
  <2>4. ASSUME NEW c \in Ids, StartProperties(c) \/ StartFails(c) PROVE FileInv'
    BY <2>4, StartFits
  <2>5. ASSUME NEW c \in Ids, Register(c) \/ RegisterNew(c) PROVE FileInv'
    BY <2>5, RegisterFits
  <2>6. ASSUME NEW c \in Ids, NEW new \in Descriptions[c], SetProperties(c, new) PROVE FileInv'
    BY <2>6, SetPropertiesFits
  <2>7. ASSUME NEW c \in Ids, NEW name \in Deletions[c], DeleteProperty(c, name) PROVE FileInv'
    BY <2>7, DeletePropertyFits
  <2>8. ASSUME NEW c \in Ids, NEW v \in Places[c], SaveState(c, v) PROVE FileInv'
    BY <2>8, SaveStateFits
  <2>9. ASSUME NEW c \in Ids, SaveYourselfDone(c) PROVE FileInv'
    BY <2>9, SaveYourselfDoneFits
  <2>10. ASSUME NEW c \in Ids, CloseConnection(c) PROVE FileInv'
    BY <2>10, CloseConnectionFits
  <2>11. CASE End
    BY <2>11, EndFits
  <2>12. CASE UNCHANGED vars
    BY <2>12, StutterFits
  <2> QED
    BY <2>1, <2>2, <2>3, <2>4, <2>5, <2>6, <2>7, <2>8, <2>9, <2>10, <2>11, <2>12 DEF Next
<1> QED
  BY <1>1, <1>2, PTL DEF Spec

\* Every variable keeps its type.
THEOREM FileTypeCorrect == Spec => []TypeOK
BY FileInvariance, PTL DEF FileInv

\* The manager never removes a state that it will still need: a client it knows
\* has the state it was last heard of, or lost it before the session was loaded.
THEOREM HeldIsThere == Spec => []HeldStateExists
BY FileInvariance, PTL DEF FileInv

\* After a saved logout no step of a client, of startup or of the manager removes a
\* state that the stored session refers to.
THEOREM SavedIsWhole == Spec => []SavedSessionIsWhole
BY FileInvariance, PTL DEF FileInv

\* A saved session lists exactly the XSMP clients that were told to end and want to
\* come back, as they described themselves.
THEOREM SavedIsComplete == Spec => []SavedSessionIsComplete
BY FileInvariance, PTL DEF FileInv

\* Storing a session, or a checkpoint under a name of its own, leaves the other
\* stored sessions alone.
THEOREM OthersAreKept == Spec => OtherSessionsKept
<1>1. ASSUME [Next]_vars, NEW n \in Names \ {sessionName}, n \in DOMAIN file',
             n \notin DOMAIN file \/ file'[n] # file[n]
      PROVE  n = checkpointName /\ mstate' = "IDLE"
  <2>1. file' # file
    BY <1>1
  <2>2. PICK ms, own, sv, save : ms \in SavePhases /\ Complete(ms, own, sv, save)
    <3>1. CASE CheckpointIdled
      <4>1. Complete("CHECKPOINT", owner, In("running"), TRUE) /\ "CHECKPOINT" \in SavePhases
        BY <3>1 DEF CheckpointIdled, SaveYourselfGlobal, SavePhases
      <4> QED
        BY <4>1
    <3>2. CASE \E ms \in SavePhases, save \in BOOLEAN : SaveRequest(ms, ms = "CHECKPOINT" \/ save)
      BY <3>2 DEF SaveRequest, SaveYourselfGlobal
    <3>3. CASE \E c \in Ids : SaveYourselfDone(c)
      BY <3>3 DEF SaveYourselfDone
    <3>4. CASE \E c \in Ids : CloseConnection(c)
      BY <2>1, <3>4 DEF CloseConnection, restVars
    <3>5. CASE ~(CheckpointIdled \/ (\E c \in Ids : SaveYourselfDone(c) \/ CloseConnection(c))
                 \/ \E ms \in SavePhases, save \in BOOLEAN :
                      SaveRequest(ms, ms = "CHECKPOINT" \/ save))
      BY <1>1, <2>1, <3>5
         DEF Next, vars, restVars, LoadSettings, StartupDone, CheckpointRequest, StartProperties,
             StartFails, Register, RegisterNew, SetProperties, DeleteProperty, SaveState,
             CancelShutdown, End
    <3> QED
      BY <3>1, <3>2, <3>3, <3>4, <3>5
  <2>3. file' = [m \in DOMAIN file \cup {Group(ms)} |->
                   IF m = Group(ms) THEN [c \in Stored(own) |-> Store(props[c])] ELSE file[m]]
        /\ sv = {}
    BY <2>1, <2>2 DEF Complete, StoreSession
  <2>4. n = Group(ms)
    BY <1>1, <2>3
  <2>5. ms = "CHECKPOINT" /\ n = checkpointName
    BY <1>1, <2>4 DEF Group
  <2> QED
    BY <2>2, <2>3, <2>5 DEF Complete
<1>2. [Next]_vars => [\A n \in Names \ {sessionName} :
                        n \in DOMAIN file' /\ (n \notin DOMAIN file \/ file'[n] # file[n]) =>
                          n = checkpointName /\ mstate' = "IDLE"]_vars
  BY <1>1
<1> QED
  BY <1>2, PTL DEF Spec, OtherSessionsKept

=============================================================================
