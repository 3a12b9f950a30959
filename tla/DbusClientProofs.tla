--------------------------- MODULE DbusClientProofs ---------------------------
(***************************************************************************)
(* Proofs about DbusClient, for any applications, ids and object paths.    *)
(*                                                                         *)
(* Registry and RestartFits compare what the session manager exports with  *)
(* what applications hold, and a signal that is still on its way says that *)
(* the two no longer agree.  PathsFit states when they do: no two          *)
(* applications hold a path, an object under the path of an application is *)
(* its own, with its id, and an application that is going to hear that its *)
(* object is gone holds a path that nothing is exported under.             *)
(***************************************************************************)
EXTENDS DbusClient, TLAPS

Gone(a) == Coming(a, "Replaced") \/ Coming(a, "NameLost")

PathsFit ==
  \A a \in Apps :
    /\ path[a] # None => alive[a] /\ \A b \in Apps \ {a} : path[b] # path[a]
    /\ path[a] = None => mail[a] = <<>>
    /\ path[a] \in Exported => objs[path[a]].app = a /\ objs[path[a]].id = id[a]
    /\ Gone(a) => path[a] \notin Exported

\* A state of DISCONNECTED means that the proxies are torn down.  (The converse does not
\* hold: a handler that was suspended may put another state in its place.)
Detached == \A a \in Apps : state[a] = "DISCONNECTED" => path[a] = None

DbusInv == TypeOK /\ PathsFit /\ Registry /\ RestartFits /\ Detached

Signals == Questions \cup {"CancelEndSession", "Replaced", "NameLost"}
States == {"DISCONNECTED", "REGISTERING", "IDLE", "SAVING_PHASE_1", "FROZEN"}
Objects == [app : Apps, id : Ids, asks : Questions \cup {"nothing"}, style : Styles,
            restart : Ids \cup {None}, discard : Ids \cup {None}]

-----------------------------------------------------------------------------
(* Signals on their way *)

LEMMA NoMail ==
  ASSUME NEW a, mail[a] = <<>>
  PROVE  ~Gone(a)
BY DEF Gone, Coming

\* A question on its way, or a signal less, does not mean that an object is gone.
LEMMA MailFits ==
  ASSUME NEW a \in Apps, mail[a] \in Seq(Signals), Gone(a)',
         \/ mail'[a] = mail[a]
         \/ mail[a] # <<>> /\ mail'[a] = Tail(mail[a])
         \/ \E what \in Signals \ {"Replaced", "NameLost"} : mail'[a] = Append(mail[a], what)
  PROVE  Gone(a)
<1>1. PICK i \in 1..Len(mail'[a]) : mail'[a][i] \in {"Replaced", "NameLost"}
  BY DEF Gone, Coming
<1>2. CASE mail'[a] = mail[a]
  BY <1>1, <1>2 DEF Gone, Coming
<1>3. CASE mail[a] # <<>> /\ mail'[a] = Tail(mail[a])
  <2>1. i + 1 \in 1..Len(mail[a]) /\ mail'[a][i] = mail[a][i + 1]
    BY <1>1, <1>3
  <2> QED
    BY <1>1, <2>1 DEF Gone, Coming
<1>4. CASE \E what \in Signals \ {"Replaced", "NameLost"} : mail'[a] = Append(mail[a], what)
  <2>1. PICK what \in Signals \ {"Replaced", "NameLost"} : mail'[a] = Append(mail[a], what)
    BY <1>4
  <2>2. i \in 1..Len(mail[a]) /\ mail'[a][i] = mail[a][i]
    BY <1>1, <2>1
  <2> QED
    BY <1>1, <2>2 DEF Gone, Coming
<1> QED
  BY <1>2, <1>3, <1>4

LEMMA ToldTyped ==
  ASSUME NEW box \in [Apps -> Seq(Signals)], NEW p, NEW what \in Signals
  PROVE  /\ Told(box, p, what) \in [Apps -> Seq(Signals)]
         /\ \A a \in Apps : Told(box, p, what)[a] =
              IF Subscribed(a) /\ path[a] = p THEN Append(box[a], what) ELSE box[a]
BY DEF Told

-----------------------------------------------------------------------------
(* Objects and their applications *)

\* Objects that are taken away, whichever they are, leave the rest as it was.
LEMMA FewerObjects ==
  ASSUME DbusInv, NEW ps, objs' = Without(ps),
         UNCHANGED <<alive, state, path, id, ownVars>>,
         \A a \in Apps : /\ path[a] = None => mail'[a] = <<>>
                         /\ Gone(a)' => Gone(a) \/ path[a] \notin Exported \ ps
  PROVE  PathsFit' /\ Registry' /\ RestartFits'
<1>1. Exported' = Exported \ ps /\ \A p \in Exported \ ps : objs'[p] = objs[p]
  BY DEF Without, Exported
<1>2. PathsFit'
  BY <1>1 DEF DbusInv, PathsFit
<1>3. Registry'
  BY <1>1 DEF DbusInv, Registry
<1>4. RestartFits'
  BY <1>1 DEF DbusInv, RestartFits, Subscribed, ownVars
<1> QED
  BY <1>2, <1>3, <1>4

\* What the registry says of properties and questions changes, not whose it is.
LEMMA SameObjects ==
  ASSUME DbusInv, Exported' = Exported,
         \A p \in Exported : objs'[p].app = objs[p].app /\ objs'[p].id = objs[p].id,
         UNCHANGED <<alive, path, id>>,
         \A a \in Apps : /\ path[a] = None => mail'[a] = <<>>
                         /\ Gone(a)' => Gone(a)
  PROVE  PathsFit' /\ Registry'
<1>1. PathsFit'
  BY DEF DbusInv, PathsFit
<1>2. Registry'
  BY DEF DbusInv, Registry
<1> QED
  BY <1>1, <1>2

\* Questions, answers and handlers leave the properties alone, and nobody is
\* subscribed by them who was not.
LEMMA SameProperties ==
  ASSUME DbusInv, Exported' = Exported,
         \A p \in Exported : /\ objs'[p].app = objs[p].app /\ objs'[p].id = objs[p].id
                             /\ objs'[p].style = objs[p].style
                             /\ objs'[p].restart = objs[p].restart
                             /\ objs'[p].discard = objs[p].discard,
         UNCHANGED <<alive, path, id, ownVars>>,
         \A a \in Apps : /\ path[a] = None => mail'[a] = <<>>
                         /\ Gone(a)' => Gone(a)
                         /\ state[a] = "REGISTERING" => state'[a] = "REGISTERING"
  PROVE  PathsFit' /\ Registry' /\ RestartFits'
<1>1. PathsFit' /\ Registry'
  BY SameObjects
<1>2. RestartFits'
  BY DEF DbusInv, RestartFits, Subscribed, ownVars
<1> QED
  BY <1>1, <1>2

\* An application sends what it has to its own object.
LEMMA PropertiesSent ==
  ASSUME DbusInv, NEW a \in Apps, alive[a],
         Exported' = Exported,
         \A p \in Exported : p # path[a] => objs'[p] = objs[p],
         path[a] \in Exported =>
           LET o == objs'[path[a]]
           IN /\ o.app = objs[path[a]].app /\ o.id = objs[path[a]].id
              /\ o.restart = id[a] /\ o.style = style'[a]
              /\ stateFile'[a] # None => o.discard = stateFile'[a],
         UNCHANGED <<alive, path, id, mail>>,
         \A b \in Apps \ {a} : /\ style'[b] = style[b] /\ stateFile'[b] = stateFile[b]
                               /\ state'[b] = state[b]
  PROVE  PathsFit' /\ Registry' /\ RestartFits'
<1>1. PathsFit' /\ Registry'
  <2>1. \A p \in Exported : objs'[p].app = objs[p].app /\ objs'[p].id = objs[p].id
    OBVIOUS
  <2>2. \A b \in Apps : /\ path[b] = None => mail'[b] = <<>>
                        /\ Gone(b)' => Gone(b)
    BY DEF DbusInv, PathsFit, Gone, Coming
  <2> QED
    BY <2>1, <2>2, SameObjects
<1>2. RestartFits'
  <2> SUFFICES ASSUME NEW b \in Apps, Subscribed(b)', path[b] \in Exported
               PROVE  LET o == objs'[path[b]]
                      IN /\ o.app = b /\ o.id = id[b] /\ o.restart = id[b] /\ o.style = style'[b]
                         /\ stateFile'[b] # None => o.discard = stateFile'[b]
    BY DEF RestartFits
  <2>1. CASE b = a
    BY <2>1 DEF DbusInv, PathsFit
  <2>2. CASE b # a
    <3>1. path[b] # path[a] /\ Subscribed(b)
      BY <2>2 DEF DbusInv, PathsFit, Subscribed
    <3> QED
      BY <2>2, <3>1 DEF DbusInv, RestartFits
  <2> QED
    BY <2>1, <2>2
<1> QED
  BY <1>1, <1>2

\* An application that leaves, or hears that its object is gone, holds no path; what
\* was exported under it is not any more.
LEMMA PathGivenUp ==
  ASSUME DbusInv, NEW a \in Apps, alive'[a] => alive[a],
         objs' = Without({path[a]}) \/ (objs' = objs /\ path[a] \notin Exported) \/ ~alive'[a],
         objs' = objs \/ objs' = Without({path[a]}),
         path' = [path EXCEPT ![a] = None],
         mail' = [mail EXCEPT ![a] = <<>>],
         \A b \in Apps \ {a} : /\ style'[b] = style[b] /\ stateFile'[b] = stateFile[b]
                               /\ state'[b] = state[b] /\ alive'[b] = alive[b] /\ id'[b] = id[b]
  PROVE  PathsFit' /\ Registry' /\ RestartFits'
<1>1. /\ Exported' \subseteq Exported
      /\ \A p \in Exported' : objs'[p] = objs[p]
      /\ alive'[a] => path[a] \notin Exported'
      /\ path[a] = None => objs' = objs \/ Exported' = Exported \ {None}
  BY DEF Without, Exported
<1>2. /\ path'[a] = None /\ mail'[a] = <<>>
      /\ \A b \in Apps \ {a} : path'[b] = path[b] /\ mail'[b] = mail[b]
  BY DEF DbusInv, TypeOK
<1>3. None \notin Exported
  BY DbusConstants DEF DbusInv, TypeOK
<1>4. PathsFit'
  <2> SUFFICES ASSUME NEW b \in Apps
               PROVE  /\ path'[b] # None => alive'[b] /\ \A d \in Apps \ {b} : path'[d] # path'[b]
                      /\ path'[b] = None => mail'[b] = <<>>
                      /\ path'[b] \in Exported' =>
                           objs'[path'[b]].app = b /\ objs'[path'[b]].id = id'[b]
                      /\ Gone(b)' => path'[b] \notin Exported'
    BY DEF PathsFit
  <2>1. CASE b = a
    BY <1>1, <1>2, <1>3, <2>1
  <2>2. CASE b # a
    <3>1. Gone(b)' => Gone(b)
      BY <1>2, <2>2 DEF Gone, Coming
    <3> QED
      BY <1>1, <1>2, <2>2, <3>1 DEF DbusInv, PathsFit
  <2> QED
    BY <2>1, <2>2
<1>5. Registry'
  <2> SUFFICES ASSUME NEW p \in Exported'
               PROVE  /\ \A q \in Exported' \ {p} : objs'[q].id # objs'[p].id
                      /\ alive'[objs'[p].app] => path'[objs'[p].app] = p
    BY DEF Registry
  <2>1. objs[p].app \in Apps
    BY <1>1 DEF DbusInv, TypeOK
  <2>2. CASE objs[p].app = a
    BY <1>1, <1>3, <2>2 DEF DbusInv, Registry
  <2>3. CASE objs[p].app # a
    BY <1>1, <1>2, <2>1, <2>3 DEF DbusInv, Registry
  <2> QED
    BY <2>2, <2>3
<1>6. RestartFits'
  <2> SUFFICES ASSUME NEW b \in Apps, Subscribed(b)', path'[b] \in Exported'
               PROVE  LET o == objs'[path'[b]]
                      IN /\ o.app = b /\ o.id = id'[b] /\ o.restart = id'[b] /\ o.style = style'[b]
                         /\ stateFile'[b] # None => o.discard = stateFile'[b]
    BY DEF RestartFits
  <2>1. b # a
    BY <1>2 DEF Subscribed
  <2>2. Subscribed(b) /\ path'[b] = path[b] /\ objs'[path[b]] = objs[path[b]] /\ path[b] \in Exported
    BY <1>1, <1>2, <2>1 DEF Subscribed
  <2> QED
    BY <2>1, <2>2 DEF DbusInv, RestartFits
<1> QED
  BY <1>4, <1>5, <1>6

\* An application that starts has nothing in the registry yet.
LEMMA LaunchedFits ==
  ASSUME DbusInv, NEW a \in Apps, NEW startId, Launch(a, startId)
  PROVE  PathsFit' /\ Registry' /\ RestartFits'
<1>1. /\ path[a] = None /\ \A p \in Exported : objs[p].app # a
      /\ UNCHANGED <<objs, state, path, style, stateFile, mail>> /\ Exported' = Exported
      /\ \A b \in Apps \ {a} : alive'[b] = alive[b] /\ id'[b] = id[b]
  BY DEF Launch, DbusInv, PathsFit, TypeOK, ownVars, Exported
<1>2. None \notin Exported
  BY DbusConstants DEF DbusInv, TypeOK
<1>3. PathsFit'
  BY <1>1, <1>2 DEF DbusInv, PathsFit, Gone, Coming
<1>4. Registry'
  <2>1. \A p \in Exported : objs[p].app \in Apps
    BY DEF DbusInv, TypeOK
  <2> QED
    BY <1>1, <2>1 DEF DbusInv, Registry
<1>5. RestartFits'
  BY <1>1, <1>2 DEF DbusInv, RestartFits, Subscribed
<1> QED
  BY <1>3, <1>4, <1>5

-----------------------------------------------------------------------------
(* Registering *)

Old(new) == {p \in Exported : objs[p].id = new}

\* What RegisterClient2 does, without the choices it makes.
Registered(a, box) ==
  \E at \in Paths, new \in Ids :
    /\ at \notin PathsInUse
    /\ Exported' = (Exported \ Old(new)) \cup {at}
    /\ \A p \in Exported \ Old(new) : objs'[p] = objs[p]
    /\ objs'[at] \in Objects /\ objs'[at].app = a /\ objs'[at].id = new
    /\ mail' \in [Apps -> Seq(Signals)]
    /\ path' = [path EXCEPT ![a] = at]
    /\ id' = [id EXCEPT ![a] = new]
    /\ \A b \in Apps : \/ mail'[b] = box[b]
                        \/ path[b] \in Old(new)

LEMMA Registers ==
  ASSUME TypeOK, NEW a \in Apps, NEW previous \in Ids \cup {None},
         NEW box \in [Apps -> Seq(Signals)], RegisterClient2(a, previous, box)
  PROVE  Registered(a, box)
<1> DEFINE new == IF previous = None THEN CHOOSE i \in Fresh : i \notin IdsInUse ELSE previous
           at == CHOOSE p \in Paths : p \notin PathsInUse
           one == CHOOSE p \in Old(new) : TRUE
           props == IF Old(new) = {} THEN [style |-> "normal", restart |-> None, discard |-> None]
                    ELSE [f \in {"style", "restart", "discard"} |-> objs[one][f]]
<1>1. at \in Paths /\ at \notin PathsInUse
  BY DEF RegisterClient2
<1>2. new \in Ids
  BY DEF RegisterClient2, Ids
<1> HIDE DEF new, at
<1>3. /\ objs' = [p \in (Exported \ Old(new)) \cup {at} |->
                    IF p = at THEN [app |-> a, id |-> new, asks |-> "nothing",
                                    style |-> props.style, restart |-> props.restart,
                                    discard |-> props.discard]
                    ELSE objs[p]]
      /\ mail' = IF Old(new) = {} THEN box ELSE Told(box, one, "Replaced")
      /\ path' = [path EXCEPT ![a] = at]
      /\ id' = [id EXCEPT ![a] = new]
  BY DEF RegisterClient2, new, at, Old
<1>4. /\ Exported' = (Exported \ Old(new)) \cup {at}
      /\ \A p \in Exported \ Old(new) : objs'[p] = objs[p]
      /\ objs'[at].app = a /\ objs'[at].id = new
  <2>1. at \notin Exported
    BY <1>1 DEF PathsInUse
  <2> HIDE DEF props, one
  <2> QED
    BY <1>3, <2>1 DEF Exported
<1>5. props.style \in Styles /\ props.restart \in Ids \cup {None} /\ props.discard \in Ids \cup {None}
  <2>1. CASE Old(new) = {}
    BY <2>1, DbusConstants
  <2>2. CASE Old(new) # {}
    <3>1. one \in Exported
      BY <2>2 DEF Old
    <3> HIDE DEF one
    <3>2. objs[one] \in Objects
      BY <3>1 DEF TypeOK, Objects
    <3>3. /\ props.style = objs[one].style /\ props.restart = objs[one].restart
          /\ props.discard = objs[one].discard
      BY <2>2
    <3> HIDE DEF props
    <3> QED
      BY <3>2, <3>3 DEF Objects
  <2> QED
    BY <2>1, <2>2
<1> HIDE DEF props
<1>6. objs'[at] \in Objects
  BY <1>2, <1>3, <1>5 DEF Objects
<1>7. /\ mail' \in [Apps -> Seq(Signals)]
      /\ \A b \in Apps : mail'[b] = box[b] \/ path[b] \in Old(new)
  <2>1. CASE Old(new) = {}
    BY <1>3, <2>1
  <2>2. CASE Old(new) # {}
    <3>1. one \in Old(new)
      BY <2>2
    <3> HIDE DEF one
    <3>2. "Replaced" \in Signals
      BY DEF Signals
    <3>3. /\ Told(box, one, "Replaced") \in [Apps -> Seq(Signals)]
          /\ \A b \in Apps : Told(box, one, "Replaced")[b] =
               IF Subscribed(b) /\ path[b] = one THEN Append(box[b], "Replaced") ELSE box[b]
      BY <3>2, ToldTyped
    <3>4. mail' = Told(box, one, "Replaced")
      BY <1>3, <2>2
    <3> QED
      BY <3>1, <3>3, <3>4
  <2> QED
    BY <2>1, <2>2
<1> HIDE DEF one
<1> QED
  BY <1>1, <1>2, <1>3, <1>4, <1>6, <1>7 DEF Registered

\* An application registers that nothing is exported for: it has the path alone, and
\* the one it replaces has a path that is exported no more.
LEMMA RegisteredFits ==
  ASSUME DbusInv, NEW a \in Apps, alive[a], path[a] \notin Exported,
         NEW previous \in Ids \cup {None}, NEW box \in [Apps -> Seq(Signals)],
         box[a] = <<>>, \A b \in Apps \ {a} : box[b] = mail[b],
         RegisterClient2(a, previous, box),
         state' = [state EXCEPT ![a] = "REGISTERING"], UNCHANGED <<up, alive, ownVars>>
  PROVE  /\ PathsFit' /\ Registry' /\ RestartFits'
         /\ Exported' \subseteq Paths /\ \A p \in Exported' : objs'[p] \in Objects
         /\ path' \in [Apps -> Paths \cup {None}] /\ id' \in [Apps -> Ids \cup {None}]
         /\ mail' \in [Apps -> Seq(Signals)]
<1>1. PICK at \in Paths, new \in Ids :
           /\ at \notin PathsInUse
           /\ Exported' = (Exported \ Old(new)) \cup {at}
           /\ \A p \in Exported \ Old(new) : objs'[p] = objs[p]
           /\ objs'[at] \in Objects /\ objs'[at].app = a /\ objs'[at].id = new
           /\ mail' \in [Apps -> Seq(Signals)]
           /\ path' = [path EXCEPT ![a] = at]
           /\ id' = [id EXCEPT ![a] = new]
           /\ \A b \in Apps : \/ mail'[b] = box[b]
                               \/ path[b] \in Old(new)
  <2>1. TypeOK
    BY DEF DbusInv
  <2>2. Registered(a, box)
    BY <2>1, Registers
  <2> QED
    BY <2>2 DEF Registered
<1>2. /\ at # None /\ at \notin Exported /\ \A b \in Apps : path[b] # at
      /\ \A p \in Exported : objs[p].app # a
  <2>1. ASSUME NEW p \in Exported PROVE objs[p].app # a
    BY DEF DbusInv, Registry
  <2> QED
    BY <1>1, <2>1, DbusConstants DEF PathsInUse
<1>3. /\ path'[a] = at /\ id'[a] = new /\ mail'[a] = <<>>
      /\ \A b \in Apps \ {a} : /\ path'[b] = path[b] /\ id'[b] = id[b]
                               /\ mail'[b] = mail[b] \/ path[b] \notin Exported'
  <2>1. path[a] \notin Old(new)
    BY DEF Old
  <2>2. ASSUME NEW b \in Apps \ {a}, path[b] \in Old(new) PROVE path[b] \notin Exported'
    BY <1>1, <1>2, <2>2
  <2> QED
    BY <1>1, <2>1, <2>2 DEF DbusInv, TypeOK, States
<1>4. PathsFit'
  <2> SUFFICES ASSUME NEW b \in Apps
               PROVE  /\ path'[b] # None => alive'[b] /\ \A d \in Apps \ {b} : path'[d] # path'[b]
                      /\ path'[b] = None => mail'[b] = <<>>
                      /\ path'[b] \in Exported' =>
                           objs'[path'[b]].app = b /\ objs'[path'[b]].id = id'[b]
                      /\ Gone(b)' => path'[b] \notin Exported'
    BY DEF PathsFit
  <2>1. CASE b = a
    <3>1. ~Gone(b)'
      BY <1>3, <2>1 DEF Gone, Coming
    <3> QED
      BY <1>1, <1>2, <1>3, <2>1, <3>1
  <2>2. CASE b # a
    <3>1. path'[b] \in Exported' => path[b] \in Exported \ Old(new)
      BY <1>1, <1>2, <1>3, <2>2
    <3>2. path'[b] # None => alive'[b] /\ \A d \in Apps \ {b} : path'[d] # path'[b]
      BY <1>2, <1>3, <2>2 DEF DbusInv, PathsFit
    <3>3. path'[b] = None => mail'[b] = <<>>
      <4>1. None \notin Old(new)
        BY DbusConstants DEF DbusInv, TypeOK, Old
      <4> QED
        BY <1>1, <1>3, <2>2, <4>1 DEF DbusInv, PathsFit
    <3>4. path'[b] \in Exported' => objs'[path'[b]].app = b /\ objs'[path'[b]].id = id'[b]
      <4>1. /\ path'[b] = path[b] /\ id'[b] = id[b]
            /\ path[b] \in Exported => objs[path[b]].app = b /\ objs[path[b]].id = id[b]
        BY <1>3, <2>2 DEF DbusInv, PathsFit
      <4>2. path'[b] \in Exported' => objs'[path[b]] = objs[path[b]] /\ path[b] \in Exported
        BY <1>1, <3>1
      <4> QED
        BY <4>1, <4>2
    <3>5. Gone(b)' => path'[b] \notin Exported'
      <4>1. mail'[b] = mail[b] => (Gone(b)' => Gone(b))
        BY DEF Gone, Coming
      <4> QED
        BY <1>3, <2>2, <3>1, <4>1 DEF DbusInv, PathsFit
    <3> QED
      BY <3>2, <3>3, <3>4, <3>5
  <2> QED
    BY <2>1, <2>2
<1>5. Registry'
  <2> SUFFICES ASSUME NEW p \in Exported'
               PROVE  /\ \A q \in Exported' \ {p} : objs'[q].id # objs'[p].id
                      /\ alive'[objs'[p].app] => path'[objs'[p].app] = p
    BY DEF Registry
  <2>1. CASE p = at
    BY <1>1, <1>3, <2>1 DEF Old
  <2>2. CASE p # at
    <3>1. p \in Exported \ Old(new) /\ objs'[p] = objs[p] /\ objs[p].app \in Apps \ {a}
      BY <1>1, <1>2, <2>2 DEF DbusInv, TypeOK
    <3>2. \A q \in Exported' \ {p} : objs'[q].id # objs'[p].id
      BY <1>1, <3>1 DEF DbusInv, Registry, Old
    <3> QED
      BY <1>3, <3>1, <3>2 DEF DbusInv, Registry
  <2> QED
    BY <2>1, <2>2
<1>6. RestartFits'
  <2> SUFFICES ASSUME NEW b \in Apps, Subscribed(b)', path'[b] \in Exported'
               PROVE  LET o == objs'[path'[b]]
                      IN /\ o.app = b /\ o.id = id'[b] /\ o.restart = id'[b] /\ o.style = style'[b]
                         /\ stateFile'[b] # None => o.discard = stateFile'[b]
    BY DEF RestartFits
  <2>1. b # a /\ Subscribed(b)
    BY <1>3 DEF Subscribed, DbusInv, TypeOK
  <2>2. path'[b] = path[b] /\ objs'[path[b]] = objs[path[b]] /\ path[b] \in Exported
    BY <1>1, <1>2, <1>3, <2>1
  <2> QED
    BY <1>3, <2>1, <2>2 DEF DbusInv, RestartFits, ownVars
<1>7. Exported' \subseteq Paths /\ \A p \in Exported' : objs'[p] \in Objects
  BY <1>1, ZenonT(60) DEF DbusInv, TypeOK, Objects
<1>8. path' \in [Apps -> Paths \cup {None}] /\ id' \in [Apps -> Ids \cup {None}]
  BY <1>1 DEF DbusInv, TypeOK
<1> QED
  BY <1>1, <1>4, <1>5, <1>6, <1>7, <1>8

-----------------------------------------------------------------------------
(* The session manager's steps *)

LEMMA RemovesClients ==
  ASSUME DbusInv, NEW a \in Apps, RemoveClientsForConnection(a)
  PROVE  DbusInv'
<1>1. objs' = Without({p \in Exported : objs[p].app = a})
      /\ UNCHANGED <<up, alive, state, path, id, ownVars, wanted, timer, saveVars, mail>>
  BY DEF RemoveClientsForConnection
<1>2. PathsFit' /\ Registry' /\ RestartFits'
  <2>1. \A b \in Apps : /\ path[b] = None => mail'[b] = <<>>
                        /\ Gone(b)' => Gone(b)
    BY <1>1 DEF DbusInv, PathsFit, Gone, Coming
  <2>2. UNCHANGED <<alive, state, path, id, ownVars>>
    BY <1>1
  <2> QED
    BY <1>1, <2>1, <2>2, FewerObjects
<1>3. TypeOK' /\ Detached'
  BY <1>1 DEF DbusInv, TypeOK, States, Detached, Without, Exported, ownVars, saveVars
<1> QED
  BY <1>2, <1>3 DEF DbusInv

LEMMA Drops ==
  ASSUME DbusInv, NEW p \in Paths, SaveTimeout(p)
  PROVE  DbusInv'
<1>1. objs' = Without({p})
      /\ UNCHANGED <<up, alive, state, path, id, ownVars, wanted, timer, saveVars, mail>>
  BY DEF SaveTimeout
<1>2. PathsFit' /\ Registry' /\ RestartFits'
  <2>1. \A b \in Apps : /\ path[b] = None => mail'[b] = <<>>
                        /\ Gone(b)' => Gone(b)
    BY <1>1 DEF DbusInv, PathsFit, Gone, Coming
  <2>2. UNCHANGED <<alive, state, path, id, ownVars>>
    BY <1>1
  <2> QED
    BY <1>1, <2>1, <2>2, FewerObjects
<1>3. TypeOK' /\ Detached'
  BY <1>1 DEF DbusInv, TypeOK, States, Detached, Without, Exported, ownVars, saveVars
<1> QED
  BY <1>2, <1>3 DEF DbusInv

\* Everybody who holds a path is going to hear that the name is lost.
LEMMA Vanishes ==
  ASSUME DbusInv, ManagerVanishes
  PROVE  DbusInv'
<1>1. /\ objs' = <<>> /\ up' = FALSE
      /\ UNCHANGED <<alive, state, path, id, ownVars, wanted, timer, saveVars>>
      /\ mail' = [a \in Apps |-> IF path[a] # None /\ ~Coming(a, "NameLost")
                                 THEN Append(mail[a], "NameLost") ELSE mail[a]]
  BY DEF ManagerVanishes
<1>2. Exported' = {}
  BY <1>1 DEF Exported
<1>3. \A a \in Apps : path[a] = None => mail'[a] = <<>>
  BY <1>1 DEF DbusInv, PathsFit
<1>4. PathsFit' /\ Registry' /\ RestartFits'
  BY <1>1, <1>2, <1>3 DEF PathsFit, Registry, RestartFits, DbusInv
<1>5. mail' \in [Apps -> Seq(Signals)]
  BY <1>1 DEF DbusInv, TypeOK, Signals
<1>6. TypeOK' /\ Detached'
  BY <1>1, <1>2, <1>5 DEF DbusInv, TypeOK, States, Detached, Signals, ownVars, saveVars
<1> QED
  BY <1>4, <1>6 DEF DbusInv

\* The name alone changes, or nothing does.
LEMMA OnlyTheName ==
  ASSUME DbusInv, up' \in BOOLEAN,
         UNCHANGED <<objs, alive, state, path, id, ownVars, wanted, timer, saveVars, mail>>
  PROVE  DbusInv'
<1>1. Exported' = Exported /\ UNCHANGED <<alive, path, id, ownVars>>
  BY DEF Exported
<1>2. \A b \in Apps : /\ path[b] = None => mail'[b] = <<>>
                      /\ Gone(b)' => Gone(b)
                      /\ state[b] = "REGISTERING" => state'[b] = "REGISTERING"
  BY DEF DbusInv, PathsFit, Gone, Coming
<1>3. PathsFit' /\ Registry' /\ RestartFits'
  BY <1>1, <1>2, SameProperties
<1>4. TypeOK' /\ Detached'
  BY <1>1 DEF DbusInv, TypeOK, States, Detached, ownVars, saveVars
<1> QED
  BY <1>3, <1>4 DEF DbusInv

LEMMA Appears ==
  ASSUME DbusInv, ManagerAppears
  PROVE  DbusInv'
<1>1. up' \in BOOLEAN
  BY DEF ManagerAppears
<1>2. UNCHANGED <<objs, alive, state, path, id, ownVars, wanted, timer, saveVars, mail>>
  BY DEF ManagerAppears
<1> QED
  BY <1>1, <1>2, OnlyTheName

LEMMA Asks ==
  ASSUME DbusInv, NEW p \in Paths, NEW what \in Questions, Ask(p, what)
  PROVE  DbusInv'
<1>1. /\ p \in Exported
      /\ objs' = [objs EXCEPT ![p].asks = what]
      /\ mail' = Told(mail, p, what)
      /\ UNCHANGED <<up, alive, state, path, id, ownVars, wanted, timer, saveVars>>
  BY DEF Ask
<1>2. what \in Signals \ {"Replaced", "NameLost"}
  BY DbusConstants DEF Signals
<1>3. /\ mail' \in [Apps -> Seq(Signals)]
      /\ \A a \in Apps : mail'[a] = IF Subscribed(a) /\ path[a] = p
                                    THEN Append(mail[a], what) ELSE mail[a]
  <2>1. mail \in [Apps -> Seq(Signals)] /\ what \in Signals
    BY <1>2 DEF DbusInv, TypeOK, Signals
  <2> QED
    BY <1>1, <2>1, ToldTyped
<1>4. \A a \in Apps : /\ path[a] = None => mail'[a] = <<>>
                      /\ Gone(a)' => Gone(a)
  <2> TAKE a \in Apps
  <2>1. path[a] = None => mail'[a] = <<>>
    BY <1>3 DEF DbusInv, PathsFit, Subscribed
  <2>2. ASSUME Gone(a)' PROVE Gone(a)
    <3>1. mail[a] \in Seq(Signals)
      BY DEF DbusInv, TypeOK, Signals
    <3> QED
      BY <1>2, <1>3, <2>2, <3>1, MailFits
  <2> QED
    BY <2>1, <2>2
<1>5. /\ Exported' = Exported
      /\ \A q \in Exported : /\ objs'[q].app = objs[q].app /\ objs'[q].id = objs[q].id
                             /\ objs'[q].style = objs[q].style
                             /\ objs'[q].restart = objs[q].restart
                             /\ objs'[q].discard = objs[q].discard
                             /\ objs'[q] \in Objects
  BY <1>1, ZenonT(60) DEF DbusInv, TypeOK, Exported, Objects
<1>6. PathsFit' /\ Registry' /\ RestartFits'
  <2>1. UNCHANGED <<alive, path, id, ownVars>> /\ state' = state
    BY <1>1
  <2> QED
    BY <1>4, <1>5, <2>1, SameProperties
<1>7. TypeOK' /\ Detached'
  BY <1>1, <1>3, <1>5 DEF DbusInv, TypeOK, States, Detached, Objects, Signals, ownVars, saveVars
<1> QED
  BY <1>6, <1>7 DEF DbusInv

LEMMA Cancels ==
  ASSUME DbusInv, NEW p \in Paths, CancelEndSession(p)
  PROVE  DbusInv'
<1>1. /\ p \in Exported
      /\ objs' = [objs EXCEPT ![p].asks = "nothing"]
      /\ mail' = Told(mail, p, "CancelEndSession")
      /\ UNCHANGED <<up, alive, state, path, id, ownVars, wanted, timer, saveVars>>
  BY DEF CancelEndSession
<1>2. "CancelEndSession" \in Signals \ {"Replaced", "NameLost"}
  BY DEF Signals
<1>3. /\ mail' \in [Apps -> Seq(Signals)]
      /\ \A a \in Apps : mail'[a] = IF Subscribed(a) /\ path[a] = p
                                    THEN Append(mail[a], "CancelEndSession") ELSE mail[a]
  <2>1. mail \in [Apps -> Seq(Signals)] /\ "CancelEndSession" \in Signals
    BY <1>2 DEF DbusInv, TypeOK, Signals
  <2> QED
    BY <1>1, <2>1, ToldTyped
<1>4. \A a \in Apps : /\ path[a] = None => mail'[a] = <<>>
                      /\ Gone(a)' => Gone(a)
  <2> TAKE a \in Apps
  <2>1. path[a] = None => mail'[a] = <<>>
    BY <1>3 DEF DbusInv, PathsFit, Subscribed
  <2>2. ASSUME Gone(a)' PROVE Gone(a)
    <3>1. mail[a] \in Seq(Signals)
      BY DEF DbusInv, TypeOK, Signals
    <3> QED
      BY <1>2, <1>3, <2>2, <3>1, MailFits
  <2> QED
    BY <2>1, <2>2
<1>5. /\ Exported' = Exported
      /\ \A q \in Exported : /\ objs'[q].app = objs[q].app /\ objs'[q].id = objs[q].id
                             /\ objs'[q].style = objs[q].style
                             /\ objs'[q].restart = objs[q].restart
                             /\ objs'[q].discard = objs[q].discard
                             /\ objs'[q] \in Objects
  BY <1>1, ZenonT(60) DEF DbusInv, TypeOK, Exported, Objects
<1>6. PathsFit' /\ Registry' /\ RestartFits'
  <2>1. UNCHANGED <<alive, path, id, ownVars>> /\ state' = state
    BY <1>1
  <2> QED
    BY <1>4, <1>5, <2>1, SameProperties
<1>7. TypeOK' /\ Detached'
  BY <1>1, <1>3, <1>5 DEF DbusInv, TypeOK, States, Detached, Objects, Signals, ownVars, saveVars
<1> QED
  BY <1>6, <1>7 DEF DbusInv


-----------------------------------------------------------------------------
(* The signals and the handlers *)

\* A question that is taken from the mail leaves everything but the frames, the state
\* and the flag alone.
LEMMA Reads ==
  ASSUME DbusInv, NEW a \in Apps, mail[a] # <<>>, mail' = [mail EXCEPT ![a] = Tail(@)],
         UNCHANGED <<objs, alive, path, id, ownVars>>,
         NEW s \in {"IDLE", "SAVING_PHASE_1", state[a]}, state' = [state EXCEPT ![a] = s],
         state[a] # "REGISTERING"
  PROVE  /\ PathsFit' /\ Registry' /\ RestartFits' /\ Detached'
         /\ mail' \in [Apps -> Seq(Signals)]
         /\ state' \in [Apps -> States]
<1>1. /\ mail' \in [Apps -> Seq(Signals)]
      /\ mail'[a] = Tail(mail[a]) /\ \A b \in Apps \ {a} : mail'[b] = mail[b]
  BY DEF DbusInv, TypeOK, Signals
<1>2. \A b \in Apps : /\ path[b] = None => mail'[b] = <<>>
                      /\ Gone(b)' => Gone(b)
                      /\ state[b] = "REGISTERING" => state'[b] = "REGISTERING"
  <2> TAKE b \in Apps
  <2>1. path[b] = None => mail'[b] = <<>>
    BY <1>1 DEF DbusInv, PathsFit
  <2>2. ASSUME Gone(b)' PROVE Gone(b)
    <3>1. mail[b] \in Seq(Signals)
      BY DEF DbusInv, TypeOK, Signals
    <3>2. mail'[b] = mail[b] \/ (mail[b] # <<>> /\ mail'[b] = Tail(mail[b]))
      BY <1>1
    <3> QED
      BY <2>2, <3>1, <3>2, MailFits
  <2>3. state[b] = "REGISTERING" => state'[b] = "REGISTERING"
    BY DEF DbusInv, TypeOK
  <2> QED
    BY <2>1, <2>2, <2>3
<1>3. PathsFit' /\ Registry' /\ RestartFits'
  <2>1. Exported' = Exported
    BY DEF Exported
  <2>2. UNCHANGED <<alive, path, id, ownVars>>
    OBVIOUS
  <2> QED
    BY <1>2, <2>1, <2>2, SameProperties
<1>4. Detached' /\ state' \in [Apps -> States]
  BY DEF DbusInv, TypeOK, States, Detached
<1> QED
  BY <1>1, <1>3, <1>4

LEMMA Suspends ==
  ASSUME TypeOK, NEW a \in Apps, NEW what \in Questions, Suspend(a, what)
  PROVE  frames' \in [Apps -> Seq([in : Questions, on : Paths \cup {None}])]
<1> DEFINE F == [in : Questions, on : Paths \cup {None}]
           f == [in |-> what, on |-> path[a]]
<1>1. f \in F /\ frames \in [Apps -> Seq(F)]
  BY DEF TypeOK
<1>2. frames' = [frames EXCEPT ![a] = <<f>> \o frames[a]]
  BY DEF Suspend
<1> HIDE DEF F, f
<1>3. <<f>> \in Seq(F) /\ frames[a] \in Seq(F)
  BY <1>1
<1>4. <<f>> \o frames[a] \in Seq(F)
  BY <1>3
<1>5. frames' \in [Apps -> Seq(F)]
  BY <1>1, <1>2, <1>4
<1> QED
  BY <1>5 DEF F

LEMMA SavesState ==
  ASSUME DbusInv, NEW a \in Apps, NEW what \in Questions, SaveState(a, what)
  PROVE  DbusInv'
<1>1. /\ mail[a] # <<>> /\ mail' = [mail EXCEPT ![a] = Tail(@)]
      /\ state' = [state EXCEPT ![a] = "SAVING_PHASE_1"] /\ state[a] # "REGISTERING"
      /\ Suspend(a, what)
      /\ UNCHANGED <<up, objs, alive, path, id, ownVars, wanted, timer, cancelled>>
  BY DEF SaveState, Receives, Running, Read, Become
<1>2. frames' \in [Apps -> Seq([in : Questions, on : Paths \cup {None}])]
  BY <1>1, Suspends DEF DbusInv
<1>3. /\ PathsFit' /\ Registry' /\ RestartFits' /\ Detached'
      /\ mail' \in [Apps -> Seq(Signals)]
      /\ state' \in [Apps -> States]
  <2>1. UNCHANGED <<objs, alive, path, id, ownVars>>
    BY <1>1
  <2> QED
    BY <1>1, <2>1, Reads
<1> QED
  BY <1>1, <1>2, <1>3 DEF DbusInv, TypeOK, States, Signals, Exported, ownVars

LEMMA Queried ==
  ASSUME DbusInv, NEW a \in Apps, QueryEndSession(a)
  PROVE  DbusInv'
<1>1. /\ mail[a] # <<>> /\ Head(mail[a]) = "QueryEndSession" /\ mail' = [mail EXCEPT ![a] = Tail(@)]
      /\ state[a] # "REGISTERING" /\ Suspend(a, "QueryEndSession")
      /\ cancelled' = [cancelled EXCEPT ![a] = FALSE]
      /\ UNCHANGED <<up, objs, alive, state, path, id, ownVars, wanted, timer>>
  BY DEF QueryEndSession, Receives, Running, Read, LowersFlag
<1>2. frames' \in [Apps -> Seq([in : Questions, on : Paths \cup {None}])]
  <2>1. "QueryEndSession" \in Questions
    <3>1. mail[a] \in Seq(Questions \cup {"CancelEndSession", "Replaced", "NameLost"})
      BY DEF DbusInv, TypeOK
    <3> QED
      BY <1>1, <3>1
  <2> QED
    BY <1>1, <2>1, Suspends DEF DbusInv
<1>3. /\ PathsFit' /\ Registry' /\ RestartFits' /\ Detached'
      /\ mail' \in [Apps -> Seq(Signals)]
      /\ state' \in [Apps -> States]
  <2>1. UNCHANGED <<objs, alive, path, id, ownVars>>
    BY <1>1
  <2>2. state' = [state EXCEPT ![a] = state[a]]
    BY <1>1 DEF DbusInv, TypeOK
  <2> QED
    BY <1>1, <2>1, <2>2, Reads
<1>4. cancelled' \in [Apps -> BOOLEAN]
  BY <1>1 DEF DbusInv, TypeOK
<1> QED
  BY <1>1, <1>2, <1>3, <1>4 DEF DbusInv, TypeOK, States, Signals, Exported, ownVars

LEMMA TakenBack ==
  ASSUME DbusInv, NEW a \in Apps, Cancelled(a)
  PROVE  DbusInv'
<1>1. /\ mail[a] # <<>> /\ mail' = [mail EXCEPT ![a] = Tail(@)]
      /\ state' = [state EXCEPT ![a] = "IDLE"] /\ state[a] # "REGISTERING"
      /\ cancelled' = [cancelled EXCEPT ![a] = TRUE]
      /\ UNCHANGED <<up, objs, alive, path, id, ownVars, wanted, timer, frames>>
  BY DEF Cancelled, Receives, Running, Read, Become
<1>2. /\ PathsFit' /\ Registry' /\ RestartFits' /\ Detached'
      /\ mail' \in [Apps -> Seq(Signals)]
      /\ state' \in [Apps -> States]
  <2>1. UNCHANGED <<objs, alive, path, id, ownVars>>
    BY <1>1
  <2> QED
    BY <1>1, <2>1, Reads
<1>3. cancelled' \in [Apps -> BOOLEAN]
  BY <1>1 DEF DbusInv, TypeOK
<1> QED
  BY <1>1, <1>2, <1>3 DEF DbusInv, TypeOK, States, Signals, Exported, ownVars

\* What an answer changes is only what the object asks.
LEMMA Answers ==
  ASSUME TypeOK, NEW p, NEW what, Answer(p, what) \/ UNCHANGED objs
  PROVE  /\ Exported' = Exported
         /\ \A q \in Exported : /\ objs'[q].app = objs[q].app /\ objs'[q].id = objs[q].id
                                /\ objs'[q].style = objs[q].style
                                /\ objs'[q].restart = objs[q].restart
                                /\ objs'[q].discard = objs[q].discard
                                /\ objs'[q] \in Objects
<1>1. CASE p \in Exported /\ objs' = [objs EXCEPT ![p].asks = "nothing"]
  BY <1>1, ZenonT(60) DEF TypeOK, Objects, Exported
<1>2. CASE objs' = objs
  BY <1>2 DEF TypeOK, Objects, Exported
<1> QED
  BY <1>1, <1>2 DEF Answer

LEMMA Returns ==
  ASSUME DbusInv, NEW a \in Apps, HandlerReturns(a)
  PROVE  DbusInv'
<1> DEFINE f == Head(frames[a])
<1>1. /\ state[a] # "REGISTERING" /\ frames[a] # <<>> /\ frames' = [frames EXCEPT ![a] = Tail(@)]
      /\ Answer(f.on, f.in) \/ UNCHANGED objs
      /\ state' = state \/ state' = [state EXCEPT ![a] = "IDLE"] \/ state' = [state EXCEPT ![a] = "FROZEN"]
      /\ cancelled' = cancelled \/ cancelled' = [cancelled EXCEPT ![a] = FALSE]
      /\ UNCHANGED <<up, alive, path, id, ownVars, wanted, timer, mail>>
  BY DEF HandlerReturns, Running, Become, LowersFlag
<1> HIDE DEF f
<1>2. /\ Exported' = Exported
      /\ \A q \in Exported : /\ objs'[q].app = objs[q].app /\ objs'[q].id = objs[q].id
                             /\ objs'[q].style = objs[q].style
                             /\ objs'[q].restart = objs[q].restart
                             /\ objs'[q].discard = objs[q].discard
                             /\ objs'[q] \in Objects
  BY <1>1, Answers DEF DbusInv
<1>3. PathsFit' /\ Registry' /\ RestartFits'
  <2>1. UNCHANGED <<alive, path, id, ownVars>>
    BY <1>1
  <2>2. \A b \in Apps : /\ path[b] = None => mail'[b] = <<>>
                        /\ Gone(b)' => Gone(b)
                        /\ state[b] = "REGISTERING" => state'[b] = "REGISTERING"
    BY <1>1 DEF DbusInv, TypeOK, PathsFit, Gone, Coming
  <2> QED
    BY <1>2, <2>1, <2>2, SameProperties
<1>4. /\ frames' \in [Apps -> Seq([in : Questions, on : Paths \cup {None}])]
      /\ cancelled' \in [Apps -> BOOLEAN]
      /\ state' \in [Apps -> States]
      /\ Detached'
  <2>1. frames' \in [Apps -> Seq([in : Questions, on : Paths \cup {None}])]
    <3> DEFINE F == [in : Questions, on : Paths \cup {None}]
    <3>1. frames \in [Apps -> Seq(F)]
      BY DEF DbusInv, TypeOK
    <3> HIDE DEF F
    <3>2. Tail(frames[a]) \in Seq(F)
      BY <1>1, <3>1
    <3>3. frames' \in [Apps -> Seq(F)]
      BY <1>1, <3>1, <3>2
    <3> QED
      BY <3>3 DEF F
  <2>2. cancelled' \in [Apps -> BOOLEAN]
    BY <1>1 DEF DbusInv, TypeOK
  <2>3. state' \in [Apps -> States]
    BY <1>1 DEF DbusInv, TypeOK, States
  <2>4. Detached'
    BY <1>1 DEF DbusInv, TypeOK, States, Detached
  <2> QED
    BY <2>1, <2>2, <2>3, <2>4
<1> QED
  BY <1>1, <1>2, <1>3, <1>4 DEF DbusInv, TypeOK, States, Objects, Exported, ownVars


-----------------------------------------------------------------------------
(* Connecting *)

\* What an application sends to its own object keeps the objects well formed.
LEMMA Sends ==
  ASSUME DbusInv, NEW a \in Apps, alive[a], NEW o \in Objects,
         path[a] \in Exported => o.app = objs[path[a]].app /\ o.id = objs[path[a]].id,
         objs' = IF path[a] \in Exported THEN [objs EXCEPT ![path[a]] = o] ELSE objs,
         path[a] \in Exported => /\ o.restart = id[a] /\ o.style = style'[a]
                                 /\ stateFile'[a] # None => o.discard = stateFile'[a],
         UNCHANGED <<alive, path, id, mail>>,
         \A b \in Apps \ {a} : /\ style'[b] = style[b] /\ stateFile'[b] = stateFile[b]
                               /\ state'[b] = state[b]
  PROVE  /\ PathsFit' /\ Registry' /\ RestartFits'
         /\ Exported' \subseteq Paths /\ \A p \in Exported' : objs'[p] \in Objects
<1>1. /\ Exported' = Exported
      /\ \A p \in Exported : p # path[a] => objs'[p] = objs[p]
      /\ path[a] \in Exported => objs'[path[a]] = o
  BY DEF Exported
<1>2. PathsFit' /\ Registry' /\ RestartFits'
  BY <1>1, PropertiesSent
<1>3. Exported' \subseteq Paths /\ \A p \in Exported' : objs'[p] \in Objects
  BY <1>1 DEF DbusInv, TypeOK, Objects
<1> QED
  BY <1>2, <1>3

\* set_initial_properties ().
LEMMA PropertiesTyped ==
  ASSUME DbusInv, NEW a \in Apps, path[a] \in Exported
  PROVE  /\ Properties(a, path[a]) \in Objects
         /\ Properties(a, path[a]).app = objs[path[a]].app
         /\ Properties(a, path[a]).id = objs[path[a]].id
         /\ Properties(a, path[a]).restart = id[a] /\ Properties(a, path[a]).style = style[a]
         /\ stateFile[a] # None => Properties(a, path[a]).discard = stateFile[a]
<1>1. objs[path[a]] \in Objects /\ style[a] \in Styles
      /\ id[a] \in Ids \cup {None} /\ stateFile[a] \in Ids \cup {None}
  BY DEF DbusInv, TypeOK, Objects
<1> QED
  BY <1>1 DEF Properties, Objects

LEMMA SendsInitialProperties ==
  ASSUME DbusInv, NEW a \in Apps, alive[a], SetInitialProperties(a),
         state' = [state EXCEPT ![a] = "IDLE"], path[a] # None,
         UNCHANGED <<alive, path, id, ownVars, mail>>
  PROVE  /\ PathsFit' /\ Registry' /\ RestartFits' /\ Detached'
         /\ Exported' \subseteq Paths /\ \A p \in Exported' : objs'[p] \in Objects
         /\ state' \in [Apps -> States]
<1>1. style' = style /\ stateFile' = stateFile
  BY DEF ownVars
<1>2. /\ \A b \in Apps \ {a} : style'[b] = style[b] /\ stateFile'[b] = stateFile[b] /\ state'[b] = state[b]
      /\ state' \in [Apps -> States]
      /\ Detached'
  BY <1>1 DEF DbusInv, TypeOK, States, Detached
<1>3. CASE path[a] \in Exported
  <2>1. objs' = IF path[a] \in Exported THEN [objs EXCEPT ![path[a]] = Properties(a, path[a])] ELSE objs
    BY DEF SetInitialProperties
  <2>2. /\ Properties(a, path[a]) \in Objects
        /\ Properties(a, path[a]).app = objs[path[a]].app
        /\ Properties(a, path[a]).id = objs[path[a]].id
        /\ Properties(a, path[a]).restart = id[a] /\ Properties(a, path[a]).style = style'[a]
        /\ stateFile'[a] # None => Properties(a, path[a]).discard = stateFile'[a]
    BY <1>1, <1>3, PropertiesTyped
  <2>3. UNCHANGED <<alive, path, id, mail>>
    OBVIOUS
  <2> QED
    BY <1>2, <2>1, <2>2, <2>3, Sends
<1>4. CASE path[a] \notin Exported
  <2>1. objs' = objs /\ Exported' = Exported
    BY <1>4 DEF SetInitialProperties, Exported
  <2>2. PathsFit' /\ Registry' /\ RestartFits'
    BY <1>1, <1>2, <1>4, <2>1, PropertiesSent
  <2> QED
    BY <1>2, <2>1, <2>2 DEF DbusInv, TypeOK, States, Objects
<1> QED
  BY <1>2, <1>3, <1>4

LEMMA Subscribes ==
  ASSUME DbusInv, NEW a \in Apps, Subscribe(a)
  PROVE  DbusInv'
<1>1. /\ alive[a] /\ state[a] = "REGISTERING" /\ SetInitialProperties(a)
      /\ state' = [state EXCEPT ![a] = "IDLE"]
      /\ UNCHANGED <<up, alive, path, id, ownVars, wanted, timer, saveVars, mail>>
  BY DEF Subscribe, Become
<1>2. CASE path[a] # None
  <2>1. UNCHANGED <<alive, path, id, ownVars, mail>>
    BY <1>1
  <2>2. /\ PathsFit' /\ Registry' /\ RestartFits' /\ Detached'
        /\ Exported' \subseteq Paths /\ \A p \in Exported' : objs'[p] \in Objects
        /\ state' \in [Apps -> States]
    BY <1>1, <1>2, <2>1, SendsInitialProperties
  <2> QED
    BY <1>1, <2>2 DEF DbusInv, TypeOK, States, Objects, ownVars, saveVars
<1>3. CASE path[a] = None
  <2>1. path[a] \notin Exported
    BY <1>3, DbusConstants DEF DbusInv, TypeOK
  <2>2. objs' = objs /\ Exported' = Exported
    BY <1>1, <2>1 DEF SetInitialProperties, Exported
  <2>3. /\ style' = style /\ stateFile' = stateFile
        /\ \A b \in Apps \ {a} : state'[b] = state[b]
        /\ state' \in [Apps -> States]
        /\ Detached'
    BY <1>1 DEF DbusInv, TypeOK, States, Detached, ownVars
  <2>4. PathsFit' /\ Registry' /\ RestartFits'
    BY <1>1, <2>1, <2>2, <2>3, PropertiesSent
  <2> QED
    BY <1>1, <2>2, <2>3, <2>4 DEF DbusInv, TypeOK, States, saveVars
<1> QED
  BY <1>2, <1>3

\* A registration that succeeds, from Connect, TryReconnect and Replaced.
LEMMA Starts ==
  ASSUME DbusInv, NEW a \in Apps, alive[a], path[a] \notin Exported,
         NEW previous \in Ids \cup {None}, NEW box \in [Apps -> Seq(Signals)],
         box[a] = <<>>, \A b \in Apps \ {a} : box[b] = mail[b],
         StartsToConnect(a, previous, box), UNCHANGED <<up, alive, ownVars>>
  PROVE  /\ PathsFit' /\ Registry' /\ RestartFits' /\ Detached'
         /\ Exported' \subseteq Paths /\ \A p \in Exported' : objs'[p] \in Objects
         /\ path' \in [Apps -> Paths \cup {None}] /\ id' \in [Apps -> Ids \cup {None}]
         /\ mail' \in [Apps -> Seq(Signals)]
         /\ state' \in [Apps -> States]
<1>1. RegisterClient2(a, previous, box) /\ state' = [state EXCEPT ![a] = "REGISTERING"]
  BY DEF StartsToConnect, Become
<1>2. /\ PathsFit' /\ Registry' /\ RestartFits'
      /\ Exported' \subseteq Paths /\ \A p \in Exported' : objs'[p] \in Objects
      /\ path' \in [Apps -> Paths \cup {None}] /\ id' \in [Apps -> Ids \cup {None}]
      /\ mail' \in [Apps -> Seq(Signals)]
  BY <1>1, RegisteredFits
<1>3. \A b \in Apps \ {a} : path'[b] = path[b]
  BY <1>1 DEF RegisterClient2, DbusInv, TypeOK
<1>4. Detached' /\ state' \in [Apps -> States]
  BY <1>1, <1>3 DEF DbusInv, TypeOK, States, Detached
<1> QED
  BY <1>2, <1>4


LEMMA Connects ==
  ASSUME DbusInv, NEW a \in Apps, Connect(a)
  PROVE  DbusInv'
<1>1. /\ alive[a] /\ wanted' \in [Apps -> BOOLEAN]
      /\ UNCHANGED <<up, alive, ownVars, timer, saveVars>>
  BY DEF Connect, Running, DbusInv, TypeOK
<1>2. CASE path[a] = None /\ StartsToConnect(a, id[a], mail)
  <2>1. path[a] \notin Exported /\ mail[a] = <<>> /\ mail \in [Apps -> Seq(Signals)]
        /\ id[a] \in Ids \cup {None}
    BY <1>2, DbusConstants DEF DbusInv, TypeOK, PathsFit, Signals
  <2>2. UNCHANGED <<up, alive, ownVars>> /\ StartsToConnect(a, id[a], mail)
    BY <1>1, <1>2
  <2>3. /\ PathsFit' /\ Registry' /\ RestartFits' /\ Detached'
        /\ Exported' \subseteq Paths /\ \A p \in Exported' : objs'[p] \in Objects
        /\ path' \in [Apps -> Paths \cup {None}] /\ id' \in [Apps -> Ids \cup {None}]
        /\ mail' \in [Apps -> Seq(Signals)]
        /\ state' \in [Apps -> States]
    BY <1>1, <2>1, <2>2, Starts
  <2> QED
    BY <1>1, <2>3 DEF DbusInv, TypeOK, States, Signals, Objects, ownVars, saveVars
<1>3. CASE path[a] = None /\ Become(a, "DISCONNECTED") /\ UNCHANGED <<objs, mail, path, id>>
  <2>1. path[a] \notin Exported
    BY <1>3, DbusConstants DEF DbusInv, TypeOK
  <2>2. /\ Exported' = Exported /\ style' = style /\ stateFile' = stateFile
        /\ \A b \in Apps \ {a} : state'[b] = state[b]
        /\ state' \in [Apps -> States]
        /\ Detached'
    BY <1>1, <1>3 DEF DbusInv, TypeOK, States, Detached, Become, Exported, ownVars
  <2>3. PathsFit' /\ Registry' /\ RestartFits'
    BY <1>1, <1>3, <2>1, <2>2, PropertiesSent
  <2> QED
    BY <1>1, <1>3, <2>2, <2>3 DEF DbusInv, TypeOK, States, saveVars
<1>4. CASE /\ path[a] # None /\ SetInitialProperties(a) /\ Become(a, "IDLE")
           /\ UNCHANGED <<mail, path, id>>
  <2>1. UNCHANGED <<alive, path, id, ownVars, mail>> /\ state' = [state EXCEPT ![a] = "IDLE"]
    BY <1>1, <1>4 DEF Become
  <2>2. /\ PathsFit' /\ Registry' /\ RestartFits' /\ Detached'
        /\ Exported' \subseteq Paths /\ \A p \in Exported' : objs'[p] \in Objects
        /\ state' \in [Apps -> States]
    BY <1>1, <1>4, <2>1, SendsInitialProperties
  <2> QED
    BY <1>1, <1>4, <2>2 DEF DbusInv, TypeOK, States, Objects, ownVars, saveVars
<1> QED
  BY <1>2, <1>3, <1>4 DEF Connect

LEMMA Reconnects ==
  ASSUME DbusInv, NEW a \in Apps, TryReconnect(a)
  PROVE  DbusInv'
<1>1. /\ alive[a] /\ wanted' \in [Apps -> BOOLEAN] /\ timer' \in [Apps -> BOOLEAN]
      /\ UNCHANGED <<up, alive, ownVars, saveVars>>
  BY DEF TryReconnect, Running, DbusInv, TypeOK
<1>2. CASE state[a] = "DISCONNECTED" /\ StartsToConnect(a, id[a], mail)
  <2>1. path[a] \notin Exported /\ mail[a] = <<>> /\ mail \in [Apps -> Seq(Signals)]
        /\ id[a] \in Ids \cup {None}
    BY <1>2, DbusConstants DEF DbusInv, TypeOK, PathsFit, Detached, Signals
  <2>2. UNCHANGED <<up, alive, ownVars>> /\ StartsToConnect(a, id[a], mail)
    BY <1>1, <1>2
  <2>3. /\ PathsFit' /\ Registry' /\ RestartFits' /\ Detached'
        /\ Exported' \subseteq Paths /\ \A p \in Exported' : objs'[p] \in Objects
        /\ path' \in [Apps -> Paths \cup {None}] /\ id' \in [Apps -> Ids \cup {None}]
        /\ mail' \in [Apps -> Seq(Signals)]
        /\ state' \in [Apps -> States]
    BY <1>1, <2>1, <2>2, Starts
  <2> QED
    BY <1>1, <2>3 DEF DbusInv, TypeOK, States, Signals, Objects, ownVars, saveVars
<1>3. CASE UNCHANGED <<objs, mail, path, id, state>>
  <2>1. Exported' = Exported /\ objs' = objs /\ UNCHANGED <<alive, path, id, ownVars>>
        /\ \A b \in Apps : /\ path[b] = None => mail'[b] = <<>>
                           /\ Gone(b)' => Gone(b)
                           /\ state[b] = "REGISTERING" => state'[b] = "REGISTERING"
    BY <1>1, <1>3 DEF Exported, DbusInv, PathsFit, Gone, Coming
  <2>2. PathsFit' /\ Registry' /\ RestartFits'
    BY <2>1, SameProperties
  <2> QED
    BY <1>1, <1>3, <2>1, <2>2 DEF DbusInv, TypeOK, States, Detached, ownVars, saveVars
<1> QED
  BY <1>2, <1>3 DEF TryReconnect

-----------------------------------------------------------------------------
(* Disconnecting *)

LEMMA FramesTornDown ==
  ASSUME TypeOK, NEW a \in Apps, TearDown(a)
  PROVE  frames' \in [Apps -> Seq([in : Questions, on : Paths \cup {None}])]
<1> DEFINE F == [in : Questions, on : Paths \cup {None}]
           torn(f) == [f EXCEPT !.on = None]
<1>1. \A f \in F : torn(f) \in F
  OBVIOUS
<1>2. frames \in [Apps -> Seq(F)]
  BY DEF TypeOK
<1>3. frames' = [frames EXCEPT ![a] = [i \in DOMAIN frames[a] |-> torn(frames[a][i])]]
  BY DEF TearDown
<1> HIDE DEF F, torn
<1>4. [i \in DOMAIN frames[a] |-> torn(frames[a][i])] \in Seq(F)
  <2>1. frames[a] \in Seq(F)
    BY <1>2
  <2>2. /\ Len(frames[a]) \in Nat /\ DOMAIN frames[a] = 1..Len(frames[a])
        /\ \A i \in 1..Len(frames[a]) : frames[a][i] \in F
    BY <2>1
  <2> QED
    BY <1>1, <2>2
<1>5. frames' \in [Apps -> Seq(F)]
  BY <1>2, <1>3, <1>4
<1> QED
  BY <1>5 DEF F

LEMMA GivesUp ==
  ASSUME DbusInv, NEW a \in Apps, alive[a], TearDown(a),
         objs' = Without({path[a]}) \/ (objs' = objs /\ path[a] \notin Exported),
         path' = [path EXCEPT ![a] = None], mail' = [mail EXCEPT ![a] = <<>>],
         state' = [state EXCEPT ![a] = "DISCONNECTED"], UNCHANGED <<up, alive, stateFile, cancelled>>,
         wanted' \in [Apps -> BOOLEAN], timer' \in [Apps -> BOOLEAN],
         style' \in [Apps -> Styles], \A b \in Apps \ {a} : style'[b] = style[b],
         id' \in [Apps -> Ids \cup {None}], \A b \in Apps \ {a} : id'[b] = id[b]
  PROVE  DbusInv'
<1>1. PathsFit' /\ Registry' /\ RestartFits'
  <2>1. \A b \in Apps \ {a} : /\ style'[b] = style[b] /\ stateFile'[b] = stateFile[b]
                              /\ state'[b] = state[b] /\ alive'[b] = alive[b] /\ id'[b] = id[b]
    BY DEF DbusInv, TypeOK
  <2> QED
    BY <2>1, PathGivenUp
<1>2. frames' \in [Apps -> Seq([in : Questions, on : Paths \cup {None}])]
  BY FramesTornDown DEF DbusInv
<1>3. Exported' \subseteq Paths /\ \A p \in Exported' : objs'[p] \in Objects
  BY DEF DbusInv, TypeOK, Objects, Without, Exported
<1>4. /\ path' \in [Apps -> Paths \cup {None}] /\ mail' \in [Apps -> Seq(Signals)]
      /\ state' \in [Apps -> States]
      /\ Detached'
  BY DEF DbusInv, TypeOK, States, Detached, Signals
<1> QED
  BY <1>1, <1>2, <1>3, <1>4 DEF DbusInv, TypeOK, States, Objects, Signals

LEMMA Disconnects ==
  ASSUME DbusInv, NEW a \in Apps, Disconnect(a) \/ Discard(a)
  PROVE  DbusInv'
<1>1. /\ alive[a] /\ TearDown(a) /\ objs' = Without({path[a]})
      /\ path' = [path EXCEPT ![a] = None] /\ mail' = [mail EXCEPT ![a] = <<>>]
      /\ state' = [state EXCEPT ![a] = "DISCONNECTED"]
      /\ timer' = [timer EXCEPT ![a] = FALSE] /\ wanted' = [wanted EXCEPT ![a] = FALSE]
      /\ style' = style \/ style' = [style EXCEPT ![a] = "normal"]
      /\ UNCHANGED <<up, alive, id, stateFile, cancelled>>
  BY DEF Disconnect, Discard, Leaves, Running, Unregister, Become, ownVars
<1>2. /\ timer' \in [Apps -> BOOLEAN] /\ wanted' \in [Apps -> BOOLEAN]
      /\ style' \in [Apps -> Styles] /\ \A b \in Apps \ {a} : style'[b] = style[b]
      /\ id' \in [Apps -> Ids \cup {None}] /\ \A b \in Apps \ {a} : id'[b] = id[b]
  <2>1. timer' \in [Apps -> BOOLEAN] /\ wanted' \in [Apps -> BOOLEAN]
    <3>1. timer \in [Apps -> BOOLEAN] /\ wanted \in [Apps -> BOOLEAN]
      BY DEF DbusInv, TypeOK
    <3> QED
      BY <1>1, <3>1
  <2>2. style' \in [Apps -> Styles] /\ \A b \in Apps \ {a} : style'[b] = style[b]
    <3>1. style \in [Apps -> Styles] /\ "normal" \in Styles
      BY DbusConstants DEF DbusInv, TypeOK
    <3>2. CASE style' = style
      BY <3>1, <3>2
    <3>3. CASE style' = [style EXCEPT ![a] = "normal"]
      BY <3>1, <3>3
    <3> QED
      BY <1>1, <3>2, <3>3
  <2>3. id' \in [Apps -> Ids \cup {None}] /\ \A b \in Apps \ {a} : id'[b] = id[b]
    BY <1>1 DEF DbusInv, TypeOK
  <2> QED
    BY <2>1, <2>2, <2>3
<1>3. UNCHANGED <<up, alive, stateFile, cancelled>>
  BY <1>1
<1> QED
  BY <1>1, <1>2, <1>3, GivesUp

LEMMA LosesName ==
  ASSUME DbusInv, NEW a \in Apps, NameLost(a)
  PROVE  DbusInv'
<1>1. /\ alive[a] /\ TearDown(a) /\ objs' = objs
      /\ path' = [path EXCEPT ![a] = None] /\ mail' = [mail EXCEPT ![a] = <<>>]
      /\ state' = [state EXCEPT ![a] = "DISCONNECTED"] /\ StartAutoReconnect(a)
      /\ mail[a] # <<>> /\ Head(mail[a]) = "NameLost"
      /\ UNCHANGED <<up, alive, id, ownVars, wanted, cancelled>>
  BY DEF NameLost, Receives, Running, Become
<1>2. path[a] \notin Exported
  <2>1. Gone(a)
    BY <1>1 DEF Gone, Coming, DbusInv, TypeOK
  <2> QED
    BY <2>1 DEF DbusInv, PathsFit
<1>3. /\ timer' \in [Apps -> BOOLEAN] /\ wanted' \in [Apps -> BOOLEAN]
      /\ style' \in [Apps -> Styles] /\ \A b \in Apps \ {a} : style'[b] = style[b]
      /\ id' \in [Apps -> Ids \cup {None}] /\ \A b \in Apps \ {a} : id'[b] = id[b]
  BY <1>1 DEF DbusInv, TypeOK, ownVars, StartAutoReconnect
<1>4. UNCHANGED <<up, alive, stateFile, cancelled>>
  BY <1>1 DEF ownVars
<1> QED
  BY <1>1, <1>2, <1>3, <1>4, GivesUp

LEMMA IsReplaced ==
  ASSUME DbusInv, NEW a \in Apps, NEW stays \in BOOLEAN, Replaced(a, stays)
  PROVE  DbusInv'
<1>1. /\ alive[a] /\ TearDown(a) /\ mail[a] # <<>> /\ Head(mail[a]) = "Replaced"
      /\ wanted' = [wanted EXCEPT ![a] = stays]
      /\ UNCHANGED <<up, alive, ownVars, cancelled>>
  BY DEF Replaced, Receives, Running
<1>2. path[a] \notin Exported
  <2>1. Gone(a)
    BY <1>1 DEF Gone, Coming, DbusInv, TypeOK
  <2> QED
    BY <2>1 DEF DbusInv, PathsFit
<1>3. wanted' \in [Apps -> BOOLEAN]
      /\ frames' \in [Apps -> Seq([in : Questions, on : Paths \cup {None}])]
  BY <1>1, FramesTornDown DEF DbusInv, TypeOK
<1>4. CASE /\ StartsToConnect(a, None, [mail EXCEPT ![a] = <<>>])
           /\ timer' = [timer EXCEPT ![a] = FALSE]
  <2> DEFINE box == [mail EXCEPT ![a] = <<>>]
  <2>1. /\ box \in [Apps -> Seq(Signals)] /\ box[a] = <<>> /\ \A b \in Apps \ {a} : box[b] = mail[b]
        /\ None \in Ids \cup {None}
    BY DEF DbusInv, TypeOK, Signals
  <2>2. StartsToConnect(a, None, box)
    BY <1>4
  <2> HIDE DEF box
  <2>3. UNCHANGED <<up, alive, ownVars>>
    BY <1>1
  <2>4. /\ PathsFit' /\ Registry' /\ RestartFits' /\ Detached'
        /\ Exported' \subseteq Paths /\ \A p \in Exported' : objs'[p] \in Objects
        /\ path' \in [Apps -> Paths \cup {None}] /\ id' \in [Apps -> Ids \cup {None}]
        /\ mail' \in [Apps -> Seq(Signals)]
        /\ state' \in [Apps -> States]
    BY <1>1, <1>2, <2>1, <2>2, <2>3, Starts
  <2>5. timer' \in [Apps -> BOOLEAN]
    BY <1>4 DEF DbusInv, TypeOK
  <2> QED
    BY <1>1, <1>3, <2>4, <2>5 DEF DbusInv, TypeOK, States, Signals, Objects, ownVars
<1>5. CASE /\ timer' = [timer EXCEPT ![a] = stays /\ a \in Reconnecting]
           /\ path' = [path EXCEPT ![a] = None]
           /\ id' = [id EXCEPT ![a] = IF stays THEN None ELSE @]
           /\ mail' = [mail EXCEPT ![a] = <<>>]
           /\ Become(a, "DISCONNECTED") /\ Unregister(a)
  <2>1. /\ objs' = Without({path[a]}) /\ state' = [state EXCEPT ![a] = "DISCONNECTED"]
        /\ style' \in [Apps -> Styles] /\ \A b \in Apps \ {a} : style'[b] = style[b]
        /\ id' \in [Apps -> Ids \cup {None}] /\ \A b \in Apps \ {a} : id'[b] = id[b]
    BY <1>1, <1>5 DEF DbusInv, TypeOK, ownVars, Unregister, Become
  <2>2. timer' \in [Apps -> BOOLEAN]
    BY <1>5 DEF DbusInv, TypeOK
  <2>3. UNCHANGED <<up, alive, stateFile, cancelled>>
    BY <1>1 DEF ownVars
  <2> QED
    BY <1>1, <1>3, <1>5, <2>1, <2>2, <2>3, GivesUp
<1> QED
  BY <1>4, <1>5 DEF Replaced


-----------------------------------------------------------------------------
(* The application *)

LEMMA SetsStyle ==
  ASSUME DbusInv, NEW a \in Apps, NEW s \in Styles, SetRestartStyle(a, s)
  PROVE  DbusInv'
<1>1. /\ alive[a] /\ style' = [style EXCEPT ![a] = s] /\ SendProperty(a, "style", s)
      /\ UNCHANGED <<up, alive, state, path, id, stateFile, wanted, timer, saveVars, mail>>
  BY DEF SetRestartStyle, Running
<1>2. style' \in [Apps -> Styles] /\ style'[a] = s /\ \A b \in Apps \ {a} : style'[b] = style[b]
  BY <1>1 DEF DbusInv, TypeOK
<1> DEFINE o == IF path[a] \in Exported THEN [objs[path[a]] EXCEPT !.style = s] ELSE objs[path[a]]
<1>3. CASE path[a] \in Exported
  <2>1. /\ o \in Objects /\ o.app = objs[path[a]].app /\ o.id = objs[path[a]].id
        /\ o.restart = objs[path[a]].restart /\ o.discard = objs[path[a]].discard /\ o.style = s
    BY <1>3 DEF DbusInv, TypeOK, Objects
  <2>2. objs' = IF path[a] \in Exported THEN [objs EXCEPT ![path[a]] = o] ELSE objs
    BY <1>1, <1>3 DEF SendProperty
  <2> HIDE DEF o
  <2>3. CASE Subscribed(a)
    <3>1. o.restart = id[a] /\ (stateFile'[a] # None => o.discard = stateFile'[a])
      BY <1>1, <1>3, <2>1, <2>3 DEF DbusInv, RestartFits
    <3>2. /\ PathsFit' /\ Registry' /\ RestartFits'
          /\ Exported' \subseteq Paths /\ \A p \in Exported' : objs'[p] \in Objects
      BY <1>1, <1>2, <2>1, <2>2, <3>1, Sends
    <3> QED
      BY <1>1, <1>2, <3>2 DEF DbusInv, TypeOK, States, Detached, Objects, saveVars
  <2>4. CASE ~Subscribed(a)
    BY <1>1, <1>3, <2>4, DbusConstants DEF DbusInv, TypeOK, Subscribed, SetRestartStyle, Running
  <2> QED
    BY <2>3, <2>4
<1>4. CASE path[a] \notin Exported
  <2>1. objs' = objs /\ Exported' = Exported
    BY <1>1, <1>4 DEF SendProperty, Exported
  <2>2. PathsFit' /\ Registry' /\ RestartFits'
    BY <1>1, <1>2, <1>4, <2>1, PropertiesSent
  <2> QED
    BY <1>1, <1>2, <2>1, <2>2 DEF DbusInv, TypeOK, States, Detached, saveVars
<1> QED
  BY <1>3, <1>4

LEMMA GetsStateFile ==
  ASSUME DbusInv, NEW a \in Apps, GetStateFile(a)
  PROVE  DbusInv'
<1>1. /\ alive[a] /\ state[a] # "REGISTERING" /\ id[a] # None
      /\ stateFile' = [stateFile EXCEPT ![a] = id[a]] /\ SyncCommands(a, id[a])
      /\ UNCHANGED <<up, alive, state, path, id, style, wanted, timer, saveVars, mail>>
  BY DEF GetStateFile, Running
<1>2. /\ stateFile' \in [Apps -> Ids \cup {None}] /\ stateFile'[a] = id[a] /\ id[a] \in Ids \cup {None}
      /\ \A b \in Apps \ {a} : stateFile'[b] = stateFile[b]
  BY <1>1 DEF DbusInv, TypeOK
<1>3. CASE path[a] \in Exported
  <2> DEFINE o == [objs[path[a]] EXCEPT !.discard = id[a], !.restart = id[a]]
  <2>1. /\ o \in Objects /\ o.app = objs[path[a]].app /\ o.id = objs[path[a]].id
        /\ o.restart = id[a] /\ o.discard = id[a] /\ o.style = objs[path[a]].style
    BY <1>2, <1>3, ZenonT(60) DEF DbusInv, TypeOK, Objects
  <2>2. objs' = IF path[a] \in Exported THEN [objs EXCEPT ![path[a]] = o] ELSE objs
    BY <1>1, <1>3, ZenonT(60) DEF SyncCommands, DbusInv, TypeOK
  <2> HIDE DEF o
  <2>3. Subscribed(a) /\ o.style = style'[a] /\ (stateFile'[a] # None => o.discard = stateFile'[a])
    <3>1. Subscribed(a)
      BY <1>1, <1>3, DbusConstants DEF DbusInv, TypeOK, Subscribed
    <3> QED
      BY <1>1, <1>2, <1>3, <2>1, <3>1 DEF DbusInv, RestartFits
  <2>4. /\ PathsFit' /\ Registry' /\ RestartFits'
        /\ Exported' \subseteq Paths /\ \A p \in Exported' : objs'[p] \in Objects
    BY <1>1, <1>2, <2>1, <2>2, <2>3, Sends
  <2> QED
    BY <1>1, <1>2, <2>4 DEF DbusInv, TypeOK, States, Detached, Objects, saveVars
<1>4. CASE path[a] \notin Exported
  <2>1. objs' = objs /\ Exported' = Exported
    BY <1>1, <1>4 DEF SyncCommands, Exported
  <2>2. PathsFit' /\ Registry' /\ RestartFits'
    BY <1>1, <1>2, <1>4, <2>1, PropertiesSent
  <2> QED
    BY <1>1, <1>2, <2>1, <2>2 DEF DbusInv, TypeOK, States, Detached, saveVars
<1> QED
  BY <1>3, <1>4

LEMMA Forgotten ==
  ASSUME DbusInv, NEW a \in Apps, Dies(a)
  PROVE  DbusInv'
<1>1. /\ objs' = objs /\ up' = up /\ Exported' = Exported
      /\ alive' = [alive EXCEPT ![a] = FALSE] /\ mail' = [mail EXCEPT ![a] = <<>>]
      /\ id' = [id EXCEPT ![a] = None] /\ path' = [path EXCEPT ![a] = None]
      /\ state' = [state EXCEPT ![a] = "DISCONNECTED"]
      /\ style' = [style EXCEPT ![a] = "normal"] /\ stateFile' = [stateFile EXCEPT ![a] = None]
      /\ wanted' = [wanted EXCEPT ![a] = FALSE] /\ timer' = [timer EXCEPT ![a] = FALSE]
      /\ frames' = [frames EXCEPT ![a] = <<>>] /\ cancelled' = [cancelled EXCEPT ![a] = FALSE]
  BY DEF Dies, Forgets, Exported
<1>2. PathsFit' /\ Registry' /\ RestartFits'
  <2>1. alive'[a] = FALSE
    BY <1>1 DEF DbusInv, TypeOK
  <2>2. \A b \in Apps \ {a} : /\ style'[b] = style[b] /\ stateFile'[b] = stateFile[b]
                              /\ state'[b] = state[b] /\ alive'[b] = alive[b] /\ id'[b] = id[b]
    BY <1>1 DEF DbusInv, TypeOK
  <2> QED
    BY <1>1, <2>1, <2>2, PathGivenUp
<1>3. TypeOK'
  <2>1. up' \in BOOLEAN /\ Exported' \subseteq Paths /\ \A p \in Exported' : objs'[p] \in Objects
    BY <1>1 DEF DbusInv, TypeOK, Objects
  <2>2. /\ alive' \in [Apps -> BOOLEAN] /\ wanted' \in [Apps -> BOOLEAN]
        /\ timer' \in [Apps -> BOOLEAN] /\ cancelled' \in [Apps -> BOOLEAN]
    <3>1. /\ alive \in [Apps -> BOOLEAN] /\ wanted \in [Apps -> BOOLEAN]
          /\ timer \in [Apps -> BOOLEAN] /\ cancelled \in [Apps -> BOOLEAN]
      BY DEF DbusInv, TypeOK
    <3> QED
      BY <1>1, <3>1
  <2>3. /\ path' \in [Apps -> Paths \cup {None}] /\ id' \in [Apps -> Ids \cup {None}]
        /\ stateFile' \in [Apps -> Ids \cup {None}] /\ style' \in [Apps -> Styles]
        /\ state' \in [Apps -> States]
    BY <1>1, DbusConstants DEF DbusInv, TypeOK, States
  <2>4. mail' \in [Apps -> Seq(Signals)]
    BY <1>1 DEF DbusInv, TypeOK, Signals
  <2>5. frames' \in [Apps -> Seq([in : Questions, on : Paths \cup {None}])]
    <3> DEFINE F == [in : Questions, on : Paths \cup {None}]
    <3>1. frames \in [Apps -> Seq(F)]
      BY DEF DbusInv, TypeOK
    <3> HIDE DEF F
    <3>2. frames' \in [Apps -> Seq(F)]
      BY <1>1, <3>1
    <3> QED
      BY <3>2 DEF F
  <2> QED
    BY <2>1, <2>2, <2>3, <2>4, <2>5 DEF TypeOK, States, Objects, Signals
<1>4. Detached'
  BY <1>1 DEF DbusInv, TypeOK, States, Detached
<1> QED
  BY <1>2, <1>3, <1>4 DEF DbusInv

LEMMA IsLaunched ==
  ASSUME DbusInv, NEW a \in Apps, NEW startId \in Given \cup {None}, Launch(a, startId)
  PROVE  DbusInv'
<1>1. PathsFit' /\ Registry' /\ RestartFits'
  BY LaunchedFits
<1>2. TypeOK' /\ Detached'
  BY DEF DbusInv, TypeOK, States, Detached, Launch, Ids, Exported, ownVars, saveVars
<1> QED
  BY <1>1, <1>2 DEF DbusInv

-----------------------------------------------------------------------------
(* The whole *)

LEMMA DbusStep ==
  ASSUME DbusInv, [DbusNext]_dbusVars
  PROVE  DbusInv'
<1>1. ASSUME NEW a \in Apps, Calls(a) PROVE DbusInv'
  BY <1>1, Connects, Disconnects, GetsStateFile, Forgotten, SetsStyle, IsLaunched DEF Calls
<1>2. ASSUME NEW a \in Apps, Delivers(a) PROVE DbusInv'
  BY <1>2, Queried, TakenBack, LosesName, SavesState, IsReplaced DEF Delivers
<1>3. ASSUME NEW p \in Paths, Manages(p) PROVE DbusInv'
  BY <1>3, Asks, Cancels, Drops DEF Manages
<1>4. CASE UNCHANGED dbusVars
  <2>1. up' \in BOOLEAN
    BY <1>4 DEF dbusVars, DbusInv, TypeOK
  <2>2. UNCHANGED <<objs, alive, state, path, id, ownVars, wanted, timer, saveVars, mail>>
    BY <1>4 DEF dbusVars
  <2> QED
    BY <2>1, <2>2, OnlyTheName
<1>5. ASSUME NEW a \in Apps, HandlerReturns(a) \/ Subscribe(a) \/ TryReconnect(a)
                             \/ RemoveClientsForConnection(a)
      PROVE  DbusInv'
  BY <1>5, Returns, Subscribes, Reconnects, RemovesClients
<1> QED
  BY <1>1, <1>2, <1>3, <1>4, <1>5, Vanishes, Appears DEF DbusNext

\* The inductive invariant: at any time an application holds a path alone, and what is
\* exported under it is its own, unless a signal that says otherwise is on its way.
THEOREM DbusInvariance == DbusSpec => []DbusInv
<1>1. DbusInit => DbusInv
  BY DbusConstants DEF DbusInit, DbusInv, TypeOK, PathsFit, Registry, RestartFits, Detached, Gone,
     Coming, Exported, Subscribed
<1>2. DbusInv /\ [DbusNext]_dbusVars => DbusInv'
  BY DbusStep
<1> QED
  BY <1>1, <1>2, PTL DEF DbusSpec

\* Every variable keeps its type.
THEOREM DbusTypeCorrect == DbusSpec => []TypeOK
<1>1. DbusInv => TypeOK
  BY DEF DbusInv
<1> QED
  BY <1>1, DbusInvariance, PTL

\* No two clients of the registry have one id, and the application of every client,
\* if it lives, is the one that holds it (xfsm_manager_dbus_register_client2 ()).
THEOREM RegistryIsRight == DbusSpec => []Registry
<1>1. DbusInv => Registry
  BY DEF DbusInv
<1> QED
  BY <1>1, DbusInvariance, PTL

\* What the session manager would restart and discard for an application is what the
\* application last set (set_initial_properties (), sync_commands ()).
THEOREM RestartIsRight == DbusSpec => []RestartFits
<1>1. DbusInv => RestartFits
  BY DEF DbusInv
<1> QED
  BY <1>1, DbusInvariance, PTL
=============================================================================
