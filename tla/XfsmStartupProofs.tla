-------------------------- MODULE XfsmStartupProofs --------------------------
(***************************************************************************)
(* Proofs about XfsmStartup, for any finite set of properties, whatever    *)
(* their priorities and whichever of them cannot be spawned.               *)
(*                                                                         *)
(* The invariant StartupInv is inductive.  It adds to the properties that  *)
(* the runs check what they rest on: nothing is starting, and nobody is    *)
(* registered, before startup begins; a client that was never heard of has *)
(* no restart attempts behind it; and in failsafe mode the count of the    *)
(* clients that are waited for reaches zero only with the end of a group.  *)
(***************************************************************************)
EXTENDS XfsmStartup, FiniteSetTheorems, TLAPS

\* The queues, the timers and the attempts of the clients fit together.
ClientsFit ==
  /\ TypeOK
  /\ OneOwner
  /\ TimersFollowQueue
  /\ AttemptsFollowClient
  /\ \A p \in Unknown : attempts[p] = 0

\* Where startup is, and whom it waits for.
StartupFits ==
  /\ ~begun => starting = {} /\ running = {}
  /\ mstate = "STARTUP" /\ begun =>
       starting # {} /\ (failsafe => failsafePending >= 1)

StartupInv == ClientsFit /\ StartupFits

-----------------------------------------------------------------------------
(* What the handlers share *)

\* The groups that startup goes through contain every client it has spawned, and
\* their number is counted.
LEMMA GroupsAreCounted ==
  ASSUME PropertiesAssumption, NEW pend \in SUBSET Properties, NEW T \in SUBSET pend
  PROVE  /\ GroupsUpTo(T, pend) \subseteq pend
         /\ Cardinality(GroupsUpTo(T, pend)) \in Nat
         /\ GroupsUpTo(T, pend) # {} => Cardinality(GroupsUpTo(T, pend)) >= 1
<1> DEFINE G == GroupsUpTo(T, pend)
<1>1. G \subseteq pend /\ G \subseteq Properties
  BY DEF GroupsUpTo
<1>2. IsFiniteSet(G)
  BY <1>1, FS_Subset DEF PropertiesAssumption
<1>3. Cardinality(G) \in Nat
  BY <1>2, FS_CardinalityType
<1>4. G # {} => Cardinality(G) # 0
  BY <1>2, FS_EmptySet
<1> QED
  BY <1>1, <1>3, <1>4

\* xfsm_startup_session_continue () keeps the invariant, if its caller has let the
\* clients reg register and accounts for all that were starting: they are reg
\* themselves, the failed ones, dead, and those to be freed, gone.
LEMMA ContinueKeeps ==
  ASSUME PropertiesAssumption, StartupInv,
         NEW reg \in SUBSET (pending \cup starting \cup Unknown),
         NEW dead \in SUBSET starting, NEW gone \in SUBSET starting,
         dead \cap gone = {}, dead \cap reg = {}, gone \cap reg = {},
         starting \subseteq reg \cup dead \cup gone,
         NEW n \in Nat,
         SessionContinue(pending \ reg, dead, gone, n),
         running' = running \cup reg,
         resetTimer' = resetTimer \cup {p \in reg : attempts[p] > 0},
         begun', failsafe' = failsafe, hint' = hint
  PROVE  StartupInv'
<1>1. PICK T1 \in SUBSET (pending \ reg), T2 \in SUBSET (pending \ reg) :
        LET tried   == GroupsUpTo(T1, pending \ reg)
            started == tried \cap T1
            failed  == tried \ T1
        IN /\ Spawned(T1, pending \ reg)
           /\ Spawned(T2, Retried(failed))
           /\ pending' = (pending \ reg) \ tried
           /\ starting' = started \cup T2
           /\ startTimer' = Rearmed(startTimer, starting, started \cup T2)
           /\ watch' = Rearmed(watch, starting, started \cup T2)
           /\ restart' = restart \cup Kept(dead \cup failed, T2)
           /\ freed' = freed \cup gone \cup Dropped(dead \cup failed)
           /\ attempts' = Counted(dead \cup failed)
           /\ failsafePending' = IF failsafe THEN n + Cardinality(tried) ELSE n
           /\ mstate' = IF started = {} THEN "IDLE" ELSE "STARTUP"
  BY DEF SessionContinue
<1> DEFINE tried == GroupsUpTo(T1, pending \ reg)
           started == tried \cap T1
           failed == tried \ T1
<1>2. pending \ reg \in SUBSET Properties
  BY DEF StartupInv, ClientsFit, TypeOK
<1>3. /\ tried \subseteq pending \ reg
      /\ Cardinality(tried) \in Nat
      /\ tried # {} => Cardinality(tried) >= 1
  BY <1>2, GroupsAreCounted
<1>4. T2 \subseteq Retried(failed)
  BY <1>1 DEF Spawned
<1> HIDE DEF tried
<1>5. /\ pending' = (pending \ reg) \ tried
      /\ starting' = started \cup T2
      /\ startTimer' = Rearmed(startTimer, starting, started \cup T2)
      /\ watch' = Rearmed(watch, starting, started \cup T2)
      /\ restart' = restart \cup Kept(dead \cup failed, T2)
      /\ freed' = freed \cup gone \cup Dropped(dead \cup failed)
      /\ attempts' = Counted(dead \cup failed)
      /\ failsafePending' = IF failsafe THEN n + Cardinality(tried) ELSE n
      /\ mstate' = IF started = {} THEN "IDLE" ELSE "STARTUP"
  BY <1>1 DEF tried
<1>6. T2 \subseteq failed /\ \A p \in T2 : hint[p] = "Immediately" /\ attempts[p] < MAX_RESTART_ATTEMPTS
  BY <1>4 DEF Retried, Eager
<1>7. TypeOK'
  <2>1. dead \cup failed \subseteq Properties
    BY <1>2, <1>3 DEF StartupInv, ClientsFit, TypeOK
  <2>2. pending' \cup starting' \cup running' \cup restart' \cup freed' \subseteq Properties
    BY <1>3, <1>5, <1>6, <2>1 DEF StartupInv, ClientsFit, TypeOK, Kept, Dropped, Unknown
  <2>3. attempts' \in [Properties -> 0 .. MAX_RESTART_ATTEMPTS + 1]
    <3>1. \A p \in dead \cup failed : attempts[p] <= MAX_RESTART_ATTEMPTS
      BY <1>3, <2>1 DEF StartupInv, ClientsFit, TypeOK, OneOwner, AttemptsFollowClient, PropertiesAssumption
    <3> QED
      BY <1>5, <2>1, <3>1 DEF StartupInv, ClientsFit, TypeOK, Counted, Eager, PropertiesAssumption
  <2>4. failsafePending' \in Nat /\ mstate' \in ManagerStates
    BY <1>3, <1>5 DEF ManagerStates
  <2> QED
    BY <2>2, <2>3, <2>4 DEF StartupInv, ClientsFit, TypeOK
<1>8. OneOwner'
  BY <1>3, <1>5, <1>6 DEF StartupInv, ClientsFit, TypeOK, OneOwner, Kept, Dropped, Unknown
<1>9. TimersFollowQueue'
  BY <1>5 DEF StartupInv, ClientsFit, TimersFollowQueue, Rearmed
<1>10. \A p \in Properties : attempts'[p] # attempts[p] => p \in dead \cup failed
  BY <1>5 DEF Counted, Eager
<1>11. AttemptsFollowClient'
  <2>1. \A p \in running' : attempts'[p] = attempts[p]
    BY <1>3, <1>10 DEF StartupInv, ClientsFit, TypeOK, OneOwner, Unknown
  <2>2. resetTimer' = {p \in running' : attempts'[p] > 0}
    BY <2>1 DEF StartupInv, ClientsFit, AttemptsFollowClient
  <2>3. ASSUME NEW p \in Properties, attempts'[p] > MAX_RESTART_ATTEMPTS
        PROVE  p \in restart' \cup freed'
    <3>1. CASE p \in Eager(dead \cup failed)
      <4>1. attempts'[p] = attempts[p] + 1
        BY <1>5, <3>1 DEF Counted
      <4>2. p \notin T2
        BY <1>6, <2>3, <4>1 DEF StartupInv, ClientsFit, TypeOK, PropertiesAssumption
      <4> QED
        BY <1>5, <3>1, <4>2 DEF Eager, Kept
    <3>2. CASE p \notin Eager(dead \cup failed)
      BY <1>5, <2>3, <3>2 DEF Counted, StartupInv, ClientsFit, AttemptsFollowClient
    <3> QED
      BY <3>1, <3>2
  <2> QED
    BY <2>2, <2>3 DEF AttemptsFollowClient
<1>12. \A p \in Unknown' : attempts'[p] = 0
  <2>1. Unknown' \subseteq Unknown \ (dead \cup failed)
    BY <1>3, <1>5 DEF StartupInv, ClientsFit, TypeOK, Kept, Dropped, Unknown
  <2> QED
    BY <1>10, <2>1 DEF StartupInv, ClientsFit, Unknown
<1>13. StartupFits'
  BY <1>3, <1>5 DEF StartupFits
<1> QED
  BY <1>7, <1>8, <1>9, <1>11, <1>12, <1>13 DEF StartupInv, ClientsFit

\* xfsm_manager_handle_failed_properties () keeps the invariant, whether the client
\* was starting or running, as long as it was not the last one waited for.
LEMMA FailKeeps ==
  ASSUME PropertiesAssumption, StartupInv,
         NEW p \in starting \cup running, NEW again \in SUBSET {p},
         Fail(p, again),
         mstate = "STARTUP" => starting \ {p} # {} \/ again # {},
         running' = running \ {p}, resetTimer' = resetTimer \ {p},
         UNCHANGED <<begun, failsafe, hint>>
  PROVE  StartupInv'
<1>1. /\ p \in Properties /\ begun
      /\ attempts[p] \in 0 .. MAX_RESTART_ATTEMPTS
      /\ p \notin pending \cup restart \cup freed
  BY DEF StartupInv, ClientsFit, StartupFits, TypeOK, OneOwner, AttemptsFollowClient, PropertiesAssumption
<1>2. again \subseteq Retried({p})
  BY DEF Fail, Spawned
<1>3. p \in again => hint[p] = "Immediately" /\ attempts[p] < MAX_RESTART_ATTEMPTS
  BY <1>2 DEF Retried, Eager
<1>4. \A q \in Properties : q # p => attempts'[q] = attempts[q]
  BY DEF Fail, Counted, Eager
<1>5. TypeOK'
  <2>1. attempts' \in [Properties -> 0 .. MAX_RESTART_ATTEMPTS + 1]
    BY <1>1 DEF Fail, StartupInv, ClientsFit, TypeOK, Counted, Eager, PropertiesAssumption
  <2>2. pending' \cup starting' \cup running' \cup restart' \cup freed' \subseteq Properties
    BY <1>1 DEF Fail, StartupInv, ClientsFit, TypeOK, Kept, Dropped
  <2> QED
    BY <2>1, <2>2 DEF Fail, StartupInv, ClientsFit, TypeOK
<1>6. OneOwner'
  BY <1>1, <1>3 DEF Fail, StartupInv, ClientsFit, OneOwner, Kept, Dropped
<1>7. TimersFollowQueue'
  BY DEF Fail, StartupInv, ClientsFit, TimersFollowQueue, Rearmed
<1>8. AttemptsFollowClient'
  <2>1. \A q \in running' : attempts'[q] = attempts[q]
    BY <1>4 DEF StartupInv, ClientsFit, TypeOK
  <2>2. resetTimer' = {q \in running' : attempts'[q] > 0}
    BY <2>1 DEF StartupInv, ClientsFit, AttemptsFollowClient
  <2>3. attempts'[p] > MAX_RESTART_ATTEMPTS => p \in restart' \cup freed'
    BY <1>1, <1>3 DEF Fail, Counted, Eager, Kept, PropertiesAssumption
  <2>4. restart \subseteq restart' /\ freed \subseteq freed'
    BY DEF Fail
  <2> QED
    BY <1>4, <2>2, <2>3, <2>4 DEF StartupInv, ClientsFit, AttemptsFollowClient
<1>9. \A q \in Unknown' : attempts'[q] = 0
  <2>1. p \notin Unknown'
    BY <1>1 DEF Fail, Kept, Dropped, Unknown
  <2>2. Unknown' \subseteq Unknown
    BY <1>1, <2>1 DEF Fail, Unknown
  <2> QED
    BY <1>4, <2>1, <2>2 DEF StartupInv, ClientsFit, Unknown
<1>10. StartupFits'
  BY <1>1 DEF Fail, StartupInv, StartupFits
<1> QED
  BY <1>5, <1>6, <1>7, <1>8, <1>9, <1>10 DEF StartupInv, ClientsFit

\* The end of xfsm_manager_register_client () keeps the invariant: the count of the
\* failsafe clients reaches zero only when it clears the starting queue.
LEMMA RegisteredKeeps ==
  ASSUME PropertiesAssumption, StartupInv, begun,
         NEW p \in starting \cup pending \cup Unknown, NEW known \in BOOLEAN,
         known \/ p \in Unknown,
         Registered(p, known),
         running' = running \cup {p},
         resetTimer' = resetTimer \cup {q \in {p} : attempts[q] > 0},
         UNCHANGED <<begun, failsafe, hint>>
  PROVE  StartupInv'
<1> DEFINE counts  == mstate = "STARTUP" /\ (known \/ failsafe)
           n       == IF counts /\ failsafe THEN failsafePending - 1 ELSE failsafePending
           cleared == IF counts /\ failsafe /\ n = 0 THEN starting \ {p} ELSE {}
           left    == starting \ ({p} \cup cleared)
<1>1. \/ counts /\ left = {} /\ SessionContinue(pending \ {p}, {}, cleared, n)
      \/ /\ ~counts \/ left # {}
         /\ pending' = pending \ {p}
         /\ starting' = left
         /\ startTimer' = Rearmed(startTimer, {p} \cup cleared, {})
         /\ watch' = Rearmed(watch, {p} \cup cleared, {})
         /\ freed' = freed \cup cleared
         /\ failsafePending' = n
         /\ UNCHANGED <<mstate, restart, attempts>>
  BY DEF Registered
<1>2. n \in Nat
  BY DEF StartupInv, ClientsFit, StartupFits, TypeOK
<1>3. p \in Properties /\ cleared \subseteq starting \ {p}
  BY DEF StartupInv, ClientsFit, TypeOK, Unknown
<1>4. CASE counts /\ left = {} /\ SessionContinue(pending \ {p}, {}, cleared, n)
  <2> HIDE DEF n, cleared
  <2>1. /\ {p} \in SUBSET (pending \cup starting \cup Unknown)
        /\ {} \in SUBSET starting /\ cleared \in SUBSET starting
        /\ cleared \cap {p} = {} /\ starting \subseteq {p} \cup {} \cup cleared
    BY <1>3, <1>4
  <2> QED
    BY <1>2, <1>4, <2>1, ContinueKeeps
<1>5. CASE /\ ~counts \/ left # {}
           /\ pending' = pending \ {p}
           /\ starting' = left
           /\ startTimer' = Rearmed(startTimer, {p} \cup cleared, {})
           /\ watch' = Rearmed(watch, {p} \cup cleared, {})
           /\ freed' = freed \cup cleared
           /\ failsafePending' = n
           /\ UNCHANGED <<mstate, restart, attempts>>
  <2>1. StartupFits'
    <3>1. mstate = "STARTUP" => starting' # {}
      BY <1>5 DEF StartupInv, StartupFits, Unknown
    <3>2. ASSUME mstate = "STARTUP", failsafe PROVE failsafePending' >= 1
      <4>1. counts /\ left # {}
        BY <1>5, <3>2
      <4>2. n # 0
        <5> SUFFICES ASSUME n = 0 PROVE left = {}
          BY <4>1
        <5>1. cleared = starting \ {p}
          BY <3>2, <4>1
        <5> QED
          BY <5>1
      <4> HIDE DEF n
      <4> QED
        BY <1>2, <1>5, <4>2
    <3> QED
      BY <1>5, <3>1, <3>2 DEF StartupInv, StartupFits
  <2> HIDE DEF n, cleared
  <2>2. TypeOK'
    BY <1>2, <1>3, <1>5 DEF StartupInv, ClientsFit, TypeOK
  <2>3. OneOwner'
    BY <1>3, <1>5 DEF StartupInv, ClientsFit, OneOwner, Unknown
  <2>4. TimersFollowQueue'
    BY <1>5 DEF StartupInv, ClientsFit, TimersFollowQueue, Rearmed
  <2>5. AttemptsFollowClient'
    BY <1>3, <1>5 DEF StartupInv, ClientsFit, AttemptsFollowClient
  <2>6. \A q \in Unknown' : attempts'[q] = 0
    BY <1>3, <1>5 DEF StartupInv, ClientsFit, Unknown
  <2> QED
    BY <2>1, <2>2, <2>3, <2>4, <2>5, <2>6 DEF StartupInv, ClientsFit
<1> QED
  BY <1>1, <1>4, <1>5

-----------------------------------------------------------------------------
(* The invariant *)

\* Before anything was started, everything fits.
LEMMA InitHolds == ASSUME PropertiesAssumption, Init PROVE StartupInv
<1>1. TypeOK
  <2>1. hint \in [Properties -> Hints]
    BY DEF Init, Hints
  <2>2. attempts \in [Properties -> 0 .. MAX_RESTART_ATTEMPTS + 1]
    BY DEF Init, PropertiesAssumption
  <2> QED
    BY <2>1, <2>2 DEF Init, TypeOK, ManagerStates
<1>2. AttemptsFollowClient
  BY DEF Init, AttemptsFollowClient, PropertiesAssumption
<1> QED
  BY <1>1, <1>2 DEF Init, StartupInv, ClientsFit, StartupFits, OneOwner, TimersFollowQueue, Unknown

\* The idle source that starts the session.
LEMMA BeginKeeps == ASSUME PropertiesAssumption, StartupInv, Begin PROVE StartupInv'
<1>1. starting = {} /\ pending \ {} = pending /\ failsafePending \in Nat
  BY DEF Begin, StartupInv, ClientsFit, StartupFits, TypeOK
<1>2. SessionContinue(pending \ {}, {}, {}, failsafePending)
  BY <1>1 DEF Begin
<1>3. /\ running' = running \cup {} /\ begun' /\ failsafe' = failsafe /\ hint' = hint
      /\ resetTimer' = resetTimer \cup {p \in {} : attempts[p] > 0}
  BY DEF Begin
<1>4. /\ {} \in SUBSET (pending \cup starting \cup Unknown) /\ {} \in SUBSET starting
      /\ starting \subseteq {} \cup {} \cup {}
  BY <1>1
<1> QED
  BY <1>1, <1>2, <1>3, <1>4, ContinueKeeps

\* A client that is starting fails, by its timeout or because its process exits.
LEMMA FailedStartupKeeps ==
  ASSUME PropertiesAssumption, StartupInv, NEW p \in starting, HandleFailedStartup(p)
  PROVE  StartupInv'
<1>1. /\ begun /\ begun' /\ running' = running \ {p} /\ resetTimer' = resetTimer \ {p}
      /\ UNCHANGED <<begun, failsafe, hint>>
  BY DEF HandleFailedStartup, StartupInv, ClientsFit, StartupFits, OneOwner, AttemptsFollowClient
<1>2. CASE \E again \in SUBSET {p} :
             /\ starting # {p} \/ again # {} \/ mstate # "STARTUP"
             /\ Fail(p, again)
  <2>1. PICK again \in SUBSET {p} :
          (starting # {p} \/ again # {} \/ mstate # "STARTUP") /\ Fail(p, again)
    BY <1>2
  <2>2. mstate = "STARTUP" => starting \ {p} # {} \/ again # {}
    BY <2>1
  <2> QED
    BY <1>1, <2>1, <2>2, FailKeeps
<1>3. CASE starting = {p} /\ SessionContinue(pending, {p}, {}, failsafePending)
  <2>1. SessionContinue(pending \ {}, {p}, {}, failsafePending) /\ failsafePending \in Nat
    <3>1. pending \ {} = pending
      OBVIOUS
    <3> QED
      BY <1>3, <3>1 DEF StartupInv, ClientsFit, TypeOK
  <2>2. /\ running' = running \cup {}
        /\ resetTimer' = resetTimer \cup {q \in {} : attempts[q] > 0}
    BY DEF HandleFailedStartup
  <2>3. /\ {} \in SUBSET (pending \cup starting \cup Unknown)
        /\ {p} \in SUBSET starting /\ {} \in SUBSET starting
        /\ starting \subseteq {} \cup {p} \cup {}
    BY <1>3
  <2> QED
    BY <1>1, <2>1, <2>2, <2>3, ContinueKeeps
<1> QED
  BY <1>2, <1>3 DEF HandleFailedStartup

\* A client registers, with an id the manager knows, or as a new one.
LEMMA RegisterKeeps ==
  ASSUME PropertiesAssumption, StartupInv, NEW p \in Properties,
         RegisterKnown(p) \/ RegisterNew(p)
  PROVE  StartupInv'
<1>1. CASE RegisterKnown(p)
  <2>1. resetTimer' = resetTimer \cup {q \in {p} : attempts[q] > 0}
    BY <1>1 DEF RegisterKnown, ForgetLater
  <2>2. /\ begun /\ p \in starting \cup pending \cup Unknown /\ TRUE \in BOOLEAN
        /\ Registered(p, TRUE) /\ running' = running \cup {p}
        /\ UNCHANGED <<begun, failsafe, hint>>
    BY <1>1 DEF RegisterKnown
  <2> QED
    BY <2>1, <2>2, RegisteredKeeps
<1>2. CASE RegisterNew(p)
  <2>1. attempts[p] = 0
    BY <1>2 DEF RegisterNew, StartupInv, ClientsFit
  <2>2. resetTimer' = resetTimer \cup {q \in {p} : attempts[q] > 0}
    BY <1>2, <2>1 DEF RegisterNew
  <2>3. /\ begun /\ p \in Unknown /\ p \in starting \cup pending \cup Unknown
        /\ Registered(p, FALSE) /\ running' = running \cup {p}
        /\ UNCHANGED <<begun, failsafe, hint>>
    BY <1>2 DEF RegisterNew
  <2> QED
    BY <2>2, <2>3, RegisteredKeeps
<1> QED
  BY <1>1, <1>2

\* A registered client goes: it fails, or is freed in the course of a save.
LEMMA ClientGoneKeeps ==
  ASSUME PropertiesAssumption, StartupInv, NEW p \in Properties, ClientGone(p)
  PROVE  StartupInv'
<1>1. p \in running /\ p \notin starting
  BY DEF ClientGone, StartupInv, ClientsFit, OneOwner
<1>2. CASE \E again \in SUBSET {p} : Fail(p, again)
  <2>1. PICK again \in SUBSET {p} : Fail(p, again)
    BY <1>2
  <2>2. mstate = "STARTUP" => starting \ {p} # {}
    BY <1>1 DEF StartupInv, StartupFits
  <2>3. /\ running' = running \ {p} /\ resetTimer' = resetTimer \ {p}
        /\ UNCHANGED <<begun, failsafe, hint>>
    BY DEF ClientGone
  <2> QED
    BY <1>1, <2>1, <2>2, <2>3, FailKeeps
<1>3. CASE /\ mstate \in SavePhases
           /\ freed' = freed \cup {p}
           /\ UNCHANGED <<mstate, pending, starting, restart, attempts,
                          startTimer, watch, failsafePending>>
  <2>1. TypeOK'
    BY <1>1, <1>3 DEF ClientGone, StartupInv, ClientsFit, TypeOK
  <2>2. OneOwner'
    BY <1>1, <1>3 DEF ClientGone, StartupInv, ClientsFit, OneOwner
  <2>3. TimersFollowQueue' /\ AttemptsFollowClient'
    BY <1>1, <1>3 DEF ClientGone, StartupInv, ClientsFit, TimersFollowQueue, AttemptsFollowClient
  <2>4. Unknown' = Unknown
    BY <1>1, <1>3 DEF ClientGone, Unknown
  <2> QED
    BY <1>3, <2>1, <2>2, <2>3, <2>4
    DEF ClientGone, SavePhases, StartupInv, ClientsFit, StartupFits
<1> QED
  BY <1>2, <1>3 DEF ClientGone

\* The other steps leave the queues alone.
LEMMA RestKeeps ==
  ASSUME PropertiesAssumption, StartupInv,
         \/ SaveBegins
         \/ SaveEnds
         \/ \E p \in Properties :
              ResetAttempts(p) \/ \E h \in Hints : SetRestartStyle(p, h)
         \/ UNCHANGED vars
  PROVE  StartupInv'
<1>1. CASE SaveBegins
  BY <1>1 DEF SaveBegins, SavePhases, ManagerStates, queueVars, timerVars, StartupInv, ClientsFit,
     StartupFits, TypeOK, OneOwner, TimersFollowQueue, AttemptsFollowClient, Unknown
<1>2. CASE SaveEnds
  BY <1>2 DEF SaveEnds, ManagerStates, queueVars, timerVars, StartupInv, ClientsFit,
     StartupFits, TypeOK, OneOwner, TimersFollowQueue, AttemptsFollowClient, Unknown
<1>3. ASSUME NEW p \in Properties, ResetAttempts(p) PROVE StartupInv'
  BY <1>3 DEF ResetAttempts, queueVars, StartupInv, ClientsFit, PropertiesAssumption,
     StartupFits, TypeOK, OneOwner, TimersFollowQueue, AttemptsFollowClient, Unknown
<1>4. ASSUME NEW p \in Properties, NEW h \in Hints, SetRestartStyle(p, h) PROVE StartupInv'
  BY <1>4 DEF SetRestartStyle, queueVars, timerVars, StartupInv, ClientsFit,
     StartupFits, TypeOK, OneOwner, TimersFollowQueue, AttemptsFollowClient, Unknown
<1>5. CASE UNCHANGED vars
  BY <1>5 DEF vars, queueVars, timerVars, StartupInv, ClientsFit,
     StartupFits, TypeOK, OneOwner, TimersFollowQueue, AttemptsFollowClient, Unknown
<1> QED
  BY <1>1, <1>2, <1>3, <1>4, <1>5

\* No step of the program breaks the invariant.
LEMMA NextKeeps == ASSUME PropertiesAssumption, StartupInv, [Next]_vars PROVE StartupInv'
<1>1. ASSUME NEW p \in Properties, StartupTimeout(p) \/ ChildExits(p) PROVE StartupInv'
  BY <1>1, FailedStartupKeeps
  DEF StartupTimeout, ChildExits, StartupInv, ClientsFit, TimersFollowQueue
<1> QED
  BY <1>1, BeginKeeps, RegisterKeeps, ClientGoneKeeps, RestKeeps DEF Next

\* StartupInv holds of every state that the program can reach.
THEOREM Invariance == Spec => []StartupInv
<1> USE PropertiesAssumption
<1>1. Init => StartupInv
  BY InitHolds
<1>2. StartupInv /\ [Next]_vars => StartupInv'
  BY NextKeeps
<1> QED
  BY <1>1, <1>2, PTL DEF Spec

-----------------------------------------------------------------------------
(* The theorems *)

\* Types and bounds: in particular no client is tried more than once too often.
THEOREM StartupTypeCorrect == Spec => []TypeOK
<1>1. StartupInv => TypeOK
  BY DEF StartupInv, ClientsFit
<1> QED
  BY <1>1, Invariance, PTL

\* No properties object is ever held by two queues, or by a queue after it was freed.
THEOREM OwnedOnce == Spec => []OneOwner
<1>1. StartupInv => OneOwner
  BY DEF StartupInv, ClientsFit
<1> QED
  BY <1>1, Invariance, PTL

\* The startup timeout and the child watch are there exactly for starting clients.
THEOREM TimersAreRight == Spec => []TimersFollowQueue
<1>1. StartupInv => TimersFollowQueue
  BY DEF StartupInv, ClientsFit
<1> QED
  BY <1>1, Invariance, PTL

\* Restart attempts are forgotten for running clients only, and are bounded.
THEOREM AttemptsAreRight == Spec => []AttemptsFollowClient
<1>1. StartupInv => AttemptsFollowClient
  BY DEF StartupInv, ClientsFit
<1> QED
  BY <1>1, Invariance, PTL

\* Whichever clients register, fail, time out or come back, and in which order:
\* until startup is over there is a client, hence a timeout, that it waits for.
THEOREM StartupNeverStalls == Spec => []StartupWaitsForSomeone
<1>1. StartupInv => StartupWaitsForSomeone
  BY DEF StartupInv, StartupFits, StartupWaitsForSomeone
<1> QED
  BY <1>1, Invariance, PTL

\* What RestartableKept says of a single step.
KeptNow ==
  \A p \in Properties \ freed : p \in freed' /\ hint[p] # "IfRunning" =>
    mstate \in SavePhases \/ failsafe

\* Clients that are to be restarted survive every failure.
THEOREM RestartableIsKept == Spec => RestartableKept
<1>1. ASSUME NEW pend, NEW dead, NEW gone, NEW n, SessionContinue(pend, dead, gone, n),
             ~failsafe => gone = {}
      PROVE  KeptNow
  BY <1>1 DEF SessionContinue, Dropped, KeptNow
<1>2. ASSUME NEW p, NEW again, Fail(p, again) PROVE KeptNow
  BY <1>2 DEF Fail, Dropped, KeptNow
<1>3. ASSUME NEW p, HandleFailedStartup(p) PROVE KeptNow
  BY <1>1, <1>2, <1>3 DEF HandleFailedStartup
<1>4. ASSUME NEW p, NEW known, Registered(p, known) PROVE KeptNow
  <2>1. CASE failsafe
    BY <2>1 DEF KeptNow
  <2>2. CASE ~failsafe
    BY <1>1, <1>4, <2>2 DEF Registered, KeptNow
  <2> QED
    BY <2>1, <2>2
<1>5. ASSUME NEW p \in Properties, ClientGone(p) PROVE KeptNow
  BY <1>2, <1>5 DEF ClientGone, KeptNow
<1>6. ASSUME freed' = freed PROVE KeptNow
  BY <1>6 DEF KeptNow
<1>7. [Next]_vars => KeptNow
  BY <1>1, <1>3, <1>4, <1>5, <1>6
  DEF Next, Begin, StartupTimeout, ChildExits, RegisterKnown, RegisterNew, SetRestartStyle,
      ResetAttempts, SaveBegins, SaveEnds, vars, queueVars
<1>8. KeptNow => [KeptNow]_vars
  OBVIOUS
<1> QED
  BY <1>7, <1>8, PTL DEF Spec, RestartableKept, KeptNow

\* What GroupsInOrder says of a single step.
OrderNow ==
  LET launched == {p \in pending \cap starting' : attempts'[p] = attempts[p]} IN
  /\ launched # {} => starting \cap starting' = {}
  /\ \A p, q \in launched : Priority[p] = Priority[q]
  /\ \A p \in launched, q \in pending' : Priority[p] < Priority[q]
  /\ mstate = "STARTUP" /\ mstate' = "IDLE" => starting' \subseteq pending

\* The clients that xfsm_startup_session_continue () starts are of one group, and of
\* a group before those it leaves for later.
LEMMA ContinueInOrder ==
  ASSUME PropertiesAssumption, StartupInv, NEW pend \in SUBSET pending,
         NEW dead, NEW gone, NEW n, SessionContinue(pend, dead, gone, n)
  PROVE  OrderNow
<1>1. PICK T1 \in SUBSET pend, T2 \in SUBSET pend :
        /\ Spawned(T2, Retried(GroupsUpTo(T1, pend) \ T1))
        /\ pending' = pend \ GroupsUpTo(T1, pend)
        /\ starting' = (GroupsUpTo(T1, pend) \cap T1) \cup T2
        /\ attempts' = Counted(dead \cup (GroupsUpTo(T1, pend) \ T1))
        /\ mstate' = IF GroupsUpTo(T1, pend) \cap T1 = {} THEN "IDLE" ELSE "STARTUP"
  BY DEF SessionContinue
<1> DEFINE tried == GroupsUpTo(T1, pend)
           launched == {p \in pending \cap starting' : attempts'[p] = attempts[p]}
<1>2. /\ Priority \in [Properties -> Nat]
      /\ pending \subseteq Properties
      /\ attempts \in [Properties -> 0 .. MAX_RESTART_ATTEMPTS + 1]
      /\ starting \cap pending = {}
      /\ MAX_RESTART_ATTEMPTS \in Nat
  BY DEF PropertiesAssumption, StartupInv, ClientsFit, TypeOK, OneOwner
<1>3. T2 \subseteq tried \ T1 /\ T2 \subseteq Eager(tried \ T1)
  BY <1>1 DEF Spawned, Retried, Eager
<1>4. \A p \in T2 : attempts'[p] # attempts[p]
  BY <1>1, <1>2, <1>3 DEF Counted, Eager
<1>5. launched \subseteq tried \cap T1
  BY <1>1, <1>4
<1>6. \A p, q \in launched : Priority[p] = Priority[q]
  BY <1>2, <1>5 DEF GroupsUpTo
<1>7. ASSUME NEW p \in launched, NEW q \in pending' PROVE Priority[p] < Priority[q]
  <2>1. q \in pend \ tried
    BY <1>1
  <2>2. PICK t \in T1 : ~(Priority[q] <= Priority[t])
    BY <2>1 DEF GroupsUpTo
  <2>3. Priority[p] <= Priority[t]
    BY <1>5, <2>2 DEF GroupsUpTo
  <2> QED
    BY <1>2, <1>5, <2>1, <2>2, <2>3
<1>8. starting' \subseteq pending
  BY <1>1
<1> QED
  BY <1>2, <1>6, <1>7, <1>8 DEF OrderNow

\* A client that fails without letting startup go on starts no group.
LEMMA FailInOrder ==
  ASSUME PropertiesAssumption, StartupInv, NEW p \in starting \cup running,
         NEW again \in SUBSET {p}, Fail(p, again)
  PROVE  OrderNow
<1>1. starting' \cap pending = {}
  BY DEF Fail, StartupInv, ClientsFit, OneOwner
<1> QED
  BY <1>1 DEF Fail, OrderNow

\* Priority groups are started one after the other, and startup is over after the
\* last; but for the clients spawned at the second try, which GroupsInOrder excepts.
THEOREM GroupsComeInOrder == Spec => GroupsInOrder
<1> USE PropertiesAssumption
<1>1. ASSUME StartupInv, NEW p \in starting, HandleFailedStartup(p) PROVE OrderNow
  BY <1>1, ContinueInOrder, FailInOrder DEF HandleFailedStartup
<1>2. ASSUME StartupInv, NEW p, NEW known, Registered(p, known) PROVE OrderNow
  <2>1. CASE /\ starting' \subseteq starting
             /\ UNCHANGED mstate
    <3>1. starting' \cap pending = {}
      BY <1>2, <2>1 DEF StartupInv, ClientsFit, OneOwner
    <3> QED
      BY <2>1, <3>1 DEF OrderNow
  <2>2. CASE \E gone, n : SessionContinue(pending \ {p}, {}, gone, n)
    BY <1>2, <2>2, ContinueInOrder
  <2> QED
    BY <1>2, <2>1, <2>2 DEF Registered
<1>3. ASSUME StartupInv, NEW p \in Properties, ClientGone(p) PROVE OrderNow
  <2>1. CASE UNCHANGED <<mstate, starting>>
    BY <1>3, <2>1 DEF StartupInv, ClientsFit, OneOwner, OrderNow
  <2> QED
    BY <1>3, <2>1, FailInOrder DEF ClientGone
<1>4. ASSUME StartupInv, starting' = starting, mstate' # "IDLE" \/ mstate # "STARTUP"
      PROVE  OrderNow
  BY <1>4 DEF StartupInv, ClientsFit, OneOwner, OrderNow
<1>5. ASSUME StartupInv, Begin PROVE OrderNow
  BY <1>5, ContinueInOrder DEF Begin
<1>6. ASSUME StartupInv, SaveBegins \/ SaveEnds PROVE OrderNow
  BY <1>4, <1>6 DEF SaveBegins, SaveEnds, queueVars
<1>7. StartupInv /\ [Next]_vars => OrderNow
  BY <1>1, <1>2, <1>3, <1>4, <1>5, <1>6
  DEF Next, StartupTimeout, ChildExits, RegisterKnown, RegisterNew, SetRestartStyle,
      ResetAttempts, vars, queueVars, StartupInv, ClientsFit, TimersFollowQueue
<1>8. OrderNow => [OrderNow]_vars
  OBVIOUS
<1> QED
  BY <1>7, <1>8, Invariance, PTL DEF Spec, GroupsInOrder, OrderNow
=============================================================================
