--------------------------- MODULE XsmpClientProofs ---------------------------
(***************************************************************************)
(* Proofs about XsmpClient: whatever a session manager says, however often *)
(* the connection breaks, and however the applications nest their          *)
(* handlers, for any number of applications, messages and handlers.        *)
(*                                                                         *)
(* Each property of the library is about one application at a time.  The   *)
(* invariant of one application, ClientInv, says them all of its record of *)
(* variables; a step of another application leaves that record alone.      *)
(***************************************************************************)
EXTENDS XsmpClient, SequenceTheorems, TLAPS

Messages == SaidByClient \cup {"IOError"}

\* Where a handler runs, and which.
HandlersFit == StateOfHandler /\ CancelledInHandler

\* The invariant of the library.
LibInv == LibTypeOK /\ HandlersFit /\ NeverComesBackUnasked

-----------------------------------------------------------------------------
(* Sequences *)

\* What is said to the session manager is kept in order, and there is room for it.
LEMMA Said ==
  ASSUME LibraryConstants, LibTypeOK, NEW c \in Apps, NEW msgs \in Seq(Messages), Say(c, msgs)
  PROVE  /\ toManager' \in [Apps -> Seq(Messages)]
         /\ \A d \in Apps : Len(toManager'[d]) <= MaxQueue
<1>1. toManager[c] \o msgs \in Seq(Messages)
      /\ Len(toManager[c] \o msgs) = Len(toManager[c]) + Len(msgs)
  BY ConcatProperties DEF LibTypeOK, Messages
<1>2. toManager' = [toManager EXCEPT ![c] = toManager[c] \o msgs]
      /\ Len(toManager[c]) + Len(msgs) <= MaxQueue
  BY DEF Say
<1> QED
  BY <1>1, <1>2 DEF LibTypeOK, Messages, LibraryConstants

\* A handler that starts is on top of those that are suspended.
LEMMA Pushed ==
  ASSUME LibraryConstants, LibTypeOK, NEW c \in Apps, NEW f \in Frames, Push(c, f)
  PROVE  /\ frames' \in [Apps -> Seq(Frames)]
         /\ frames'[c] # <<>> /\ Head(frames'[c]) = f
         /\ \A d \in Apps : /\ Len(frames'[d]) <= MaxFrames
                            /\ d # c => frames'[d] = frames[d]
<1> DEFINE s == <<f>> \o frames[c]
<1>1. frames[c] \in Seq(Frames) /\ <<f>> \in Seq(Frames) /\ Len(<<f>>) = 1 /\ <<f>>[1] = f
  BY DEF LibTypeOK
<1>2. s \in Seq(Frames) /\ Len(s) = 1 + Len(frames[c]) /\ s[1] = f
  BY <1>1, ConcatProperties
<1>3. s # <<>> /\ Head(s) = f
  BY <1>2
<1>4. frames' = [frames EXCEPT ![c] = s] /\ Len(frames[c]) < MaxFrames
  BY DEF Push
<1>5. Len(frames[c]) \in Nat /\ MaxFrames \in Nat
  BY <1>1 DEF LibraryConstants
<1> HIDE DEF s
<1> QED
  BY <1>2, <1>3, <1>4, <1>5 DEF LibTypeOK

\* A handler returns to the one below it, or to the library.
LEMMA Popped ==
  ASSUME LibraryConstants, LibTypeOK, NEW c \in Apps, frames[c] # <<>>, frames' = [frames EXCEPT ![c] = Tail(@)]
  PROVE  /\ frames' \in [Apps -> Seq(Frames)]
         /\ \A d \in Apps : /\ Len(frames'[d]) <= MaxFrames
                            /\ d # c => frames'[d] = frames[d]
<1>1. frames[c] \in Seq(Frames) /\ Len(frames[c]) \in Nat /\ Len(frames[c]) <= MaxFrames
  BY DEF LibTypeOK
<1>2. Tail(frames[c]) \in Seq(Frames) /\ Len(Tail(frames[c])) <= Len(frames[c])
  BY <1>1, HeadTailProperties
<1> QED
  BY <1>1, <1>2 DEF LibTypeOK, LibraryConstants

-----------------------------------------------------------------------------
(* Every action keeps the invariant *)

LEMMA OpenKeeps ==
  ASSUME LibraryConstants, LibInv, NEW c \in Apps, Open(c)
  PROVE  LibInv'
<1>1. toManager' \in [Apps -> Seq(Messages)] /\ \A d \in Apps : Len(toManager'[d]) <= MaxQueue
  <2>1. <<"Register">> \in Seq(Messages)
    BY DEF Messages, SaidByClient
  <2> QED
    BY <2>1, Said DEF Open, LibInv
<1>2. LibTypeOK'
  BY <1>1 DEF Open, LibInv, LibTypeOK, Messages, Links, saveVars
<1>3. HandlersFit'
  BY DEF Open, LibInv, HandlersFit, StateOfHandler, CancelledInHandler, saveVars
<1>4. NeverComesBackUnasked'
  BY DEF Open, LibInv, LibTypeOK, NeverComesBackUnasked
<1> QED
  BY <1>2, <1>3, <1>4 DEF LibInv

\* Registration ends one way or the other, or the timer finds its work done.
LEMMA OpenedKeeps ==
  ASSUME LibraryConstants, LibInv, NEW c \in Apps,
         (\E resumed \in BOOLEAN : Opened(c, resumed)) \/ OpenFailed(c) \/ TimerExpires(c)
  PROVE  LibInv'
<1>1. CASE \E resumed \in BOOLEAN : Opened(c, resumed)
  <2>1. LibTypeOK'
    BY <1>1 DEF Opened, Become, LibInv, LibTypeOK, Links, States, saveVars
  <2>2. HandlersFit'
    BY <1>1, ZenonT(60) DEF Opened, Become, LibInv, LibTypeOK, HandlersFit, StateOfHandler, CancelledInHandler, saveVars
  <2>3. NeverComesBackUnasked'
    BY <1>1 DEF Opened, LibInv, LibTypeOK, NeverComesBackUnasked
  <2> QED
    BY <2>1, <2>2, <2>3 DEF LibInv
<1>2. CASE OpenFailed(c)
  <2>1. LibTypeOK'
    BY <1>2 DEF OpenFailed, LibInv, LibTypeOK, Links, saveVars
  <2>2. HandlersFit'
    BY <1>2 DEF OpenFailed, LibInv, HandlersFit, StateOfHandler, CancelledInHandler, saveVars
  <2>3. NeverComesBackUnasked'
    BY <1>2 DEF OpenFailed, LibInv, LibTypeOK, NeverComesBackUnasked
  <2> QED
    BY <2>1, <2>2, <2>3 DEF LibInv
<1>3. CASE TimerExpires(c)
  <2>1. LibTypeOK'
    BY <1>3 DEF TimerExpires, LibInv, LibTypeOK, saveVars
  <2>2. HandlersFit'
    BY <1>3 DEF TimerExpires, LibInv, HandlersFit, StateOfHandler, CancelledInHandler, saveVars
  <2>3. NeverComesBackUnasked'
    BY <1>3 DEF TimerExpires, LibInv, LibTypeOK, NeverComesBackUnasked
  <2> QED
    BY <2>1, <2>2, <2>3 DEF LibInv
<1> QED
  BY <1>1, <1>2, <1>3

LEMMA ConnectionLostKeeps ==
  ASSUME LibraryConstants, LibInv, NEW c \in Apps, ConnectionLost(c)
  PROVE  LibInv'
<1>1. LibTypeOK'
  BY DEF ConnectionLost, Become, StartAutoReconnect, LibInv, LibTypeOK, Links, States
<1>2. HandlersFit'
  BY DEF ConnectionLost, Become, LibInv, LibTypeOK, HandlersFit, StateOfHandler, CancelledInHandler
<1>3. NeverComesBackUnasked'
  BY DEF ConnectionLost, StartAutoReconnect, LibInv, LibTypeOK, NeverComesBackUnasked
<1> QED
  BY <1>1, <1>2, <1>3 DEF LibInv

\* disconnect () leaves a client that nothing brings back, whatever its handlers.
LEMMA DisconnectedKeeps ==
  ASSUME LibraryConstants, LibInv, NEW c \in Apps, Disconnected(c)
  PROVE  /\ NeverComesBackUnasked'
         /\ state' = [state EXCEPT ![c] = "DISCONNECTED"]
         /\ state' \in [Apps -> States] /\ link' \in [Apps -> Links]
         /\ wanted' \in [Apps -> BOOLEAN] /\ reconnect' \in [Apps -> BOOLEAN]
         /\ agreed' \in [Apps -> BOOLEAN] /\ toManager' \in [Apps -> Seq(Messages)]
         /\ \A d \in Apps : Len(toManager'[d]) <= MaxQueue
<1>1. (IF link[c] = "open" THEN <<"Close">> ELSE <<>>) \in Seq(Messages)
  <2>1. <<"Close">> \in Seq(Messages)
    BY DEF Messages, SaidByClient
  <2>2. <<>> \in Seq(Messages)
    OBVIOUS
  <2> QED
    BY <2>1, <2>2
<1>2. toManager' \in [Apps -> Seq(Messages)] /\ \A d \in Apps : Len(toManager'[d]) <= MaxQueue
  BY <1>1, Said DEF Disconnected, LibInv
<1>3. NeverComesBackUnasked'
  BY DEF Disconnected, StopsTimer, LibInv, LibTypeOK, NeverComesBackUnasked
<1> QED
  BY <1>2, <1>3 DEF Disconnected, StopsTimer, Become, LibInv, LibTypeOK, States, Links

LEMMA DisconnectKeeps ==
  ASSUME LibraryConstants, LibInv, NEW c \in Apps, Disconnect(c) \/ Die(c)
  PROVE  LibInv'
<1>1. Disconnected(c) /\ hasId' = hasId
  BY DEF Disconnect, Die
<1>2. \/ UNCHANGED <<frames, needsSave, cancelled>>
      \/ /\ frames' = [frames EXCEPT ![c] = <<>>]
         /\ needsSave' = [needsSave EXCEPT ![c] = FALSE]
         /\ cancelled' = [cancelled EXCEPT ![c] = FALSE]
  BY DEF Disconnect, Die
<1>3. /\ NeverComesBackUnasked'
      /\ state' = [state EXCEPT ![c] = "DISCONNECTED"]
      /\ state' \in [Apps -> States] /\ link' \in [Apps -> Links]
      /\ wanted' \in [Apps -> BOOLEAN] /\ reconnect' \in [Apps -> BOOLEAN]
      /\ agreed' \in [Apps -> BOOLEAN] /\ toManager' \in [Apps -> Seq(Messages)]
      /\ \A d \in Apps : Len(toManager'[d]) <= MaxQueue
  BY <1>1, DisconnectedKeeps
<1>4. /\ frames' \in [Apps -> Seq(Frames)] /\ \A d \in Apps : Len(frames'[d]) <= MaxFrames
      /\ needsSave' \in [Apps -> BOOLEAN] /\ cancelled' \in [Apps -> BOOLEAN]
  <2>1. <<>> \in Seq(Frames) /\ Len(<<>>) = 0 /\ MaxFrames \in Nat
    BY DEF LibraryConstants
  <2>2. CASE UNCHANGED <<frames, needsSave, cancelled>>
    BY <2>2 DEF LibInv, LibTypeOK
  <2>3. CASE /\ frames' = [frames EXCEPT ![c] = <<>>]
             /\ needsSave' = [needsSave EXCEPT ![c] = FALSE]
             /\ cancelled' = [cancelled EXCEPT ![c] = FALSE]
    <3>1. \A d \in Apps : frames'[d] = IF d = c THEN <<>> ELSE frames[d]
      BY <2>3 DEF LibInv, LibTypeOK
    <3>2. \A d \in Apps : Len(frames'[d]) <= MaxFrames
      BY <2>1, <3>1 DEF LibInv, LibTypeOK
    <3> QED
      BY <2>1, <2>3, <3>2 DEF LibInv, LibTypeOK
  <2> QED
    BY <1>2, <2>2, <2>3
<1>5. LibTypeOK'
  BY <1>1, <1>3, <1>4 DEF LibInv, LibTypeOK, Messages
<1>6. HandlersFit'
  BY <1>2, <1>3, ZenonT(60) DEF LibInv, LibTypeOK, HandlersFit, StateOfHandler, CancelledInHandler
<1> QED
  BY <1>3, <1>5, <1>6 DEF LibInv

-----------------------------------------------------------------------------
(* ... the answers to the session manager *)

\* What a step of c must do to its own handlers, when it changes neither the
\* connection of c nor anything of the others.
LEMMA AnswerKeeps ==
  ASSUME LibraryConstants, LibInv, NEW c \in Apps, UNCHANGED connVars,
         NEW s \in States, Become(c, s),
         NEW msgs \in Seq(Messages), Say(c, msgs),
         frames' \in [Apps -> Seq(Frames)],
         \A d \in Apps : /\ Len(frames'[d]) <= MaxFrames
                         /\ d # c => /\ frames'[d] = frames[d]
                                     /\ cancelled'[d] = cancelled[d],
         needsSave' \in [Apps -> BOOLEAN], cancelled' \in [Apps -> BOOLEAN],
         agreed' \in [Apps -> BOOLEAN],
         s = "INTERACTING" => frames'[c] # <<>> /\ Head(frames'[c]) = "quit-requested",
         s = "SAVING_PHASE_1" => frames'[c] # <<>> /\ Head(frames'[c]) = "save-state first",
         s = "SAVING_PHASE_2" => frames'[c] # <<>> /\ Head(frames'[c]) = "save-state-extended",
         cancelled'[c] => frames'[c] # <<>>
  PROVE  LibInv'
<1>1. toManager' \in [Apps -> Seq(Messages)] /\ \A d \in Apps : Len(toManager'[d]) <= MaxQueue
  BY Said DEF LibInv
<1>2. LibTypeOK'
  BY <1>1 DEF Become, LibInv, LibTypeOK, Messages, connVars
<1>3. StateOfHandler'
  BY DEF Become, LibInv, LibTypeOK, HandlersFit, StateOfHandler
<1>4. CancelledInHandler'
  BY DEF LibInv, LibTypeOK, HandlersFit, CancelledInHandler
<1>5. NeverComesBackUnasked'
  BY DEF LibInv, NeverComesBackUnasked, connVars
<1> QED
  BY <1>2, <1>3, <1>4, <1>5 DEF LibInv, HandlersFit
\* What the library says.
LEMMA Sayings ==
  /\ <<>> \in Seq(Messages) /\ <<"Done">> \in Seq(Messages)
  /\ <<"InteractRequest">> \in Seq(Messages) /\ <<"SaveRequest">> \in Seq(Messages)
  /\ <<"InteractDone">> \in Seq(Messages) /\ <<"InteractCancel">> \in Seq(Messages)
  /\ <<"Phase2Request">> \in Seq(Messages) /\ <<"InteractDone", "Done">> \in Seq(Messages)
BY DEF Messages, SaidByClient

\* AnswerKeeps, for a client that keeps its handlers.
LEMMA QuietAnswerKeeps ==
  ASSUME LibraryConstants, LibInv, NEW c \in Apps, UNCHANGED connVars,
         NEW s \in States \ {"INTERACTING", "SAVING_PHASE_1", "SAVING_PHASE_2"}, Become(c, s),
         NEW msgs \in Seq(Messages), Say(c, msgs), UNCHANGED frames,
         \/ UNCHANGED cancelled
         \/ cancelled' = [cancelled EXCEPT ![c] = FALSE],
         needsSave' \in [Apps -> BOOLEAN], agreed' \in [Apps -> BOOLEAN]
  PROVE  LibInv'
<1>1. /\ frames' \in [Apps -> Seq(Frames)]
      /\ \A d \in Apps : Len(frames'[d]) <= MaxFrames /\ frames'[d] = frames[d]
  BY DEF LibInv, LibTypeOK
<1>2. cancelled' \in [Apps -> BOOLEAN] /\ \A d \in Apps : d # c => cancelled'[d] = cancelled[d]
  BY DEF LibInv, LibTypeOK
<1>3. cancelled'[c] => frames'[c] # <<>>
  BY DEF LibInv, LibTypeOK, HandlersFit, CancelledInHandler
<1>4. s \in States /\ s # "INTERACTING" /\ s # "SAVING_PHASE_1" /\ s # "SAVING_PHASE_2"
  OBVIOUS
<1> QED
  BY <1>1, <1>2, <1>3, <1>4, AnswerKeeps

LEMMA SaveYourselfKeeps ==
  ASSUME LibraryConstants, LibInv, NEW c \in Apps, NEW m \in SaveKinds, SaveYourself(c, m)
  PROVE  LibInv'
<1>1. UNCHANGED connVars /\ UNCHANGED agreed
  BY DEF SaveYourself
<1>2. /\ frames \in [Apps -> Seq(Frames)] /\ \A d \in Apps : Len(frames[d]) <= MaxFrames
      /\ needsSave \in [Apps -> BOOLEAN] /\ cancelled \in [Apps -> BOOLEAN]
      /\ agreed' \in [Apps -> BOOLEAN]
  BY <1>1 DEF LibInv, LibTypeOK
<1> DEFINE Calm == States \ {"INTERACTING", "SAVING_PHASE_1", "SAVING_PHASE_2"}
<1>3. /\ "FROZEN" \in Calm /\ "IDLE" \in Calm /\ "WAITING_FOR_INTERACT" \in Calm
      /\ "SAVING_PHASE_1" \in States
  BY DEF States
<1>4. CASE /\ \/ Become(c, "FROZEN") /\ Say(c, <<"Done">>)
              \/ Become(c, "IDLE") /\ Say(c, <<>>)
           /\ UNCHANGED <<frames, needsSave>>
           /\ \/ UNCHANGED cancelled
              \/ cancelled' = [cancelled EXCEPT ![c] = FALSE]
  <2>1. CASE Become(c, "FROZEN") /\ Say(c, <<"Done">>)
    BY <1>1, <1>2, <1>3, <1>4, <2>1, Sayings, QuietAnswerKeeps
  <2>2. CASE Become(c, "IDLE") /\ Say(c, <<>>)
    BY <1>1, <1>2, <1>3, <1>4, <2>2, Sayings, QuietAnswerKeeps
  <2> QED
    BY <1>4, <2>1, <2>2
<1>5. CASE /\ Become(c, "WAITING_FOR_INTERACT") /\ Say(c, <<"InteractRequest">>)
           /\ needsSave' = [needsSave EXCEPT ![c] = DoSaveState(m)]
           /\ UNCHANGED <<frames, cancelled>>
  <2>1. needsSave' \in [Apps -> BOOLEAN]
    BY <1>2, <1>5 DEF DoSaveState
  <2> QED
    BY <1>1, <1>2, <1>3, <1>5, <2>1, Sayings, QuietAnswerKeeps
<1>6. CASE /\ Become(c, "SAVING_PHASE_1") /\ Say(c, <<>>)
           /\ Push(c, "save-state first")
           /\ UNCHANGED <<needsSave, cancelled>>
  <2>1. "save-state first" \in Frames
    BY DEF Frames
  <2>2. /\ frames' \in [Apps -> Seq(Frames)]
        /\ frames'[c] # <<>> /\ Head(frames'[c]) = "save-state first"
        /\ \A d \in Apps : /\ Len(frames'[d]) <= MaxFrames
                           /\ d # c => frames'[d] = frames[d]
    BY <1>6, <2>1, Pushed DEF LibInv
  <2>3. /\ needsSave' \in [Apps -> BOOLEAN] /\ cancelled' \in [Apps -> BOOLEAN]
        /\ \A d \in Apps : d # c => cancelled'[d] = cancelled[d]
    BY <1>2, <1>6
  <2> QED
    BY <1>1, <1>2, <1>3, <1>6, <2>2, <2>3, Sayings, AnswerKeeps
<1>7. CASE SavedFirst(c) /\ cancelled' = [cancelled EXCEPT ![c] = FALSE] /\ UNCHANGED <<frames, needsSave>>
  BY <1>4, <1>7 DEF SavedFirst
<1> QED
  BY <1>4, <1>5, <1>6, <1>7 DEF SaveYourself
\* Interact and SaveYourselfPhase2 start a handler in the state that they belong to,
\* and are answered at once in any other.
LEMMA GrantKeeps ==
  ASSUME LibraryConstants, LibInv, NEW c \in Apps, Interact(c) \/ SaveYourselfPhase2(c)
  PROVE  LibInv'
<1>1. UNCHANGED connVars /\ UNCHANGED cancelled
  BY DEF Interact, SaveYourselfPhase2
<1>2. /\ needsSave' \in [Apps -> BOOLEAN] /\ cancelled' \in [Apps -> BOOLEAN]
      /\ agreed' \in [Apps -> BOOLEAN]
  BY DEF Interact, SaveYourselfPhase2, LibInv, LibTypeOK
<1>3. /\ "FROZEN" \in States \ {"INTERACTING", "SAVING_PHASE_1", "SAVING_PHASE_2"}
      /\ "INTERACTING" \in States /\ "SAVING_PHASE_2" \in States
      /\ "quit-requested" \in Frames /\ "save-state-extended" \in Frames
  BY DEF States, Frames
<1>4. CASE Become(c, "FROZEN") /\ Say(c, <<"InteractDone", "Done">>) /\ UNCHANGED frames
  BY <1>1, <1>2, <1>3, <1>4, Sayings, QuietAnswerKeeps
<1>5. CASE Become(c, "FROZEN") /\ Say(c, <<"Done">>) /\ UNCHANGED frames
  BY <1>1, <1>2, <1>3, <1>5, Sayings, QuietAnswerKeeps
<1>6. CASE Become(c, "INTERACTING") /\ Say(c, <<>>) /\ Push(c, "quit-requested")
  <2>1. /\ frames' \in [Apps -> Seq(Frames)]
        /\ frames'[c] # <<>> /\ Head(frames'[c]) = "quit-requested"
        /\ \A d \in Apps : /\ Len(frames'[d]) <= MaxFrames
                           /\ d # c => frames'[d] = frames[d]
    BY <1>3, <1>6, Pushed DEF LibInv
  <2>2. \A d \in Apps : d # c => cancelled'[d] = cancelled[d]
    BY <1>1
  <2> QED
    BY <1>1, <1>2, <1>3, <1>6, <2>1, <2>2, Sayings, AnswerKeeps
<1>7. CASE Become(c, "SAVING_PHASE_2") /\ Say(c, <<>>) /\ Push(c, "save-state-extended")
  <2>1. /\ frames' \in [Apps -> Seq(Frames)]
        /\ frames'[c] # <<>> /\ Head(frames'[c]) = "save-state-extended"
        /\ \A d \in Apps : /\ Len(frames'[d]) <= MaxFrames
                           /\ d # c => frames'[d] = frames[d]
    BY <1>3, <1>7, Pushed DEF LibInv
  <2>2. \A d \in Apps : d # c => cancelled'[d] = cancelled[d]
    BY <1>1
  <2> QED
    BY <1>1, <1>2, <1>3, <1>7, <2>1, <2>2, Sayings, AnswerKeeps
<1> QED
  BY <1>4, <1>5, <1>6, <1>7 DEF Interact, SaveYourselfPhase2

\* SaveComplete makes a client idle, whatever its handlers are doing.
LEMMA SaveCompleteKeeps ==
  ASSUME LibraryConstants, LibInv, NEW c \in Apps, SaveComplete(c)
  PROVE  LibInv'
<1>1. LibTypeOK'
  BY DEF SaveComplete, Become, LibInv, LibTypeOK, States, connVars, saveVars
<1>2. HandlersFit'
  BY DEF SaveComplete, Become, LibInv, LibTypeOK, HandlersFit, StateOfHandler,
         CancelledInHandler, saveVars
<1>3. NeverComesBackUnasked'
  BY DEF SaveComplete, LibInv, NeverComesBackUnasked, connVars
<1> QED
  BY <1>1, <1>2, <1>3 DEF LibInv

\* ShutdownCancelled is remembered where a handler runs: in the states that have one.
LEMMA ShutdownCancelledKeeps ==
  ASSUME LibraryConstants, LibInv, NEW c \in Apps, ShutdownCancelled(c)
  PROVE  LibInv'
<1>1. UNCHANGED connVars /\ UNCHANGED <<frames, needsSave>>
  BY DEF ShutdownCancelled
<1>2. CASE FlagsCancellation(c)
  <2>1. cancelled' = [cancelled EXCEPT ![c] = TRUE] /\ UNCHANGED <<state, agreed, toManager>>
    BY <1>2 DEF ShutdownCancelled
  <2>2. frames[c] # <<>>
    BY <1>2 DEF FlagsCancellation, LibInv, HandlersFit, StateOfHandler
  <2>3. LibTypeOK'
    BY <1>1, <2>1 DEF LibInv, LibTypeOK, connVars
  <2>4. CancelledInHandler'
    BY <1>1, <2>1, <2>2 DEF LibInv, LibTypeOK, HandlersFit, CancelledInHandler
  <2>5. StateOfHandler' /\ NeverComesBackUnasked'
    BY <1>1, <2>1 DEF LibInv, HandlersFit, StateOfHandler, NeverComesBackUnasked, connVars
  <2> QED
    BY <2>3, <2>4, <2>5 DEF LibInv, HandlersFit
<1>3. CASE ~FlagsCancellation(c)
  <2> DEFINE msgs == IF state[c] = "WAITING_FOR_INTERACT" THEN <<"Done">> ELSE <<>>
  <2>1. msgs \in Seq(Messages)
    BY Sayings
  <2>2. /\ Become(c, "IDLE") /\ Say(c, msgs) /\ UNCHANGED cancelled
        /\ agreed' = [agreed EXCEPT ![c] = @ /\ state[c] \notin {"FROZEN", "WAITING_FOR_PHASE_2"}]
    BY <1>3 DEF ShutdownCancelled
  <2>3. needsSave' \in [Apps -> BOOLEAN] /\ agreed' \in [Apps -> BOOLEAN]
    BY <1>1, <2>2 DEF LibInv, LibTypeOK
  <2>4. "IDLE" \in States \ {"INTERACTING", "SAVING_PHASE_1", "SAVING_PHASE_2"}
    BY DEF States
  <2> HIDE DEF msgs
  <2> QED
    BY <1>1, <2>1, <2>2, <2>3, <2>4, QuietAnswerKeeps
<1> QED
  BY <1>2, <1>3

-----------------------------------------------------------------------------
(* ... and the returns of the handlers *)

\* AnswerKeeps, for a client whose innermost handler returns; the one below it, if
\* any, is none of the state the client is in now.
LEMMA ReturnKeeps ==
  ASSUME LibraryConstants, LibInv, NEW c \in Apps, UNCHANGED connVars, frames[c] # <<>>,
         NEW s \in States \ {"INTERACTING", "SAVING_PHASE_1", "SAVING_PHASE_2"}, Become(c, s),
         NEW msgs \in Seq(Messages), Say(c, msgs),
         frames' = [frames EXCEPT ![c] = Tail(@)],
         cancelled' = [cancelled EXCEPT ![c] = FALSE],
         needsSave' \in [Apps -> BOOLEAN], agreed' \in [Apps -> BOOLEAN]
  PROVE  LibInv'
<1>1. /\ frames' \in [Apps -> Seq(Frames)]
      /\ \A d \in Apps : /\ Len(frames'[d]) <= MaxFrames
                         /\ d # c => frames'[d] = frames[d]
  BY Popped DEF LibInv
<1>2. /\ cancelled' \in [Apps -> BOOLEAN] /\ ~cancelled'[c]
      /\ \A d \in Apps : d # c => cancelled'[d] = cancelled[d]
  BY DEF LibInv, LibTypeOK
<1>3. s \in States /\ s # "INTERACTING" /\ s # "SAVING_PHASE_1" /\ s # "SAVING_PHASE_2"
  OBVIOUS
<1> QED
  BY <1>1, <1>2, <1>3, AnswerKeeps, ZenonT(60)

\* After an interaction the client waits for phase 2, or is in the state s.
LEMMA AfterInteractKeeps ==
  ASSUME LibraryConstants, LibInv, NEW c \in Apps, UNCHANGED connVars, frames[c] # <<>>,
         NEW cancel \in BOOLEAN,
         NEW s \in States \ {"INTERACTING", "SAVING_PHASE_1", "SAVING_PHASE_2"},
         NEW msgs \in {<<>>, <<"InteractDone">>, <<"InteractCancel">>},
         AfterInteract(c, cancel, s, msgs),
         frames' = [frames EXCEPT ![c] = Tail(@)],
         cancelled' = [cancelled EXCEPT ![c] = FALSE],
         needsSave' \in [Apps -> BOOLEAN], agreed' \in [Apps -> BOOLEAN]
  PROVE  LibInv'
<1>1. "WAITING_FOR_PHASE_2" \in States \ {"INTERACTING", "SAVING_PHASE_1", "SAVING_PHASE_2"}
  BY DEF States
<1>2. msgs \o <<"Phase2Request">> \in Seq(Messages) /\ msgs \o <<"Done">> \in Seq(Messages)
  BY Sayings, ConcatProperties
<1>3. CASE Become(c, "WAITING_FOR_PHASE_2") /\ Say(c, msgs \o <<"Phase2Request">>)
  BY <1>1, <1>2, <1>3, ReturnKeeps
<1>4. CASE Become(c, s) /\ Say(c, msgs \o <<"Done">>)
  BY <1>2, <1>4, ReturnKeeps
<1> QED
  BY <1>3, <1>4 DEF AfterInteract

\* A handler returns into a place where the next one starts.
LEMMA Swapped ==
  ASSUME LibraryConstants, LibTypeOK, NEW c \in Apps, frames[c] # <<>>, NEW f \in Frames,
         frames' = [frames EXCEPT ![c] = <<f>> \o Tail(@)]
  PROVE  /\ frames' \in [Apps -> Seq(Frames)] /\ frames'[c] # <<>>
         /\ \A d \in Apps : /\ Len(frames'[d]) <= MaxFrames
                            /\ d # c => frames'[d] = frames[d]
<1> DEFINE r == Tail(frames[c])
           t == <<f>> \o r
<1>1. frames[c] \in Seq(Frames) /\ Len(frames[c]) <= MaxFrames /\ Len(frames[c]) \in Nat
  BY DEF LibTypeOK
<1>2. r \in Seq(Frames) /\ Len(r) = Len(frames[c]) - 1
  BY <1>1, HeadTailProperties
<1>3. <<f>> \in Seq(Frames) /\ Len(<<f>>) = 1
  OBVIOUS
<1> HIDE DEF r
<1>4. t \in Seq(Frames) /\ Len(t) = 1 + Len(r)
  BY <1>2, <1>3, ConcatProperties
<1>5. Len(t) = Len(frames[c]) /\ t # <<>>
  BY <1>1, <1>2, <1>4
<1>6. frames' = [frames EXCEPT ![c] = t]
  BY DEF r
<1> HIDE DEF t
<1> QED
  BY <1>1, <1>4, <1>5, <1>6 DEF LibTypeOK

LEMMA QuitRequestedKeeps ==
  ASSUME LibraryConstants, LibInv, NEW c \in Apps, NEW cancel \in BOOLEAN,
         QuitRequestedReturns(c, cancel)
  PROVE  LibInv'
<1> DEFINE off == cancel \/ cancelled[c]
           s == IF cancelled[c] THEN "IDLE" ELSE "FROZEN"
           done == IF cancelled[c] THEN <<>>
                   ELSE IF cancel THEN <<"InteractCancel">> ELSE <<"InteractDone">>
<1>1. off \in BOOLEAN
  BY DEF LibInv, LibTypeOK
<1>2. /\ s \in States \ {"INTERACTING", "SAVING_PHASE_1", "SAVING_PHASE_2"}
      /\ "FROZEN" \in States
      /\ done \in {<<>>, <<"InteractDone">>, <<"InteractCancel">>} /\ done \in Seq(Messages)
  BY Sayings DEF States
<1>3. /\ UNCHANGED connVars /\ frames[c] # <<>>
      /\ cancelled' = [cancelled EXCEPT ![c] = FALSE]
  BY DEF QuitRequestedReturns
<1>4. needsSave' \in [Apps -> BOOLEAN] /\ agreed' \in [Apps -> BOOLEAN]
  BY <1>1 DEF QuitRequestedReturns, LibInv, LibTypeOK
<1>5. \/ /\ Become(c, "FROZEN") /\ Say(c, done)
         /\ frames' = [frames EXCEPT ![c] = <<"save-state after">> \o Tail(@)]
      \/ /\ AfterInteract(c, off, s, done)
         /\ frames' = [frames EXCEPT ![c] = Tail(@)]
  BY DEF QuitRequestedReturns
<1> HIDE DEF off, s, done
<1>6. CASE /\ AfterInteract(c, off, s, done)
           /\ frames' = [frames EXCEPT ![c] = Tail(@)]
  <2>1. PICK x \in BOOLEAN, y \in States \ {"INTERACTING", "SAVING_PHASE_1", "SAVING_PHASE_2"},
             z \in {<<>>, <<"InteractDone">>, <<"InteractCancel">>} : AfterInteract(c, x, y, z)
    BY <1>1, <1>2, <1>6
  <2> QED
    BY <1>3, <1>4, <1>6, <2>1, AfterInteractKeeps
<1>7. CASE /\ Become(c, "FROZEN") /\ Say(c, done)
           /\ frames' = [frames EXCEPT ![c] = <<"save-state after">> \o Tail(@)]
  <2>1. "save-state after" \in Frames
    BY DEF Frames
  <2>2. /\ frames' \in [Apps -> Seq(Frames)] /\ frames'[c] # <<>>
        /\ \A d \in Apps : /\ Len(frames'[d]) <= MaxFrames
                           /\ d # c => frames'[d] = frames[d]
    BY <1>3, <1>7, <2>1, Swapped DEF LibInv
  <2>3. /\ cancelled' \in [Apps -> BOOLEAN]
        /\ \A d \in Apps : d # c => cancelled'[d] = cancelled[d]
    BY <1>3 DEF LibInv, LibTypeOK
  <2>4. ~cancelled'[c]
    BY <1>3 DEF LibInv, LibTypeOK
  <2> QED
    BY <1>2, <1>3, <1>4, <1>7, <2>2, <2>3, <2>4, AnswerKeeps, ZenonT(60)
<1> QED
  BY <1>5, <1>6, <1>7

LEMMA SaveStateKeeps ==
  ASSUME LibraryConstants, LibInv, NEW c \in Apps, SaveStateReturns(c)
  PROVE  LibInv'
<1>1. /\ UNCHANGED connVars /\ UNCHANGED needsSave /\ frames[c] # <<>>
      /\ frames' = [frames EXCEPT ![c] = Tail(@)]
      /\ cancelled' = [cancelled EXCEPT ![c] = FALSE]
  BY DEF SaveStateReturns, LowersCancellation
<1>2. needsSave' \in [Apps -> BOOLEAN] /\ agreed' \in [Apps -> BOOLEAN]
  BY DEF SaveStateReturns, LibInv, LibTypeOK
<1>3. {"IDLE", "FROZEN"} \subseteq States \ {"INTERACTING", "SAVING_PHASE_1", "SAVING_PHASE_2"}
  BY DEF States
<1>4. CASE SavedFirst(c)
  <2>1. \/ Become(c, "IDLE") /\ Say(c, <<>>)
        \/ Become(c, "FROZEN") /\ Say(c, <<"Done">>)
    BY <1>4 DEF SavedFirst
  <2> QED
    BY <1>1, <1>2, <1>3, <2>1, Sayings, ReturnKeeps
<1>5. CASE /\ Head(frames[c]) = "save-state after"
           /\ AfterInteract(c, cancelled[c], IF cancelled[c] THEN "IDLE" ELSE state[c], <<>>)
  <2> DEFINE s == IF cancelled[c] THEN "IDLE" ELSE state[c]
  <2>1. state[c] \in States \ {"INTERACTING", "SAVING_PHASE_1", "SAVING_PHASE_2"}
    BY <1>5 DEF LibInv, LibTypeOK, HandlersFit, StateOfHandler
  <2>2. s \in States \ {"INTERACTING", "SAVING_PHASE_1", "SAVING_PHASE_2"}
    BY <1>3, <2>1
  <2>3. cancelled[c] \in BOOLEAN
    BY DEF LibInv, LibTypeOK
  <2>4. AfterInteract(c, cancelled[c], s, <<>>)
    BY <1>5
  <2> HIDE DEF s
  <2> QED
    BY <1>1, <1>2, <2>2, <2>3, <2>4, AfterInteractKeeps
<1> QED
  BY <1>4, <1>5 DEF SaveStateReturns

LEMMA SaveStateExtendedKeeps ==
  ASSUME LibraryConstants, LibInv, NEW c \in Apps, SaveStateExtendedReturns(c)
  PROVE  LibInv'
<1>1. /\ UNCHANGED connVars /\ UNCHANGED needsSave /\ frames[c] # <<>>
      /\ frames' = [frames EXCEPT ![c] = Tail(@)]
      /\ cancelled' = [cancelled EXCEPT ![c] = FALSE] /\ Say(c, <<"Done">>)
      /\ Become(c, "IDLE") \/ Become(c, "FROZEN")
  BY DEF SaveStateExtendedReturns
<1>2. needsSave' \in [Apps -> BOOLEAN] /\ agreed' \in [Apps -> BOOLEAN]
  BY DEF SaveStateExtendedReturns, LibInv, LibTypeOK
<1>3. {"IDLE", "FROZEN"} \subseteq States \ {"INTERACTING", "SAVING_PHASE_1", "SAVING_PHASE_2"}
  BY DEF States
<1> QED
  BY <1>1, <1>2, <1>3, Sayings, ReturnKeeps

\* A process that dies leaves nothing behind that could come back.
LEMMA CrashKeeps ==
  ASSUME LibraryConstants, LibInv, NEW c \in Apps, ReturnsToNothing(c)
  PROVE  LibInv'
<1>1. link[c] = "none" /\ Crash(c)
  BY DEF ReturnsToNothing
<1>2. /\ frames' \in [Apps -> Seq(Frames)]
      /\ \A d \in Apps : /\ Len(frames'[d]) <= MaxFrames
                         /\ frames'[d] = IF d = c THEN <<>> ELSE frames[d]
  <2>1. <<>> \in Seq(Frames) /\ Len(<<>>) = 0 /\ MaxFrames \in Nat
    BY DEF LibraryConstants
  <2>2. \A d \in Apps : frames'[d] = IF d = c THEN <<>> ELSE frames[d]
    BY <1>1 DEF Crash, LibInv, LibTypeOK
  <2>3. \A d \in Apps : Len(frames[d]) <= MaxFrames /\ 0 <= MaxFrames
    BY <2>1 DEF LibInv, LibTypeOK
  <2>4. \A d \in Apps : Len(frames'[d]) <= MaxFrames
    BY <2>1, <2>2, <2>3
  <2> QED
    BY <1>1, <2>1, <2>2, <2>4 DEF Crash, LibInv, LibTypeOK
<1>3. LibTypeOK'
  BY <1>1, <1>2 DEF Crash, LibInv, LibTypeOK, States
<1>4. HandlersFit'
  BY <1>1, <1>2 DEF Crash, LibInv, LibTypeOK, HandlersFit, StateOfHandler, CancelledInHandler
<1>5. NeverComesBackUnasked'
  BY <1>1 DEF Crash, LibInv, LibTypeOK, NeverComesBackUnasked
<1> QED
  BY <1>3, <1>4, <1>5 DEF LibInv

\* What goes over the connection, and gets lost on it.
LEMMA TransportKeeps ==
  ASSUME LibraryConstants, LibInv, NEW c \in Apps, RequestShutdown(c) \/ Taken(c)
  PROVE  LibInv'
<1>1. UNCHANGED <<state, connVars, saveVars>>
  BY DEF RequestShutdown, Taken
<1>2. toManager' \in [Apps -> Seq(Messages)] /\ \A d \in Apps : Len(toManager'[d]) <= MaxQueue
  <2>1. CASE RequestShutdown(c)
    BY <2>1, Sayings, Said DEF RequestShutdown, LibInv
  <2>2. CASE toManager[c] # <<>> /\ toManager' = [toManager EXCEPT ![c] = Tail(@)]
    <3>1. toManager[c] \in Seq(Messages) /\ Len(toManager[c]) <= MaxQueue /\ Len(toManager[c]) \in Nat
      BY DEF LibInv, LibTypeOK, Messages
    <3>2. Tail(toManager[c]) \in Seq(Messages) /\ Len(Tail(toManager[c])) <= MaxQueue
      BY <2>2, <3>1, HeadTailProperties DEF LibraryConstants
    <3> QED
      BY <2>2, <3>2 DEF LibInv, LibTypeOK, Messages
  <2>3. CASE toManager' = [toManager EXCEPT ![c] = <<"IOError">>]
    <3>1. <<"IOError">> \in Seq(Messages) /\ Len(<<"IOError">>) <= MaxQueue
      BY DEF Messages, LibraryConstants
    <3> QED
      BY <2>3, <3>1 DEF LibInv, LibTypeOK, Messages
  <2> QED
    BY <2>1, <2>2, <2>3 DEF Taken
<1>3. LibTypeOK'
  BY <1>1, <1>2 DEF LibInv, LibTypeOK, Messages, connVars, saveVars
<1>4. HandlersFit' /\ NeverComesBackUnasked'
  BY <1>1 DEF LibInv, HandlersFit, StateOfHandler, CancelledInHandler, NeverComesBackUnasked,
              connVars, saveVars
<1> QED
  BY <1>3, <1>4 DEF LibInv

-----------------------------------------------------------------------------
(* The theorems *)

LEMMA StepKeeps ==
  ASSUME LibraryConstants, LibInv, NEW c \in Apps, LibStep(c)
  PROVE  LibInv'
<1>1. CASE \E m \in ToldByManager : Receive(c, m)
  <2>1. PICK m \in ToldByManager : Receive(c, m)
    BY <1>1
  <2> QED
    BY <2>1, SaveYourselfKeeps, GrantKeeps, SaveCompleteKeeps, ShutdownCancelledKeeps,
       DisconnectKeeps, ConnectionLostKeeps DEF Receive
<1>2. CASE HandlerReturns(c)
  BY <1>2, QuitRequestedKeeps, SaveStateKeeps, SaveStateExtendedKeeps, CrashKeeps DEF HandlerReturns
<1> QED
  BY <1>1, <1>2, OpenKeeps, OpenedKeeps, DisconnectKeeps, TransportKeeps DEF LibStep

LEMMA LibInitOK == LibInit => LibInv
<1> SUFFICES ASSUME LibInit PROVE LibInv
  OBVIOUS
<1>1. \A S : <<>> \in Seq(S)
  OBVIOUS
<1>2. Len(<<>>) = 0 /\ MaxFrames \in Nat /\ MaxQueue \in Nat
  BY LibraryConstants DEF LibraryConstants
<1>3. LibTypeOK
  BY <1>1, <1>2 DEF LibInit, LibTypeOK, States, Links
<1>4. HandlersFit /\ NeverComesBackUnasked
  BY DEF LibInit, HandlersFit, StateOfHandler, CancelledInHandler, NeverComesBackUnasked
<1> QED
  BY <1>3, <1>4 DEF LibInv

\* The library keeps its variables, its handlers and its reconnect timers straight,
\* whatever the session manager says and however often the connection breaks
\* (xfce-session-client-xsmp.c, and the reconnecting of xfce-session-client.c).
THEOREM LibInvariance == LibSpec => []LibInv
<1>1. LibInit => LibInv
  BY LibInitOK
<1>2. LibInv /\ [\E c \in Apps : LibStep(c)]_libVars => LibInv'
  <2> SUFFICES ASSUME LibInv, [\E c \in Apps : LibStep(c)]_libVars PROVE LibInv'
    OBVIOUS
  <2>1. CASE \E c \in Apps : LibStep(c)
    BY <2>1, LibraryConstants, StepKeeps
  <2>2. CASE UNCHANGED libVars
    BY <2>2 DEF libVars, connVars, saveVars, LibInv, LibTypeOK, HandlersFit, StateOfHandler,
                CancelledInHandler, NeverComesBackUnasked
  <2> QED
    BY <2>1, <2>2
<1> QED
  BY <1>1, <1>2, PTL DEF LibSpec

\* Every variable of the library keeps its type, and no queue exceeds its bound.
THEOREM LibTypeCorrect == LibSpec => []LibTypeOK
<1>1. LibInv => LibTypeOK
  BY DEF LibInv
<1> QED
  BY <1>1, LibInvariance, PTL

\* shutdown_cancelled is never left up without a handler that will read it.
THEOREM NoCancellationLeftOver == LibSpec => []CancelledInHandler
<1>1. LibInv => CancelledInHandler
  BY DEF LibInv, HandlersFit
<1> QED
  BY <1>1, LibInvariance, PTL

\* A client that is interacting or saving has the handler of that state on top.
THEOREM HandlersMatchStates == LibSpec => []StateOfHandler
<1>1. LibInv => StateOfHandler
  BY DEF LibInv, HandlersFit
<1> QED
  BY <1>1, LibInvariance, PTL

\* No timer brings back an application that has disconnected.
THEOREM StaysDisconnected == LibSpec => []NeverComesBackUnasked
<1>1. LibInv => NeverComesBackUnasked
  BY DEF LibInv
<1> QED
  BY <1>1, LibInvariance, PTL
=============================================================================
