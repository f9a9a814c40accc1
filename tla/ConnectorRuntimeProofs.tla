----------------------- MODULE ConnectorRuntimeProofs -----------------------
(***************************************************************************)
(* Proofs about ConnectorRuntime for every number of heartbeat-loop slots   *)
(* and every bound on registrations.  The inductive invariant has three     *)
(* parts: the types, the reconnect loops (EpochInv) and the heartbeat loops *)
(* (HbInv); one lemma shows that a step preserves each.                     *)
(***************************************************************************)
EXTENDS ConnectorRuntime, TLAPS

-----------------------------------------------------------------------------
(* The inductive invariant                                                  *)

(* Registrations that have not happened own nothing yet.                    *)
FutureEpochsUntouched ==
    \A e \in Epochs : e > epoch => ws[e] = "none" /\ ~cancelled[e] /\ ~needsRegister[e]

(* start() polls the flag of a registration it made.                        *)
PollsAnEpoch ==
    /\ main = "idle" => epoch = 0
    /\ main \in {"polling", "cancelling"} => epoch \in Epochs

PollingLoopUncancelled == main = "polling" /\ ~stopped => ~cancelled[epoch]

(* No reconnect loop that could report a status survives the flag.          *)
StoppedEndsLoops ==
    /\ status = "stopped" => stopped
    /\ stopped => \A e \in Epochs : cancelled[e] \/ ws[e] \in {"none", "done"}

EpochInv ==
    /\ FutureEpochsUntouched
    /\ PollsAnEpoch
    /\ PollingLoopUncancelled
    /\ StoppedEndsLoops
    /\ OneReconnectLoop

(* Outside the poll and the await of cancel() there is no active heartbeat. *)
HeartbeatOnlyWhilePolling ==
    main \notin {"polling", "cancelling"} => active = NoLoop

(* A heartbeat loop that has not returned belongs to a real registration.   *)
LoopEpochs == \A l \in Loops : loops[l].pc # "ended" => loops[l].epoch \in 1..epoch

(* activeHeartbeat refers to a loop that runs, or to one that returned      *)
(* after asking for a registration.                                         *)
ActiveLoopRuns ==
    active # NoLoop =>
        /\ ~loops[active].stopped
        /\ loops[active].pc = "ended" => needsRegister[epoch]

HbInv ==
    /\ HeartbeatOnlyWhilePolling
    /\ LoopEpochs
    /\ ActiveLoopRuns
    /\ NoOrphanHeartbeat
    /\ HeartbeatTokenCurrent

IInv == TypeOK /\ EpochInv /\ HbInv

USE LoopsAssumption, MaxEpochAssumption
    DEF Epochs, mainVars, hbVars, wsVars, stopVars

-----------------------------------------------------------------------------
(* Types of the heartbeat-loop records                                      *)

LEMMA LoopTypes ==
    /\ EndedLoop \in HbLoop
    /\ \A e \in 0..MaxEpoch : NewLoop(e) \in HbLoop
    /\ \A r \in HbLoop :
          /\ [r EXCEPT !.stopped = TRUE] \in HbLoop
          /\ [r EXCEPT !.pc = "request"] \in HbLoop
          /\ r.failures + 1 < MaxHbFailures =>
                SleepingLoop(r.epoch, r.failures + 1) \in HbLoop
          /\ r.epoch \in 0..MaxEpoch
<1> USE DEF HbLoop
<1>1. EndedLoop \in HbLoop
  BY DEF EndedLoop, MaxHbFailures
<1>2. ASSUME NEW e \in 0..MaxEpoch PROVE NewLoop(e) \in HbLoop
  BY DEF NewLoop, SleepingLoop, MaxHbFailures
<1>3. ASSUME NEW r \in HbLoop PROVE [r EXCEPT !.stopped = TRUE] \in HbLoop
  OBVIOUS
<1>4. ASSUME NEW r \in HbLoop PROVE [r EXCEPT !.pc = "request"] \in HbLoop
  OBVIOUS
<1>5. ASSUME NEW r \in HbLoop, r.failures + 1 < MaxHbFailures
      PROVE  SleepingLoop(r.epoch, r.failures + 1) \in HbLoop
  BY <1>5 DEF MaxHbFailures, SleepingLoop
<1>6. ASSUME NEW r \in HbLoop PROVE r.epoch \in 0..MaxEpoch
  OBVIOUS
<1> QED BY <1>1, <1>2, <1>3, <1>4, <1>5, <1>6

LEMMA InitIInv == Init => IInv
<1> SUFFICES ASSUME Init PROVE IInv
    OBVIOUS
<1>1. TypeOK
  <2>1. loops \in [Loops -> HbLoop]
    BY LoopTypes DEF Init
  <2>2. /\ needsRegister \in [Epochs -> BOOLEAN]
        /\ cancelled \in [Epochs -> BOOLEAN] /\ replaced \subseteq Epochs
    BY DEF Init
  <2>3. ws \in [Epochs -> WsPc]
    BY DEF Init, WsPc
  <2>4. stopped \in BOOLEAN
    BY DEF Init
  <2>5. /\ main \in MainPc /\ attempts \in 0..(MaxRegisterAttempts - 1)
        /\ epoch \in 0..MaxEpoch /\ status \in Statuses
    BY DEF Init, MainPc, Statuses, MaxRegisterAttempts
  <2>6. /\ active \in Loops \cup {NoLoop}
        /\ stopCall \in {"idle", "waiting", "returned"} /\ stopAwaits \in 0..MaxEpoch
    BY DEF Init
  <2> QED BY <2>1, <2>2, <2>3, <2>4, <2>5, <2>6 DEF TypeOK
<1>2. EpochInv
  BY DEF Init, EpochInv, FutureEpochsUntouched, PollsAnEpoch,
         PollingLoopUncancelled, StoppedEndsLoops, OneReconnectLoop
<1>3. HbInv
  BY DEF Init, HbInv, HeartbeatOnlyWhilePolling, LoopEpochs, ActiveLoopRuns,
         NoOrphanHeartbeat, HeartbeatTokenCurrent, LiveLoop, EndedLoop
<1> QED BY <1>1, <1>2, <1>3 DEF IInv

HbTypeOK == loops \in [Loops -> HbLoop] /\ active \in Loops \cup {NoLoop}

LEMMA StopHbType ==
  ASSUME HbTypeOK, stopHttpHeartbeat PROVE HbTypeOK'
BY LoopTypes DEF HbTypeOK, stopHttpHeartbeat

LEMMA StartHbType ==
  ASSUME HbTypeOK, NEW e \in 0..MaxEpoch, startHttpHeartbeat(e) PROVE HbTypeOK'
BY LoopTypes DEF HbTypeOK, startHttpHeartbeat, FreeLoops

LEMMA TypeStep == ASSUME IInv, [Next]_vars PROVE TypeOK'
<1> USE DEF IInv, TypeOK, MainPc, Statuses, WsPc, MaxRegisterAttempts
<1>1. CASE Start
  BY <1>1 DEF Start, nextIteration
<1>2. CASE RegisterOk
  <2>1. epoch + 1 \in 0..MaxEpoch
    BY <1>2 DEF RegisterOk
  <2>2. HbTypeOK'
    BY <1>2, <2>1, StartHbType DEF RegisterOk, HbTypeOK
  <2> QED BY <1>2, <2>1, <2>2 DEF RegisterOk, HbTypeOK
<1>3. CASE RegisterOkAfterStop
  <2>1. epoch + 1 \in 0..MaxEpoch
    BY <1>3 DEF RegisterOkAfterStop
  <2>2. HbTypeOK'
    <3>1. [NewLoop(epoch + 1) EXCEPT !.stopped = TRUE] \in HbLoop
      BY <2>1, LoopTypes
    <3> QED BY <1>3, <3>1 DEF RegisterOkAfterStop, FreeLoops, HbTypeOK
  <2> QED BY <1>3, <2>1, <2>2 DEF RegisterOkAfterStop, HbTypeOK
<1>4. CASE RegisterRejected
  BY <1>4 DEF RegisterRejected, giveUp
<1>5. CASE RegisterServerError
  BY <1>5 DEF RegisterServerError, giveUp
<1>6. CASE RetrySleepDone
  BY <1>6 DEF RetrySleepDone, giveUp
<1>7. CASE PollExit
  <2>1. HbTypeOK'
    BY <1>7, StopHbType DEF PollExit, pollExit, hbVars, HbTypeOK
  <2> QED BY <1>7, <2>1 DEF PollExit, pollExit, cancel, nextIteration, HbTypeOK
<1>8. CASE CancelDone
  <2>1. HbTypeOK'
    BY <1>8, StopHbType DEF CancelDone, HbTypeOK
  <2> QED BY <1>8, <2>1 DEF CancelDone, nextIteration, HbTypeOK
<1>9. CASE Stop
  BY <1>9, LoopTypes DEF Stop, cancel, stopHttpHeartbeat
<1>10. CASE StopAgain
  BY <1>10 DEF StopAgain
<1>11. CASE StopReturn
  BY <1>11 DEF StopReturn
<1>12. ASSUME NEW l \in Loops,
             HbWake(l) \/ HbOk(l) \/ HbUnauthorized(l) \/ HbFail(l)
      PROVE  TypeOK'
  <2>1. CASE HbWake(l)
    BY <2>1, LoopTypes DEF HbWake
  <2>2. CASE HbOk(l)
    BY <2>2, LoopTypes DEF HbOk
  <2>3. CASE HbUnauthorized(l)
    BY <2>3, LoopTypes DEF HbUnauthorized, sessionLost
  <2>4. CASE HbFail(l)
    <3>1. HbTypeOK'
      <4>1. CASE loops[l].failures + 1 >= MaxHbFailures
        BY <2>4, <4>1, LoopTypes DEF HbFail, sessionLost, HbTypeOK
      <4>2. CASE ~(loops[l].failures + 1 >= MaxHbFailures)
        <5>1. loops[l].failures \in 0..2
          BY DEF HbLoop, MaxHbFailures
        <5>2. loops[l].failures + 1 < MaxHbFailures
          BY <4>2, <5>1 DEF MaxHbFailures
        <5>3. SleepingLoop(loops[l].epoch, loops[l].failures + 1) \in HbLoop
          BY <5>2, LoopTypes
        <5> QED BY <2>4, <4>2, <5>3, LoopTypes DEF HbFail, HbTypeOK
      <4> QED BY <4>1, <4>2
    <3>2. needsRegister' \in [Epochs -> BOOLEAN]
      BY <2>4 DEF HbFail, sessionLost
    <3> QED BY <2>4, <3>1, <3>2 DEF HbFail, HbTypeOK
  <2> QED BY <1>12, <2>1, <2>2, <2>3, <2>4
<1>13. ASSUME NEW e \in Epochs,
             \/ ConnectOk(e) \/ ConnectFail(e) \/ BackoffDone(e) \/ ReplacedMsg(e)
             \/ ClosedCancelled(e) \/ ClosedReplaced(e)
             \/ ClosedExpired(e) \/ ClosedDropped(e)
      PROVE  TypeOK'
  <2>1. CASE ConnectOk(e)
    BY <2>1, LoopTypes DEF ConnectOk, stopHttpHeartbeat
  <2>2. CASE ConnectFail(e)
    BY <2>2 DEF ConnectFail
  <2>3. CASE BackoffDone(e)
    BY <2>3 DEF BackoffDone
  <2>4. CASE ReplacedMsg(e)
    BY <2>4 DEF ReplacedMsg
  <2>5. CASE ClosedCancelled(e)
    BY <2>5 DEF ClosedCancelled
  <2>6. CASE ClosedReplaced(e)
    BY <2>6, LoopTypes DEF ClosedReplaced, stopHttpHeartbeat
  <2>7. CASE ClosedExpired(e)
    BY <2>7 DEF ClosedExpired
  <2>8. CASE ClosedDropped(e)
    <3>1. HbTypeOK'
      BY <2>8, StartHbType DEF ClosedDropped, HbTypeOK
    <3> QED BY <2>8, <3>1 DEF ClosedDropped, HbTypeOK
  <2> QED BY <1>13, <2>1, <2>2, <2>3, <2>4, <2>5, <2>6, <2>7, <2>8
<1>14. CASE UNCHANGED vars BY <1>14 DEF vars
<1> QED
  BY <1>1, <1>2, <1>3, <1>4, <1>5, <1>6, <1>7, <1>8, <1>9, <1>10, <1>11, <1>12, <1>13, <1>14 DEF Next

LEMMA EpochStep == ASSUME IInv, [Next]_vars, TypeOK' PROVE EpochInv'
<1> USE DEF IInv, TypeOK, EpochInv, FutureEpochsUntouched, PollsAnEpoch,
           PollingLoopUncancelled, StoppedEndsLoops, OneReconnectLoop, SessionUp
<1>1. CASE Start
  BY <1>1 DEF Start, nextIteration
<1>2. CASE RegisterOk
  BY <1>2 DEF RegisterOk, startHttpHeartbeat, FreeLoops
<1>3. CASE RegisterOkAfterStop
  BY <1>3 DEF RegisterOkAfterStop, FreeLoops
<1>4. CASE RegisterRejected
  BY <1>4 DEF RegisterRejected, giveUp
<1>5. CASE RegisterServerError
  BY <1>5 DEF RegisterServerError, giveUp
<1>6. CASE RetrySleepDone
  BY <1>6 DEF RetrySleepDone, giveUp
<1>7. CASE PollExit
  BY <1>7 DEF PollExit, pollExit, cancel, nextIteration, stopHttpHeartbeat
<1>8. CASE CancelDone
  BY <1>8 DEF CancelDone, nextIteration, stopHttpHeartbeat
<1>9. CASE Stop
  <2>1. \A e \in Epochs : cancelled'[e] = (cancelled[e] \/ e = epoch)
    BY <1>9 DEF Stop, cancel
  <2>2. \A e \in Epochs : e > epoch => ws'[e] = "none"
    BY <1>9 DEF Stop, cancel
  <2>3. /\ main' = main /\ epoch' = epoch /\ stopped' /\ needsRegister' = needsRegister
    BY <1>9 DEF Stop
  <2>4. FutureEpochsUntouched'
    BY <2>1, <2>2, <2>3
  <2>5. OneReconnectLoop' /\ PollsAnEpoch' /\ PollingLoopUncancelled'
    BY <2>1, <2>3
  <2>6. \A e \in Epochs : e < epoch \/ e = epoch \/ e > epoch
    OBVIOUS
  <2>7. StoppedEndsLoops'
    BY <2>1, <2>2, <2>3, <2>6
  <2> QED BY <2>4, <2>5, <2>7
<1>10. CASE StopAgain
  BY <1>10 DEF StopAgain
<1>11. CASE StopReturn
  BY <1>11 DEF StopReturn
<1>12. ASSUME NEW l \in Loops,
             HbWake(l) \/ HbOk(l) \/ HbUnauthorized(l) \/ HbFail(l)
      PROVE  EpochInv'
  <2>1. CASE HbWake(l)
    BY <2>1 DEF HbWake
  <2>2. CASE HbOk(l)
    BY <2>2 DEF HbOk
  <2>3. CASE HbUnauthorized(l)
    BY <2>3 DEF HbUnauthorized, sessionLost, HbInv, LoopEpochs
  <2>4. CASE HbFail(l)
    BY <2>4 DEF HbFail, sessionLost, HbInv, LoopEpochs
  <2> QED BY <1>12, <2>1, <2>2, <2>3, <2>4
<1>13. ASSUME NEW e \in Epochs,
             \/ ConnectOk(e) \/ ConnectFail(e) \/ BackoffDone(e) \/ ReplacedMsg(e)
             \/ ClosedCancelled(e) \/ ClosedReplaced(e)
             \/ ClosedExpired(e) \/ ClosedDropped(e)
      PROVE  EpochInv'
  <2>1. CASE ConnectOk(e)
    BY <2>1 DEF ConnectOk, stopHttpHeartbeat
  <2>2. CASE ConnectFail(e)
    BY <2>2 DEF ConnectFail
  <2>3. CASE BackoffDone(e)
    BY <2>3 DEF BackoffDone
  <2>4. CASE ReplacedMsg(e)
    BY <2>4 DEF ReplacedMsg
  <2>5. CASE ClosedCancelled(e)
    BY <2>5 DEF ClosedCancelled
  <2>6. CASE ClosedReplaced(e)
    BY <2>6 DEF ClosedReplaced, stopHttpHeartbeat
  <2>7. CASE ClosedExpired(e)
    BY <2>7 DEF ClosedExpired
  <2>8. CASE ClosedDropped(e)
    BY <2>8 DEF ClosedDropped, startHttpHeartbeat, FreeLoops
  <2> QED BY <1>13, <2>1, <2>2, <2>3, <2>4, <2>5, <2>6, <2>7, <2>8
<1>14. CASE UNCHANGED vars BY <1>14 DEF vars
<1> QED
  BY <1>1, <1>2, <1>3, <1>4, <1>5, <1>6, <1>7, <1>8, <1>9, <1>10, <1>11, <1>12, <1>13, <1>14 DEF Next

(* stopHttpHeartbeat() reaches the only loop that could send again.         *)
LEMMA StopHbQuiet ==
  ASSUME HbTypeOK, NoOrphanHeartbeat, stopHttpHeartbeat
  PROVE  /\ active' = NoLoop
         /\ \A l \in Loops : loops'[l].pc # "ended" => loops'[l].stopped
         /\ \A l \in Loops : /\ loops'[l].pc = loops[l].pc
                             /\ loops'[l].epoch = loops[l].epoch
BY DEF HbTypeOK, HbLoop, NoOrphanHeartbeat, LiveLoop, stopHttpHeartbeat

LEMMA HbStep == ASSUME IInv, [Next]_vars, TypeOK' PROVE HbInv'
<1> USE DEF IInv, TypeOK, HbInv, HeartbeatOnlyWhilePolling, LoopEpochs,
           ActiveLoopRuns, NoOrphanHeartbeat, HeartbeatTokenCurrent, LiveLoop
<1>1. CASE Start
  BY <1>1 DEF Start, nextIteration
<1>2. CASE RegisterOk
  <2>1. active = NoLoop /\ main' = "polling" /\ epoch' = epoch + 1
    BY <1>2 DEF RegisterOk
  <2>2. PICK l \in FreeLoops : active' = l /\ loops' = [loops EXCEPT ![l] = NewLoop(epoch + 1)]
    BY <1>2, <2>1 DEF RegisterOk, startHttpHeartbeat
  <2>3. \A k \in Loops \ {l} : loops'[k] = loops[k] /\ ~LiveLoop(k)
    BY <2>1, <2>2
  <2>4. loops'[l] = NewLoop(epoch + 1) /\ l \in Loops
    BY <2>2 DEF FreeLoops
  <2> QED BY <2>1, <2>2, <2>3, <2>4 DEF NewLoop, SleepingLoop
<1>3. CASE RegisterOkAfterStop
  BY <1>3 DEF RegisterOkAfterStop, FreeLoops, NewLoop, SleepingLoop
<1>4. CASE RegisterRejected
  BY <1>4 DEF RegisterRejected, giveUp
<1>5. CASE RegisterServerError
  BY <1>5 DEF RegisterServerError, giveUp
<1>6. CASE RetrySleepDone
  BY <1>6 DEF RetrySleepDone, giveUp
<1>7. CASE PollExit
  <2>1. CASE SessionUp(epoch)
    BY <1>7, <2>1 DEF PollExit, pollExit
  <2>2. CASE ~SessionUp(epoch)
    <3>1. stopHttpHeartbeat /\ epoch' = epoch
      BY <1>7, <2>2 DEF PollExit, pollExit
    <3> QED BY <3>1, StopHbQuiet DEF HbTypeOK
  <2> QED BY <2>1, <2>2
<1>8. CASE CancelDone
  BY <1>8 DEF CancelDone, nextIteration, stopHttpHeartbeat
<1>9. CASE Stop
  BY <1>9 DEF Stop, cancel, stopHttpHeartbeat
<1>10. CASE StopAgain
  BY <1>10 DEF StopAgain
<1>11. CASE StopReturn
  BY <1>11 DEF StopReturn
<1>12. ASSUME NEW l \in Loops,
             HbWake(l) \/ HbOk(l) \/ HbUnauthorized(l) \/ HbFail(l)
      PROVE  HbInv'
  <2>1. CASE HbWake(l)
    BY <2>1 DEF HbWake, EndedLoop
  <2>2. CASE HbOk(l)
    BY <2>2 DEF HbOk, EndedLoop, NewLoop, SleepingLoop
  <2>3. CASE HbUnauthorized(l)
    BY <2>3 DEF HbUnauthorized, sessionLost, EndedLoop
  <2>4. CASE HbFail(l)
    <3>1. CASE loops[l].failures + 1 >= MaxHbFailures
      <4>1. sessionLost(l) /\ UNCHANGED <<main, epoch, active>>
        BY <2>4, <3>1 DEF HbFail
      <4> QED BY <4>1 DEF sessionLost, EndedLoop
    <3>2. CASE ~(loops[l].failures + 1 >= MaxHbFailures)
      BY <2>4, <3>2 DEF HbFail, EndedLoop, SleepingLoop
    <3> QED BY <3>1, <3>2
  <2> QED BY <1>12, <2>1, <2>2, <2>3, <2>4
<1>13. ASSUME NEW e \in Epochs,
             \/ ConnectOk(e) \/ ConnectFail(e) \/ BackoffDone(e) \/ ReplacedMsg(e)
             \/ ClosedCancelled(e) \/ ClosedReplaced(e)
             \/ ClosedExpired(e) \/ ClosedDropped(e)
      PROVE  HbInv'
  <2>1. CASE ConnectOk(e)
    BY <2>1 DEF ConnectOk, stopHttpHeartbeat
  <2>2. CASE ConnectFail(e)
    BY <2>2 DEF ConnectFail
  <2>3. CASE BackoffDone(e)
    BY <2>3 DEF BackoffDone
  <2>4. CASE ReplacedMsg(e)
    BY <2>4 DEF ReplacedMsg
  <2>5. CASE ClosedCancelled(e)
    BY <2>5 DEF ClosedCancelled
  <2>6. CASE ClosedReplaced(e)
    BY <2>6 DEF ClosedReplaced, stopHttpHeartbeat
  <2>7. CASE ClosedExpired(e)
    BY <2>7 DEF ClosedExpired
  <2>8. CASE ClosedDropped(e)
    <3>1. e = epoch /\ main = "polling"
      BY <2>8 DEF ClosedDropped, SessionUp, EpochInv, FutureEpochsUntouched, OneReconnectLoop
    <3>2. CASE active # NoLoop
      BY <2>8, <3>2 DEF ClosedDropped, startHttpHeartbeat
    <3>3. CASE active = NoLoop
      <4>1. PICK l \in FreeLoops : active' = l /\ loops' = [loops EXCEPT ![l] = NewLoop(e)]
        BY <2>8, <3>3 DEF ClosedDropped, startHttpHeartbeat
      <4>2. main' = main /\ epoch' = epoch /\ needsRegister' = needsRegister
        BY <2>8 DEF ClosedDropped
      <4>3. epoch \in 1..epoch
        BY <3>1
      <4> QED BY <3>1, <3>3, <4>1, <4>2, <4>3 DEF FreeLoops, NewLoop, SleepingLoop
    <3> QED BY <3>2, <3>3
  <2> QED BY <1>13, <2>1, <2>2, <2>3, <2>4, <2>5, <2>6, <2>7, <2>8
<1>14. CASE UNCHANGED vars BY <1>14 DEF vars
<1> QED
  BY <1>1, <1>2, <1>3, <1>4, <1>5, <1>6, <1>7, <1>8, <1>9, <1>10, <1>11, <1>12, <1>13, <1>14 DEF Next

-----------------------------------------------------------------------------
(* Invariants                                                               *)

(* The inductive invariant holds in every reachable state.                  *)
THEOREM Invariance == Spec => []IInv
<1>1. IInv /\ [Next]_vars => IInv'
  BY TypeStep, EpochStep, HbStep DEF IInv
<1> QED BY InitIInv, <1>1, PTL DEF Spec

(* Type correctness.                                                        *)
THEOREM TypeCorrect == Spec => []TypeOK
<1>1. IInv => TypeOK
  BY DEF IInv
<1> QED BY Invariance, <1>1, PTL

(* runtime.ts never leaves an unstopped HeartbeatLoop that activeHeartbeat  *)
(* does not refer to.                                                       *)
THEOREM NoOrphan == Spec => []NoOrphanHeartbeat
<1>1. IInv => NoOrphanHeartbeat
  BY DEF IInv, HbInv
<1> QED BY Invariance, <1>1, PTL

(* The heartbeat that runs uses the newest session token.                   *)
THEOREM TokenCurrent == Spec => []HeartbeatTokenCurrent
<1>1. IInv => HeartbeatTokenCurrent
  BY DEF IInv, HbInv
<1> QED BY Invariance, <1>1, PTL

(* Only the reconnect loop of the newest registration may redial, and only  *)
(* while start() polls.                                                     *)
THEOREM OneLoop == Spec => []OneReconnectLoop
<1>1. IInv => OneReconnectLoop
  BY DEF IInv, EpochInv
<1> QED BY Invariance, <1>1, PTL

(* When start() has returned no heartbeat loop would send again.            *)
THEOREM ReturnedQuiet == Spec => []ReturnedStartIsQuiet
<1>1. IInv => ReturnedStartIsQuiet
  BY DEF IInv, HbInv, HeartbeatOnlyWhilePolling, NoOrphanHeartbeat, ReturnedStartIsQuiet
<1> QED BY Invariance, <1>1, PTL

-----------------------------------------------------------------------------
(* Action properties                                                        *)

LEMMA RedialStep ==
  ASSUME IInv, Next, NEW x \in Epochs, cancelled[x], ws[x] # "connecting"
  PROVE  ws'[x] # "connecting"
<1> USE DEF IInv, TypeOK, EpochInv, FutureEpochsUntouched
<1>1. CASE Start
  BY <1>1 DEF Start, nextIteration
<1>2. CASE RegisterOk
  BY <1>2 DEF RegisterOk
<1>3. CASE RegisterOkAfterStop
  BY <1>3 DEF RegisterOkAfterStop
<1>4. CASE RegisterRejected
  BY <1>4 DEF RegisterRejected, giveUp
<1>5. CASE RegisterServerError
  BY <1>5 DEF RegisterServerError, giveUp
<1>6. CASE RetrySleepDone
  BY <1>6 DEF RetrySleepDone, giveUp
<1>7. CASE PollExit
  BY <1>7 DEF PollExit, pollExit, cancel, nextIteration
<1>8. CASE CancelDone
  BY <1>8 DEF CancelDone, nextIteration
<1>9. CASE Stop
  BY <1>9 DEF Stop, cancel
<1>10. CASE StopAgain
  BY <1>10 DEF StopAgain
<1>11. CASE StopReturn
  BY <1>11 DEF StopReturn
<1>12. ASSUME NEW l \in Loops,
             HbWake(l) \/ HbOk(l) \/ HbUnauthorized(l) \/ HbFail(l)
      PROVE  ws'[x] # "connecting"
  <2>1. CASE HbWake(l)
    BY <2>1 DEF HbWake
  <2>2. CASE HbOk(l)
    BY <2>2 DEF HbOk
  <2>3. CASE HbUnauthorized(l)
    BY <2>3 DEF HbUnauthorized
  <2>4. CASE HbFail(l)
    BY <2>4 DEF HbFail, sessionLost
  <2> QED BY <1>12, <2>1, <2>2, <2>3, <2>4
<1>13. ASSUME NEW e \in Epochs,
             \/ ConnectOk(e) \/ ConnectFail(e) \/ BackoffDone(e) \/ ReplacedMsg(e)
             \/ ClosedCancelled(e) \/ ClosedReplaced(e)
             \/ ClosedExpired(e) \/ ClosedDropped(e)
      PROVE  ws'[x] # "connecting"
  <2>1. CASE ConnectOk(e)
    BY <2>1 DEF ConnectOk
  <2>2. CASE ConnectFail(e)
    BY <2>2 DEF ConnectFail
  <2>3. CASE BackoffDone(e)
    BY <2>3 DEF BackoffDone
  <2>4. CASE ReplacedMsg(e)
    BY <2>4 DEF ReplacedMsg
  <2>5. CASE ClosedCancelled(e)
    BY <2>5 DEF ClosedCancelled
  <2>6. CASE ClosedReplaced(e)
    BY <2>6 DEF ClosedReplaced
  <2>7. CASE ClosedExpired(e)
    BY <2>7 DEF ClosedExpired
  <2>8. CASE ClosedDropped(e)
    BY <2>8 DEF ClosedDropped
  <2> QED BY <1>13, <2>1, <2>2, <2>3, <2>4, <2>5, <2>6, <2>7, <2>8
<1> QED
  BY <1>1, <1>2, <1>3, <1>4, <1>5, <1>6, <1>7, <1>8, <1>9, <1>10, <1>11, <1>12, <1>13 DEF Next

(* A cancelled reconnect loop starts no further dial.                       *)
THEOREM NeverRedials == Spec => CancelledNeverRedials
<1> DEFINE P == \A e \in Epochs : cancelled[e] /\ ws'[e] = "connecting" => ws[e] = "connecting"
<1>1. IInv /\ [Next]_vars => [P]_vars
  BY RedialStep
<1> QED BY Invariance, <1>1, PTL DEF Spec, CancelledNeverRedials

LEMMA StatusStep ==
  ASSUME IInv, Next, status = "stopped", status' # "stopped"
  PROVE  LateAccept
<1> USE DEF IInv, EpochInv, StoppedEndsLoops, SessionUp, LateAccept
<1>1. CASE Start
  BY <1>1 DEF Start, nextIteration
<1>2. CASE RegisterOk
  BY <1>2 DEF RegisterOk
<1>3. CASE RegisterOkAfterStop
  BY <1>3 DEF RegisterOkAfterStop
<1>4. CASE RegisterRejected
  BY <1>4 DEF RegisterRejected, giveUp
<1>5. CASE RegisterServerError
  BY <1>5 DEF RegisterServerError, giveUp
<1>6. CASE RetrySleepDone
  BY <1>6 DEF RetrySleepDone, giveUp
<1>7. CASE PollExit
  BY <1>7 DEF PollExit, pollExit, nextIteration
<1>8. CASE CancelDone
  BY <1>8 DEF CancelDone, nextIteration
<1>9. CASE Stop
  BY <1>9 DEF Stop
<1>10. CASE StopAgain
  BY <1>10 DEF StopAgain
<1>11. CASE StopReturn
  BY <1>11 DEF StopReturn
<1>12. ASSUME NEW l \in Loops,
             HbWake(l) \/ HbOk(l) \/ HbUnauthorized(l) \/ HbFail(l)
      PROVE  LateAccept
  <2>1. CASE HbWake(l)
    BY <2>1 DEF HbWake
  <2>2. CASE HbOk(l)
    BY <2>2 DEF HbOk
  <2>3. CASE HbUnauthorized(l)
    BY <2>3 DEF HbUnauthorized
  <2>4. CASE HbFail(l)
    BY <2>4 DEF HbFail
  <2> QED BY <1>12, <2>1, <2>2, <2>3, <2>4
<1>13. ASSUME NEW e \in Epochs,
             \/ ConnectOk(e) \/ ConnectFail(e) \/ BackoffDone(e) \/ ReplacedMsg(e)
             \/ ClosedCancelled(e) \/ ClosedReplaced(e)
             \/ ClosedExpired(e) \/ ClosedDropped(e)
      PROVE  LateAccept
  <2>1. CASE ConnectOk(e)
    BY <2>1 DEF ConnectOk, TypeOK
  <2>2. CASE ConnectFail(e)
    BY <2>2 DEF ConnectFail
  <2>3. CASE BackoffDone(e)
    BY <2>3 DEF BackoffDone
  <2>4. CASE ReplacedMsg(e)
    BY <2>4 DEF ReplacedMsg
  <2>5. CASE ClosedCancelled(e)
    BY <2>5 DEF ClosedCancelled
  <2>6. CASE ClosedReplaced(e)
    BY <2>6 DEF ClosedReplaced
  <2>7. CASE ClosedExpired(e)
    BY <2>7 DEF ClosedExpired
  <2>8. CASE ClosedDropped(e)
    BY <2>8 DEF ClosedDropped
  <2> QED BY <1>13, <2>1, <2>2, <2>3, <2>4, <2>5, <2>6, <2>7, <2>8
<1> QED
  BY <1>1, <1>2, <1>3, <1>4, <1>5, <1>6, <1>7, <1>8, <1>9, <1>10, <1>11, <1>12, <1>13 DEF Next

(* "stopped" stays the reported status unless a cancelled dial is accepted. *)
THEOREM StatusSticks == Spec => StoppedStatusSticks
<1> DEFINE P == status = "stopped" /\ status' # "stopped" => LateAccept
<1>1. IInv /\ [Next]_vars => [P]_vars
  BY StatusStep
<1> QED BY Invariance, <1>1, PTL DEF Spec, StoppedStatusSticks

(* Every step but a late accept keeps the session alive.                    *)
LEMMA KeepAliveStep ==
  ASSUME IInv, TypeOK', Next, KeptAlive, ~LateAccept
  PROVE  KeptAlive'
<1> USE DEF KeptAlive
<1>1. SUFFICES ASSUME main' = "polling", ~stopped', ~needsRegister'[epoch'],
                      ~SessionUp(epoch)'
               PROVE  \E l \in Loops : LiveLoop(l)'
  OBVIOUS
<1>2. CASE RegisterOk
  <2>1. active = NoLoop
    BY <1>2 DEF RegisterOk, IInv, HbInv, HeartbeatOnlyWhilePolling
  <2>2. PICK l \in Loops : loops' = [loops EXCEPT ![l] = NewLoop(epoch + 1)]
    BY <1>2, <2>1 DEF RegisterOk, startHttpHeartbeat, FreeLoops
  <2>3. LiveLoop(l)'
    BY <2>2 DEF IInv, TypeOK, LiveLoop, NewLoop, SleepingLoop
  <2> QED BY <2>3
<1>3. CASE Start \/ RegisterOkAfterStop \/ RegisterRejected \/ RegisterServerError
           \/ RetrySleepDone \/ CancelDone
  BY <1>1, <1>3 DEF Start, RegisterOkAfterStop, RegisterRejected, RegisterServerError,
                    RetrySleepDone, CancelDone, nextIteration, giveUp, IInv, TypeOK
<1>4. CASE PollExit
  BY <1>1, <1>4 DEF PollExit, pollExit, nextIteration
<1>5. CASE Stop
  BY <1>1, <1>5 DEF Stop
<1>6. CASE StopAgain \/ StopReturn
  BY <1>1, <1>6 DEF StopAgain, StopReturn, LiveLoop, SessionUp
<1>7. ASSUME NEW l \in Loops,
             HbWake(l) \/ HbOk(l) \/ HbUnauthorized(l) \/ HbFail(l)
      PROVE  \E k \in Loops : LiveLoop(k)'
  <2>1. main = "polling" /\ ~stopped /\ epoch' = epoch /\ ws' = ws
    BY <1>1, <1>7 DEF HbWake, HbOk, HbUnauthorized, HbFail
  <2>2. ~needsRegister[epoch] /\ epoch \in Epochs
    BY <1>1, <1>7, <2>1 DEF HbWake, HbOk, HbUnauthorized, HbFail, sessionLost,
                            IInv, TypeOK, EpochInv, PollsAnEpoch
  <2>3. PICK k \in Loops : LiveLoop(k)
    BY <1>1, <2>1, <2>2 DEF SessionUp
  <2>4. CASE k # l
    BY <1>7, <2>3, <2>4 DEF HbWake, HbOk, HbUnauthorized, HbFail, sessionLost,
                            LiveLoop, IInv, TypeOK
  <2>5. CASE k = l
    <3>1. loops[l].epoch = epoch /\ ~loops[l].stopped
      BY <2>3, <2>5 DEF IInv, HbInv, HeartbeatTokenCurrent, LiveLoop
    <3>2. ~sessionLost(l)
      BY <1>1, <2>1, <2>2, <3>1 DEF sessionLost, IInv, TypeOK
    <3>3. \/ loops' = [loops EXCEPT ![l] = NewLoop(@.epoch)]
          \/ loops' = [loops EXCEPT ![l] = [@ EXCEPT !.pc = "request"]]
          \/ loops' = [loops EXCEPT ![l] = SleepingLoop(@.epoch, @.failures + 1)]
      BY <1>7, <3>1, <3>2 DEF HbWake, HbOk, HbUnauthorized, HbFail
    <3>4. loops[l] \in HbLoop
      BY DEF IInv, TypeOK
    <3>5. LiveLoop(l)'
      BY <3>1, <3>3, <3>4 DEF LiveLoop, NewLoop, SleepingLoop, IInv, TypeOK, HbLoop
    <3> QED BY <3>5
  <2> QED BY <2>4, <2>5
<1>8. ASSUME NEW e \in Epochs,
             \/ ConnectOk(e) \/ ConnectFail(e) \/ BackoffDone(e) \/ ReplacedMsg(e)
             \/ ClosedCancelled(e) \/ ClosedReplaced(e)
             \/ ClosedExpired(e) \/ ClosedDropped(e)
      PROVE  \E k \in Loops : LiveLoop(k)'
  <2>1. main = "polling" /\ ~stopped /\ epoch' = epoch
    BY <1>1, <1>8 DEF ConnectOk, ConnectFail, BackoffDone, ReplacedMsg, ClosedCancelled,
                      ClosedReplaced, ClosedExpired, ClosedDropped
  <2>2. ~needsRegister[epoch] /\ epoch \in Epochs
    BY <1>1, <1>8, <2>1 DEF ConnectOk, ConnectFail, BackoffDone, ReplacedMsg,
         ClosedCancelled, ClosedReplaced, ClosedExpired, ClosedDropped,
         IInv, TypeOK, EpochInv, PollsAnEpoch
  <2>3. ~cancelled[epoch] /\ \A x \in Epochs : x # epoch => cancelled[x] \/ ws[x] = "none"
    BY <2>1, <2>2 DEF IInv, EpochInv, PollingLoopUncancelled, FutureEpochsUntouched,
                      OneReconnectLoop
  <2>4. SessionUp(epoch) \/ \E k \in Loops : LiveLoop(k)
    BY <2>1, <2>2
  <2>5. CASE ConnectOk(e)
    <3>1. ws' = [ws EXCEPT ![e] = "open"] /\ ws[e] = "connecting"
      BY <2>5 DEF ConnectOk
    <3>2. cancelled[e] \/ e = epoch
      BY <2>3, <3>1
    <3>3. ~cancelled[e]
      BY <3>1 DEF LateAccept, IInv, TypeOK
    <3>4. SessionUp(epoch)'
      BY <2>1, <2>2, <3>1, <3>2, <3>3 DEF SessionUp, IInv, TypeOK
    <3> QED BY <1>1, <3>4
  <2>6. CASE ConnectFail(e) \/ BackoffDone(e)
    BY <1>1, <2>1, <2>2, <2>4, <2>6 DEF ConnectFail, BackoffDone, SessionUp, LiveLoop, IInv, TypeOK
  <2>7. CASE ReplacedMsg(e) \/ ClosedCancelled(e)
    BY <1>1, <2>1, <2>2, <2>3, <2>4, <2>7 DEF ReplacedMsg, ClosedCancelled, SessionUp, LiveLoop, IInv, TypeOK
  <2>8. CASE ClosedReplaced(e)
    BY <1>1, <2>8 DEF ClosedReplaced
  <2>9. CASE ClosedExpired(e)
    BY <1>1, <2>1, <2>2, <2>3, <2>9 DEF ClosedExpired, SessionUp, IInv, TypeOK
  <2>10. CASE ClosedDropped(e)
    <3>1. CASE active # NoLoop
      <4>1. loops' = loops /\ active \in Loops
        BY <2>10, <3>1 DEF ClosedDropped, startHttpHeartbeat, IInv, TypeOK
      <4>2. LiveLoop(active)
        BY <2>2, <3>1 DEF LiveLoop, IInv, HbInv, ActiveLoopRuns
      <4> QED BY <4>1, <4>2 DEF LiveLoop
    <3>2. CASE active = NoLoop
      <4>1. PICK k \in Loops : loops' = [loops EXCEPT ![k] = NewLoop(e)]
        BY <2>10, <3>2 DEF ClosedDropped, startHttpHeartbeat, FreeLoops
      <4>2. LiveLoop(k)'
        BY <4>1 DEF LiveLoop, NewLoop, SleepingLoop, IInv, TypeOK
      <4> QED BY <4>2
    <3> QED BY <3>1, <3>2
  <2> QED BY <1>8, <2>5, <2>6, <2>7, <2>8, <2>9, <2>10
<1> QED BY <1>2, <1>3, <1>4, <1>5, <1>6, <1>7, <1>8 DEF Next

(* A registered session loses its last heartbeat and connection only to the *)
(* onConnected() of a dial that was cancelled before it was accepted.       *)
THEOREM KeepAlive == Spec => KeepAliveLostOnlyToLateAccept
<1> DEFINE P == KeptAlive /\ ~KeptAlive' => LateAccept
<1>1. IInv /\ IInv' /\ [Next]_vars => [P]_vars
  BY KeepAliveStep DEF IInv
<1> QED BY Invariance, <1>1, PTL DEF Spec, KeepAliveLostOnlyToLateAccept

-----------------------------------------------------------------------------
(* The refinement                                                           *)

(* A step that moves neither start(), nor the flag, nor stop() is none of   *)
(* the life's.                                                              *)
LEMMA LifeStutters ==
  ASSUME UNCHANGED <<main, stopped, stopCall>>
  PROVE  UNCHANGED Life!vars
BY DEF Life!vars, absLife

LEMMA StartLives ==
  ASSUME Start
  PROVE  Life!Start
BY DEF Start, nextIteration, Life!Start, Life!Started, Life!again, absLife

LEMMA RegisterLives ==
  ASSUME RegisterOk \/ RegisterOkAfterStop \/ RegisterRejected \/ RegisterServerError \/ RetrySleepDone
  PROVE  Life!Register \/ UNCHANGED Life!vars
<1>1. main \in {"registering", "retrySleep"} /\ UNCHANGED <<stopped, stopCall>>
  BY DEF RegisterOk, RegisterOkAfterStop, RegisterRejected, RegisterServerError, RetrySleepDone
<1>2. main' \in {"registering", "retrySleep", "polling", "done"}
  BY DEF RegisterOk, RegisterOkAfterStop, RegisterRejected, RegisterServerError, RetrySleepDone, giveUp
<1>3. absLife = [stopped |-> stopped, at |-> "registering"]
  BY <1>1 DEF absLife
<1>4. CASE main' \in {"registering", "retrySleep"}
  <2>1. absLife' = absLife
    BY <1>1, <1>3, <1>4 DEF absLife
  <2> QED BY <1>1, <2>1 DEF Life!vars
<1>5. CASE main' \in {"polling", "done"}
  <2>1. PICK where \in {"serving", "ended"} : absLife' = [stopped |-> stopped, at |-> where]
    BY <1>1, <1>5 DEF absLife
  <2>2. absLife' = [absLife EXCEPT !.at = where]
    BY <1>3, <2>1
  <2> QED BY <1>1, <1>3, <2>1, <2>2 DEF Life!Register, Life!Registered
<1> QED BY <1>2, <1>4, <1>5

(* start() leaves the poll for the head of its loop, at once or after the   *)
(* session is closed.                                                       *)
LEMMA PollLives ==
  ASSUME IInv, PollExit \/ CancelDone
  PROVE  Life!Expire \/ Life!End \/ UNCHANGED Life!vars
<1>1. main \in {"polling", "cancelling"} /\ UNCHANGED <<stopped, stopCall>> /\ stopped \in BOOLEAN
  BY DEF PollExit, pollExit, CancelDone, IInv, TypeOK
<1>2. main' = "cancelling" \/ nextIteration
  BY DEF PollExit, pollExit, CancelDone
<1>3. absLife = [stopped |-> stopped, at |-> "serving"]
  BY <1>1 DEF absLife
<1>4. CASE main' = "cancelling"
  <2>1. absLife' = absLife
    BY <1>1, <1>3, <1>4 DEF absLife
  <2> QED BY <1>1, <2>1 DEF Life!vars
<1>5. CASE nextIteration /\ stopped
  <2>1. absLife' = [stopped |-> stopped, at |-> "ended"]
    BY <1>1, <1>5 DEF nextIteration, absLife
  <2>2. absLife' = [absLife EXCEPT !.at = "ended"]
    BY <1>3, <2>1
  <2>3. absLife.stopped
    BY <1>3, <1>5
  <2>4. absLife' = Life!again(absLife)
    BY <2>2, <2>3, Zenon DEF Life!again
  <2>5. absLife.at = "serving"
    BY <1>3
  <2> QED BY <1>1, <2>3, <2>4, <2>5 DEF Life!End, Life!Over
<1>6. CASE nextIteration /\ ~stopped
  <2>1. absLife' = [stopped |-> stopped, at |-> "registering"]
    BY <1>1, <1>6 DEF nextIteration, absLife
  <2>2. absLife' = Life!again(absLife)
    BY <1>3, <1>6, <2>1 DEF Life!again
  <2> QED BY <1>1, <1>3, <1>6, <2>2 DEF Life!Expire, Life!Expired
<1> QED BY <1>2, <1>4, <1>5, <1>6

LEMMA StopLives ==
  ASSUME IInv, Stop \/ StopAgain \/ StopReturn
  PROVE  Life!Stop \/ Life!StopReturn
<1>1. /\ UNCHANGED main
      /\ absLife' = [stopped |-> stopped', at |-> absLife.at]
      /\ absLife.stopped = stopped /\ absLife = [stopped |-> stopped, at |-> absLife.at]
  BY DEF Stop, StopAgain, StopReturn, mainVars, absLife
<1>2. CASE Stop
  <2>1. stopped = FALSE /\ stopped' = TRUE /\ stopCall = "idle" /\ stopCall' \in {"waiting", "returned"}
    BY <1>2 DEF Stop, IInv, TypeOK
  <2>2. absLife' = [absLife EXCEPT !.stopped = TRUE] /\ ~absLife.stopped
    <3>1. absLife' = [absLife EXCEPT !.stopped = stopped']
      BY <1>1
    <3>2. ~absLife.stopped
      BY <1>1, <2>1
    <3> QED BY <2>1, <3>1, <3>2, Zenon
  <2> QED BY <2>1, <2>2 DEF Life!Stop, Life!StoppedBy
<1>3. CASE StopAgain
  BY <1>1, <1>3 DEF StopAgain, Life!Stop, Life!StoppedBy, IInv, TypeOK
<1>4. CASE StopReturn
  BY <1>1, <1>4 DEF StopReturn, Life!StopReturn
<1> QED BY <1>2, <1>3, <1>4

(* Only the connection of a registration that is being served can be        *)
(* replaced: the loops of all others were cancelled.                        *)
LEMMA ReplacedLives ==
  ASSUME IInv, NEW e \in Epochs, ClosedReplaced(e)
  PROVE  Life!Replace
<1>1. ~cancelled[e] /\ ws[e] # "none" /\ stopped' /\ UNCHANGED <<main, stopCall>>
  BY DEF ClosedReplaced, SessionUp
<1>2. epoch \in 0..MaxEpoch /\ e <= epoch
  BY <1>1 DEF IInv, TypeOK, EpochInv, FutureEpochsUntouched
<1>3. main = "polling"
  BY <1>1, <1>2 DEF IInv, EpochInv, OneReconnectLoop
<1>4. /\ absLife = [stopped |-> stopped, at |-> "serving"]
      /\ absLife' = [stopped |-> stopped', at |-> "serving"]
  BY <1>1, <1>3 DEF absLife
<1>5. absLife' = [absLife EXCEPT !.stopped = stopped'] /\ absLife.at = "serving"
  BY <1>4
<1>6. stopped' = TRUE
  BY DEF ClosedReplaced
<1>7. absLife' = [absLife EXCEPT !.stopped = TRUE]
  BY <1>5, <1>6, Zenon
<1> QED BY <1>1, <1>5, <1>7 DEF Life!Replace, Life!Replaced

LEMMA LifeStep ==
  ASSUME IInv, [Next]_vars
  PROVE  [Life!Next]_(Life!vars)
<1>1. CASE UNCHANGED vars
  BY <1>1, LifeStutters DEF vars
<1>2. CASE Start
  BY <1>2, StartLives DEF Life!Next
<1>3. CASE RegisterOk \/ RegisterOkAfterStop \/ RegisterRejected \/ RegisterServerError \/ RetrySleepDone
  BY <1>3, RegisterLives DEF Life!Next
<1>4. CASE PollExit \/ CancelDone
  BY <1>4, PollLives DEF Life!Next
<1>5. CASE Stop \/ StopAgain \/ StopReturn
  BY <1>5, StopLives DEF Life!Next
<1>6. ASSUME NEW l \in Loops, HbWake(l) \/ HbOk(l) \/ HbUnauthorized(l) \/ HbFail(l)
      PROVE  UNCHANGED Life!vars
  BY <1>6, LifeStutters DEF HbWake, HbOk, HbUnauthorized, HbFail
<1>7. ASSUME NEW e \in Epochs, \/ ConnectOk(e) \/ ConnectFail(e) \/ BackoffDone(e) \/ ReplacedMsg(e)
                               \/ ClosedCancelled(e) \/ ClosedExpired(e) \/ ClosedDropped(e)
      PROVE  UNCHANGED Life!vars
  BY <1>7, LifeStutters
     DEF ConnectOk, ConnectFail, BackoffDone, ReplacedMsg, ClosedCancelled, ClosedExpired, ClosedDropped
<1>8. ASSUME NEW e \in Epochs, ClosedReplaced(e)
      PROVE  Life!Next
  BY <1>8, ReplacedLives DEF Life!Next
<1> QED BY <1>1, <1>2, <1>3, <1>4, <1>5, <1>6, <1>7, <1>8 DEF Next

(* runtime.ts is the life the bootstrap relies on, but for its fairness:    *)
(* whatever the number of registrations and heartbeat loops, and in every   *)
(* order of answers, timers, closes and stops.                              *)
THEOREM RuntimeLives == Spec => Life!Init /\ [][Life!Next]_(Life!vars)
<1>1. Init => Life!Init
  BY DEF Init, Life!Init, Life!Idle, absLife
<1>2. IInv /\ [Next]_vars => [Life!Next]_(Life!vars)
  BY LifeStep
<1> QED BY <1>1, <1>2, Invariance, PTL DEF Spec
=============================================================================
