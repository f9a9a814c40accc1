-------------------------- MODULE ConnectorRuntime --------------------------
(***************************************************************************)
(* One ConnectorRuntime object: the register / poll loop of start(), the    *)
(* HTTP heartbeat loops it spawns, the reconnect loop (withReconnect) it    *)
(* creates per registration, and stop().  The program is single-threaded,   *)
(* so an action is the code between two awaits of one of these coroutines.  *)
(*                                                                         *)
(* A registration is an "epoch": the closure needsRegister, the reconnect   *)
(* controller and its WebSocket session belong to one pass of start()'s     *)
(* loop and are indexed by it.  Tokens are not modelled: a heartbeat loop   *)
(* carries the epoch whose session token it was built with.                 *)
(***************************************************************************)
EXTENDS Naturals

CONSTANTS
    Loops,      \* slots for HeartbeatLoop objects alive at the same time
    NoLoop,     \* activeHeartbeat = undefined
    MaxEpoch    \* bound: successful registrations in one behaviour

ASSUME LoopsAssumption == NoLoop \notin Loops
ASSUME MaxEpochAssumption == MaxEpoch \in Nat \ {0}

VARIABLES
    main,           \* where start() is
    attempts,       \* serverErrorAttempts of registerWithRetry
    epoch,          \* registrations so far; reconnectController is this epoch's
    stopped,        \* this.stopped
    status,         \* last state given to onStatus
    needsRegister,  \* the closure variable of each pass of start()
    loops,          \* the HeartbeatLoop objects
    active,         \* this.activeHeartbeat
    ws,             \* where the reconnect loop of each epoch is
    cancelled,      \* its `cancelled` flag
    replaced,       \* history: epochs whose last connection dropped after it
                    \* had got connection.replaced
    stopCall,       \* where the caller's stop() is
    stopAwaits      \* the epoch whose session stop() is closing

mainVars == <<main, attempts, epoch>>
hbVars   == <<loops, active>>
wsVars   == <<ws, cancelled, replaced>>
stopVars == <<stopCall, stopAwaits>>
vars     == <<mainVars, stopped, status, needsRegister, hbVars, wsVars, stopVars>>

-----------------------------------------------------------------------------
Epochs == 1..MaxEpoch

MaxRegisterAttempts == 3
MaxHbFailures == 3

MainPc == {"idle", "registering", "retrySleep", "polling", "cancelling", "done"}
Statuses == {"none", "connecting", "online", "degraded", "error", "stopped"}

(* "closing": close(1000) was called; "replacing": close(4003) was called   *)
(* because connection.replaced arrived; "backoff": asleep before a redial.  *)
WsPc == {"none", "connecting", "open", "closing", "replacing", "backoff", "done"}

HbLoop == [pc : {"sleep", "request", "ended"}, stopped : BOOLEAN,
           failures : 0..(MaxHbFailures - 1), epoch : 0..MaxEpoch]

EndedLoop == [pc |-> "ended", stopped |-> FALSE, failures |-> 0, epoch |-> 0]
SleepingLoop(e, f) == [pc |-> "sleep", stopped |-> FALSE, failures |-> f, epoch |-> e]
NewLoop(e) == SleepingLoop(e, 0)

(* A slot is reused when its loop has returned and nothing refers to it.    *)
FreeLoops == {l \in Loops : loops[l].pc = "ended" /\ l # active}

LiveLoop(l) == loops[l].pc # "ended" /\ ~loops[l].stopped

(* activeSession of epoch e has a socket that is not CLOSED.                *)
SessionUp(e) == e \in Epochs /\ ws[e] \in {"open", "closing", "replacing"}

-----------------------------------------------------------------------------
Init ==
    /\ main = "idle" /\ attempts = 0 /\ epoch = 0
    /\ stopped = FALSE /\ status = "none"
    /\ needsRegister = [e \in Epochs |-> FALSE]
    /\ loops = [l \in Loops |-> EndedLoop] /\ active = NoLoop
    /\ ws = [e \in Epochs |-> "none"]
    /\ cancelled = [e \in Epochs |-> FALSE] /\ replaced = {}
    /\ stopCall = "idle" /\ stopAwaits = 0

startHttpHeartbeat(e) ==
    IF active # NoLoop
    THEN UNCHANGED hbVars
    ELSE \E l \in FreeLoops :
            /\ active' = l
            /\ loops' = [loops EXCEPT ![l] = NewLoop(e)]

(* Fault: the reference is dropped, the loop is not told.                   *)
stopHttpHeartbeat_NoStop == active' = NoLoop /\ UNCHANGED loops

stopHttpHeartbeat ==
    /\ active' = NoLoop
    /\ loops' = [l \in Loops |->
                    IF l = active /\ loops[l].pc # "ended"
                    THEN [loops[l] EXCEPT !.stopped = TRUE]
                    ELSE loops[l]]

(* ReconnectController.cancel: flag, then close the session if there is one *)
cancel(e) ==
    /\ cancelled' = [x \in Epochs |-> cancelled[x] \/ x = e]
    /\ ws' = [x \in Epochs |-> IF x = e /\ ws[x] = "open" THEN "closing" ELSE ws[x]]

(* The head of start()'s while loop.                                        *)
nextIteration ==
    /\ attempts' = 0
    /\ IF stopped
       THEN main' = "done" /\ UNCHANGED status
       ELSE main' = "registering" /\ status' = "connecting"

-----------------------------------------------------------------------------
(* start() and registerWithRetry()                                          *)

Start ==
    /\ main = "idle"
    /\ nextIteration
    /\ UNCHANGED <<epoch, stopped, needsRegister, hbVars, wsVars, stopVars>>

RegisterOk ==
    /\ main = "registering" /\ ~stopped /\ epoch < MaxEpoch
    /\ main' = "polling" /\ attempts' = 0 /\ epoch' = epoch + 1
    /\ startHttpHeartbeat(epoch + 1)
    /\ ws' = [ws EXCEPT ![epoch + 1] = "connecting"]
    /\ UNCHANGED <<stopped, status, needsRegister, cancelled, replaced, stopVars>>

(* Fault: start() returns without the trailing stopHttpHeartbeat().         *)
RegisterOkAfterStop_KeepsHeartbeat ==
    /\ main = "registering" /\ stopped /\ epoch < MaxEpoch
    /\ main' = "done" /\ attempts' = 0 /\ epoch' = epoch + 1
    /\ startHttpHeartbeat(epoch + 1)
    /\ ws' = [ws EXCEPT ![epoch + 1] = "connecting"]
    /\ cancelled' = [cancelled EXCEPT ![epoch + 1] = TRUE]
    /\ UNCHANGED <<stopped, status, needsRegister, replaced, stopVars>>

(* stop() ran while the request was in flight.  Nothing re-reads `stopped`  *)
(* before the loops are started: the heartbeat loop is created and stopped, *)
(* the dial begins and its controller is cancelled, all in this step.       *)
RegisterOkAfterStop ==
    /\ main = "registering" /\ stopped /\ epoch < MaxEpoch
    /\ main' = "done" /\ attempts' = 0 /\ epoch' = epoch + 1
    /\ \E l \in FreeLoops :
          loops' = [loops EXCEPT ![l] = [NewLoop(epoch + 1) EXCEPT !.stopped = TRUE]]
    /\ active' = NoLoop
    /\ ws' = [ws EXCEPT ![epoch + 1] = "connecting"]
    /\ cancelled' = [cancelled EXCEPT ![epoch + 1] = TRUE]
    /\ UNCHANGED <<stopped, status, needsRegister, replaced, stopVars>>

(* Fault: the error is reported even when the runtime was stopped.          *)
giveUp_AlwaysError == main' = "done" /\ attempts' = 0 /\ status' = "error"

(* registerWithRetry returned undefined, so start() returns.                *)
giveUp ==
    /\ main' = "done" /\ attempts' = 0
    /\ status' = IF stopped THEN status ELSE "error"

RegisterRejected ==
    /\ main = "registering"
    /\ giveUp
    /\ UNCHANGED <<epoch, stopped, needsRegister, hbVars, wsVars, stopVars>>

RegisterServerError ==
    /\ main = "registering"
    /\ IF attempts + 1 >= MaxRegisterAttempts
       THEN giveUp
       ELSE main' = "retrySleep" /\ attempts' = attempts + 1 /\ UNCHANGED status
    /\ UNCHANGED <<epoch, stopped, needsRegister, hbVars, wsVars, stopVars>>

RetrySleepDone ==
    /\ main = "retrySleep"
    /\ IF stopped
       THEN giveUp
       ELSE main' = "registering" /\ UNCHANGED <<attempts, status>>
    /\ UNCHANGED <<epoch, stopped, needsRegister, hbVars, wsVars, stopVars>>

(* The poll ends: cancel the controller; with no session to close the await *)
(* falls through to the next iteration.                                     *)
pollExit(due) ==
    /\ main = "polling" /\ due
    /\ cancel(epoch)
    /\ IF SessionUp(epoch)
       THEN main' = "cancelling" /\ UNCHANGED <<attempts, status, hbVars>>
       ELSE nextIteration /\ stopHttpHeartbeat
    /\ UNCHANGED <<epoch, stopped, needsRegister, replaced, stopVars>>

(* Faults: one of the two conditions is not polled; the old reconnect loop  *)
(* is not cancelled; the heartbeat survives the re-registration.            *)
PollExit_StoppedOnly == pollExit(stopped)
PollExit_NeedsRegisterOnly == pollExit(needsRegister[epoch])
PollExit_NoCancel ==
    /\ main = "polling" /\ (stopped \/ needsRegister[epoch])
    /\ nextIteration /\ stopHttpHeartbeat
    /\ UNCHANGED <<epoch, stopped, needsRegister, wsVars, stopVars>>
PollExit_KeepsHeartbeat ==
    /\ main = "polling" /\ (stopped \/ needsRegister[epoch])
    /\ cancel(epoch) /\ nextIteration
    /\ UNCHANGED <<epoch, stopped, needsRegister, hbVars, replaced, stopVars>>

PollExit == pollExit(stopped \/ needsRegister[epoch])

CancelDone ==
    /\ main = "cancelling" /\ ~SessionUp(epoch)
    /\ stopHttpHeartbeat
    /\ nextIteration
    /\ UNCHANGED <<epoch, stopped, needsRegister, wsVars, stopVars>>

-----------------------------------------------------------------------------
(* stop()                                                                   *)

Stop ==
    /\ stopCall = "idle" /\ ~stopped
    /\ stopped' = TRUE /\ status' = "stopped"
    /\ stopHttpHeartbeat
    /\ cancel(epoch)
    /\ stopCall' = IF SessionUp(epoch) THEN "waiting" ELSE "returned"
    /\ stopAwaits' = epoch
    /\ UNCHANGED <<mainVars, needsRegister, replaced>>

StopAgain ==
    /\ stopCall = "idle" /\ stopped
    /\ stopCall' = "returned"
    /\ UNCHANGED <<mainVars, stopped, status, needsRegister, hbVars, wsVars, stopAwaits>>

StopReturn ==
    /\ stopCall = "waiting" /\ ~SessionUp(stopAwaits)
    /\ stopCall' = "returned"
    /\ UNCHANGED <<mainVars, stopped, status, needsRegister, hbVars, wsVars, stopAwaits>>

-----------------------------------------------------------------------------
(* HeartbeatLoop.run: the flag is read after the sleep and at the loop head,*)
(* not between the answer and onNeedsRegister.                              *)

HbWake(l) ==
    /\ loops[l].pc = "sleep"
    /\ loops' = [loops EXCEPT ![l] =
                    IF @.stopped THEN EndedLoop ELSE [@ EXCEPT !.pc = "request"]]
    /\ UNCHANGED <<mainVars, stopped, status, needsRegister, active, wsVars, stopVars>>

HbOk(l) ==
    /\ loops[l].pc = "request"
    /\ loops' = [loops EXCEPT ![l] =
                    IF @.stopped THEN EndedLoop ELSE NewLoop(@.epoch)]
    /\ UNCHANGED <<mainVars, stopped, status, needsRegister, active, wsVars, stopVars>>

(* onNeedsRegister() of the loop's own epoch, and return.  activeHeartbeat   *)
(* still refers to the loop.                                                *)
sessionLost(l) ==
    /\ needsRegister' = [needsRegister EXCEPT ![loops[l].epoch] = TRUE]
    /\ loops' = [loops EXCEPT ![l] = EndedLoop]

HbUnauthorized(l) ==
    /\ loops[l].pc = "request"
    /\ sessionLost(l)
    /\ UNCHANGED <<mainVars, stopped, status, active, wsVars, stopVars>>

HbFail(l) ==
    /\ loops[l].pc = "request"
    /\ IF loops[l].failures + 1 >= MaxHbFailures
       THEN sessionLost(l)
       ELSE /\ loops' = [loops EXCEPT ![l] =
                            IF @.stopped THEN EndedLoop
                            ELSE SleepingLoop(@.epoch, @.failures + 1)]
            /\ UNCHANGED needsRegister
    /\ UNCHANGED <<mainVars, stopped, status, active, wsVars, stopVars>>

-----------------------------------------------------------------------------
(* withReconnect: one loop per epoch.  Its `cancelled` flag is read at the  *)
(* loop head, after the session closed and after a failed dial, but not     *)
(* after a successful one.                                                  *)

(* connection.accepted arrives: connectFn returns after onConnected().      *)
ConnectOk(e) ==
    /\ ws[e] = "connecting"
    /\ ws' = [ws EXCEPT ![e] = "open"]
    /\ stopHttpHeartbeat
    /\ status' = "online"
    /\ UNCHANGED <<mainVars, stopped, needsRegister, cancelled, replaced, stopVars>>

ConnectFail(e) ==
    /\ ws[e] = "connecting"
    /\ ws' = [ws EXCEPT ![e] = IF cancelled[e] THEN "done" ELSE "backoff"]
    /\ UNCHANGED <<mainVars, stopped, status, needsRegister, hbVars, cancelled, replaced, stopVars>>

(* Fault: the loop returns after its backoff.                               *)
BackoffDone_GivesUp(e) ==
    /\ ws[e] = "backoff"
    /\ ws' = [ws EXCEPT ![e] = "done"]
    /\ UNCHANGED <<mainVars, stopped, status, needsRegister, hbVars, cancelled, replaced, stopVars>>

BackoffDone(e) ==
    /\ ws[e] = "backoff"
    /\ ws' = [ws EXCEPT ![e] = IF cancelled[e] THEN "done" ELSE "connecting"]
    /\ replaced' = replaced \ {e}
    /\ UNCHANGED <<mainVars, stopped, status, needsRegister, hbVars, cancelled, stopVars>>

(* connection.replaced arrives: the transport calls close(4003).            *)
ReplacedMsg(e) ==
    /\ ws[e] = "open"
    /\ ws' = [ws EXCEPT ![e] = "replacing"]
    /\ UNCHANGED <<mainVars, stopped, status, needsRegister, hbVars, cancelled, replaced, stopVars>>

ClosedCancelled(e) ==
    /\ SessionUp(e) /\ cancelled[e]
    /\ ws' = [ws EXCEPT ![e] = "done"]
    /\ UNCHANGED <<mainVars, stopped, status, needsRegister, hbVars, cancelled, replaced, stopVars>>

(* Close code 4003: the peer's own, or the peer's echo of ours.             *)
ClosedReplaced(e) ==
    /\ SessionUp(e) /\ ~cancelled[e]
    /\ ws' = [ws EXCEPT ![e] = "done"]
    /\ stopped' = TRUE /\ status' = "stopped"
    /\ stopHttpHeartbeat
    /\ UNCHANGED <<mainVars, needsRegister, cancelled, replaced, stopVars>>

(* Close code 4004, session expired: the peer's own, on a socket that is    *)
(* open or waits for the peer's echo of 4003.                               *)
ClosedExpired(e) ==
    /\ SessionUp(e) /\ ~cancelled[e]
    /\ ws' = [ws EXCEPT ![e] = "done"]
    /\ needsRegister' = [needsRegister EXCEPT ![e] = TRUE]
    /\ UNCHANGED <<mainVars, stopped, status, hbVars, cancelled, replaced, stopVars>>

(* Fault: onDisconnected() does not restart the HTTP heartbeat.             *)
ClosedDropped_NoHeartbeat(e) ==
    /\ SessionUp(e) /\ ~cancelled[e]
    /\ ws' = [ws EXCEPT ![e] = "backoff"]
    /\ status' = "degraded"
    /\ UNCHANGED <<mainVars, stopped, needsRegister, hbVars, cancelled, replaced, stopVars>>

(* Any other code.  A socket in "replacing" ends here with 1006 when the    *)
(* connection drops before the peer echoes the close frame.                 *)
ClosedDropped(e) ==
    /\ SessionUp(e) /\ ~cancelled[e]
    /\ ws' = [ws EXCEPT ![e] = "backoff"]
    /\ replaced' = IF ws[e] = "replacing" THEN replaced \cup {e} ELSE replaced
    /\ startHttpHeartbeat(e)
    /\ status' = "degraded"
    /\ UNCHANGED <<mainVars, stopped, needsRegister, cancelled, stopVars>>

Closed(e) ==
    \/ ClosedCancelled(e)
    \/ ClosedReplaced(e)
    \/ ClosedExpired(e)
    \/ ClosedDropped(e)

-----------------------------------------------------------------------------
RegisterAnswered ==
    RegisterOk \/ RegisterOkAfterStop \/ RegisterRejected \/ RegisterServerError

HbAnswered(l) == HbOk(l) \/ HbUnauthorized(l) \/ HbFail(l)

Next ==
    \/ Start
    \/ RegisterOk \/ RegisterOkAfterStop \/ RegisterRejected \/ RegisterServerError
    \/ RetrySleepDone \/ PollExit \/ CancelDone
    \/ Stop \/ StopAgain \/ StopReturn
    \/ \E l \in Loops : HbWake(l) \/ HbOk(l) \/ HbUnauthorized(l) \/ HbFail(l)
    \/ \E e \in Epochs :
          \/ ConnectOk(e) \/ ConnectFail(e) \/ BackoffDone(e) \/ ReplacedMsg(e)
          \/ ClosedCancelled(e) \/ ClosedReplaced(e)
          \/ ClosedExpired(e) \/ ClosedDropped(e)

Spec == Init /\ [][Next]_vars

(* Timers fire, an HTTP request is answered or fails (the fetch errors are  *)
(* caught), and a socket on which close() was called ends (the ws library   *)
(* destroys it after its close timeout).  Nothing is assumed of a dial: the *)
(* transport has no handshake timeout.  Nobody has to call stop().          *)
Fairness ==
    /\ WF_vars(Start) /\ WF_vars(RegisterAnswered) /\ WF_vars(RetrySleepDone)
    /\ WF_vars(PollExit) /\ WF_vars(CancelDone) /\ WF_vars(StopReturn)
    /\ \A l \in Loops : WF_vars(HbWake(l)) /\ WF_vars(HbAnswered(l))
    /\ \A e \in Epochs :
          /\ WF_vars(BackoffDone(e))
          /\ WF_vars(ws[e] \in {"closing", "replacing"} /\ Closed(e))

FairSpec == Spec /\ Fairness

-----------------------------------------------------------------------------
(* Properties                                                               *)

(* Type invariant of the variables above.                                   *)
TypeOK ==
    /\ main \in MainPc /\ attempts \in 0..(MaxRegisterAttempts - 1)
    /\ epoch \in 0..MaxEpoch
    /\ stopped \in BOOLEAN /\ status \in Statuses
    /\ needsRegister \in [Epochs -> BOOLEAN]
    /\ loops \in [Loops -> HbLoop] /\ active \in Loops \cup {NoLoop}
    /\ ws \in [Epochs -> WsPc] /\ cancelled \in [Epochs -> BOOLEAN]
    /\ replaced \subseteq Epochs
    /\ stopCall \in {"idle", "waiting", "returned"} /\ stopAwaits \in 0..MaxEpoch

(* At most one heartbeat loop will ever send again, and it is the one       *)
(* stopHttpHeartbeat() can reach: across registrations, reconnections and   *)
(* stops no unstopped HeartbeatLoop is left running unreferenced.           *)
NoOrphanHeartbeat ==
    \A l \in Loops : LiveLoop(l) => l = active

(* The running heartbeat uses the newest session token: it was built by the *)
(* registration whose controller reconnectController is.                    *)
HeartbeatTokenCurrent ==
    \A l \in Loops : LiveLoop(l) => loops[l].epoch = epoch

(* Two reconnect loops never both redial: the loop of every registration    *)
(* but the newest has been cancelled, and while start() is outside its poll *)
(* (registering again, retrying, or returned) so has the newest.            *)
OneReconnectLoop ==
    \A e \in Epochs :
        e < epoch \/ (e = epoch /\ main # "polling") => cancelled[e]

(* Once start() has returned, for whichever reason (stop, replacement,      *)
(* rejected or exhausted registration), no heartbeat loop remains that      *)
(* would send again.                                                        *)
ReturnedStartIsQuiet ==
    main = "done" => active = NoLoop /\ \A l \in Loops : ~LiveLoop(l)

(* The session of a polling runtime is kept alive: a heartbeat loop runs,   *)
(* or this registration's own WebSocket is up, or re-registration is due.   *)
KeptAlive ==
    main = "polling" /\ ~stopped /\ ~needsRegister[epoch] =>
        (\E l \in Loops : LiveLoop(l)) \/ SessionUp(epoch)

(* A cancelled dial that is accepted all the same.                          *)
LateAccept == \E e \in Epochs : cancelled[e] /\ ws[e] = "connecting" /\ ws'[e] = "open"

(* The only step that can leave a registered session without heartbeat and  *)
(* without connection is the acceptance of a dial whose loop was cancelled: *)
(* its onConnected() stops the heartbeat of a later registration.           *)
KeepAliveLostOnlyToLateAccept ==
    [][KeptAlive /\ ~KeptAlive' => LateAccept]_vars

(* "stopped" is the last status a user sees, except for that same step,     *)
(* which reports "online".                                                  *)
StoppedStatusSticks ==
    [][status = "stopped" /\ status' # "stopped" => LateAccept]_vars

(* A cancelled reconnect loop finishes the dial it is in and never starts   *)
(* another one.                                                             *)
CancelledNeverRedials ==
    [][\A e \in Epochs : cancelled[e] /\ ws'[e] = "connecting" => ws[e] = "connecting"]_vars

(* A request to register again, by a heartbeat or by close code 4004, is    *)
(* served: start() leaves the poll.                                         *)
NeedsRegisterServed ==
    (main = "polling" /\ needsRegister[epoch]) ~> main # "polling"

(* A dropped connection of a loop that is not cancelled is dialled again,   *)
(* unless the gateway said before it dropped that another connector has     *)
(* taken its place.                                                         *)
DroppedIsRedialled ==
    \A e \in Epochs :
        ws[e] = "backoff" /\ e \notin replaced ~> (ws[e] = "connecting" \/ cancelled[e])

(* The runtime is a RuntimeLife: under every order of answers, timers and    *)
(* closes registration ends, a stopped runtime never registers again and    *)
(* start() returns, and so does stop().                                     *)
absLife == [stopped |-> stopped,
            at |-> CASE main \in {"registering", "retrySleep"} -> "registering"
                     [] main \in {"polling", "cancelling"} -> "serving"
                     [] main = "done" -> "ended"
                     [] OTHER -> main]
Life == INSTANCE RuntimeLife WITH life <- absLife
ImplementsLife == Life!FairSpec

-----------------------------------------------------------------------------
(* What the repository says and the code does not do                        *)

(* After stop() and start() have returned no connection is open or comes    *)
(* up: tests/runtime.test.ts:81, "stops cleanly".                           *)
StopsCleanly ==
    main = "done" /\ stopCall = "returned" => \A e \in Epochs : ~SessionUp(e)

(* A connector whose connection got connection.replaced does not dial       *)
(* again: progress.md:38, it stops and no longer competes with the new      *)
(* connection.                                                              *)
ReplacedStays ==
    [][\A e \in replaced : ws'[e] # "connecting"]_vars
=============================================================================
