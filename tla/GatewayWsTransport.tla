------------------------- MODULE GatewayWsTransport -------------------------
(***************************************************************************)
(* gateway-ws-client.ts: one transport, which is dialled once.  The socket  *)
(* of package ws is external: it connects, delivers the gateway's messages  *)
(* until the gateway's close frame or a failure, also while it is closing   *)
(* by our own request, and emits "close" last.  An action is one event of   *)
(* the socket, one tick of the heartbeat timer or one call.                 *)
(*                                                                         *)
(* Envelopes that are not about the connection go to the router, and what   *)
(* is not an envelope is dropped: neither leaves a trace here.              *)
(***************************************************************************)
EXTENDS Naturals

CONSTANTS
    Closers,        \* callers of close(): cancel() and stop() of the runtime,
    Routing,        \* and calls of the router's route(), for a message
    MaxMessages,    \* bound: messages about the connection
    MaxBeats        \* bound: heartbeats sent

ASSUME ClosersAssumption == Routing \subseteq Closers
ASSUME BoundAssumption == MaxMessages \in Nat /\ MaxBeats \in Nat

VARIABLES
    readyState,         \* of the socket; "none" before connect()
    receiving,          \* the socket may still emit "message"
    received,           \* messages about the connection so far
    promise,            \* what connect() returned
    accepted, settled,  \* its local flags
    heartbeatTimer,     \* this.heartbeatTimer is set
    timers,             \* intervals set and not cleared
    heartbeatSequence,
    closeCall           \* per caller: where its close() is

socketVars == <<readyState, receiving, received>>
dialVars   == <<promise, accepted, settled>>
timerVars  == <<heartbeatTimer, timers>>
vars == <<socketVars, dialVars, timerVars, heartbeatSequence, closeCall>>

-----------------------------------------------------------------------------
Init ==
    /\ readyState = "none" /\ receiving = FALSE /\ received = 0
    /\ promise = "none" /\ accepted = FALSE /\ settled = FALSE
    /\ heartbeatTimer = FALSE /\ timers = 0
    /\ heartbeatSequence = 0
    /\ closeCall = [c \in Closers |-> "none"]

-----------------------------------------------------------------------------
(* Helpers.                                                                 *)

stopHeartbeat ==
    /\ heartbeatTimer' = FALSE
    /\ timers' = IF heartbeatTimer THEN timers - 1 ELSE timers

startHeartbeat ==
    /\ heartbeatTimer' = TRUE
    /\ timers' = IF heartbeatTimer THEN timers ELSE timers + 1

(* The promise of connect() settles once.                                   *)
settleAs(outcome) ==
    /\ settled' = TRUE
    /\ promise' = IF promise = "pending" THEN outcome ELSE promise

(* Fault: neither "close" nor "error" settles a dial.                       *)
rejectUnlessAccepted_Never == UNCHANGED <<settled, promise>>

rejectUnlessAccepted ==
    IF ~accepted /\ ~settled THEN settleAs("rejected") ELSE UNCHANGED <<settled, promise>>

(* The part of close() before its await, on a socket that is not CLOSED.    *)
beginClose ==
    /\ stopHeartbeat
    /\ readyState' = "CLOSING"

-----------------------------------------------------------------------------
(* Calls.                                                                   *)

Connect ==
    /\ promise = "none"
    /\ readyState' = "CONNECTING" /\ promise' = "pending"
    /\ UNCHANGED <<receiving, received, accepted, settled, timerVars,
                   heartbeatSequence, closeCall>>

(* The session has a close() once connect() is resolved; the router closes  *)
(* for a message of the gateway, which may come before the acceptance.      *)
Close(c) ==
    /\ promise = "resolved" \/ (c \in Routing /\ receiving)
    /\ closeCall[c] = "none"
    /\ IF readyState = "CLOSED"
       THEN /\ stopHeartbeat
            /\ closeCall' = [closeCall EXCEPT ![c] = "returned"]
            /\ UNCHANGED readyState
       ELSE /\ beginClose
            /\ closeCall' = [closeCall EXCEPT ![c] = "waiting"]
    /\ UNCHANGED <<receiving, received, dialVars, heartbeatSequence>>

-----------------------------------------------------------------------------
(* Events of the socket.                                                    *)

Opened ==
    /\ readyState = "CONNECTING"
    /\ readyState' = "OPEN" /\ receiving' = TRUE
    /\ UNCHANGED <<received, dialVars, timerVars, heartbeatSequence, closeCall>>

(* A message about the connection; parseRawEnvelope drops what is no envelope. *)
receive ==
    /\ receiving /\ received < MaxMessages
    /\ received' = received + 1
    /\ UNCHANGED <<receiving, heartbeatSequence, closeCall>>

(* Fault: the timer is cleared after it was started, not before.            *)
ConnectionAccepted_StopsAfter ==
    /\ receive
    /\ accepted' = TRUE /\ settleAs("resolved")
    /\ stopHeartbeat
    /\ UNCHANGED readyState

ConnectionAccepted ==
    /\ receive
    /\ accepted' = TRUE /\ settleAs("resolved")
    /\ startHeartbeat
    /\ UNCHANGED readyState

(* A rejection closes the socket, and fails the dial if it is still open.   *)
ConnectionRejected ==
    /\ receive
    /\ beginClose
    /\ IF settled THEN UNCHANGED <<settled, promise>> ELSE settleAs("rejected")
    /\ UNCHANGED accepted

ConnectionReplaced ==
    /\ receive
    /\ beginClose
    /\ UNCHANGED dialVars

(* The gateway's close frame or the end of the stream: nothing is read any  *)
(* more, the "close" event is still to come.                                *)
PeerClosed ==
    /\ receiving
    /\ readyState' = "CLOSING" /\ receiving' = FALSE
    /\ UNCHANGED <<received, dialVars, timerVars, heartbeatSequence, closeCall>>

(* The "error" event; ws has moved to CLOSING by then, and "close" follows. *)
SocketError ==
    /\ readyState = "CONNECTING" \/ receiving
    /\ readyState' = "CLOSING" /\ receiving' = FALSE
    /\ stopHeartbeat
    /\ rejectUnlessAccepted
    /\ UNCHANGED <<received, accepted, heartbeatSequence, closeCall>>

(* Fault: the timer is left to the "error" event and close().               *)
SocketClosed_KeepsTimer ==
    /\ readyState = "CLOSING"
    /\ readyState' = "CLOSED" /\ receiving' = FALSE
    /\ rejectUnlessAccepted
    /\ closeCall' = [c \in Closers |->
                        IF closeCall[c] = "waiting" THEN "returned" ELSE closeCall[c]]
    /\ UNCHANGED <<received, accepted, timerVars, heartbeatSequence>>

SocketClosed ==
    /\ readyState = "CLOSING"
    /\ readyState' = "CLOSED" /\ receiving' = FALSE
    /\ stopHeartbeat
    /\ rejectUnlessAccepted
    /\ closeCall' = [c \in Closers |->
                        IF closeCall[c] = "waiting" THEN "returned" ELSE closeCall[c]]
    /\ UNCHANGED <<received, accepted, heartbeatSequence>>

-----------------------------------------------------------------------------
(* A tick sends only on an open socket; otherwise it does nothing.          *)

(* Fault: the state of the socket is not looked at.                         *)
HeartbeatTick_Unchecked ==
    /\ timers > 0 /\ heartbeatSequence < MaxBeats
    /\ heartbeatSequence' = heartbeatSequence + 1
    /\ UNCHANGED <<socketVars, dialVars, timerVars, closeCall>>

HeartbeatTick ==
    /\ timers > 0 /\ readyState = "OPEN" /\ heartbeatSequence < MaxBeats
    /\ heartbeatSequence' = heartbeatSequence + 1
    /\ UNCHANGED <<socketVars, dialVars, timerVars, closeCall>>

Next ==
    \/ Connect \/ (\E c \in Closers : Close(c))
    \/ Opened \/ ConnectionAccepted \/ ConnectionRejected \/ ConnectionReplaced
    \/ PeerClosed \/ SocketError \/ SocketClosed
    \/ HeartbeatTick

Spec == Init /\ [][Next]_vars

(* ws destroys a socket that does not finish closing within its timeout.    *)
FairSpec == Spec /\ WF_vars(SocketClosed)

-----------------------------------------------------------------------------
(* Properties.                                                              *)

(* Every variable keeps its type; in particular no second interval runs     *)
(* when the gateway accepts a connection again.                             *)
TypeOK ==
    /\ readyState \in {"none", "CONNECTING", "OPEN", "CLOSING", "CLOSED"}
    /\ receiving \in BOOLEAN /\ received \in 0..MaxMessages
    /\ promise \in {"none", "pending", "resolved", "rejected"}
    /\ accepted \in BOOLEAN /\ settled \in BOOLEAN
    /\ heartbeatTimer \in BOOLEAN /\ timers \in 0..1
    /\ heartbeatSequence \in 0..MaxBeats
    /\ closeCall \in [Closers -> {"none", "waiting", "returned"}]

(* A running interval is one that stopHeartbeat can clear, and none is left *)
(* after the close event, although an acceptance read while the socket was  *)
(* closing starts one after close() had cleared it.                         *)
NoOrphanTimer ==
    /\ timers > 0 => heartbeatTimer
    /\ readyState = "CLOSED" => timers = 0

(* A connection that is up has its heartbeat: no message of the gateway     *)
(* and no failure stops it without the socket leaving OPEN.                 *)
UpIsKeptAlive == promise = "resolved" /\ readyState = "OPEN" => timers = 1

(* connect() settles on every path that closes the socket, the ones that    *)
(* close it before the gateway answered among them, and every call of       *)
(* close() returns, also one that comes when somebody else closes it.       *)
CallsSettle ==
    /\ readyState = "CLOSING" ~> promise # "pending"
    /\ \A c \in Closers : closeCall[c] = "waiting" ~> closeCall[c] = "returned"

(* The transport implements WsSession: a dial settles once, heartbeats go   *)
(* out only between the acceptance and the beginning of the close, and a    *)
(* session that is closing is over in the end.                              *)
absSession ==
    CASE promise = "none" -> "none"
      [] promise = "pending" -> "dialing"
      [] promise = "rejected" -> "failed"
      [] OTHER -> CASE readyState = "OPEN" -> "up"
                    [] readyState = "CLOSED" -> "over"
                    [] OTHER -> "ending"

Session == INSTANCE WsSession WITH session <- absSession, beats <- heartbeatSequence

ImplementsSession == Session!FairSpec
=============================================================================
