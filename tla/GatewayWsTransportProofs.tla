---------------------- MODULE GatewayWsTransportProofs ----------------------
(***************************************************************************)
(* Proofs about GatewayWsTransport for any set of callers of close() and    *)
(* any bounds.                                                              *)
(***************************************************************************)
EXTENDS GatewayWsTransport, TLAPS

Settled == promise \in {"resolved", "rejected"}

(* The flags of connect() agree with its promise and with the socket.       *)
DialInStep ==
    /\ promise = "none" <=> readyState = "none"
    /\ settled <=> Settled
    /\ accepted => settled
    /\ promise = "resolved" => readyState # "CONNECTING"
    /\ promise = "rejected" => readyState \in {"CLOSING", "CLOSED"}
    /\ readyState = "CLOSED" => settled

(* There is an interval exactly while heartbeatTimer is set; it runs only   *)
(* on a dial that is settled, and on a socket that may still close.         *)
TimerInStep ==
    /\ heartbeatTimer => timers = 1
    /\ ~heartbeatTimer => timers = 0
    /\ heartbeatTimer => Settled /\ readyState \in {"OPEN", "CLOSING"}

ReceivingInStep == receiving => readyState \in {"OPEN", "CLOSING"}

(* TypeOK in two halves: of the flags and of the rest.                      *)
FlagTypes ==
    /\ receiving \in BOOLEAN /\ accepted \in BOOLEAN
    /\ settled \in BOOLEAN /\ heartbeatTimer \in BOOLEAN

DataTypes ==
    /\ readyState \in {"none", "CONNECTING", "OPEN", "CLOSING", "CLOSED"}
    /\ received \in 0..MaxMessages
    /\ promise \in {"none", "pending", "resolved", "rejected"}
    /\ timers \in 0..1
    /\ heartbeatSequence \in 0..MaxBeats
    /\ closeCall \in [Closers -> {"none", "waiting", "returned"}]

LEMMA TypeHalves == TypeOK <=> FlagTypes /\ DataTypes
  BY DEF TypeOK, FlagTypes, DataTypes

Inv == FlagTypes /\ DataTypes /\ DialInStep /\ TimerInStep /\ ReceivingInStep /\ UpIsKeptAlive

-----------------------------------------------------------------------------
LEMMA InitInv == Init => Inv
<1> SUFFICES ASSUME Init PROVE Inv
  OBVIOUS
<1>1. FlagTypes
  BY DEF Init, FlagTypes
<1>2. DataTypes
  BY BoundAssumption DEF Init, DataTypes
<1>3. DialInStep /\ TimerInStep /\ ReceivingInStep /\ UpIsKeptAlive
  BY DEF Init, DialInStep, TimerInStep, ReceivingInStep, UpIsKeptAlive, Settled
<1>4. QED BY <1>1, <1>2, <1>3 DEF Inv

LEMMA StopClears ==
  ASSUME Inv, stopHeartbeat
  PROVE  heartbeatTimer' \in BOOLEAN /\ ~heartbeatTimer' /\ timers' = 0
<1>1. heartbeatTimer' \in BOOLEAN /\ ~heartbeatTimer'
  BY DEF stopHeartbeat
<1>2. timers' = 0
  BY DEF Inv, DataTypes, TimerInStep, stopHeartbeat
<1>3. QED BY <1>1, <1>2

LEMMA NextInv == Inv /\ [Next]_vars => Inv'
<1> SUFFICES ASSUME Inv, [Next]_vars PROVE Inv'
  OBVIOUS
<1> USE BoundAssumption DEF Inv, FlagTypes, DataTypes, DialInStep, TimerInStep, ReceivingInStep,
    UpIsKeptAlive, Settled
<1>1. CASE Connect
  BY <1>1 DEF Connect, timerVars
<1>2. ASSUME NEW c \in Closers, Close(c) PROVE Inv'
  <2>1. CASE readyState = "CLOSED"
    BY <1>2, <2>1, StopClears DEF Close, dialVars
  <2>2. CASE readyState # "CLOSED"
    <3>1. FlagTypes'
      BY <1>2, <2>2, StopClears DEF Close, beginClose, dialVars
    <3>2. DataTypes'
      BY <1>2, <2>2, StopClears DEF Close, beginClose, dialVars
    <3>3. (DialInStep /\ TimerInStep /\ ReceivingInStep /\ UpIsKeptAlive)'
      BY <1>2, <2>2, StopClears DEF Close, beginClose, dialVars
    <3>4. QED BY <3>1, <3>2, <3>3
  <2>3. QED BY <2>1, <2>2
<1>3. CASE Opened
  BY <1>3 DEF Opened, dialVars, timerVars
<1>4. CASE ConnectionAccepted
  BY <1>4 DEF ConnectionAccepted, receive, settleAs, startHeartbeat
<1>5. CASE ConnectionRejected
  <2>1. FlagTypes'
    BY <1>5, StopClears DEF ConnectionRejected, receive, beginClose, settleAs
  <2>2. DataTypes'
    BY <1>5, StopClears DEF ConnectionRejected, receive, beginClose, settleAs
  <2>3. (DialInStep /\ TimerInStep /\ ReceivingInStep /\ UpIsKeptAlive)'
    BY <1>5, StopClears DEF ConnectionRejected, receive, beginClose, settleAs
  <2>4. QED BY <2>1, <2>2, <2>3
<1>6. CASE ConnectionReplaced
  <2>1. FlagTypes'
    BY <1>6, StopClears DEF ConnectionReplaced, receive, beginClose, dialVars
  <2>2. DataTypes'
    BY <1>6, StopClears DEF ConnectionReplaced, receive, beginClose, dialVars
  <2>3. (DialInStep /\ TimerInStep /\ ReceivingInStep /\ UpIsKeptAlive)'
    BY <1>6, StopClears DEF ConnectionReplaced, receive, beginClose, dialVars
  <2>4. QED BY <2>1, <2>2, <2>3
<1>7. CASE PeerClosed
  BY <1>7 DEF PeerClosed, dialVars, timerVars
<1>8. CASE SocketError
  <2>1. receiving' \in BOOLEAN
    BY <1>8, Zenon DEF SocketError
  <2>2. settled' \in BOOLEAN
    BY <1>8 DEF SocketError, rejectUnlessAccepted, settleAs
  <2>3. FlagTypes'
    BY <2>1, <2>2, <1>8, StopClears DEF SocketError
  <2>4. DataTypes'
    BY <1>8, StopClears DEF SocketError, rejectUnlessAccepted, settleAs
  <2>5. (DialInStep /\ TimerInStep /\ ReceivingInStep /\ UpIsKeptAlive)'
    BY <1>8, StopClears DEF SocketError, rejectUnlessAccepted, settleAs
  <2>6. QED BY <2>3, <2>4, <2>5
<1>9. CASE SocketClosed
  <2>1. receiving' \in BOOLEAN
    BY <1>9, Zenon DEF SocketClosed
  <2>2. settled' \in BOOLEAN
    BY <1>9 DEF SocketClosed, rejectUnlessAccepted, settleAs
  <2>3. FlagTypes'
    BY <2>1, <2>2, <1>9, StopClears DEF SocketClosed
  <2>4. DataTypes'
    BY <1>9, StopClears DEF SocketClosed, rejectUnlessAccepted, settleAs
  <2>5. (DialInStep /\ TimerInStep /\ ReceivingInStep /\ UpIsKeptAlive)'
    BY <1>9, StopClears DEF SocketClosed, rejectUnlessAccepted, settleAs
  <2>6. QED BY <2>3, <2>4, <2>5
<1>10. CASE HeartbeatTick
  BY <1>10 DEF HeartbeatTick, socketVars, dialVars, timerVars
<1>11. CASE UNCHANGED vars
  BY <1>11 DEF vars, socketVars, dialVars, timerVars
<1>12. QED
  BY <1>1, <1>2, <1>3, <1>4, <1>5, <1>6, <1>7, <1>8, <1>9, <1>10, <1>11 DEF Next

LEMMA InvHolds == Spec => []Inv
  BY InitInv, NextInv, PTL DEF Spec

(* Every variable keeps its type, and no second heartbeat interval runs     *)
(* however often the gateway accepts the connection.                        *)
THEOREM TransportTypeCorrect == Spec => []TypeOK
<1>1. Inv => TypeOK
  BY TypeHalves DEF Inv
<1>2. QED BY <1>1, InvHolds, PTL

(* A running interval can be cleared, and the close event leaves none.      *)
THEOREM NoTimerLeft == Spec => []NoOrphanTimer
<1>1. Inv => NoOrphanTimer
  BY DEF Inv, TimerInStep, NoOrphanTimer
<1>2. QED BY <1>1, InvHolds, PTL

(* An accepted connection sends heartbeats as long as its socket is open.   *)
THEOREM KeptAlive == Spec => []UpIsKeptAlive
<1>1. Inv => UpIsKeptAlive
  BY DEF Inv
<1>2. QED BY <1>1, InvHolds, PTL

-----------------------------------------------------------------------------
(* Each step of the transport is a step of WsSession or leaves it alone.    *)

LEMMA InitMaps == Init => Session!Init
  BY DEF Init, Session!Init, absSession

LEMMA StepMaps == Inv /\ Inv' /\ [Next]_vars => [Session!Next]_(Session!vars)
<1> SUFFICES ASSUME Inv, Inv', [Next]_vars PROVE [Session!Next]_(Session!vars)
  OBVIOUS
<1> USE DEF Inv, FlagTypes, DataTypes, DialInStep, TimerInStep, ReceivingInStep, Settled,
    absSession, Session!Next, Session!vars, Session!becomes
<1>1. CASE Connect
  BY <1>1 DEF Connect, Session!Dial
<1>2. ASSUME NEW c \in Closers, Close(c) PROVE [Session!Next]_(Session!vars)
  BY <1>2 DEF Close, beginClose, dialVars, Session!End
<1>3. CASE Opened
  BY <1>3 DEF Opened, dialVars
<1>4. CASE ConnectionAccepted
  BY <1>4 DEF ConnectionAccepted, receive, settleAs, Session!ComeUp, Session!ComeUpLate
<1>5. CASE ConnectionRejected
  BY <1>5 DEF ConnectionRejected, receive, beginClose, settleAs, Session!Fail, Session!End
<1>6. CASE ConnectionReplaced
  BY <1>6 DEF ConnectionReplaced, receive, beginClose, dialVars, Session!End
<1>7. CASE PeerClosed
  BY <1>7 DEF PeerClosed, dialVars, Session!End
<1>8. CASE SocketError
  BY <1>8 DEF SocketError, rejectUnlessAccepted, settleAs, Session!Fail, Session!End
<1>9. CASE SocketClosed
  BY <1>9 DEF SocketClosed, rejectUnlessAccepted, settleAs, Session!Fail, Session!Over
<1>10. CASE HeartbeatTick
  BY <1>10 DEF HeartbeatTick, socketVars, dialVars, timerVars, Session!Beat
<1>11. CASE UNCHANGED vars
  BY <1>11 DEF vars, socketVars, dialVars
<1>12. QED
  BY <1>1, <1>2, <1>3, <1>4, <1>5, <1>6, <1>7, <1>8, <1>9, <1>10, <1>11 DEF Next

(* The transport implements WsSession, its fairness aside: a dial settles   *)
(* once and heartbeats go out only while the session is up.                 *)
THEOREM TransportIsSession == Spec => Session!Spec
<1>1. Init => Session!Init
  BY InitMaps
<1>2. Inv /\ Inv' /\ [Next]_vars => [Session!Next]_(Session!vars)
  BY StepMaps
<1>3. QED BY <1>1, <1>2, InvHolds, PTL DEF Spec, Session!Spec
=============================================================================
