----------------------------- MODULE WsSession ------------------------------
(***************************************************************************)
(* What the reconnect loop relies on in one WebSocket of the gateway: a     *)
(* dial comes up or fails, once; heartbeats are sent only while the session *)
(* is up; a session that stops being up is over after a while and stays so. *)
(***************************************************************************)
EXTENDS Naturals

CONSTANT MaxBeats   \* bound: heartbeats sent

VARIABLES
    session,    \* "none", "dialing", "failed", "up", "ending" or "over"
    beats       \* heartbeats sent

vars == <<session, beats>>

Init == session = "none" /\ beats = 0

becomes(from, to) == session = from /\ session' = to /\ UNCHANGED beats

Dial == becomes("none", "dialing")

Fail == becomes("dialing", "failed")

ComeUp == becomes("dialing", "up")

(* The gateway's acceptance is read after the socket began to close.        *)
ComeUpLate == becomes("dialing", "ending")

End == becomes("up", "ending")

Over == becomes("ending", "over")

Beat ==
    /\ session = "up" /\ beats < MaxBeats
    /\ beats' = beats + 1
    /\ UNCHANGED session

Next == Dial \/ Fail \/ ComeUp \/ ComeUpLate \/ End \/ Over \/ Beat

Spec == Init /\ [][Next]_vars

(* A session that ends is over at last.                                     *)
FairSpec == Spec /\ WF_vars(Over)
=============================================================================
