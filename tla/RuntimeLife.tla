---------------------------- MODULE RuntimeLife -----------------------------
(***************************************************************************)
(* What the bootstrap relies on in one ConnectorRuntime: start() registers, *)
(* serves and registers again until the runtime is stopped, by stop() or by *)
(* a replacement; then it ends, and every call comes to an end.             *)
(***************************************************************************)
EXTENDS LifeSteps

VARIABLES
    life,       \* a record of LifeSteps
    stopCall    \* where the caller of stop() is

vars == <<life, stopCall>>

-----------------------------------------------------------------------------
Init == life = Idle /\ stopCall = "idle"

Start    == life' \in Started(life) /\ UNCHANGED stopCall
Register == life' \in Registered(life) /\ UNCHANGED stopCall
Expire   == life' \in Expired(life) /\ UNCHANGED stopCall
Replace  == life' \in Replaced(life) /\ UNCHANGED stopCall
End      == life' \in Over(life) /\ UNCHANGED stopCall

(* stop() waits for the session to close, unless there is none or the       *)
(* runtime is stopped already.                                              *)
Stop ==
    /\ stopCall = "idle"
    /\ life' = StoppedBy(life)
    /\ stopCall' \in IF life.stopped THEN {"returned"} ELSE {"waiting", "returned"}

StopReturn == stopCall = "waiting" /\ stopCall' = "returned" /\ UNCHANGED life

Next == Start \/ Register \/ Expire \/ Replace \/ End \/ Stop \/ StopReturn

(* Registration, a stopped runtime and a call of stop() come to an end.     *)
FairSpec ==
    /\ Init /\ [][Next]_vars
    /\ WF_vars(Start) /\ WF_vars(Register) /\ WF_vars(End) /\ WF_vars(StopReturn)
=============================================================================
