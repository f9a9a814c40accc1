----------------------------- MODULE LifeSteps ------------------------------
(***************************************************************************)
(* The life of one ConnectorRuntime as steps on a record: where start() is, *)
(* and the flag `stopped`.  Each operator gives the records a step leads to *)
(* from r, none when r does not allow the step.                             *)
(***************************************************************************)
Lives == [at : {"idle", "registering", "serving", "ended"}, stopped : BOOLEAN]

Idle == [at |-> "idle", stopped |-> FALSE]

Active(r) == r.at \in {"registering", "serving"}

(* The head of start()'s loop.                                              *)
again(r) == [r EXCEPT !.at = IF r.stopped THEN "ended" ELSE "registering"]

Started(r) == IF r.at = "idle" THEN {again(r)} ELSE {}

(* Registration ends in a session or in giving up.                          *)
Registered(r) ==
    IF r.at = "registering"
    THEN {[r EXCEPT !.at = where] : where \in {"serving", "ended"}}
    ELSE {}

(* The session expired, or its heartbeats failed.                           *)
Expired(r) == IF r.at = "serving" /\ ~r.stopped THEN {again(r)} ELSE {}

(* The gateway replaced the connection.                                     *)
Replaced(r) == IF r.at = "serving" THEN {[r EXCEPT !.stopped = TRUE]} ELSE {}

Over(r) == IF r.at = "serving" /\ r.stopped THEN {again(r)} ELSE {}

StoppedBy(r) == [r EXCEPT !.stopped = TRUE]
=============================================================================
