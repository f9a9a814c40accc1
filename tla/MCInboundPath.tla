---------------------------- MODULE MCInboundPath ----------------------------
EXTENDS InboundPath

(* All calls are for one request.                                           *)
SharedTurn == [c \in Calls |-> 1]
=============================================================================
