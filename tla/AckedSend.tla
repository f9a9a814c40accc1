----------------------------- MODULE AckedSend ------------------------------
(***************************************************************************)
(* What AckTracker.send promises its caller.  At most MaxCopies copies of   *)
(* the message go out, none after the promise settled or the failure was    *)
(* reported; an ack counts only while the promise is open, and a failure is *)
(* reported before the promise is fulfilled with false, unless the sender   *)
(* was closed; and every promise is fulfilled.                              *)
(***************************************************************************)
EXTENDS Naturals

CONSTANTS
    Calls,      \* calls of send
    MaxCopies   \* copies sent before the sender gives up

VARIABLES
    closed,     \* the sender was closed
    promise,    \* per call: "none", "open", "failing" (being reported), outcome
    copies      \* per call: copies of the message that went out

vars == <<closed, promise, copies>>

Init ==
    /\ closed = FALSE
    /\ promise = [c \in Calls |-> "none"]
    /\ copies = [c \in Calls |-> 0]

becomes(c, from, to) == promise[c] = from /\ promise' = [promise EXCEPT ![c] = to]

Open(c) ==
    /\ ~closed /\ becomes(c, "none", "open")
    /\ copies' = [copies EXCEPT ![c] = 1]
    /\ UNCHANGED closed

Refuse(c) == closed /\ becomes(c, "none", "false") /\ UNCHANGED <<closed, copies>>

Copy(c) ==
    /\ ~closed /\ promise[c] = "open" /\ copies[c] < MaxCopies
    /\ copies' = [copies EXCEPT ![c] = @ + 1]
    /\ UNCHANGED <<closed, promise>>

Acked(c) == becomes(c, "open", "true") /\ UNCHANGED <<closed, copies>>

Fail(c) == becomes(c, "open", "failing") /\ UNCHANGED <<closed, copies>>

GiveUp(c) == becomes(c, "failing", "false") /\ UNCHANGED <<closed, copies>>

Close ==
    /\ ~closed /\ closed' = TRUE
    /\ promise' = [c \in Calls |-> IF promise[c] = "open" THEN "false" ELSE promise[c]]
    /\ UNCHANGED copies

Next ==
    \/ Close
    \/ \E c \in Calls : \/ Open(c) \/ Refuse(c) \/ Copy(c)
                        \/ Acked(c) \/ Fail(c) \/ GiveUp(c)

Spec == Init /\ [][Next]_vars

(* Every open call is fulfilled.                                            *)
FairSpec ==
    /\ Spec
    /\ \A c \in Calls : WF_vars(Acked(c) \/ Fail(c)) /\ WF_vars(GiveUp(c))
=============================================================================
