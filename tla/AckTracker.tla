----------------------------- MODULE AckTracker -----------------------------
(***************************************************************************)
(* ack-tracker.ts: messages that require an ack are sent, sent again after  *)
(* each deadline, and given up after MaxRetries retries.                    *)
(*                                                                         *)
(* Each call of send() has a loop of its own, sendWithRetries, that outlives*)
(* the call's promise; loops and acks meet in the map `pending`, which is   *)
(* keyed by message id.  An action runs from one await to the next.         *)
(*                                                                         *)
(* Messages that require no ack leave no trace in the tracker and are not   *)
(* modelled.                                                                *)
(***************************************************************************)
EXTENDS Naturals

CONSTANTS
    Calls,      \* calls of send
    Ids,        \* message ids
    IdOf,       \* the id of the message of each call
    NoCall,     \* no pending entry
    MaxRetries  \* options.ackMaxRetries

ASSUME IdAssumption == IdOf \in [Calls -> Ids] /\ NoCall \notin Calls
ASSUME RetryAssumption == MaxRetries \in Nat

VARIABLES
    closed,
    pending,    \* per id: the call whose promise is waiting for the ack
    promise,    \* per call: "none", "open", or how it settled
    loop,       \* per call: where sendWithRetries stands
    attempt     \* per call: retries made

vars == <<closed, pending, promise, loop, attempt>>

-----------------------------------------------------------------------------
Init ==
    /\ closed = FALSE
    /\ pending = [m \in Ids |-> NoCall]
    /\ promise = [c \in Calls |-> "none"]
    /\ loop = [c \in Calls |-> "none"]
    /\ attempt = [c \in Calls |-> 0]

Has(c) == pending[IdOf[c]] # NoCall
delete(m) == pending' = [pending EXCEPT ![m] = NoCall]
moveTo(c, where) == loop' = [loop EXCEPT ![c] = where]

(* Fulfilling a promise that has settled has no effect.                     *)
fulfil(c, value) ==
    promise' = [promise EXCEPT ![c] = IF @ = "open" THEN value ELSE @]

-----------------------------------------------------------------------------
(* send                                                                     *)

Send(c) ==
    /\ promise[c] = "none" /\ ~Has(c) /\ ~closed
    /\ pending' = [pending EXCEPT ![IdOf[c]] = c]
    /\ promise' = [promise EXCEPT ![c] = "open"]
    /\ moveTo(c, "sending")
    /\ UNCHANGED <<closed, attempt>>

SendDuplicate(c) ==
    /\ promise[c] = "none" /\ Has(c)
    /\ promise' = [promise EXCEPT ![c] = "thrown"]
    /\ UNCHANGED <<closed, pending, loop, attempt>>

SendClosed(c) ==
    /\ promise[c] = "none" /\ ~Has(c) /\ closed
    /\ promise' = [promise EXCEPT ![c] = "false"]
    /\ UNCHANGED <<closed, pending, loop, attempt>>

-----------------------------------------------------------------------------
(* sendWithRetries                                                          *)

(* The deadline starts when sendFn is done, whatever was acked meanwhile.   *)
Sent(c) ==
    /\ loop[c] = "sending"
    /\ moveTo(c, "waiting")
    /\ UNCHANGED <<closed, pending, promise, attempt>>

(* Fault: the entry of a failed send is left behind.                        *)
SendFails_KeepsEntry(c) ==
    /\ loop[c] = "sending"
    /\ IF Has(c) THEN moveTo(c, "reporting") ELSE moveTo(c, "ended")
    /\ UNCHANGED <<closed, pending, promise, attempt>>

(* sendFn rejects: the failure is reported, unless there is no entry.       *)
SendFails(c) ==
    /\ loop[c] = "sending"
    /\ IF Has(c) THEN moveTo(c, "reporting") ELSE moveTo(c, "ended")
    /\ delete(IdOf[c])
    /\ UNCHANGED <<closed, promise, attempt>>

(* The deadline passed and the entry is gone.                               *)
WakeAcked(c) ==
    /\ loop[c] = "waiting" /\ ~Has(c)
    /\ moveTo(c, "ended")
    /\ UNCHANGED <<closed, pending, promise, attempt>>

(* Fault: the entry is not looked up.                                       *)
WakeRetry_NoLookup(c) ==
    /\ loop[c] = "waiting" /\ attempt[c] < MaxRetries
    /\ moveTo(c, "sending")
    /\ attempt' = [attempt EXCEPT ![c] = @ + 1]
    /\ UNCHANGED <<closed, pending, promise>>

(* The entry is still there: again.  (A closed tracker has no entries.)     *)
WakeRetry(c) ==
    /\ loop[c] = "waiting" /\ Has(c) /\ attempt[c] < MaxRetries
    /\ moveTo(c, "sending")
    /\ attempt' = [attempt EXCEPT ![c] = @ + 1]
    /\ UNCHANGED <<closed, pending, promise>>

WakeGiveUp(c) ==
    /\ loop[c] = "waiting" /\ Has(c) /\ attempt[c] = MaxRetries
    /\ moveTo(c, "reporting")
    /\ delete(IdOf[c])
    /\ UNCHANGED <<closed, promise, attempt>>

(* onFailure is done.                                                       *)
Reported(c) ==
    /\ loop[c] = "reporting"
    /\ moveTo(c, "ended")
    /\ fulfil(c, "false")
    /\ UNCHANGED <<closed, pending, attempt>>

-----------------------------------------------------------------------------
(* handleAck: an ack nobody waits for has no effect.                        *)
HandleAck(m) ==
    /\ ~closed /\ pending[m] # NoCall
    /\ fulfil(pending[m], "true")
    /\ delete(m)
    /\ UNCHANGED <<closed, loop, attempt>>

(* close()                                                                  *)
Close ==
    /\ ~closed
    /\ closed' = TRUE
    /\ pending' = [m \in Ids |-> NoCall]
    /\ promise' = [c \in Calls |-> IF promise[c] = "open" /\ pending[IdOf[c]] = c
                                   THEN "false" ELSE promise[c]]
    /\ UNCHANGED <<loop, attempt>>

Step(c) ==
    Sent(c) \/ SendFails(c) \/ WakeAcked(c) \/ WakeRetry(c) \/ WakeGiveUp(c) \/ Reported(c)

Next ==
    \/ \E c \in Calls : Send(c) \/ SendDuplicate(c) \/ SendClosed(c) \/ Step(c)
    \/ \E m \in Ids : HandleAck(m)
    \/ Close

Spec == Init /\ [][Next]_vars

(* sendFn settles, deadlines pass and onFailure returns.                    *)
FairSpec == Spec /\ \A c \in Calls : WF_vars(Step(c))

-----------------------------------------------------------------------------
(* Properties                                                               *)

(* Type invariant.                                                          *)
TypeOK ==
    /\ closed \in BOOLEAN
    /\ pending \in [Ids -> Calls \cup {NoCall}]
    /\ promise \in [Calls -> {"none", "open", "true", "false", "thrown"}]
    /\ loop \in [Calls -> {"none", "sending", "waiting", "reporting", "ended"}]
    /\ attempt \in [Calls -> 0..MaxRetries]

(* Also when a message id is used again: an entry belongs to a call that is *)
(* open and whose loop will come back for it, so the map does not leak, and *)
(* a closed tracker has none.                                               *)
EntriesAreTended ==
    \A m \in Ids : pending[m] # NoCall =>
        /\ ~closed
        /\ IdOf[pending[m]] = m
        /\ promise[pending[m]] = "open"
        /\ loop[pending[m]] \in {"sending", "waiting"}

(* A call whose message id no other call uses gets what AckedSend promises, *)
(* whatever calls share ids around it.  A copy counts when it is handed to  *)
(* sendFn.                                                                  *)
Owned == {c \in Calls : \A b \in Calls : IdOf[b] = IdOf[c] => b = c}
absPromise == [c \in Owned |-> IF promise[c] = "open" /\ loop[c] = "reporting"
                               THEN "failing" ELSE promise[c]]
absCopies == [c \in Owned |-> IF loop[c] = "none" THEN 0 ELSE attempt[c] + 1]

Promise == INSTANCE AckedSend WITH
    Calls <- Owned, MaxCopies <- MaxRetries + 1, promise <- absPromise, copies <- absCopies

KeepsPromise == Promise!FairSpec

=============================================================================
