-------------------------- MODULE AckTrackerProofs --------------------------
(***************************************************************************)
(* The map of the ack tracker does not leak, whatever ids are used, and     *)
(* with ids of their own the calls get what AckedSend promises, for any     *)
(* number of calls, ids and retries.                                        *)
(***************************************************************************)
EXTENDS AckTracker, TLAPS

Tended == TypeOK /\ EntriesAreTended

-----------------------------------------------------------------------------
LEMMA TendedStart ==
  ASSUME Init
  PROVE  Tended
<1>1. attempt \in [Calls -> 0..MaxRetries]
  BY RetryAssumption DEF Init
<1>2. TypeOK
  BY <1>1 DEF Init, TypeOK
<1>3. EntriesAreTended
  BY DEF Init, EntriesAreTended
<1> QED BY <1>2, <1>3 DEF Tended

LEMMA TendedStep ==
  ASSUME Tended, [Next]_vars
  PROVE  Tended'
<1> USE IdAssumption, RetryAssumption
    DEF Tended, TypeOK, EntriesAreTended, Has, delete, moveTo, fulfil
<1>1. ASSUME NEW c \in Calls, Send(c)
      PROVE  Tended'
  BY <1>1 DEF Send
<1>2. ASSUME NEW c \in Calls, SendDuplicate(c)
      PROVE  Tended'
  BY <1>2 DEF SendDuplicate
<1>3. ASSUME NEW c \in Calls, SendClosed(c)
      PROVE  Tended'
  BY <1>3 DEF SendClosed
<1>4. ASSUME NEW c \in Calls, Sent(c)
      PROVE  Tended'
  BY <1>4 DEF Sent
<1>5. ASSUME NEW c \in Calls, SendFails(c)
      PROVE  Tended'
  BY <1>5 DEF SendFails
<1>6. ASSUME NEW c \in Calls, WakeAcked(c)
      PROVE  Tended'
  BY <1>6 DEF WakeAcked
<1>7. ASSUME NEW c \in Calls, WakeRetry(c)
      PROVE  Tended'
  BY <1>7 DEF WakeRetry
<1>8. ASSUME NEW c \in Calls, WakeGiveUp(c)
      PROVE  Tended'
  BY <1>8 DEF WakeGiveUp
<1>9. ASSUME NEW c \in Calls, Reported(c)
      PROVE  Tended'
  BY <1>9 DEF Reported
<1>10. ASSUME NEW m \in Ids, HandleAck(m)
       PROVE  Tended'
  BY <1>10 DEF HandleAck
<1>11. CASE Close
  BY <1>11 DEF Close
<1>12. CASE UNCHANGED vars
  BY <1>12 DEF vars
<1> QED
  BY <1>1, <1>2, <1>3, <1>4, <1>5, <1>6, <1>7, <1>8, <1>9, <1>10, <1>11, <1>12 DEF Next, Step

(* Every variable keeps its type; in particular no call retries more than   *)
(* MaxRetries times, whatever other calls and acks use the same id.         *)
THEOREM TrackerTypeCorrect == Spec => []TypeOK
<1>1. Init => Tended
  BY TendedStart
<1>2. Tended /\ [Next]_vars => Tended'
  BY TendedStep
<1>3. Tended => TypeOK
  BY DEF Tended
<1> QED BY <1>1, <1>2, <1>3, PTL DEF Spec

(* Every entry of the map belongs to an open call whose loop will look it   *)
(* up again, and a closed tracker has no entries.                           *)
THEOREM EntriesTended == Spec => []EntriesAreTended
<1>1. Init => Tended
  BY TendedStart
<1>2. Tended /\ [Next]_vars => Tended'
  BY TendedStep
<1>3. Tended => EntriesAreTended
  BY DEF Tended
<1> QED BY <1>1, <1>2, <1>3, PTL DEF Spec

-----------------------------------------------------------------------------
(* Refinement                                                               *)

(* An owned call is open while it has its entry or its failure is being      *)
(* reported.                                                                *)
CallsInStep ==
    \A c \in Owned :
        /\ loop[c] = "none" => attempt[c] = 0 /\ promise[c] # "open"
        /\ promise[c] = "none" => loop[c] = "none"
        /\ promise[c] = "open" <=> pending[IdOf[c]] = c \/ loop[c] = "reporting"
        /\ promise[c] # "thrown"

Linked == Tended /\ CallsInStep

LEMMA LinkedStart ==
  ASSUME Init
  PROVE  Linked
<1>1. CallsInStep
  BY IdAssumption DEF Init, Owned, CallsInStep
<1> QED BY <1>1, TendedStart DEF Linked

LEMMA LinkedStep ==
  ASSUME Linked, [Next]_vars, Tended'
  PROVE  CallsInStep'
<1> USE IdAssumption, RetryAssumption
    DEF Owned, Linked, CallsInStep, Tended, TypeOK, EntriesAreTended, Has, delete, moveTo, fulfil
<1>1. ASSUME NEW c \in Calls, Send(c)
      PROVE  CallsInStep'
  BY <1>1 DEF Send
<1>2. ASSUME NEW c \in Calls, SendDuplicate(c)
      PROVE  CallsInStep'
  BY <1>2 DEF SendDuplicate
<1>3. ASSUME NEW c \in Calls, SendClosed(c)
      PROVE  CallsInStep'
  BY <1>3 DEF SendClosed
<1>4. ASSUME NEW c \in Calls, Sent(c)
      PROVE  CallsInStep'
  BY <1>4 DEF Sent
<1>5. ASSUME NEW c \in Calls, SendFails(c)
      PROVE  CallsInStep'
  BY <1>5 DEF SendFails
<1>6. ASSUME NEW c \in Calls, WakeAcked(c)
      PROVE  CallsInStep'
  BY <1>6 DEF WakeAcked
<1>7. ASSUME NEW c \in Calls, WakeRetry(c)
      PROVE  CallsInStep'
  BY <1>7 DEF WakeRetry
<1>8. ASSUME NEW c \in Calls, WakeGiveUp(c)
      PROVE  CallsInStep'
  BY <1>8 DEF WakeGiveUp
<1>9. ASSUME NEW c \in Calls, Reported(c)
      PROVE  CallsInStep'
  BY <1>9 DEF Reported
<1>10. ASSUME NEW m \in Ids, HandleAck(m)
       PROVE  CallsInStep'
  BY <1>10 DEF HandleAck
<1>11. CASE Close
  BY <1>11 DEF Close
<1>12. CASE UNCHANGED vars
  BY <1>12 DEF vars
<1> QED
  BY <1>1, <1>2, <1>3, <1>4, <1>5, <1>6, <1>7, <1>8, <1>9, <1>10, <1>11, <1>12 DEF Next, Step

LEMMA FirstCopy ==
  ASSUME TypeOK, NEW c \in Owned, loop[c] = "none", attempt[c] = 0,
         attempt' = attempt, loop' = [loop EXCEPT ![c] = "sending"]
  PROVE  absCopies' = [absCopies EXCEPT ![c] = 1]
<1>1. ASSUME NEW b \in Owned
      PROVE  absCopies'[b] = IF b = c THEN 1 ELSE absCopies[b]
  BY DEF TypeOK, Owned, absCopies
<1> QED BY <1>1 DEF absCopies

LEMMA StartsReporting ==
  ASSUME TypeOK, NEW c \in Owned, promise[c] = "open",
         promise' = promise, loop' = [loop EXCEPT ![c] = "reporting"]
  PROVE  absPromise' = [absPromise EXCEPT ![c] = "failing"]
<1>1. ASSUME NEW b \in Owned
      PROVE  absPromise'[b] = IF b = c THEN "failing" ELSE absPromise[b]
  BY DEF TypeOK, Owned, absPromise
<1> QED BY <1>1 DEF absPromise

(* What happens to a call that shares its id is not seen by AckedSend.      *)
LEMMA OtherCalls ==
  ASSUME TypeOK, closed' = closed,
         \A b \in Owned : promise'[b] = promise[b] /\ loop'[b] = loop[b] /\ attempt'[b] = attempt[b]
  PROVE  UNCHANGED Promise!vars
BY DEF absPromise, absCopies, Promise!vars

LEMMA ImplementsStep ==
  ASSUME Linked, [Next]_vars, Tended'
  PROVE  [Promise!Next]_(Promise!vars)
<1> USE IdAssumption, RetryAssumption
    DEF Owned, Linked, CallsInStep, Tended, TypeOK, EntriesAreTended, Has, delete, moveTo, fulfil,
        Promise!vars, Promise!becomes
<1>1. ASSUME NEW c \in Owned, Send(c)
      PROVE  [Promise!Next]_(Promise!vars)
  <2>1. absPromise' = [absPromise EXCEPT ![c] = "open"]
    BY <1>1 DEF Send, absPromise
  <2>2. absCopies' = [absCopies EXCEPT ![c] = 1]
    <3>1. loop[c] = "none" /\ attempt[c] = 0 /\ attempt' = attempt
      BY <1>1 DEF Send
    <3>2. loop' = [loop EXCEPT ![c] = "sending"]
      BY <1>1 DEF Send
    <3> QED BY <3>1, <3>2, FirstCopy
  <2>3. Promise!Open(c)
    BY <1>1, <2>1, <2>2 DEF Send, Promise!Open, absPromise, absCopies
  <2> QED BY <1>1, <2>3 DEF Send, Promise!Next
<1>2. ASSUME NEW c \in Owned, SendDuplicate(c)
      PROVE  [Promise!Next]_(Promise!vars)
  BY <1>2 DEF SendDuplicate, absPromise, absCopies
<1>3. ASSUME NEW c \in Owned, SendClosed(c)
      PROVE  [Promise!Next]_(Promise!vars)
  <2>1. absPromise' = [absPromise EXCEPT ![c] = "false"]
    BY <1>3 DEF SendClosed, absPromise
  <2>2. absCopies' = absCopies
    BY <1>3 DEF SendClosed, absCopies
  <2>3. Promise!Refuse(c)
    BY <1>3, <2>1, <2>2 DEF SendClosed, Promise!Refuse, absPromise, absCopies
  <2> QED BY <1>3, <2>3 DEF SendClosed, Promise!Next
<1>4. ASSUME NEW c \in Owned, Sent(c)
      PROVE  [Promise!Next]_(Promise!vars)
  BY <1>4 DEF Sent, absPromise, absCopies
<1>5. ASSUME NEW c \in Owned, SendFails(c)
      PROVE  [Promise!Next]_(Promise!vars)
  <2>1. CASE Has(c)
    <3>1. absPromise' = [absPromise EXCEPT ![c] = "failing"]
      <4>1. promise[c] = "open" /\ promise' = promise
        BY <1>5, <2>1 DEF SendFails
      <4>2. loop' = [loop EXCEPT ![c] = "reporting"]
        BY <1>5, <2>1 DEF SendFails
      <4> QED BY <4>1, <4>2, StartsReporting
    <3>2. absCopies' = absCopies
      BY <1>5, <2>1 DEF SendFails, absCopies
    <3>3. Promise!Fail(c)
      BY <1>5, <2>1, <3>1, <3>2 DEF SendFails, Promise!Fail, absPromise
    <3> QED BY <3>3 DEF Promise!Next
  <2>2. CASE ~Has(c)
    BY <1>5, <2>2 DEF SendFails, absPromise, absCopies
  <2> QED BY <2>1, <2>2
<1>6. ASSUME NEW c \in Owned, WakeAcked(c)
      PROVE  [Promise!Next]_(Promise!vars)
  BY <1>6 DEF WakeAcked, absPromise, absCopies
<1>7. ASSUME NEW c \in Owned, WakeRetry(c)
      PROVE  [Promise!Next]_(Promise!vars)
  <2>1. absPromise' = absPromise
    BY <1>7 DEF WakeRetry, absPromise
  <2>2. absCopies' = [absCopies EXCEPT ![c] = @ + 1]
    BY <1>7 DEF WakeRetry, absCopies
  <2>3. Promise!Copy(c)
    BY <1>7, <2>1, <2>2 DEF WakeRetry, Promise!Copy, absPromise, absCopies
  <2> QED BY <1>7, <2>3 DEF WakeRetry, Promise!Next
<1>8. ASSUME NEW c \in Owned, WakeGiveUp(c)
      PROVE  [Promise!Next]_(Promise!vars)
  <2>1. absPromise' = [absPromise EXCEPT ![c] = "failing"]
    <3>1. promise[c] = "open" /\ promise' = promise
      BY <1>8 DEF WakeGiveUp
    <3>2. loop' = [loop EXCEPT ![c] = "reporting"]
      BY <1>8 DEF WakeGiveUp
    <3> QED BY <3>1, <3>2, StartsReporting
  <2>2. absCopies' = absCopies
    BY <1>8 DEF WakeGiveUp, absCopies
  <2>3. Promise!Fail(c)
    BY <1>8, <2>1, <2>2 DEF WakeGiveUp, Promise!Fail, absPromise, absCopies
  <2> QED BY <1>8, <2>3 DEF WakeGiveUp, Promise!Next
<1>9. ASSUME NEW c \in Owned, Reported(c)
      PROVE  [Promise!Next]_(Promise!vars)
  <2>1. absPromise' = [absPromise EXCEPT ![c] = "false"]
    BY <1>9 DEF Reported, absPromise
  <2>2. absCopies' = absCopies
    BY <1>9 DEF Reported, absCopies
  <2>3. Promise!GiveUp(c)
    BY <1>9, <2>1, <2>2 DEF Reported, Promise!GiveUp, absPromise, absCopies
  <2> QED BY <1>9, <2>3 DEF Reported, Promise!Next
<1>10. ASSUME NEW m \in Ids, HandleAck(m), pending[m] \in Owned
       PROVE  [Promise!Next]_(Promise!vars)
  <2> DEFINE c == pending[m]
  <2>1. c \in Owned /\ loop[c] # "reporting" /\ promise[c] = "open"
    BY <1>10 DEF HandleAck
  <2>2. absPromise' = [absPromise EXCEPT ![c] = "true"]
    BY <1>10, <2>1 DEF HandleAck, absPromise
  <2>3. absCopies' = absCopies
    BY <1>10 DEF HandleAck, absCopies
  <2>4. Promise!Acked(c)
    BY <1>10, <2>1, <2>2, <2>3 DEF HandleAck, Promise!Acked, absPromise
  <2> QED BY <2>1, <2>4 DEF Promise!Next
<1>11. CASE Close
  <2>1. absPromise' = [c \in Owned |-> IF absPromise[c] = "open" THEN "false" ELSE absPromise[c]]
    BY <1>11 DEF Close, absPromise
  <2>2. absCopies' = absCopies
    BY <1>11 DEF Close, absCopies
  <2> QED BY <1>11, <2>1, <2>2 DEF Close, Promise!Close, Promise!Next
<1>12. CASE UNCHANGED vars
  BY <1>12 DEF vars, absPromise, absCopies
<1>13. ASSUME NEW c \in Calls \ Owned, Send(c) \/ SendDuplicate(c) \/ SendClosed(c) \/ Step(c)
       PROVE  UNCHANGED Promise!vars
  <2>1. closed' = closed
    BY <1>13 DEF Send, SendDuplicate, SendClosed, Step, Sent, SendFails, WakeAcked, WakeRetry,
                 WakeGiveUp, Reported
  <2>2. \A b \in Owned : promise'[b] = promise[b] /\ loop'[b] = loop[b] /\ attempt'[b] = attempt[b]
    BY <1>13 DEF Send, SendDuplicate, SendClosed, Step, Sent, SendFails, WakeAcked, WakeRetry,
                 WakeGiveUp, Reported
  <2> QED BY <2>1, <2>2, OtherCalls
<1>14. ASSUME NEW m \in Ids, HandleAck(m), pending[m] \notin Owned
       PROVE  UNCHANGED Promise!vars
  <2>1. \A b \in Owned : promise'[b] = promise[b] /\ loop'[b] = loop[b] /\ attempt'[b] = attempt[b]
    BY <1>14 DEF HandleAck
  <2>2. closed' = closed
    BY <1>14 DEF HandleAck
  <2> QED BY <2>1, <2>2, OtherCalls
<1>15. ASSUME NEW c \in Owned, Send(c) \/ SendDuplicate(c) \/ SendClosed(c) \/ Step(c)
       PROVE  [Promise!Next]_(Promise!vars)
  BY <1>15, <1>1, <1>2, <1>3, <1>4, <1>5, <1>6, <1>7, <1>8, <1>9 DEF Step
<1>16. ASSUME NEW m \in Ids, HandleAck(m)
       PROVE  [Promise!Next]_(Promise!vars)
  BY <1>10, <1>14, <1>16
<1>17. ASSUME NEW c \in Calls, Send(c) \/ SendDuplicate(c) \/ SendClosed(c) \/ Step(c)
       PROVE  [Promise!Next]_(Promise!vars)
  BY <1>13, <1>15, <1>17
<1> QED
  BY <1>11, <1>12, <1>16, <1>17 DEF Next

(* Calls of send whose message id no other call uses get what AckedSend     *)
(* promises: at most MaxRetries + 1 copies, none after the promise settled, *)
(* and an outcome that is an ack, a reported failure or the closing of the  *)
(* tracker.  (That there is an outcome is checked by TLC only.)             *)
THEOREM TrackerKeepsPromise == Spec => Promise!Spec
<1>1. Init => Promise!Init
  BY DEF Init, Owned, Promise!Init, absPromise, absCopies
<1>2. Init => Linked
  BY LinkedStart
<1>3. Linked /\ [Next]_vars => Linked'
  BY TendedStep, LinkedStep DEF Linked
<1>4. Linked /\ [Next]_vars => [Promise!Next]_(Promise!vars)
  BY TendedStep, ImplementsStep DEF Linked
<1> QED BY <1>1, <1>2, <1>3, <1>4, PTL DEF Spec, Promise!Spec
=============================================================================
