------------------------ MODULE EnvelopeRouterProofs ------------------------
(***************************************************************************)
(* EnvelopeRouter and its DedupeCache for any messages, any number of them  *)
(* and any limits: the handlers of one ack mode start in the order in which *)
(* their messages arrived, the cache remembers the latest ones, an ack      *)
(* means that the handler, if there is one, was started, and it is started  *)
(* once.                                                                    *)
(***************************************************************************)
EXTENDS EnvelopeRouter, FiniteSetTheorems, TLAPS

-----------------------------------------------------------------------------
(* The order of the handlers                                                *)

(* What is appended comes last, and the rest stays where it is.             *)
LEMMA Appended ==
  ASSUME NEW S, NEW s \in Seq(S), NEW e \in S
  PROVE  /\ Append(s, e) \in Seq(S) /\ Len(Append(s, e)) = Len(s) + 1
         /\ DOMAIN Append(s, e) = 1..(Len(s) + 1) /\ Append(s, e)[Len(s) + 1] = e
         /\ \A i \in 1..Len(s) : Append(s, e)[i] = s[i]
OBVIOUS

(* The calls of route() and those that send or were handed over.            *)
RoutesType ==
    /\ msg \in Seq(Msgs) /\ step \in Seq(Steps) /\ Len(step) = Len(msg)
    /\ outbox \in Seq(Nat) /\ \A i \in DOMAIN outbox : outbox[i] \in DOMAIN msg
    /\ handled \in Seq(Nat) /\ \A i \in DOMAIN handled : handled[i] \in DOMAIN msg

(* Sends are queued in the order in which their messages arrived.           *)
SendsInOrder == \A i, j \in DOMAIN outbox : i < j => outbox[i] < outbox[j]

(* A message without ack is handled when it arrives, one with an ack when   *)
(* that is sent: what is still to be sent arrived later.                    *)
HandledBeforeSends ==
    \A i \in DOMAIN handled : msg[handled[i]] \in Required =>
        \A j \in DOMAIN outbox : handled[i] < outbox[j]

(* Only a message whose ack is required waits for one to be sent.           *)
AcksRequired == \A r \in DOMAIN msg : step[r] = "acking" => msg[r] \in Required

OrderInv == RoutesType /\ AcksRequired /\ SendsInOrder /\ HandledBeforeSends /\ HandledInOrder

LEMMA OrderStart ==
  ASSUME Init
  PROVE  OrderInv
BY DEF Init, OrderInv, RoutesType, AcksRequired, SendsInOrder, HandledBeforeSends, HandledInOrder

(* A message arrives: its call is the last, and so are its send and its     *)
(* handler.                                                                 *)
LEMMA Arrival ==
  ASSUME OrderInv, NEW m \in Msgs, NEW where \in Steps, begin(m, where),
         where = "acking" => m \in Required,
         outbox' = outbox \/ outbox' = Append(outbox, this),
         handled' = handled \/ (m \in Plain /\ handled' = Append(handled, this))
  PROVE  OrderInv'
<1>1. /\ msg \in Seq(Msgs) /\ step \in Seq(Steps) /\ Len(step) = Len(msg)
      /\ outbox \in Seq(Nat) /\ handled \in Seq(Nat)
      /\ \A i \in DOMAIN outbox : outbox[i] \in 1..Len(msg)
      /\ \A i \in DOMAIN handled : handled[i] \in 1..Len(msg)
  BY DEF OrderInv, RoutesType
<1>2. /\ msg' \in Seq(Msgs) /\ step' \in Seq(Steps) /\ Len(step') = Len(msg')
      /\ Len(msg') = Len(msg) + 1 /\ msg'[this] = m
      /\ \A r \in 1..Len(msg) : msg'[r] = msg[r] /\ step'[r] = step[r]
      /\ step'[this] = where
  BY <1>1 DEF begin, this
<1>3. this \in Nat /\ this = Len(msg) + 1 /\ \A r \in 1..Len(msg) : r < this
  BY <1>1 DEF this
<1>4. /\ outbox' \in Seq(Nat)
      /\ \A i \in DOMAIN outbox' : \/ i \in DOMAIN outbox /\ outbox'[i] = outbox[i]
                                   \/ i = Len(outbox) + 1 /\ outbox'[i] = this
  <2>1. CASE outbox' = outbox
    BY <1>1, <2>1
  <2>2. CASE outbox' = Append(outbox, this)
    <3>1. /\ outbox' \in Seq(Nat) /\ DOMAIN outbox' = 1..(Len(outbox) + 1)
          /\ outbox'[Len(outbox) + 1] = this /\ \A i \in 1..Len(outbox) : outbox'[i] = outbox[i]
      BY <1>1, <1>3, <2>2, Appended
    <3>2. DOMAIN outbox = 1..Len(outbox) /\ Len(outbox) \in Nat
      BY <1>1
    <3> QED BY <3>1, <3>2
  <2> QED BY <2>1, <2>2
<1>5. /\ handled' \in Seq(Nat)
      /\ \A i \in DOMAIN handled' :
            \/ i \in DOMAIN handled /\ handled'[i] = handled[i]
            \/ i = Len(handled) + 1 /\ handled'[i] = this /\ m \in Plain
  <2>1. CASE handled' = handled
    BY <1>1, <2>1
  <2>2. CASE m \in Plain /\ handled' = Append(handled, this)
    <3>1. /\ handled' \in Seq(Nat) /\ DOMAIN handled' = 1..(Len(handled) + 1)
          /\ handled'[Len(handled) + 1] = this
          /\ \A i \in 1..Len(handled) : handled'[i] = handled[i]
      BY <1>1, <1>3, <2>2, Appended
    <3> QED BY <1>1, <2>2, <3>1
  <2> QED BY <2>1, <2>2
<1>6. RoutesType'
  <2>1. DOMAIN msg' = 1..(Len(msg) + 1)
    BY <1>1, <1>2
  <2>2. \A i \in DOMAIN outbox' : outbox'[i] \in DOMAIN msg'
    BY <1>1, <1>3, <1>4, <2>1
  <2>3. \A i \in DOMAIN handled' : handled'[i] \in DOMAIN msg'
    BY <1>1, <1>3, <1>5, <2>1
  <2> QED BY <1>2, <1>4, <1>5, <2>2, <2>3 DEF RoutesType
<1>7. SendsInOrder'
  <2> SUFFICES ASSUME NEW i \in DOMAIN outbox', NEW j \in DOMAIN outbox', i < j
               PROVE  outbox'[i] < outbox'[j]
    BY DEF SendsInOrder
  <2>1. DOMAIN outbox = 1..Len(outbox) /\ Len(outbox) \in Nat
    BY <1>1
  <2>2. /\ i \in 1..Len(outbox) \/ i = Len(outbox) + 1
        /\ j \in 1..Len(outbox) \/ j = Len(outbox) + 1
    BY <1>4, <2>1
  <2>3. i \in DOMAIN outbox /\ outbox'[i] = outbox[i]
    BY <1>4, <2>1, <2>2
  <2>4. CASE j \in DOMAIN outbox /\ outbox'[j] = outbox[j]
    BY <2>3, <2>4 DEF OrderInv, SendsInOrder
  <2>5. CASE outbox'[j] = this
    BY <1>1, <1>3, <2>3, <2>5
  <2> QED BY <1>4, <2>4, <2>5
<1>8. HandledBeforeSends'
  <2> SUFFICES ASSUME NEW i \in DOMAIN handled', msg'[handled'[i]] \in Required,
                      NEW j \in DOMAIN outbox'
               PROVE  handled'[i] < outbox'[j]
    BY DEF HandledBeforeSends
  <2>1. handled'[i] # this
    <3> SUFFICES ASSUME handled'[i] = this PROVE FALSE
      OBVIOUS
    <3>1. m \in Required
      BY <1>2
    <3>2. m \notin Plain
      BY <3>1, KindsAssumption
    <3>3. i \in DOMAIN handled /\ handled[i] = this
      BY <1>5, <3>2
    <3>4. this \in 1..Len(msg)
      BY <1>1, <3>3
    <3> QED BY <1>3, <3>4
  <2>2. i \in DOMAIN handled /\ handled'[i] = handled[i] /\ handled[i] \in 1..Len(msg)
    BY <1>1, <1>5, <2>1
  <2>3. CASE outbox'[j] = this
    BY <1>3, <2>2, <2>3
  <2>4. CASE j \in DOMAIN outbox /\ outbox'[j] = outbox[j]
    <3>1. msg[handled[i]] \in Required
      BY <1>2, <2>2
    <3> QED BY <2>2, <2>4, <3>1 DEF OrderInv, HandledBeforeSends
  <2> QED BY <1>4, <2>3, <2>4
<1>9. HandledInOrder'
  <2> SUFFICES ASSUME NEW i \in DOMAIN handled', NEW j \in DOMAIN handled', i < j,
                      \/ {msg'[handled'[i]], msg'[handled'[j]]} \subseteq Required
                      \/ {msg'[handled'[i]], msg'[handled'[j]]} \subseteq Plain
               PROVE  handled'[i] < handled'[j]
    BY DEF HandledInOrder
  <2>1. i \in 1..Len(handled) /\ handled'[i] = handled[i] /\ handled[i] \in 1..Len(msg)
    BY <1>1, <1>5
  <2>2. CASE handled'[j] = this
    BY <1>3, <2>1, <2>2
  <2>3. CASE j \in 1..Len(handled) /\ handled'[j] = handled[j]
    <3>1. handled[j] \in 1..Len(msg)
      BY <1>1, <2>3
    <3>2. msg'[handled'[i]] = msg[handled[i]] /\ msg'[handled'[j]] = msg[handled[j]]
      BY <1>2, <2>1, <2>3, <3>1
    <3>3. i \in DOMAIN handled /\ j \in DOMAIN handled
      BY <1>1, <2>1, <2>3
    <3>4. handled[i] < handled[j]
      BY <3>2, <3>3 DEF OrderInv, HandledInOrder
    <3> QED BY <2>1, <2>3, <3>4
  <2> QED BY <1>1, <1>5, <2>2, <2>3
<1>10. AcksRequired'
  <2> SUFFICES ASSUME NEW s \in DOMAIN msg', step'[s] = "acking"
               PROVE  msg'[s] \in Required
    BY DEF AcksRequired
  <2>1. s \in 1..Len(msg) \/ s = this
    BY <1>1, <1>2, <1>3
  <2>2. CASE s \in 1..Len(msg)
    <3>1. s \in DOMAIN msg /\ step[s] = "acking" /\ msg'[s] = msg[s]
      BY <1>1, <1>2, <2>2
    <3> QED BY <3>1 DEF OrderInv, AcksRequired
  <2> QED BY <1>2, <2>1, <2>2
<1> QED BY <1>6, <1>7, <1>8, <1>9, <1>10 DEF OrderInv

(* The first send of the queue is done; its handler may start.              *)
LEMMA Sending ==
  ASSUME OrderInv, NEW r \in DOMAIN msg, NEW where \in Steps \ {"acking"}, sent(r, where), UNCHANGED msg,
         handled' = handled \/ (msg[r] \in Required /\ handled' = Append(handled, r))
  PROVE  OrderInv'
<1>1. /\ msg \in Seq(Msgs) /\ step \in Seq(Steps) /\ Len(step) = Len(msg)
      /\ outbox \in Seq(Nat) /\ handled \in Seq(Nat)
      /\ \A i \in DOMAIN outbox : outbox[i] \in 1..Len(msg)
      /\ \A i \in DOMAIN handled : handled[i] \in 1..Len(msg)
  BY DEF OrderInv, RoutesType
<1>2. /\ outbox # <<>> /\ r = outbox[1] /\ 1 \in DOMAIN outbox
      /\ outbox' \in Seq(Nat)
      /\ \A i \in DOMAIN outbox' : i + 1 \in DOMAIN outbox /\ outbox'[i] = outbox[i + 1]
  BY <1>1 DEF sent
<1>3. step' \in Seq(Steps) /\ Len(step') = Len(step)
  BY <1>1 DEF sent
<1>4. /\ handled' \in Seq(Nat)
      /\ \A i \in DOMAIN handled' :
            \/ i \in DOMAIN handled /\ handled'[i] = handled[i]
            \/ i = Len(handled) + 1 /\ handled'[i] = r /\ msg[r] \in Required
  <2>1. CASE handled' = handled
    BY <1>1, <2>1
  <2>2. CASE msg[r] \in Required /\ handled' = Append(handled, r)
    <3>1. /\ handled' \in Seq(Nat) /\ DOMAIN handled' = 1..(Len(handled) + 1)
          /\ handled'[Len(handled) + 1] = r
          /\ \A i \in 1..Len(handled) : handled'[i] = handled[i]
      BY <1>1, <2>2, Appended
    <3> QED BY <1>1, <2>2, <3>1
  <2> QED BY <2>1, <2>2
<1>5. r \in Nat /\ \A j \in DOMAIN outbox' : r < outbox'[j]
  <2> SUFFICES ASSUME NEW j \in DOMAIN outbox' PROVE r < outbox'[j]
    BY <1>1
  <2>1. j \in Nat \ {0} /\ j + 1 \in DOMAIN outbox /\ outbox'[j] = outbox[j + 1]
    BY <1>2
  <2>2. outbox[1] < outbox[j + 1]
    BY <1>2, <2>1 DEF OrderInv, SendsInOrder
  <2> QED BY <1>2, <2>1, <2>2
<1>6. RoutesType'
  BY <1>1, <1>2, <1>3, <1>4 DEF RoutesType
<1>7. SendsInOrder'
  <2> SUFFICES ASSUME NEW i \in DOMAIN outbox', NEW j \in DOMAIN outbox', i < j
               PROVE  outbox'[i] < outbox'[j]
    BY DEF SendsInOrder
  <2>1. i \in Nat /\ j \in Nat /\ i + 1 < j + 1
    BY <1>2
  <2> QED BY <1>2, <2>1 DEF OrderInv, SendsInOrder
<1>8. HandledBeforeSends'
  <2> SUFFICES ASSUME NEW i \in DOMAIN handled', msg[handled'[i]] \in Required,
                      NEW j \in DOMAIN outbox'
               PROVE  handled'[i] < outbox'[j]
    BY DEF HandledBeforeSends
  <2>1. CASE handled'[i] = r
    BY <1>5, <2>1
  <2>2. CASE i \in DOMAIN handled /\ handled'[i] = handled[i]
    BY <1>2, <2>2 DEF OrderInv, HandledBeforeSends
  <2> QED BY <1>4, <2>1, <2>2
<1>9. HandledInOrder'
  <2>1. \A i \in DOMAIN handled : msg[handled[i]] \in Required => handled[i] < r
    BY <1>2 DEF OrderInv, HandledBeforeSends
  <2> SUFFICES ASSUME NEW i \in DOMAIN handled', NEW j \in DOMAIN handled', i < j,
                      \/ {msg[handled'[i]], msg[handled'[j]]} \subseteq Required
                      \/ {msg[handled'[i]], msg[handled'[j]]} \subseteq Plain
               PROVE  handled'[i] < handled'[j]
    BY DEF HandledInOrder
  <2>2. i \in 1..Len(handled) /\ handled'[i] = handled[i]
    <3>1. DOMAIN handled = 1..Len(handled) /\ Len(handled) \in Nat
      BY <1>1
    <3>2. /\ i \in 1..Len(handled) \/ i = Len(handled) + 1
          /\ j \in 1..Len(handled) \/ j = Len(handled) + 1
      BY <1>4, <3>1
    <3>3. i # Len(handled) + 1
      BY <3>1, <3>2
    <3> QED BY <1>4, <3>1, <3>2, <3>3
  <2>3. CASE handled'[j] = r /\ msg[r] \in Required
    BY <2>1, <2>2, <2>3, KindsAssumption
  <2>4. CASE j \in 1..Len(handled) /\ handled'[j] = handled[j]
    BY <1>1, <2>2, <2>4 DEF OrderInv, HandledInOrder
  <2> QED BY <1>1, <1>4, <2>3, <2>4
<1>10. AcksRequired'
  BY <1>1, <1>3 DEF sent, OrderInv, AcksRequired
<1> QED BY <1>6, <1>7, <1>8, <1>9, <1>10 DEF OrderInv

(* Handlers settle, the socket closes, time passes: nothing is handed over. *)
LEMMA Others ==
  ASSUME OrderInv, UNCHANGED <<msg, handled>>, outbox' = outbox \/ outbox' = <<>>,
         step' \in Seq(Steps), Len(step') = Len(step),
         \A r \in DOMAIN msg : step'[r] = "acking" => step[r] = "acking"
  PROVE  OrderInv'
<1>1. RoutesType'
  <2>1. CASE outbox' = outbox
    BY <2>1 DEF OrderInv, RoutesType
  <2>2. CASE outbox' = <<>>
    BY <2>2 DEF OrderInv, RoutesType
  <2> QED BY <2>1, <2>2
<1>2. AcksRequired'
  BY DEF OrderInv, AcksRequired
<1>3. SendsInOrder' /\ HandledBeforeSends'
  BY DEF OrderInv, SendsInOrder, HandledBeforeSends
<1>4. HandledInOrder'
  BY DEF OrderInv, HandledInOrder
<1> QED BY <1>1, <1>2, <1>3, <1>4 DEF OrderInv

LEMMA OrderStep ==
  ASSUME OrderInv, [Next]_vars
  PROVE  OrderInv'
<1>1. ASSUME NEW m \in Msgs, NEW where \in Steps \ {"acking"}, beginSend(m, where), UNCHANGED handled
      PROVE  OrderInv'
  <2>1. PICK at \in {where, "rejected"} : begin(m, at)
    BY <1>1 DEF beginSend
  <2>2. at \in Steps /\ at # "acking"
    BY DEF Steps
  <2>3. outbox' = outbox \/ outbox' = Append(outbox, this)
    BY <1>1 DEF beginSend
  <2> QED BY <1>1, <2>1, <2>2, <2>3, Arrival
<1>2. ASSUME NEW m \in Msgs, RouteNew(m)
      PROVE  OrderInv'
  <2>1. m \in Required /\ beginSend(m, "acking") /\ UNCHANGED handled
    BY <1>2 DEF RouteNew
  <2>2. PICK at \in {"acking", "rejected"} : begin(m, at)
    BY <2>1 DEF beginSend
  <2>3. at \in Steps
    BY DEF Steps
  <2>4. outbox' = outbox \/ outbox' = Append(outbox, this)
    BY <2>1 DEF beginSend
  <2> QED BY <2>1, <2>2, <2>3, <2>4, Arrival
<1>3. ASSUME NEW m \in Msgs, RouteKnown(m) \/ RouteHeartbeat(m) \/ RouteInvalid(m)
      PROVE  OrderInv'
  BY <1>1, <1>3 DEF RouteKnown, RouteHeartbeat, RouteInvalid, Steps
<1>4. ASSUME NEW m \in Msgs, RoutePlain(m) \/ RouteClosing(m)
      PROVE  OrderInv'
  <2>1. PICK at \in {"handling", "done", "closing"} : begin(m, at)
    BY <1>4 DEF RoutePlain, RouteClosing, handing
  <2>2. /\ outbox' = outbox
        /\ handled' = handled \/ (m \in Plain /\ handled' = Append(handled, this))
    BY <1>4 DEF RoutePlain, RouteClosing, calls
  <2> QED BY <2>1, <2>2, Arrival DEF Steps
<1>5. ASSUME NEW r \in DOMAIN msg, AckSent(r) \/ AckResent(r) \/ Answered(r) \/ Complained(r)
      PROVE  OrderInv'
  <2>1. PICK where \in {"handling", "done", "closing"} : sent(r, where)
    BY <1>5 DEF AckSent, AckResent, Answered, Complained, handing
  <2>2. /\ UNCHANGED msg
        /\ handled' = handled \/ (step[r] = "acking" /\ handled' = Append(handled, r))
    BY <1>5 DEF AckSent, AckResent, Answered, Complained, calls
  <2>3. step[r] = "acking" => msg[r] \in Required
    BY DEF OrderInv, AcksRequired
  <2> QED BY <2>1, <2>2, <2>3, Sending DEF Steps
<1>6. ASSUME NEW r \in DOMAIN msg, HandlerDone(r)
      PROVE  OrderInv'
  <2>1. step' \in Seq(Steps) /\ Len(step') = Len(step)
    BY <1>6 DEF HandlerDone, OrderInv, RoutesType, Steps
  <2>2. \A s \in DOMAIN msg : step'[s] = "acking" => step[s] = "acking"
    BY <1>6 DEF HandlerDone, OrderInv, RoutesType
  <2> QED BY <1>6, <2>1, <2>2, Others DEF HandlerDone
<1>7. CASE SocketClosed
  <2>1. step' \in Seq(Steps) /\ Len(step') = Len(step)
    <3>1. step \in Seq(Steps) /\ DOMAIN step' = DOMAIN step
      BY <1>7 DEF SocketClosed, OrderInv, RoutesType
    <3>2. \A s \in DOMAIN step : step'[s] \in {"done", "rejected", step[s]}
      BY <1>7 DEF SocketClosed
    <3>3. \A s \in DOMAIN step : step'[s] \in Steps
      BY <3>1, <3>2 DEF Steps
    <3>4. step' = [s \in 1..Len(step) |-> step'[s]]
      BY <1>7, <3>1 DEF SocketClosed
    <3> QED BY <3>1, <3>3, <3>4
  <2>2. \A s \in DOMAIN msg : step'[s] = "acking" => step[s] = "acking"
    BY <1>7 DEF SocketClosed, OrderInv, RoutesType
  <2> QED BY <1>7, <2>1, <2>2, Others DEF SocketClosed
<1>8. CASE Clock \/ UNCHANGED vars
  <2>1. UNCHANGED <<msg, step, outbox, handled>>
    BY <1>8 DEF Clock, routing, vars
  <2> QED BY <2>1, Others DEF OrderInv, RoutesType
<1> QED BY <1>2, <1>3, <1>4, <1>5, <1>6, <1>7, <1>8 DEF Next

(* envelope-router.ts: for any messages, repeated in any order on one       *)
(* connection, the handlers of one ack mode start in order of arrival.      *)
THEOREM HandledAsTheyArrived == Spec => []HandledInOrder
<1>1. Init => OrderInv
  BY OrderStart
<1>2. OrderInv /\ [Next]_vars => OrderInv'
  BY OrderStep
<1>3. OrderInv => HandledInOrder
  BY DEF OrderInv
<1> QED BY <1>1, <1>2, <1>3, PTL DEF Spec

-----------------------------------------------------------------------------
(* The cache remembers the latest messages                                  *)

(* Those of a finite strict total order who have fewer than `limit`         *)
(* followers are at most `limit`, and their followers are among them.       *)
LEMMA FewFollowers ==
  ASSUME NEW S, IsFiniteSet(S), NEW follow \in [S -> SUBSET S], NEW limit \in Nat,
         \A m \in S : m \notin follow[m],
         \A m \in S : \A n \in follow[m] : follow[n] \subseteq follow[m],
         \A m, n \in S : m = n \/ n \in follow[m] \/ m \in follow[n]
  PROVE  LET few == {m \in S : Cardinality(follow[m]) < limit}
         IN  /\ IsFiniteSet(few) /\ Cardinality(few) <= limit
             /\ \A m \in few : follow[m] \subseteq few
<1> DEFINE few == {m \in S : Cardinality(follow[m]) < limit}
<1>1. IsFiniteSet(few) /\ Cardinality(few) \in Nat
  BY FS_Subset, FS_CardinalityType
<1>2. \A m \in S : IsFiniteSet(follow[m]) /\ Cardinality(follow[m]) \in Nat
  BY FS_Subset, FS_CardinalityType
<1>3. \A m \in S : \A n \in follow[m] :
         Cardinality(follow[n]) <= Cardinality(follow[m]) /\ Cardinality(follow[n]) # Cardinality(follow[m])
  <2> TAKE m \in S
  <2> TAKE n \in follow[m]
  <2>1. follow[n] \subseteq follow[m] /\ n \notin follow[n]
    OBVIOUS
  <2>2. follow[n] # follow[m]
    BY <2>1
  <2>3. IsFiniteSet(follow[m]) /\ follow[n] \in SUBSET follow[m]
    BY <1>2, <2>1
  <2> QED BY <2>2, <2>3, FS_Subset
<1>4. \A m \in few : follow[m] \subseteq few
  <2> SUFFICES ASSUME NEW m \in few, NEW n \in follow[m]
               PROVE  n \in few
    OBVIOUS
  <2>1. n \in S /\ m \in S
    OBVIOUS
  <2> QED BY <1>2, <1>3, <2>1
<1>5. ASSUME Cardinality(few) > limit
      PROVE  FALSE
  <2> DEFINE rank == [m \in few |-> Cardinality(follow[m])]
  <2>1. rank \in [few -> 0..(limit - 1)]
    BY <1>2
  <2>2. IsFiniteSet(0..(limit - 1)) /\ Cardinality(0..(limit - 1)) = limit
    BY FS_Interval
  <2>3. PICK m \in few, n \in few : m # n /\ rank[m] = rank[n]
    <3> HIDE DEF few, rank
    <3> QED BY <1>1, <1>5, <2>1, <2>2, FS_PigeonHole
  <2>4. m \in S /\ n \in S /\ Cardinality(follow[m]) = Cardinality(follow[n])
    BY <2>3
  <2>5. n \in follow[m] \/ m \in follow[n]
    BY <2>3, <2>4
  <2> QED BY <1>3, <2>4, <2>5
<1>6. Cardinality(few) <= limit
  BY <1>1, <1>5
<1> QED BY <1>1, <1>4, <1>6

-----------------------------------------------------------------------------
(* Invariant of the cache                                                   *)

(* A Map iterates over its keys in one order.                               *)
Linear(rel, S) ==
    /\ \A m \in S : <<m, m>> \notin rel
    /\ \A l, m, n \in S : <<l, m>> \in rel /\ <<m, n>> \in rel => <<l, n>> \in rel
    /\ \A m, n \in S : m = n \/ <<m, n>> \in rel \/ <<n, m>> \in rel

Since(last, m) == {o \in Required \ {m} : last[o] >= last[m]}

(* The entries `at`, iterated over in the order `rel`, and when each id was *)
(* `last` added.  An entry has the time it was last added; what was added   *)
(* later than an entry has one too; an id without entry is too old, or as   *)
(* many others were added since as the cache has room for.                  *)
Entries(at, rel, last) ==
    /\ DOMAIN at \subseteq Required /\ at = [m \in DOMAIN at |-> last[m]]
    /\ \A m \in DOMAIN at : last[m] \in 0..now
    /\ Linear(rel, DOMAIN at)
    /\ \A m \in DOMAIN at : \A o \in Required : last[o] > last[m] => o \in DOMAIN at
    /\ \A m \in Required \ DOMAIN at :
          \/ last[m] = Never
          \/ now - last[m] > Ttl
          \/ Cardinality(Since(last, m)) >= MaxEntries

(* Only what was added can have been added since.                           *)
Additions(last) ==
    /\ now \in 0..MaxTime
    /\ last \in [Required -> {Never} \cup 0..now]
    /\ IsFiniteSet({m \in Required : last[m] # Never})

CacheInv ==
    /\ Additions(added)
    /\ Entries(updatedAt, before, added)
    /\ before \subseteq (DOMAIN updatedAt) \X (DOMAIN updatedAt)
    /\ Cardinality(DOMAIN updatedAt) <= MaxEntries

USE SizeAssumption

LEMMA SinceFinite ==
  ASSUME NEW last, Additions(last), NEW m \in Required, last[m] # Never
  PROVE  IsFiniteSet(Since(last, m)) /\ Cardinality(Since(last, m)) \in Nat
<1>1. Since(last, m) \in SUBSET {o \in Required : last[o] # Never}
  BY DEF Since, Additions, Never
<1> QED BY <1>1, FS_Subset, FS_CardinalityType DEF Additions

(* cleanup leaves at most MaxEntries entries, the latest ones.              *)
LEMMA KeptAreLatest ==
  ASSUME NEW at, NEW rel, NEW last, Additions(last), Entries(at, rel, last)
  PROVE  LET live == {m \in DOMAIN at : ~expired(at, m)}
             stay == kept(at, rel)
         IN  /\ stay \subseteq live
             /\ IsFiniteSet(stay) /\ Cardinality(stay) <= MaxEntries
             /\ \A m \in stay : \A o \in live : last[o] > last[m] => o \in stay
             /\ \A m \in live \ stay : Cardinality(Since(last, m)) >= MaxEntries
<1> DEFINE live == {m \in DOMAIN at : ~expired(at, m)}
           follow == [m \in live |-> {n \in live : evictedBefore(at, rel, m, n)}]
<1>1. \A m \in live : /\ at[m] = last[m] /\ last[m] \in Nat /\ last[m] # Never
                      /\ m \in Required /\ m \in DOMAIN at
  BY DEF Entries, Additions, Never
<1>2. IsFiniteSet(live)
  <2>1. live \in SUBSET {m \in Required : last[m] # Never}
    BY <1>1
  <2> QED BY <2>1, FS_Subset DEF Additions
<1>3. follow \in [live -> SUBSET live]
  OBVIOUS
<1>4. \A m \in live : m \notin follow[m]
  <2> SUFFICES ASSUME NEW m \in live
               PROVE  ~evictedBefore(at, rel, m, m)
    OBVIOUS
  <2> QED BY <1>1 DEF evictedBefore, Entries, Linear
<1>5. \A m \in live : \A n \in follow[m] : follow[n] \subseteq follow[m]
  <2> SUFFICES ASSUME NEW m \in live, NEW n \in follow[m], NEW o \in follow[n]
               PROVE  o \in follow[m]
    OBVIOUS
  <2>1. n \in live /\ o \in live
    OBVIOUS
  <2>2. evictedBefore(at, rel, m, n) /\ evictedBefore(at, rel, n, o)
    BY <2>1
  <2>3. evictedBefore(at, rel, m, o)
    BY <1>1, <2>1, <2>2 DEF evictedBefore, Entries, Linear
  <2> QED BY <2>1, <2>3
<1>6. \A m, n \in live : m = n \/ n \in follow[m] \/ m \in follow[n]
  <2> SUFFICES ASSUME NEW m \in live, NEW n \in live, m # n
               PROVE  evictedBefore(at, rel, m, n) \/ evictedBefore(at, rel, n, m)
    OBVIOUS
  <2> QED BY <1>1 DEF evictedBefore, Entries, Linear
<1> DEFINE stay == {m \in live : Cardinality(follow[m]) < MaxEntries}
<1>7. kept(at, rel) = stay
  <2>1. kept(at, rel)
          = {m \in live : Cardinality({n \in live : evictedBefore(at, rel, m, n)}) < MaxEntries}
    BY DEF kept
  <2>2. \A m \in live : follow[m] = {n \in live : evictedBefore(at, rel, m, n)}
    OBVIOUS
  <2> HIDE DEF live, follow
  <2> QED BY <2>1, <2>2
<1>8. /\ IsFiniteSet(stay) /\ Cardinality(stay) <= MaxEntries
      /\ \A m \in stay : follow[m] \subseteq stay
  <2> HIDE DEF live, follow
  <2> QED BY <1>2, <1>3, <1>4, <1>5, <1>6, FewFollowers
<1>9. \A m \in stay : \A o \in live : last[o] > last[m] => o \in stay
  <2> SUFFICES ASSUME NEW m \in stay, NEW o \in live, last[o] > last[m]
               PROVE  o \in follow[m]
    BY <1>8
  <2> QED BY <1>1 DEF evictedBefore
<1>10. \A m \in live \ stay : Cardinality(Since(last, m)) >= MaxEntries
  <2> SUFFICES ASSUME NEW m \in live \ stay
               PROVE  Cardinality(Since(last, m)) >= MaxEntries
    OBVIOUS
  <2>1. follow[m] \in SUBSET Since(last, m)
    BY <1>1, <1>4 DEF evictedBefore, Since
  <2>2. IsFiniteSet(Since(last, m)) /\ Cardinality(Since(last, m)) \in Nat
    BY <1>1, SinceFinite
  <2>3. IsFiniteSet(follow[m]) /\ Cardinality(follow[m]) <= Cardinality(Since(last, m))
    BY <2>1, <2>2, FS_Subset
  <2>4. Cardinality(follow[m]) \in Nat /\ ~(Cardinality(follow[m]) < MaxEntries)
    BY <2>3, FS_CardinalityType
  <2> QED BY <2>2, <2>3, <2>4
<1> QED BY <1>7, <1>8, <1>9, <1>10

(* entries.set keeps the invariant, with one entry more.                    *)
LEMMA SetKeepsEntries ==
  ASSUME CacheInv, NEW m \in Required
  PROVE  LET last == [added EXCEPT ![m] = now]
         IN  Additions(last) /\ Entries(set(m), setOrder(m), last)
<1> DEFINE last == [added EXCEPT ![m] = now]
           at == set(m)
           rel == setOrder(m)
<1>1. /\ now \in Nat /\ now \in 0..MaxTime
      /\ added \in [Required -> {Never} \cup 0..now]
      /\ Never = -1
  BY DEF CacheInv, Additions, Never
<1>2. /\ last \in [Required -> {Never} \cup 0..now] /\ last[m] = now
      /\ \A o \in Required \ {m} : last[o] = added[o]
      /\ \A o \in Required : added[o] <= last[o] /\ last[o] <= now
  BY <1>1
<1>3. Additions(last)
  <2> DEFINE once == {o \in Required : added[o] # Never}
  <2>1. IsFiniteSet(once \cup {m})
    BY FS_AddElement DEF CacheInv, Additions
  <2>2. {o \in Required : last[o] # Never} \in SUBSET (once \cup {m})
    BY <1>2
  <2>3. IsFiniteSet({o \in Required : last[o] # Never})
    BY <2>1, <2>2, FS_Subset
  <2> HIDE DEF last
  <2> QED BY <1>1, <1>2, <2>3 DEF Additions
<1>4. /\ DOMAIN at = DOMAIN updatedAt \cup {m} /\ at[m] = now
      /\ at = [n \in DOMAIN at |-> at[n]]
      /\ \A n \in DOMAIN updatedAt \ {m} : at[n] = updatedAt[n]
  BY DEF set, ids
<1>5. Linear(rel, DOMAIN at)
  <2>1. Linear(before, DOMAIN updatedAt) /\ before \subseteq (DOMAIN updatedAt) \X (DOMAIN updatedAt)
    BY DEF CacheInv, Entries
  <2>2. CASE m \in DOMAIN updatedAt
    <3>1. rel = before /\ DOMAIN at = DOMAIN updatedAt
      BY <1>4, <2>2 DEF setOrder, ids
    <3> QED BY <2>1, <3>1
  <2>3. CASE m \notin DOMAIN updatedAt
    <3>1. \A a, b \in DOMAIN at : <<a, b>> \in rel <=>
             \/ a \in DOMAIN updatedAt /\ b \in DOMAIN updatedAt /\ <<a, b>> \in before
             \/ a \in DOMAIN updatedAt /\ b = m
      BY <1>4, <2>1, <2>3 DEF setOrder, ids
    <3> HIDE DEF at, rel
    <3> QED BY <1>4, <2>1, <2>3, <3>1 DEF Linear
  <2> QED BY <2>2, <2>3
<1>6. \A n \in DOMAIN updatedAt : n \in Required /\ updatedAt[n] = added[n] /\ added[n] \in 0..now
  BY DEF CacheInv, Entries
<1> HIDE DEF last, at, rel
<1>7. DOMAIN at \subseteq Required /\ \A n \in DOMAIN at : at[n] = last[n] /\ last[n] \in 0..now
  BY <1>1, <1>2, <1>4, <1>6
<1>8. \A n \in DOMAIN at : \A o \in Required : last[o] > last[n] => o \in DOMAIN at
  <2> SUFFICES ASSUME NEW n \in DOMAIN at, NEW o \in Required, last[o] > last[n], o # m
               PROVE  o \in DOMAIN updatedAt
    BY <1>4
  <2>1. n # m
    BY <1>1, <1>2
  <2>2. n \in DOMAIN updatedAt /\ added[o] > added[n]
    BY <1>2, <1>4, <1>6, <2>1
  <2> QED BY <2>2 DEF CacheInv, Entries
<1>9. \A n \in Required \ DOMAIN at :
         last[n] = Never \/ now - last[n] > Ttl \/ Cardinality(Since(last, n)) >= MaxEntries
  <2> SUFFICES ASSUME NEW n \in Required \ DOMAIN at, last[n] # Never,
                      ~(now - last[n] > Ttl)
               PROVE  Cardinality(Since(last, n)) >= MaxEntries
    OBVIOUS
  <2>1. n # m /\ n \notin DOMAIN updatedAt /\ last[n] = added[n]
    BY <1>2, <1>4
  <2>2. Cardinality(Since(added, n)) >= MaxEntries
    BY <2>1 DEF CacheInv, Entries
  <2>3. Since(added, n) \in SUBSET Since(last, n)
    BY <1>1, <1>2, <2>1 DEF Since
  <2>4. IsFiniteSet(Since(last, n)) /\ Cardinality(Since(last, n)) \in Nat
    BY <1>3, SinceFinite
  <2>5. Cardinality(Since(added, n)) \in Nat /\ Cardinality(Since(added, n)) <= Cardinality(Since(last, n))
    BY <2>3, <2>4, FS_Subset, FS_CardinalityType
  <2> QED BY <2>2, <2>4, <2>5
<1>10. Entries(at, rel, last)
  BY <1>4, <1>5, <1>7, <1>8, <1>9 DEF Entries
<1> QED BY <1>3, <1>10 DEF last, at, rel

(* cleanup makes the cache's invariant of it.                               *)
LEMMA CleanupKeepsInv ==
  ASSUME NEW at, NEW rel, now' = now, Additions(added'), Entries(at, rel, added'), cleanup(at, rel)
  PROVE  CacheInv'
<1> DEFINE live == {m \in DOMAIN at : ~expired(at, m)}
           stay == kept(at, rel)
<1>1. /\ stay \subseteq live
      /\ IsFiniteSet(stay) /\ Cardinality(stay) <= MaxEntries
      /\ \A m \in stay : \A o \in live : added'[o] > added'[m] => o \in stay
      /\ \A m \in live \ stay : Cardinality(Since(added', m)) >= MaxEntries
  BY KeptAreLatest
<1>2. updatedAt' = [m \in stay |-> at[m]] /\ before' = rel \cap (stay \X stay)
  BY DEF cleanup
<1>3. /\ DOMAIN at \subseteq Required
      /\ \A m \in DOMAIN at : at[m] = added'[m] /\ added'[m] \in 0..now
      /\ live \subseteq DOMAIN at
      /\ \A m \in DOMAIN at : m \in live <=> ~(now - added'[m] > Ttl)
  BY DEF Entries, expired
<1>4. now \in Nat /\ added' \in [Required -> {-1} \cup 0..now]
  BY DEF Additions, Never
<1> HIDE DEF stay, live
<1>5. DOMAIN updatedAt' = stay /\ stay \subseteq DOMAIN at
  BY <1>1, <1>2, <1>3
<1>6. Additions(added)'
  BY DEF Additions, Never
<1>7. Linear(before', stay)
  <2>1. Linear(rel, DOMAIN at)
    BY DEF Entries
  <2>2. \A m, n \in stay : <<m, n>> \in before' <=> <<m, n>> \in rel
    BY <1>2
  <2> QED BY <1>5, <2>1, <2>2 DEF Linear
<1>8. \A m \in stay : \A o \in Required : added'[o] > added'[m] => o \in stay
  <2> SUFFICES ASSUME NEW m \in stay, NEW o \in Required, added'[o] > added'[m]
               PROVE  o \in live
    BY <1>1
  <2>1. o \in DOMAIN at
    BY <1>5 DEF Entries
  <2>2. added'[o] \in 0..now /\ added'[m] \in 0..now /\ ~(now - added'[m] > Ttl)
    BY <1>1, <1>3, <1>5, <2>1
  <2> QED BY <1>3, <1>4, <2>1, <2>2
<1>9. \A m \in Required \ stay :
         \/ added'[m] = Never
         \/ now - added'[m] > Ttl
         \/ Cardinality(Since(added', m)) >= MaxEntries
  <2> SUFFICES ASSUME NEW m \in Required \ stay
               PROVE  \/ added'[m] = Never
                      \/ now - added'[m] > Ttl
                      \/ Cardinality(Since(added', m)) >= MaxEntries
    OBVIOUS
  <2>1. CASE m \in DOMAIN at
    BY <1>1, <1>3, <2>1
  <2>2. CASE m \notin DOMAIN at
    BY <2>2 DEF Entries
  <2> QED BY <2>1, <2>2
<1>10. Entries(updatedAt', before', added')
  <2>1. updatedAt' = [m \in stay |-> added'[m]]
    BY <1>2, <1>3, <1>5
  <2>2. \A m \in stay : added'[m] \in 0..now
    BY <1>3, <1>5
  <2> QED BY <1>3, <1>5, <1>7, <1>8, <1>9, <2>1, <2>2 DEF Entries
<1>11. before' \subseteq stay \X stay
  BY <1>2
<1>12. Entries(updatedAt, before, added)'
  BY <1>10 DEF Entries, Since, Never
<1> QED BY <1>1, <1>5, <1>6, <1>11, <1>12 DEF CacheInv

LEMMA CacheStart ==
  ASSUME CacheInit
  PROVE  CacheInv
<1>1. updatedAt = [m \in {} |-> 0] /\ DOMAIN updatedAt = {} /\ before = {} /\ now = 0
      /\ added = [m \in Required |-> Never]
  BY DEF CacheInit
<1>2. Additions(added)
  <2>1. {m \in Required : added[m] # Never} = {}
    BY <1>1
  <2> QED BY <1>1, <2>1, FS_EmptySet DEF Additions
<1>3. Entries(updatedAt, before, added)
  BY <1>1 DEF Entries, Linear
<1> QED BY <1>1, <1>2, <1>3, FS_EmptySet DEF CacheInv

LEMMA TickKeepsInv ==
  ASSUME CacheInv, Tick
  PROVE  CacheInv'
<1>1. /\ now \in Nat /\ now' = now + 1 /\ now' \in 0..MaxTime /\ UNCHANGED <<updatedAt, before, added>>
      /\ added \in [Required -> {-1} \cup 0..now]
      /\ added \in [Required -> {-1} \cup 0..now']
  BY DEF Tick, CacheInv, Additions, Never
<1>2. Additions(added)'
  BY <1>1 DEF CacheInv, Additions, Never
<1>3. Entries(updatedAt, before, added)'
  <2>1. \A m \in DOMAIN updatedAt : added[m] \in 0..now'
    BY <1>1 DEF CacheInv, Entries
  <2>2. \A m \in Required : now - added[m] > Ttl => now' - added[m] > Ttl
    BY <1>1
  <2> QED BY <1>1, <2>1, <2>2 DEF CacheInv, Entries, Linear, Since, Never
<1> QED BY <1>1, <1>2, <1>3 DEF CacheInv

LEMMA CacheStep ==
  ASSUME CacheInv, [CacheNext]_caching
  PROVE  CacheInv'
<1>1. ASSUME NEW m \in Required, Add(m)
      PROVE  CacheInv'
  <2>1. added' = [added EXCEPT ![m] = now] /\ now' = now
    BY <1>1 DEF Add
  <2>2. Additions(added') /\ Entries(set(m), setOrder(m), added')
    BY <2>1, SetKeepsEntries
  <2> QED BY <1>1, <2>1, <2>2, CleanupKeepsInv DEF Add
<1>2. ASSUME NEW m \in Required, Get(m)
      PROVE  CacheInv'
  <2>1. added' = added /\ now' = now /\ cleanup(updatedAt, before)
    BY <1>2 DEF Get
  <2>2. Additions(added') /\ Entries(updatedAt, before, added')
    BY <2>1 DEF CacheInv
  <2> QED BY <2>1, <2>2, CleanupKeepsInv
<1>3. CASE UNCHANGED caching
  BY <1>3 DEF CacheInv, Additions, Entries, Linear, Since, Never, caching
<1> QED BY <1>1, <1>2, <1>3, TickKeepsInv DEF CacheNext

LEMMA CacheRemembers ==
  ASSUME CacheInv
  PROVE  RemembersTheLatest
<1>1. /\ now \in Nat /\ added \in [Required -> {-1} \cup 0..now] /\ Never = -1
      /\ DOMAIN updatedAt \subseteq Required
      /\ \A m \in DOMAIN updatedAt : updatedAt[m] = added[m] /\ added[m] \in 0..now
      /\ Additions(added)
  BY DEF CacheInv, Additions, Entries, Never
<1>2. \A m \in Required : has(m) <=> m \in DOMAIN updatedAt /\ ~(now - added[m] > Ttl)
  BY <1>1 DEF has, ids, expired
<1>3. ASSUME NEW m \in Required, recent(m), others(m, added[m]) < MaxEntries
      PROVE  has(m)
  <2>1. others(m, added[m]) = Cardinality(Since(added, m))
    BY DEF others, Since
  <2>2. added[m] # Never /\ ~(now - added[m] > Ttl)
    BY <1>1, <1>3 DEF recent
  <2>3. Cardinality(Since(added, m)) \in Nat
    BY <1>1, <2>2, SinceFinite
  <2>4. m \in DOMAIN updatedAt
    BY <1>3, <2>1, <2>2, <2>3 DEF CacheInv, Entries
  <2> QED BY <1>2, <2>2, <2>4
<1>4. ASSUME NEW m \in Required, has(m)
      PROVE  recent(m) /\ others(m, added[m] + 1) < MaxEntries
  <2>1. m \in DOMAIN updatedAt /\ added[m] \in 0..now /\ ~(now - added[m] > Ttl)
    BY <1>1, <1>2, <1>4
  <2>2. recent(m)
    BY <1>1, <2>1 DEF recent
  <2> DEFINE later == {o \in Required \ {m} : added[o] >= added[m] + 1}
  <2>3. others(m, added[m] + 1) = Cardinality(later)
    BY DEF others
  <2>4. later \in SUBSET ((DOMAIN updatedAt) \ {m})
    BY <1>1, <2>1 DEF CacheInv, Entries
  <2>5. IsFiniteSet(DOMAIN updatedAt) /\ Cardinality(DOMAIN updatedAt) \in Nat
    <3>1. DOMAIN updatedAt \in SUBSET {o \in Required : added[o] # Never}
      BY <1>1
    <3> QED BY <1>1, <3>1, FS_Subset, FS_CardinalityType DEF Additions
  <2>6. /\ IsFiniteSet((DOMAIN updatedAt) \ {m})
        /\ Cardinality((DOMAIN updatedAt) \ {m}) = Cardinality(DOMAIN updatedAt) - 1
    BY <2>1, <2>5, FS_RemoveElement
  <2>7. IsFiniteSet(later) /\ Cardinality(later) <= Cardinality((DOMAIN updatedAt) \ {m})
    BY <2>4, <2>6, FS_Subset
  <2>8. Cardinality(later) \in Nat /\ Cardinality(DOMAIN updatedAt) <= MaxEntries
    BY <2>7, FS_CardinalityType DEF CacheInv
  <2>9. Cardinality(later) < MaxEntries
    <3> HIDE DEF later
    <3> QED BY <2>5, <2>6, <2>7, <2>8
  <2> QED BY <2>2, <2>3, <2>9
<1>5. Cardinality(ids) <= MaxEntries
  BY DEF CacheInv, ids
<1> QED BY <1>1, <1>3, <1>4, <1>5 DEF RemembersTheLatest, ids

(* dedupe-cache.ts, for any number of ids, any limits and any order of      *)
(* additions and look-ups: a message is remembered exactly as long as its   *)
(* age and the number of later ones allow.                                  *)
THEOREM CacheRemembersTheLatest == CacheSpec => []RemembersTheLatest
<1>1. CacheInit => CacheInv
  BY CacheStart
<1>2. CacheInv /\ [CacheNext]_caching => CacheInv'
  BY CacheStep DEF caching
<1>3. CacheInv => RemembersTheLatest
  BY CacheRemembers
<1> QED BY <1>1, <1>2, <1>3, PTL DEF CacheSpec

-----------------------------------------------------------------------------
(* What is handled, how often, and what is acknowledged                     *)

(* The calls whose handlers were started.                                   *)
Calls == {handled[i] : i \in DOMAIN handled}
Attempted(r) == step[r] = "acking" \/ r \in Calls
WasHandled(m) == \E r \in Calls : msg[r] = m

HandledApart == \A i, j \in DOMAIN handled : handled[i] = handled[j] => i = j

(* A handler starts when the ack was sent, and the cache was told then.     *)
AckingAreNew == \A r \in DOMAIN msg : step[r] = "acking" => r \notin Calls
HandledAreAdded == \A r \in Calls : msg[r] \in Required => added[msg[r]] # Never

(* Of the calls for a message that was not repeated while its ack was being *)
(* sent, one sends the first ack.                                           *)
AttemptedOnce ==
    \A r, s \in DOMAIN msg :
        msg[r] = msg[s] /\ msg[r] \in Required \ overlapped /\ Attempted(r) /\ Attempted(s) => r = s

(* An ack that was sent, is in the cache or is about to be sent from it is  *)
(* for a message that was handled, or nothing was there to handle it.       *)
Served(m) == m \in Unhandled \/ WasHandled(m)
AckedAreHandled ==
    /\ \A m \in acks \cup DOMAIN updatedAt : Served(m)
    /\ \A r \in DOMAIN msg : step[r] = "resending" => Served(msg[r])

HandlingInv == HandledApart /\ AckingAreNew /\ HandledAreAdded /\ AckedAreHandled

RouterInv == OrderInv /\ CacheInv /\ HandlingInv

(* Every step of the router is one of the cache or leaves it alone.         *)
LEMMA CacheSteps ==
  ASSUME OrderInv, [Next]_vars
  PROVE  [CacheNext]_caching
<1>1. ASSUME NEW m \in Msgs, \/ RouteNew(m) \/ RouteKnown(m) \/ RoutePlain(m)
                               \/ RouteHeartbeat(m) \/ RouteInvalid(m) \/ RouteClosing(m)
        PROVE  [CacheNext]_caching
    BY <1>1 DEF RouteNew, RouteKnown, RoutePlain, RouteHeartbeat, RouteInvalid, RouteClosing, CacheNext, caching
<1>2. ASSUME NEW r \in DOMAIN msg, \/ AckSent(r) \/ AckResent(r) \/ Answered(r)
                                     \/ Complained(r) \/ HandlerDone(r)
        PROVE  [CacheNext]_caching
    <2>1. step[r] = "acking" => msg[r] \in Required
      BY DEF OrderInv, AcksRequired
    <2>2. CASE AckSent(r)
      BY <2>1, <2>2 DEF AckSent, CacheNext
    <2>3. CASE ~AckSent(r)
      BY <1>2, <2>3 DEF AckResent, Answered, Complained, HandlerDone, caching
    <2> QED BY <2>2, <2>3
<1> QED BY <1>1, <1>2 DEF Next, SocketClosed, Clock, CacheNext, caching, vars

(* What the cache's operations do to its ids.                               *)
LEMMA CacheForgets ==
  ASSUME NEW m \in Required, CacheInv
  PROVE  /\ Get(m) => DOMAIN updatedAt' \subseteq DOMAIN updatedAt /\ added' = added
         /\ Add(m) => /\ DOMAIN updatedAt' \subseteq DOMAIN updatedAt \cup {m}
                            /\ added'[m] # Never
                            /\ \A n \in Required \ {m} : added'[n] = added[n]
<1>1. now \in Nat /\ added \in [Required -> {-1} \cup 0..now] /\ Never = -1
  BY DEF CacheInv, Additions, Never
<1>2. ASSUME Get(m)
      PROVE  DOMAIN updatedAt' \subseteq DOMAIN updatedAt /\ added' = added
  BY <1>2 DEF Get, cleanup, kept
<1>3. ASSUME Add(m)
      PROVE  /\ DOMAIN updatedAt' \subseteq DOMAIN updatedAt \cup {m}
             /\ added'[m] # Never
             /\ \A n \in Required \ {m} : added'[n] = added[n]
  <2>1. DOMAIN updatedAt' \subseteq DOMAIN set(m)
    BY <1>3 DEF Add, cleanup, kept
  <2>2. DOMAIN set(m) = DOMAIN updatedAt \cup {m}
    BY DEF set, ids
  <2>3. added' = [added EXCEPT ![m] = now]
    BY <1>3 DEF Add
  <2> QED BY <1>1, <2>1, <2>2, <2>3
<1> QED BY <1>2, <1>3

(* One more handler starts.                                                 *)
LEMMA OneMore ==
  ASSUME handled \in Seq(Nat), NEW r \in Nat, handled' = Append(handled, r)
  PROVE  /\ DOMAIN handled' = DOMAIN handled \cup {Len(handled) + 1}
         /\ handled'[Len(handled) + 1] = r
         /\ \A i \in DOMAIN handled : handled'[i] = handled[i]
         /\ Calls' = Calls \cup {r}
<1>1. /\ DOMAIN handled' = 1..(Len(handled) + 1) /\ handled'[Len(handled) + 1] = r
      /\ \A i \in 1..Len(handled) : handled'[i] = handled[i]
      /\ DOMAIN handled = 1..Len(handled) /\ Len(handled) \in Nat
  BY Appended
<1>2. DOMAIN handled' = DOMAIN handled \cup {Len(handled) + 1}
  BY <1>1
<1>3. Calls' \subseteq Calls \cup {r}
  BY <1>1, <1>2 DEF Calls
<1>4. Calls \subseteq Calls'
  BY <1>1, <1>2 DEF Calls
<1>5. r \in Calls'
  BY <1>1, <1>2 DEF Calls
<1> QED BY <1>1, <1>2, <1>3, <1>4, <1>5

(* A message arrives.                                                       *)
LEMMA ArrivalFacts ==
  ASSUME RoutesType, NEW m \in Msgs, NEW where \in Steps, begin(m, where),
         handled' = handled \/ (m \in Plain /\ handled' = Append(handled, this))
  PROVE  /\ this \notin DOMAIN msg /\ DOMAIN msg' = DOMAIN msg \cup {this}
         /\ msg'[this] = m /\ step'[this] = where
         /\ \A r \in DOMAIN msg : msg'[r] = msg[r] /\ step'[r] = step[r]
         /\ DOMAIN handled \subseteq DOMAIN handled'
         /\ \A i \in DOMAIN handled : handled'[i] = handled[i]
         /\ \A i \in DOMAIN handled' \ DOMAIN handled :
               i = Len(handled) + 1 /\ handled'[i] = this /\ m \in Plain
         /\ Calls \subseteq DOMAIN msg /\ Calls \subseteq Calls'
         /\ Calls' \subseteq Calls \cup {this} /\ (this \in Calls' => m \in Plain)
<1>1. /\ msg \in Seq(Msgs) /\ step \in Seq(Steps) /\ Len(step) = Len(msg) /\ handled \in Seq(Nat)
      /\ \A i \in DOMAIN handled : handled[i] \in DOMAIN msg
  BY DEF RoutesType
<1>2. /\ DOMAIN msg = 1..Len(msg) /\ Len(msg) \in Nat /\ this = Len(msg) + 1
      /\ DOMAIN handled = 1..Len(handled) /\ Len(handled) \in Nat
  BY <1>1 DEF this
<1>3. /\ this \notin DOMAIN msg /\ DOMAIN msg' = DOMAIN msg \cup {this}
      /\ msg'[this] = m /\ step'[this] = where
      /\ \A r \in DOMAIN msg : msg'[r] = msg[r] /\ step'[r] = step[r]
  <2>1. /\ DOMAIN msg' = 1..(Len(msg) + 1) /\ msg'[this] = m
        /\ \A r \in 1..Len(msg) : msg'[r] = msg[r]
    BY <1>1, <1>2, Appended DEF begin
  <2>2. step'[this] = where /\ \A r \in 1..Len(msg) : step'[r] = step[r]
    BY <1>1, <1>2, Appended DEF begin
  <2> QED BY <1>2, <2>1, <2>2
<1>4. /\ DOMAIN handled \subseteq DOMAIN handled'
      /\ \A i \in DOMAIN handled : handled'[i] = handled[i]
      /\ \A i \in DOMAIN handled' \ DOMAIN handled :
            i = Len(handled) + 1 /\ handled'[i] = this /\ m \in Plain
  <2>1. CASE handled' = handled
    BY <2>1
  <2>2. CASE m \in Plain /\ handled' = Append(handled, this)
    <3>1. this \in Nat
      BY <1>2
    <3> QED BY <1>1, <2>2, <3>1, OneMore
  <2> QED BY <2>1, <2>2
<1>5. /\ Calls \subseteq DOMAIN msg /\ Calls \subseteq Calls'
      /\ Calls' \subseteq Calls \cup {this} /\ (this \in Calls' => m \in Plain)
  BY <1>1, <1>3, <1>4 DEF Calls
<1> QED BY <1>3, <1>4, <1>5

LEMMA HandlingArrival ==
  ASSUME RoutesType, HandlingInv, NEW m \in Msgs, NEW where \in Steps, begin(m, where),
         handled' = handled \/ (m \in Plain /\ where # "acking" /\ handled' = Append(handled, this)),
         where = "resending" => Served(m),
         DOMAIN updatedAt' \subseteq DOMAIN updatedAt, UNCHANGED <<acks, added>>
  PROVE  HandlingInv'
<1>1. /\ this \notin DOMAIN msg /\ DOMAIN msg' = DOMAIN msg \cup {this}
      /\ msg'[this] = m /\ step'[this] = where
      /\ \A r \in DOMAIN msg : msg'[r] = msg[r] /\ step'[r] = step[r]
      /\ DOMAIN handled \subseteq DOMAIN handled'
      /\ \A i \in DOMAIN handled : handled'[i] = handled[i]
      /\ \A i \in DOMAIN handled' \ DOMAIN handled :
            i = Len(handled) + 1 /\ handled'[i] = this /\ m \in Plain
      /\ Calls \subseteq DOMAIN msg /\ Calls \subseteq Calls'
      /\ Calls' \subseteq Calls \cup {this} /\ (this \in Calls' => m \in Plain)
  BY ArrivalFacts
<1>2. HandledApart'
  BY <1>1 DEF HandlingInv, HandledApart, Calls
<1>3. AckingAreNew'
  <2>1. this \in Calls' => where # "acking"
    <3>1. CASE handled' = handled
      BY <1>1, <3>1 DEF Calls
    <3> QED BY <3>1
  <2> QED BY <1>1, <2>1 DEF HandlingInv, AckingAreNew
<1>4. HandledAreAdded'
  BY <1>1, KindsAssumption DEF HandlingInv, HandledAreAdded, Never
<1>5. \A n : Served(n) => Served(n)'
  BY <1>1 DEF Served, WasHandled
<1>6. AckedAreHandled'
  BY <1>1, <1>5 DEF HandlingInv, AckedAreHandled
<1> QED BY <1>2, <1>3, <1>4, <1>6 DEF HandlingInv

(* The first ack of a message was sent.                                     *)
LEMMA HandlingAck ==
  ASSUME OrderInv, CacheInv, HandlingInv, NEW r \in DOMAIN msg, AckSent(r)
  PROVE  HandlingInv' /\ Calls' \subseteq Calls \cup {r} /\ step'[r] # "acking"
         /\ \A s \in DOMAIN msg \ {r} : step'[s] = step[s]
<1>1. /\ msg[r] \in Required /\ step[r] = "acking" /\ r \notin Calls
      /\ UNCHANGED <<msg, overlapped>> /\ handled' = calls(r, msg[r])
      /\ acks' = acks \cup {msg[r]} /\ Add(msg[r])
  BY DEF AckSent, OrderInv, AcksRequired, HandlingInv, AckingAreNew
<1>2. /\ step'[r] \in {"handling", "done"}
      /\ \A s \in DOMAIN msg \ {r} : step'[s] = step[s]
  BY DEF AckSent, sent, handing, OrderInv, RoutesType
<1>3. RoutesType /\ handled \in Seq(Nat) /\ r \in Nat
  BY DEF OrderInv, RoutesType
<1>4. /\ DOMAIN handled \subseteq DOMAIN handled'
      /\ DOMAIN handled' \subseteq DOMAIN handled \cup {Len(handled) + 1}
      /\ Len(handled) + 1 \in DOMAIN handled' \ DOMAIN handled => handled'[Len(handled) + 1] = r
      /\ \A i \in DOMAIN handled : handled'[i] = handled[i]
      /\ Calls \subseteq Calls' /\ Calls' \subseteq Calls \cup {r}
      /\ msg[r] \notin Unhandled => r \in Calls'
  <2>1. CASE msg[r] \in Unhandled
    <3>1. handled' = handled
      BY <1>1, <2>1 DEF calls
    <3> QED BY <2>1, <3>1 DEF Calls
  <2>2. CASE msg[r] \notin Unhandled
    <3>1. handled' = Append(handled, r)
      BY <1>1, <2>2 DEF calls
    <3> QED BY <1>3, <3>1, OneMore
  <2> QED BY <2>1, <2>2
<1>5. /\ DOMAIN updatedAt' \subseteq DOMAIN updatedAt \cup {msg[r]}
      /\ added'[msg[r]] # Never
      /\ \A n \in Required \ {msg[r]} : added'[n] = added[n]
  BY <1>1, CacheForgets
<1>6. HandledApart'
  BY <1>1, <1>4 DEF HandlingInv, HandledApart, Calls
<1>7. AckingAreNew'
  BY <1>1, <1>2, <1>4 DEF HandlingInv, AckingAreNew
<1>8. HandledAreAdded'
  <2> SUFFICES ASSUME NEW s \in Calls', msg[s] \in Required
               PROVE  added'[msg[s]] # Never
    BY <1>1 DEF HandledAreAdded, Never
  <2>1. CASE msg[s] = msg[r]
    BY <1>5, <2>1
  <2>2. CASE msg[s] # msg[r]
    BY <1>4, <1>5, <2>2 DEF HandlingInv, HandledAreAdded
  <2> QED BY <2>1, <2>2
<1>9. \A n : Served(n) => Served(n)'
  BY <1>1, <1>4 DEF Served, WasHandled
<1>10. Served(msg[r])'
  BY <1>1, <1>4 DEF Served, WasHandled
<1>11. AckedAreHandled'
  <2>1. \A m \in acks' \cup DOMAIN updatedAt' : m = msg[r] \/ m \in acks \cup DOMAIN updatedAt
    BY <1>1, <1>5
  <2>2. \A s \in DOMAIN msg : step'[s] = "resending" => step[s] = "resending"
    BY <1>2
  <2> QED BY <1>1, <1>9, <1>10, <2>1, <2>2 DEF HandlingInv, AckedAreHandled
<1> QED BY <1>2, <1>4, <1>6, <1>7, <1>8, <1>11 DEF HandlingInv

(* Other sends are done or fail, handlers settle, time passes.              *)
LEMMA HandlingOthers ==
  ASSUME HandlingInv, UNCHANGED <<msg, handled, updatedAt, added>>,
         \A r \in DOMAIN msg : step'[r] \in {"acking", "resending"} => step'[r] = step[r],
         \A m \in acks' \ acks : Served(m)
  PROVE  HandlingInv' /\ Calls' = Calls
<1>1. Calls' = Calls
  BY DEF Calls
<1>2. HandledApart' /\ AckingAreNew'
  BY <1>1 DEF HandlingInv, HandledApart, AckingAreNew
<1>3. HandledAreAdded'
  BY <1>1 DEF HandlingInv, HandledAreAdded, Never
<1>4. AckedAreHandled'
  BY <1>1 DEF HandlingInv, AckedAreHandled, Served, WasHandled
<1> QED BY <1>1, <1>2, <1>3, <1>4 DEF HandlingInv

(* How a step of the router is one of those.                                *)
Arrives(m) == RouteNew(m) \/ RouteKnown(m) \/ RoutePlain(m) \/ RouteHeartbeat(m) \/ RouteInvalid(m) \/ RouteClosing(m)

LEMMA ArrivalIs ==
  ASSUME CacheInv, NEW m \in Msgs, Arrives(m)
  PROVE  \E where \in Steps :
            /\ begin(m, where)
            /\ handled' = handled \/ (m \in Plain /\ where # "acking" /\ handled' = Append(handled, this))
            /\ where = "resending" => m \in DOMAIN updatedAt
            /\ where = "acking" => m \in Required /\ ~has(m)
            /\ DOMAIN updatedAt' \subseteq DOMAIN updatedAt /\ UNCHANGED <<acks, added>>
            /\ arrives(m)
<1> DEFINE Is(where) ==
            /\ begin(m, where)
            /\ handled' = handled \/ (m \in Plain /\ where # "acking" /\ handled' = Append(handled, this))
            /\ where = "resending" => m \in DOMAIN updatedAt
            /\ where = "acking" => m \in Required /\ ~has(m)
            /\ DOMAIN updatedAt' \subseteq DOMAIN updatedAt /\ UNCHANGED <<acks, added>>
            /\ arrives(m)
<1>1. {"acking", "resending", "answering", "complaining", "handling", "closing", "done", "rejected"} \subseteq Steps
  BY DEF Steps
<1>2. CASE RouteNew(m)
  <2>1. DOMAIN updatedAt' \subseteq DOMAIN updatedAt /\ added' = added
    BY <1>2, CacheForgets DEF RouteNew
  <2>2. Is("acking") \/ Is("rejected")
    BY <1>2, <2>1 DEF RouteNew, beginSend
  <2> QED BY <1>1, <2>2
<1>3. CASE RouteKnown(m)
  <2>1. DOMAIN updatedAt' \subseteq DOMAIN updatedAt /\ added' = added
    BY <1>3, CacheForgets DEF RouteKnown
  <2>2. m \in DOMAIN updatedAt
    BY <1>3 DEF RouteKnown, has, ids
  <2>3. Is("resending") \/ Is("rejected")
    BY <1>3, <2>1, <2>2 DEF RouteKnown, beginSend
  <2> QED BY <1>1, <2>3
<1>4. CASE RoutePlain(m)
  <2>1. Is("handling") \/ Is("done")
    BY <1>4 DEF RoutePlain, handing, calls, caching
  <2> QED BY <1>1, <2>1
<1>5. CASE RouteHeartbeat(m) \/ RouteInvalid(m)
  <2>1. Is("answering") \/ Is("complaining") \/ Is("rejected")
    BY <1>5 DEF RouteHeartbeat, RouteInvalid, beginSend, caching
  <2> QED BY <1>1, <2>1
<1>6. CASE RouteClosing(m)
  <2>1. Is("closing")
    BY <1>6 DEF RouteClosing, caching
  <2> QED BY <1>1, <2>1
<1> QED BY <1>2, <1>3, <1>4, <1>5, <1>6 DEF Arrives

LEMMA ProgressIs ==
  ASSUME OrderInv, HandlingInv,
         \/ \E r \in DOMAIN msg : AckResent(r) \/ Answered(r) \/ Complained(r) \/ HandlerDone(r)
         \/ SocketClosed \/ Clock \/ UNCHANGED vars
  PROVE  /\ UNCHANGED <<msg, handled, overlapped>>
         /\ \A r \in DOMAIN msg : step'[r] \in {"acking", "resending"} => step'[r] = step[r]
         /\ \A m \in acks' \ acks : Served(m)
         /\ UNCHANGED <<updatedAt, added>>
<1>1. DOMAIN step = DOMAIN msg
  BY DEF OrderInv, RoutesType
<1>2. ASSUME NEW r \in DOMAIN msg, AckResent(r) \/ Answered(r) \/ Complained(r) \/ HandlerDone(r)
      PROVE  /\ UNCHANGED <<msg, handled, overlapped, updatedAt, added>>
             /\ \A s \in DOMAIN msg : step'[s] \in {"acking", "resending"} => step'[s] = step[s]
             /\ \A m \in acks' \ acks : Served(m)
  BY <1>1, <1>2 DEF AckResent, Answered, Complained, HandlerDone, sent, caching, HandlingInv, AckedAreHandled
<1>3. CASE SocketClosed
  BY <1>1, <1>3 DEF SocketClosed, caching
<1>4. CASE Clock \/ UNCHANGED vars
  BY <1>4 DEF Clock, Tick, routing, caching, vars
<1> QED BY <1>2, <1>3, <1>4

LEMMA RouterStart ==
  ASSUME Init
  PROVE  RouterInv /\ AttemptedOnce
<1>1. HandlingInv
  BY DEF Init, CacheInit, HandlingInv, HandledApart, AckingAreNew, HandledAreAdded, AckedAreHandled, Calls
<1>2. AttemptedOnce
  BY DEF Init, AttemptedOnce
<1> QED BY <1>1, <1>2, OrderStart, CacheStart DEF Init, RouterInv

LEMMA RouterStep ==
  ASSUME RouterInv, [Next]_vars
  PROVE  RouterInv'
<1>1. OrderInv /\ CacheInv /\ HandlingInv /\ RoutesType
  BY DEF RouterInv, OrderInv
<1>2. OrderInv' /\ CacheInv'
  BY <1>1, OrderStep, CacheSteps, CacheStep
<1>3. ASSUME NEW m \in Msgs, Arrives(m)
      PROVE  HandlingInv'
  <2>1. \A n \in DOMAIN updatedAt : Served(n)
    BY <1>1 DEF HandlingInv, AckedAreHandled
  <2> QED BY <1>1, <1>3, <2>1, ArrivalIs, HandlingArrival
<1>4. ASSUME NEW r \in DOMAIN msg, AckSent(r)
      PROVE  HandlingInv'
  BY <1>1, <1>4, HandlingAck
<1>5. ASSUME \/ \E r \in DOMAIN msg : AckResent(r) \/ Answered(r) \/ Complained(r) \/ HandlerDone(r)
             \/ SocketClosed \/ Clock \/ UNCHANGED vars
      PROVE  HandlingInv'
  <2>1. /\ UNCHANGED <<msg, handled, updatedAt, added>>
        /\ \A r \in DOMAIN msg : step'[r] \in {"acking", "resending"} => step'[r] = step[r]
        /\ \A m \in acks' \ acks : Served(m)
    BY <1>1, <1>5, ProgressIs
  <2> QED BY <1>1, <2>1, HandlingOthers
<1>6. HandlingInv'
  BY <1>3, <1>4, <1>5 DEF Next, Arrives
<1> QED BY <1>2, <1>6 DEF RouterInv

(* The cache has room for every message and keeps it as long as the model's *)
(* clock runs.                                                              *)
InLimits == IsFiniteSet(Required) /\ Cardinality(Required) <= MaxEntries /\ MaxTime <= Ttl

LEMMA AllRemembered ==
  ASSUME InLimits, CacheInv, NEW m \in Required, added[m] # Never
  PROVE  has(m)
<1>1. /\ now \in 0..MaxTime /\ added[m] \in 0..now
      /\ \A n \in DOMAIN updatedAt : updatedAt[n] = added[n]
  BY DEF CacheInv, Additions, Entries
<1>2. IsFiniteSet(Required \ {m}) /\ Cardinality(Required \ {m}) = Cardinality(Required) - 1
  BY FS_RemoveElement DEF InLimits
<1>3. Since(added, m) \in SUBSET (Required \ {m})
  BY DEF Since
<1>4. Cardinality(Since(added, m)) <= Cardinality(Required \ {m})
  BY <1>2, <1>3, FS_Subset
<1>5. Cardinality(Since(added, m)) \in Nat /\ Cardinality(Required) \in Nat
  BY <1>2, <1>3, FS_Subset, FS_CardinalityType DEF InLimits
<1>6. ~(Cardinality(Since(added, m)) >= MaxEntries) /\ ~(now - added[m] > Ttl)
  <2>1. Cardinality(Required) <= MaxEntries /\ MaxTime <= Ttl
    BY DEF InLimits
  <2>2. ~(Cardinality(Since(added, m)) >= MaxEntries)
    BY <1>2, <1>4, <1>5, <2>1
  <2>3. ~(now - added[m] > Ttl)
    BY <1>1, <2>1
  <2> QED BY <2>2, <2>3
<1>7. m \in DOMAIN updatedAt
  BY <1>6 DEF CacheInv, Entries
<1> QED BY <1>1, <1>6, <1>7 DEF has, ids, expired

LEMMA OnceStep ==
  ASSUME InLimits, RouterInv, AttemptedOnce, [Next]_vars
  PROVE  AttemptedOnce'
<1>1. OrderInv /\ CacheInv /\ HandlingInv /\ RoutesType
  BY DEF RouterInv, OrderInv
<1>2. ASSUME NEW m \in Msgs, Arrives(m)
      PROVE  AttemptedOnce'
  <2>1. PICK where \in Steps :
            /\ begin(m, where)
            /\ handled' = handled \/ (m \in Plain /\ where # "acking" /\ handled' = Append(handled, this))
            /\ where = "acking" => m \in Required /\ ~has(m)
            /\ arrives(m)
    BY <1>1, <1>2, ArrivalIs
  <2>2. PICK new :
        /\ new \notin DOMAIN msg /\ DOMAIN msg' = DOMAIN msg \cup {new}
        /\ msg'[new] = m /\ step'[new] = where
        /\ \A r \in DOMAIN msg : msg'[r] = msg[r] /\ step'[r] = step[r]
        /\ Calls' \subseteq Calls \cup {new} /\ (new \in Calls' => m \in Plain)
    BY <1>1, <2>1, ArrivalFacts
  <2>3. DOMAIN step = DOMAIN msg
    BY <1>1 DEF RoutesType
  <2>4. overlapped \subseteq overlapped'
    BY <2>1 DEF arrives
  <2>5. \A r \in DOMAIN msg : msg[r] = m /\ step[r] = "acking" => m \in overlapped'
    BY <2>1, <2>3 DEF arrives
  <2>6. \A r \in Calls : msg[r] = m /\ m \in Required => has(m)
    BY <1>1, AllRemembered DEF HandlingInv, HandledAreAdded
  <2>7. \A r \in DOMAIN msg : Attempted(r)' => Attempted(r)
    BY <2>2 DEF Attempted
  <2>8. Attempted(new)' /\ m \in Required => where = "acking"
    <3>1. m \in Required => m \notin Plain
      BY KindsAssumption
    <3> QED BY <2>2, <3>1 DEF Attempted
  <2>9. \A r \in DOMAIN msg :
           msg[r] = m /\ m \in Required \ overlapped' /\ Attempted(r) => ~Attempted(new)'
    BY <2>1, <2>5, <2>6, <2>8 DEF Attempted
  <2> SUFFICES ASSUME NEW r \in DOMAIN msg', NEW s \in DOMAIN msg',
                      msg'[r] = msg'[s], msg'[r] \in Required \ overlapped',
                      Attempted(r)', Attempted(s)'
               PROVE  r = s
    BY DEF AttemptedOnce
  <2>10. CASE r \in DOMAIN msg /\ s \in DOMAIN msg
    BY <2>2, <2>4, <2>7, <2>10 DEF AttemptedOnce
  <2>11. CASE r = new /\ s \in DOMAIN msg
    BY <2>2, <2>7, <2>9, <2>11
  <2>12. CASE s = new /\ r \in DOMAIN msg
    BY <2>2, <2>7, <2>9, <2>12
  <2> QED BY <2>2, <2>10, <2>11, <2>12
<1>3. ASSUME NEW r \in DOMAIN msg, AckSent(r)
      PROVE  AttemptedOnce'
  <2>1. /\ Calls' \subseteq Calls \cup {r} /\ \A s \in DOMAIN msg \ {r} : step'[s] = step[s]
        /\ step[r] = "acking" /\ UNCHANGED <<msg, overlapped>>
    BY <1>1, <1>3, HandlingAck DEF AckSent
  <2>2. \A s \in DOMAIN msg : Attempted(s)' => Attempted(s)
    BY <2>1 DEF Attempted
  <2> QED BY <2>1, <2>2 DEF AttemptedOnce
<1>4. ASSUME \/ \E r \in DOMAIN msg : AckResent(r) \/ Answered(r) \/ Complained(r) \/ HandlerDone(r)
             \/ SocketClosed \/ Clock \/ UNCHANGED vars
      PROVE  AttemptedOnce'
  <2>1. /\ UNCHANGED <<msg, handled, overlapped>>
        /\ \A r \in DOMAIN msg : step'[r] \in {"acking", "resending"} => step'[r] = step[r]
    BY <1>1, <1>4, ProgressIs
  <2>2. \A s \in DOMAIN msg : Attempted(s)' => Attempted(s)
    BY <2>1 DEF Attempted, Calls
  <2> QED BY <2>1, <2>2 DEF AttemptedOnce
<1> QED BY <1>2, <1>3, <1>4 DEF Next, Arrives

(* envelope-router.ts:82-87: whatever is repeated, remembered, forgotten or *)
(* fails, and whichever handlers are left out, an ack goes out for a        *)
(* message that has a handler only when that was started.                   *)
THEOREM AckedAfterHandled == Spec => []AckMeansHandled
<1>1. Init => RouterInv
  BY RouterStart
<1>2. RouterInv /\ [Next]_vars => RouterInv'
  BY RouterStep
<1>3. RouterInv => AckMeansHandled
  BY DEF RouterInv, HandlingInv, AckedAreHandled, Served, WasHandled, Calls, AckMeansHandled
<1> QED BY <1>1, <1>2, <1>3, PTL DEF Spec

(* In the cache's limits, any number of messages, repeated any number of    *)
(* times but not while their ack is being sent, are handled once each.      *)
THEOREM OnceInLimits ==
  ASSUME InLimits
  PROVE  Spec => []HandledOnce
<1> DEFINE Inv == RouterInv /\ AttemptedOnce
<1>1. Init => Inv
  BY RouterStart
<1>2. Inv /\ [Next]_vars => Inv'
  BY RouterStep, OnceStep
<1>3. Inv => HandledOnce
  <2> SUFFICES ASSUME Inv, NEW i \in DOMAIN handled, NEW j \in DOMAIN handled,
                      msg[handled[i]] = msg[handled[j]], msg[handled[i]] \in Required \ overlapped
               PROVE  i = j
    BY DEF HandledOnce
  <2>1. handled[i] \in DOMAIN msg /\ handled[j] \in DOMAIN msg
    BY DEF RouterInv, OrderInv, RoutesType
  <2>2. handled[i] = handled[j]
    BY <2>1 DEF AttemptedOnce, Attempted, Calls
  <2> QED BY <2>2 DEF RouterInv, HandlingInv, HandledApart
<1> HIDE DEF Inv
<1> QED BY <1>1, <1>2, <1>3, PTL DEF Spec

(* The router uses its cache as DedupeCache promises, so what a repetition  *)
(* finds there is what was added last.                                      *)
THEOREM RouterKeepsCache == Spec => CacheSpec /\ []RemembersTheLatest
<1>1. Init => RouterInv /\ CacheInit
  BY RouterStart DEF Init
<1>2. RouterInv /\ [Next]_vars => RouterInv' /\ [CacheNext]_caching
  BY RouterStep, CacheSteps DEF RouterInv, caching
<1>3. RouterInv => RemembersTheLatest
  BY CacheRemembers DEF RouterInv
<1> QED BY <1>1, <1>2, <1>3, PTL DEF Spec, CacheSpec

(* Beyond the limits too, a message whose handler was started is taken for  *)
(* new only when its last ack is older than the ttl, or as many others were *)
(* acknowledged since as the cache has room for.                            *)
ForgottenForCause ==
    [][\A m \in Required : WasHandled(m) /\ RouteNew(m) =>
          \/ now - added[m] > Ttl
          \/ others(m, added[m]) >= MaxEntries]_vars

THEOREM HandledAgainForCause == Spec => ForgottenForCause
<1>1. Init => RouterInv
  BY RouterStart
<1>2. RouterInv /\ [Next]_vars => RouterInv'
  BY RouterStep
<1>3. ASSUME RouterInv, NEW m \in Required, WasHandled(m), RouteNew(m)
      PROVE  now - added[m] > Ttl \/ others(m, added[m]) >= MaxEntries
  <2>1. added[m] # Never /\ ~has(m)
    BY <1>3 DEF RouterInv, HandlingInv, HandledAreAdded, WasHandled, RouteNew
  <2>2. Additions(added) /\ now \in Nat /\ added[m] \in Nat
    BY <1>3, <2>1 DEF RouterInv, CacheInv, Additions
  <2>3. ~(recent(m) /\ others(m, added[m]) < MaxEntries)
    BY <1>3, <2>1, CacheRemembers DEF RouterInv, RemembersTheLatest
  <2>4. others(m, added[m]) \in Nat
    <3>1. others(m, added[m]) = Cardinality(Since(added, m))
      BY DEF others, Since
    <3> QED BY <2>1, <2>2, <3>1, SinceFinite
  <2> QED BY <2>1, <2>2, <2>3, <2>4 DEF recent
<1>4. RouterInv /\ [Next]_vars =>
        [\A m \in Required : WasHandled(m) /\ RouteNew(m) =>
            \/ now - added[m] > Ttl
            \/ others(m, added[m]) >= MaxEntries]_vars
  BY <1>3
<1> QED BY <1>1, <1>2, <1>4, PTL DEF Spec, ForgottenForCause
-----------------------------------------------------------------------------
(* Types                                                                    *)

SendSteps == {"acking", "resending", "answering", "complaining"}

(* Every send that is queued is still awaited by its call, and only calls   *)
(* whose message requires an ack send one.                                  *)
SendsAwaited == \A i \in DOMAIN outbox : step[outbox[i]] \in SendSteps
ResentRequired == \A r \in DOMAIN msg : step[r] = "resending" => msg[r] \in Required

TypesInv ==
    /\ socket \in {"open", "closing", "closed"} /\ Len(msg) <= MaxRoutes
    /\ acks \subseteq Required /\ SendsAwaited /\ ResentRequired

LEMMA TypesArrival ==
  ASSUME RoutesType, TypesInv, NEW m \in Msgs, NEW where \in Steps,
         begin(m, where), Len(msg) < MaxRoutes,
         where = "resending" => m \in Required,
         outbox' = outbox \/ (where \in SendSteps /\ outbox' = Append(outbox, this)),
         socket' \in {socket, "closing"}, acks' = acks
  PROVE  TypesInv'
<1>1. /\ msg \in Seq(Msgs) /\ step \in Seq(Steps) /\ Len(step) = Len(msg)
      /\ outbox \in Seq(Nat) /\ \A i \in DOMAIN outbox : outbox[i] \in 1..Len(msg)
  BY DEF RoutesType
<1>2. /\ Len(msg') = Len(msg) + 1 /\ DOMAIN msg' = 1..(Len(msg) + 1)
      /\ \A r \in 1..Len(msg) : msg'[r] = msg[r] /\ step'[r] = step[r]
      /\ msg'[this] = m /\ step'[this] = where /\ this = Len(msg) + 1
  BY <1>1 DEF begin, this
<1>3. SendsAwaited'
  <2>1. CASE outbox' = outbox
    BY <1>1, <1>2, <2>1 DEF TypesInv, SendsAwaited
  <2>2. CASE where \in SendSteps /\ outbox' = Append(outbox, this)
    <3>1. this \in Nat
      BY <1>1, <1>2
    <3>2. /\ DOMAIN outbox' = 1..(Len(outbox) + 1) /\ DOMAIN outbox = 1..Len(outbox)
          /\ outbox'[Len(outbox) + 1] = this /\ \A i \in 1..Len(outbox) : outbox'[i] = outbox[i]
          /\ Len(outbox) \in Nat
      BY <1>1, <2>2, <3>1, Appended
    <3>3. ASSUME NEW i \in 1..Len(outbox)
          PROVE  step'[outbox'[i]] \in SendSteps
      <4>1. outbox'[i] = outbox[i] /\ outbox[i] \in 1..Len(msg) /\ step[outbox[i]] \in SendSteps
        BY <1>1, <3>2, <3>3 DEF TypesInv, SendsAwaited
      <4> QED BY <1>2, <4>1
    <3>4. step'[outbox'[Len(outbox) + 1]] \in SendSteps
      BY <1>2, <2>2, <3>2
    <3> QED BY <3>2, <3>3, <3>4 DEF SendsAwaited
  <2> QED BY <2>1, <2>2
<1>4. ResentRequired'
  <2> SUFFICES ASSUME NEW r \in DOMAIN msg', step'[r] = "resending"
               PROVE  msg'[r] \in Required
    BY DEF ResentRequired
  <2>1. CASE r = this
    BY <1>2, <2>1
  <2>2. CASE r \in 1..Len(msg)
    BY <1>1, <1>2, <2>2 DEF TypesInv, ResentRequired
  <2> QED BY <1>1, <1>2, <2>1, <2>2
<1>5. Len(msg') <= MaxRoutes
  BY <1>1, <1>2, RoutesAssumption
<1> QED BY <1>3, <1>4, <1>5 DEF TypesInv

LEMMA TypesSent ==
  ASSUME OrderInv, TypesInv, NEW r \in DOMAIN msg, NEW where \in {"handling", "done", "closing"},
         sent(r, where), msg' = msg, socket' \in {socket, "closing"}, acks' \subseteq Required
  PROVE  TypesInv'
<1>1. /\ step \in Seq(Steps) /\ Len(step) = Len(msg) /\ msg \in Seq(Msgs) /\ outbox \in Seq(Nat)
      /\ \A i \in DOMAIN outbox : outbox[i] \in DOMAIN msg
  BY DEF OrderInv, RoutesType
<1>2. \A s \in DOMAIN msg : step'[s] = IF s = r THEN where ELSE step[s]
  BY <1>1 DEF sent
<1>3. SendsAwaited'
  <2> SUFFICES ASSUME NEW i \in DOMAIN outbox'
               PROVE  step'[outbox'[i]] \in SendSteps
    BY DEF SendsAwaited
  <2>1. /\ i \in Nat /\ 1 \in DOMAIN outbox /\ i + 1 \in DOMAIN outbox /\ 1 < i + 1
        /\ outbox'[i] = outbox[i + 1] /\ r = outbox[1]
    BY <1>1 DEF sent
  <2>2. outbox[i + 1] \in DOMAIN msg /\ outbox[i + 1] # r
    <3>1. outbox[1] < outbox[i + 1]
      BY <2>1 DEF OrderInv, SendsInOrder
    <3>2. outbox[1] \in Nat
      BY <1>1, <2>1
    <3> QED BY <1>1, <2>1, <3>1, <3>2
  <2> QED BY <1>2, <2>1, <2>2 DEF TypesInv, SendsAwaited
<1>4. ResentRequired'
  BY <1>2 DEF TypesInv, ResentRequired
<1> QED BY <1>3, <1>4 DEF TypesInv

LEMMA TypesStep ==
  ASSUME OrderInv, TypesInv, [Next]_vars
  PROVE  TypesInv'
<1>1. RoutesType /\ AcksRequired /\ DOMAIN step = DOMAIN msg
  BY DEF OrderInv, RoutesType
<1>2. ASSUME NEW m \in Msgs, \/ RouteNew(m) \/ RouteKnown(m) \/ RoutePlain(m)
                             \/ RouteHeartbeat(m) \/ RouteInvalid(m) \/ RouteClosing(m)
      PROVE  TypesInv'
  <2>1. Len(msg) < MaxRoutes /\ acks' = acks /\ socket' \in {socket, "closing"}
    BY <1>2 DEF RouteNew, RouteKnown, RoutePlain, RouteHeartbeat, RouteInvalid, RouteClosing, arrives
  <2>2. \E where \in Steps :
           /\ begin(m, where) /\ (where = "resending" => m \in Required)
           /\ outbox' = outbox \/ (where \in SendSteps /\ outbox' = Append(outbox, this))
    BY <1>2 DEF RouteNew, RouteKnown, RoutePlain, RouteHeartbeat, RouteInvalid, RouteClosing,
                beginSend, handing, Steps, SendSteps
  <2> QED BY <1>1, <2>1, <2>2, TypesArrival
<1>3. ASSUME NEW r \in DOMAIN msg, AckSent(r) \/ AckResent(r) \/ Answered(r) \/ Complained(r)
      PROVE  TypesInv'
  <2>1. acks' \subseteq Required
    BY <1>1, <1>3 DEF AckSent, AckResent, Answered, Complained, AcksRequired, TypesInv, ResentRequired
  <2>2. /\ msg' = msg /\ socket' \in {socket, "closing"}
        /\ \E where \in {"handling", "done", "closing"} : sent(r, where)
    BY <1>3 DEF AckSent, AckResent, Answered, Complained, handing
  <2> QED BY <2>1, <2>2, TypesSent
<1>4. ASSUME NEW r \in DOMAIN msg, HandlerDone(r)
      PROVE  TypesInv'
  <2>1. UNCHANGED <<msg, socket, outbox, acks>> /\ step[r] = "handling"
    BY <1>4 DEF HandlerDone
  <2>2. \A s \in DOMAIN msg : step'[s] = step[s] \/ (s = r /\ step'[s] \in {"done", "rejected"})
    BY <1>1, <1>4 DEF HandlerDone
  <2>3. \A i \in DOMAIN outbox : outbox[i] \in DOMAIN msg /\ outbox[i] # r
    BY <1>1, <2>1 DEF RoutesType, TypesInv, SendsAwaited, SendSteps
  <2>4. SendsAwaited'
    BY <2>1, <2>2, <2>3 DEF TypesInv, SendsAwaited
  <2>5. ResentRequired'
    BY <2>1, <2>2 DEF TypesInv, ResentRequired
  <2> QED BY <2>1, <2>4, <2>5 DEF TypesInv
<1>5. CASE SocketClosed
  <2>1. outbox' = <<>> /\ socket' = "closed" /\ UNCHANGED <<msg, acks>>
    BY <1>5 DEF SocketClosed
  <2>2. \A s \in DOMAIN msg : step'[s] \in {step[s], "done", "rejected"}
    BY <1>1, <1>5 DEF SocketClosed
  <2> QED BY <2>1, <2>2 DEF TypesInv, SendsAwaited, ResentRequired
<1>6. CASE Clock \/ UNCHANGED vars
  BY <1>6 DEF Clock, routing, vars, TypesInv, SendsAwaited, ResentRequired
<1> QED BY <1>2, <1>3, <1>4, <1>5, <1>6 DEF Next

(* The types of the router and its cache; a queued send is awaited by its   *)
(* call, which nothing ends before the send is done or the socket is gone.  *)
THEOREM RouterTypes == Spec => []TypeOK
<1>1. Init => RouterInv /\ TypesInv
  BY RouterStart, RoutesAssumption DEF Init, TypesInv, SendsAwaited, ResentRequired
<1>2. RouterInv /\ TypesInv /\ [Next]_vars => RouterInv' /\ TypesInv'
  BY RouterStep, TypesStep DEF RouterInv
<1>3. ASSUME RouterInv, TypesInv
      PROVE  TypeOK
  <2>1. CacheTypeOK
    BY <1>3 DEF RouterInv, CacheInv, Additions, Entries, CacheTypeOK, ids, Never
  <2>2. Len(step) = Len(msg) /\ \A r \in DOMAIN msg : msg[r] \in Msgs /\ step[r] \in Steps
    BY <1>3 DEF RouterInv, OrderInv, RoutesType
  <2> QED BY <1>3, <2>1, <2>2 DEF TypesInv, SendsAwaited, SendSteps, TypeOK
<1> QED BY <1>1, <1>2, <1>3, PTL DEF Spec
=============================================================================
