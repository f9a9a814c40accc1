--------------------------- MODULE EnvelopeRouter ---------------------------
(***************************************************************************)
(* envelope-router.ts on one connection: gateway messages are acknowledged, *)
(* deduplicated and handed to their handlers.                               *)
(*                                                                         *)
(* route() is called for every message as it arrives and not awaited, so    *)
(* the calls run concurrently; an action runs from one await to the next.   *)
(* The four kinds of messages for a handler are routed alike and form two   *)
(* sets: those with ack.mode = "required", whose acks DedupeCache keeps,    *)
(* and the others (and requests under the option dropAgentRequestAck).  The *)
(* handlers are optional: channel-gateway.ts passes none for                *)
(* channel.session.started and channel.session.ended, which are             *)
(* acknowledged all the same.                                               *)
(***************************************************************************)
EXTENDS DedupeCache, Sequences

CONSTANTS
    Plain,          \* messages for a handler, without ack
    Unhandled,      \* those of Required and Plain whose handler is undefined
    Heartbeats,     \* ws.heartbeat
    Closing,        \* connection.replaced and connection.rejected
    Invalid,        \* unknown type, or not valid for its type
    MaxRoutes       \* bound: messages that arrive on the connection

Msgs == Required \cup Plain \cup Heartbeats \cup Closing \cup Invalid
Routes == 1..MaxRoutes

(* Whether a message requires an ack is its own; its type has a handler or  *)
(* has none.                                                                *)
ASSUME KindsAssumption == Required \cap Plain = {} /\ Unhandled \subseteq Required \cup Plain
ASSUME RoutesAssumption == MaxRoutes \in Nat

VARIABLES
    socket,         \* "open", "closing" or "closed"
    msg,            \* the messages that arrived; a call of route() is an index
    step,           \* per call: what it awaits
    outbox,         \* calls whose send is not done, in order of their sends
    handled,        \* calls in the order in which their handlers started
    acks,           \* messages whose ack was sent
    overlapped      \* history: messages repeated while their ack was being sent

routing  == <<socket, msg, step, outbox, handled, acks, overlapped>>
vars     == <<routing, caching>>

-----------------------------------------------------------------------------
Steps == {"acking", "resending", "answering", "complaining", "closing",
          "handling", "done", "rejected"}

Init ==
    /\ socket = "open"
    /\ msg = <<>> /\ step = <<>>
    /\ outbox = <<>> /\ handled = <<>> /\ acks = {} /\ overlapped = {}
    /\ CacheInit

(* route() is called and gets as far as its first await.                    *)
begin(m, where) == msg' = Append(msg, m) /\ step' = Append(step, where)
this == Len(msg) + 1

arrives(m) ==
    /\ socket # "closed" /\ Len(msg) < MaxRoutes
    /\ overlapped' = overlapped \cup
           {msg[r] : r \in {s \in DOMAIN msg : msg[s] = m /\ step[s] = "acking"}}

(* It sends something.  send() throws unless the socket is open.            *)
beginSend(m, where) ==
    IF socket = "open"
    THEN begin(m, where) /\ outbox' = Append(outbox, this)
    ELSE begin(m, "rejected") /\ UNCHANGED outbox

(* The optional call of m's handler, by call r of route(): the handlers     *)
(* that were started, and where r gets by it.                               *)
calls(r, m) == IF m \in Unhandled THEN handled ELSE Append(handled, r)
handing(m) == IF m \in Unhandled THEN "done" ELSE "handling"

(* Fault: the cache is not asked.                                           *)
RouteNew_NoLookup(m) ==
    /\ m \in Required /\ arrives(m)
    /\ beginSend(m, "acking")
    /\ UNCHANGED <<socket, handled, acks, caching>>

RouteNew(m) ==
    /\ m \in Required /\ arrives(m) /\ ~has(m)
    /\ beginSend(m, "acking")
    /\ Get(m)
    /\ UNCHANGED <<socket, handled, acks>>

RouteKnown(m) ==
    /\ m \in Required /\ arrives(m) /\ has(m)
    /\ beginSend(m, "resending")
    /\ Get(m)
    /\ UNCHANGED <<socket, handled, acks>>

RoutePlain(m) ==
    /\ m \in Plain /\ arrives(m)
    /\ begin(m, handing(m))
    /\ handled' = calls(this, m)
    /\ UNCHANGED <<socket, outbox, acks, caching>>

RouteHeartbeat(m) ==
    /\ m \in Heartbeats /\ arrives(m)
    /\ beginSend(m, "answering")
    /\ UNCHANGED <<socket, handled, acks, caching>>

RouteInvalid(m) ==
    /\ m \in Invalid /\ arrives(m)
    /\ beginSend(m, "complaining")
    /\ UNCHANGED <<socket, handled, acks, caching>>

RouteClosing(m) ==
    /\ m \in Closing /\ arrives(m)
    /\ begin(m, "closing")
    /\ socket' = "closing"
    /\ UNCHANGED <<outbox, handled, acks, caching>>

-----------------------------------------------------------------------------
(* The socket finishes sends in order, each with its callback.              *)
(* Fault: it finishes them in any order.                                    *)
sent_Unordered(r, where) ==
    /\ \E i \in DOMAIN outbox :
          /\ outbox[i] = r
          /\ outbox' = SubSeq(outbox, 1, i - 1) \o SubSeq(outbox, i + 1, Len(outbox))
    /\ step' = [step EXCEPT ![r] = where]

sent(r, where) ==
    /\ outbox # <<>> /\ r = Head(outbox)
    /\ outbox' = Tail(outbox)
    /\ step' = [step EXCEPT ![r] = where]

(* Fault: the cache is asked again, after the ack was added to it.          *)
AckSent_AsksAgain(r) ==
    /\ step[r] = "acking" /\ sent(r, "done")
    /\ acks' = acks \cup {msg[r]}
    /\ Add(msg[r])
    /\ UNCHANGED <<socket, msg, handled, overlapped>>

AckSent(r) ==
    /\ step[r] = "acking" /\ sent(r, handing(msg[r]))
    /\ acks' = acks \cup {msg[r]}
    /\ Add(msg[r])
    /\ handled' = calls(r, msg[r])
    /\ UNCHANGED <<socket, msg, overlapped>>

AckResent(r) ==
    /\ step[r] = "resending" /\ sent(r, "done")
    /\ acks' = acks \cup {msg[r]}
    /\ UNCHANGED <<socket, msg, handled, overlapped, caching>>

Answered(r) ==
    /\ step[r] = "answering" /\ sent(r, "done")
    /\ UNCHANGED <<socket, msg, handled, acks, overlapped, caching>>

Complained(r) ==
    /\ step[r] = "complaining" /\ sent(r, "closing")
    /\ socket' = "closing"
    /\ UNCHANGED <<msg, handled, acks, overlapped, caching>>

(* The handler's promise settles.                                           *)
HandlerDone(r) ==
    /\ step[r] = "handling"
    /\ \E outcome \in {"done", "rejected"} : step' = [step EXCEPT ![r] = outcome]
    /\ UNCHANGED <<socket, msg, outbox, handled, acks, overlapped, caching>>

(* Fault: the error a send's callback is given is ignored.                  *)
SocketClosed_IgnoresErrors ==
    /\ socket # "closed" /\ socket' = "closed"
    /\ outbox' = <<>>
    /\ step' = [r \in DOMAIN step |-> IF step[r] = "closing" THEN "done" ELSE step[r]]
    /\ UNCHANGED <<msg, handled, acks, overlapped, caching>>

(* The socket is gone, after its closing handshake or without one: close()  *)
(* resolves and the sends that were not done fail.                          *)
SocketClosed ==
    /\ socket # "closed" /\ socket' = "closed"
    /\ outbox' = <<>>
    /\ step' = [r \in DOMAIN step |->
                  CASE step[r] = "closing" -> "done"
                    [] \E i \in DOMAIN outbox : outbox[i] = r -> "rejected"
                    [] OTHER -> step[r]]
    /\ UNCHANGED <<msg, handled, acks, overlapped, caching>>

Clock == Tick /\ UNCHANGED routing

Next ==
    \/ \E m \in Msgs : \/ RouteNew(m) \/ RouteKnown(m) \/ RoutePlain(m)
                       \/ RouteHeartbeat(m) \/ RouteInvalid(m) \/ RouteClosing(m)
    \/ \E r \in DOMAIN msg : \/ AckSent(r) \/ AckResent(r) \/ Answered(r)
                             \/ Complained(r) \/ HandlerDone(r)
    \/ SocketClosed \/ Clock

Spec == Init /\ [][Next]_vars

Sent(r) == AckSent(r) \/ AckResent(r) \/ Answered(r) \/ Complained(r)

(* A socket finishes its sends or closes, and once closing it closes.       *)
FairSpec ==
    /\ Spec
    /\ WF_vars(SocketClosed \/ \E r \in DOMAIN msg : Sent(r))
    /\ WF_vars(socket = "closing" /\ SocketClosed)

-----------------------------------------------------------------------------
(* Properties                                                               *)

(* Type invariant.                                                          *)
TypeOK ==
    /\ socket \in {"open", "closing", "closed"}
    /\ Len(msg) <= MaxRoutes /\ Len(step) = Len(msg)
    /\ \A r \in DOMAIN msg : msg[r] \in Msgs /\ step[r] \in Steps
    /\ \A i \in DOMAIN outbox : step[outbox[i]] \in {"acking", "resending", "answering", "complaining"}
    /\ acks \subseteq Required
    /\ CacheTypeOK

(* The gateway gets an ack for a message that has a handler only when the   *)
(* handler was started, by this copy or an earlier one: what the gateway    *)
(* stops repeating is not lost.  (A message without a handler is            *)
(* acknowledged too: tests/envelope-router.test.ts:207.)                    *)
AckMeansHandled ==
    \A m \in acks \ Unhandled : \E i \in DOMAIN handled : msg[handled[i]] = m

(* A message whose ack is required is handled once, as long as it is in the *)
(* cache's limits and was not repeated while the ack was being sent.        *)
HandledOnce ==
    \A i, j \in DOMAIN handled :
        msg[handled[i]] = msg[handled[j]] /\ msg[handled[i]] \in Required \ overlapped => i = j

(* Messages of the same ack mode are handled in the order they arrived in,  *)
(* so an interrupt does not overtake the request it is for.                 *)
HandledInOrder ==
    \A i, j \in DOMAIN handled :
        /\ i < j
        /\ {msg[handled[i]], msg[handled[j]]} \subseteq Required
             \/ {msg[handled[i]], msg[handled[j]]} \subseteq Plain
        => handled[i] < handled[j]

(* No call of route() waits for a send or a close for ever.                 *)
awaits(r, where) == r \in DOMAIN msg /\ step[r] \in where
RoutesSettle ==
    \A r \in Routes : awaits(r, Steps) ~> awaits(r, {"handling", "done", "rejected"})

-----------------------------------------------------------------------------
(* tests/envelope-router.test.ts:41 "dedupes repeated agent.request": also  *)
(* when the repetition arrives while the ack is being sent.                 *)
Dedupes ==
    \A i, j \in DOMAIN handled :
        msg[handled[i]] = msg[handled[j]] /\ msg[handled[i]] \in Required => i = j
=============================================================================
