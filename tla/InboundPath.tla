----------------------------- MODULE InboundPath -----------------------------
(***************************************************************************)
(* From a request on a WebSocket to its answer, across reconnections: the   *)
(* wiring of channel-gateway.ts and runtime.ts around Turns.  Every         *)
(* transport has a router with a dedupe cache of its own; all of them feed  *)
(* one InboundHandler, which sends through the variable currentSend.        *)
(*                                                                         *)
(* A turn stands for its request, sent with ack.mode "required".  The       *)
(* gateway is external: it repeats a request, on any connection, until an   *)
(* ack for it arrives.                                                      *)
(***************************************************************************)
EXTENDS Turns, FiniteSets

CONSTANT MaxConns   \* bound: transports created

ASSUME ConnsAssumption == MaxConns \in Nat

VARIABLES
    line,       \* per transport: its socket
    via,        \* per call: the transport whose router makes it; 0: none
    seen,       \* per transport: the requests in its dedupe cache
    acked,      \* the requests whose ack reached the gateway
    overlapped, \* history: <<transport, request>> repeated before the ack was sent
    dying       \* per call and sender: the transport whose end its send waits for

routing  == <<via, seen, acked, overlapped>>
pathVars == <<vars, line, routing, dying>>

-----------------------------------------------------------------------------
Conns == 1..MaxConns

PathInit ==
    /\ Init
    /\ line = [k \in Conns |-> "none"]
    /\ via = [c \in Calls |-> 0]
    /\ seen = [k \in Conns |-> {}]
    /\ acked = {} /\ overlapped = {}
    /\ dying = [c \in Calls |-> [s \in Senders |-> 0]]

newest == Cardinality({k \in Conns : line[k] # "none"})
isOpen(k) == k \in Conns /\ line[k] = "open"

(* Fault: currentSend is bound to the first transport only.                 *)
currentSend_First == IF newest = 0 THEN 0 ELSE 1

(* The factory rebinds currentSend whenever it makes a transport.           *)
currentSend == newest

(* Of the outcomes of Turns!sendEvent, those the current transport allows.  *)
sends(c, sender) ==
    /\ sending'[c][sender] = "sent" => isOpen(currentSend)
    /\ dying' = [dying EXCEPT ![c][sender] =
                     IF sending'[c][sender] = "failed" /\ isOpen(currentSend)
                     THEN currentSend ELSE 0]

(* A send throws at once if the socket is not open; one that the socket     *)
(* took fails when the socket closes.                                       *)
settles(c, sender) ==
    /\ dying[c][sender] \notin {k \in Conns : line[k] # "closed"}
    /\ dying' = [dying EXCEPT ![c][sender] = 0]

-----------------------------------------------------------------------------
(* Transports: the reconnect loop makes one when the last is closed, and a  *)
(* loop of a later registration also beside one that was accepted late.     *)

Dial ==
    /\ newest < MaxConns
    /\ line' = [line EXCEPT ![newest + 1] = "dialing"]
    /\ UNCHANGED <<vars, routing, dying>>

Accept(k) ==
    /\ line[k] = "dialing"
    /\ line' = [line EXCEPT ![k] = "open"]
    /\ UNCHANGED <<vars, routing, dying>>

Close(k) ==
    /\ line[k] \in {"dialing", "open"}
    /\ line' = [line EXCEPT ![k] = "closed"]
    /\ UNCHANGED <<vars, routing, dying>>

-----------------------------------------------------------------------------
(* Requests: EnvelopeRouter's RouteNew, AckSent and RouteKnown.             *)

acking(c, k) == via[c] = k /\ handle[c] = "none"

RequestArrives(c, k) ==
    /\ isOpen(k) /\ via[c] = 0 /\ \A b \in Calls : b < c => via[b] # 0
    /\ TurnOf[c] \notin seen[k] \cup acked
    /\ via' = [via EXCEPT ![c] = k]
    /\ overlapped' = overlapped \cup
           {<<k, TurnOf[b]>> : b \in {b \in Calls : acking(b, k) /\ TurnOf[b] = TurnOf[c]}}
    /\ UNCHANGED <<vars, line, seen, acked, dying>>

(* Fault: the ack is not cached.                                            *)
AckSent_NotCached(c, k) ==
    /\ acking(c, k) /\ isOpen(k)
    /\ acked' \in {acked, acked \cup {TurnOf[c]}}
    /\ Handle(c) /\ sends(c, "handle")
    /\ UNCHANGED <<line, via, seen, overlapped>>

(* The ack went out; the connection may drop before the gateway reads it.   *)
AckSent(c, k) ==
    /\ acking(c, k) /\ isOpen(k)
    /\ seen' = [seen EXCEPT ![k] = @ \cup {TurnOf[c]}]
    /\ acked' \in {acked, acked \cup {TurnOf[c]}}
    /\ Handle(c) /\ sends(c, "handle")
    /\ UNCHANGED <<line, via, overlapped>>

AckFails(c, k) ==
    /\ acking(c, k) /\ line[k] = "closed"
    /\ via' = [via EXCEPT ![c] = 0]
    /\ UNCHANGED <<vars, line, seen, acked, overlapped, dying>>

RequestKnown(t, k) ==
    /\ isOpen(k) /\ t \in seen[k] \ acked
    /\ acked' = acked \cup {t}
    /\ UNCHANGED <<vars, line, via, seen, overlapped, dying>>

-----------------------------------------------------------------------------
(* The turns                                                                *)

Sends(c) ==
    \/ (DispatchResolves(c) \/ DispatchRejects(c)) /\ sends(c, "handle")
    \/ (DeliverText(c) \/ Resolved(c)) /\ sends(c, "deliver")

Settles(c) ==
    \/ (Dispatch(c) \/ Ended(c)) /\ settles(c, "handle")
    \/ DeliverSent(c) /\ settles(c, "deliver")

TurnStep(c) ==
    /\ \/ Sends(c) \/ Settles(c)
       \/ (DeliverMedia(c) \/ ResolvedToNothing(c)) /\ UNCHANGED dying
    /\ UNCHANGED <<line, routing>>

InterruptArrives(t) ==
    /\ \E k \in Conns : isOpen(k)
    /\ Interrupt(t)
    /\ UNCHANGED <<line, routing, dying>>

PathNext ==
    \/ Dial
    \/ \E k \in Conns : \/ Accept(k) \/ Close(k)
                        \/ \E c \in Calls : RequestArrives(c, k) \/ AckSent(c, k) \/ AckFails(c, k)
                        \/ \E t \in TurnIds : RequestKnown(t, k)
    \/ \E c \in Calls : TurnStep(c)
    \/ \E t \in TurnIds : InterruptArrives(t)

PathSpec == PathInit /\ [][PathNext]_pathVars
(* The dispatcher settles, a reply has an end, sends settle or their socket *)
(* closes, and a router gets past the send of an ack.                       *)
PathFairSpec ==
    /\ PathSpec
    /\ \A c \in Calls :
          /\ SF_pathVars(running(c) /\ TurnStep(c) /\ handle'[c] # handle[c])
          /\ SF_pathVars(deliver[c] # "none" /\ TurnStep(c) /\ deliver'[c] = "none")
          /\ WF_pathVars(\E k \in Conns : AckSent(c, k) \/ AckFails(c, k))
    /\ WF_pathVars(\E k \in Conns : (\E c \in Calls, s \in Senders : dying[c][s] = k) /\ Close(k))

-----------------------------------------------------------------------------
(* Properties                                                               *)

(* A request is handled again only by the router of another connection, or  *)
(* when it was repeated while its first ack was being sent.                 *)
OncePerConnection ==
    \A b, c \in Calls :
        /\ handle[b] # "none" /\ handle[c] # "none"
        /\ TurnOf[b] = TurnOf[c] /\ via[b] = via[c] /\ <<via[c], TurnOf[c]>> \notin overlapped
        => b = c

(* A turn loses events only to a drop of the connection its request came    *)
(* in on, or because a newer transport was made meanwhile: currentSend then *)
(* leaves an open connection for one that may not be up yet.                *)
LostOnlyToADrop ==
    \A c \in Calls : lost[c] => line[via[c]] = "closed" \/ via[c] # newest

(* What the gateway was promised by an ack is kept: a call for the request  *)
(* was made, no call runs for ever, and one that is over has a terminal     *)
(* event on the wire, unless its transport was lost.                        *)
handled == {c \in Calls : handle[c] # "none"}
answered(c) == lost[c] \/ \E i \in DOMAIN wire[c] : wire[c][i].type \in Terminal
AckedIsHandled == acked \subseteq {TurnOf[c] : c \in handled}
EndedIsAnswered == \A c \in handled : running(c) \/ answered(c)
AckedIsAnswered ==
    [](AckedIsHandled /\ EndedIsAnswered) /\ <>[](\A c \in Calls : ~running(c))
=============================================================================
