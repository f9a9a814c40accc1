------------------------------- MODULE Turns --------------------------------
(***************************************************************************)
(* inbound-handler.ts and outbound-handler.ts: each agent.request is        *)
(* dispatched to OpenClaw, whose replies go out as a numbered stream of     *)
(* events that a terminal event ends; an interrupt aborts the dispatch.     *)
(*                                                                         *)
(* The dispatcher is external.  It calls deliver, one call at a time, until *)
(* it settles; under Drains it does not settle while deliver is running.    *)
(* An action runs from one await to the next.  What a request and its       *)
(* replies say is left out: output.delta and media.play are "output".       *)
(***************************************************************************)
EXTENDS Naturals, Sequences

CONSTANTS
    Calls,      \* calls of handle(), one per request that was routed
    TurnIds,
    TurnOf,     \* the turn_id of each call's request
    NoCall,     \* no abort controller
    Drains,     \* TRUE: the dispatcher waits for deliver before it settles
    MaxEvents   \* bound: events of a turn before its terminal event

ASSUME TurnAssumption == TurnOf \in [Calls -> TurnIds] /\ NoCall \notin Calls

VARIABLES
    handle,     \* per call: where handle() stands
    deliver,    \* per call: where its deliver callback stands
    sending,    \* per call and sender: what becomes of the send in progress
    seq, lost,  \* per call: seq and transportLost of its OutboundHandler
    wire,       \* per call: the events that went out
    aborts,     \* activeAborts: per turn, the call whose controller it holds
    aborted     \* per call: its signal is aborted

outbound == <<sending, seq, lost, wire>>
aborting == <<aborts, aborted>>
vars     == <<handle, deliver, outbound, aborting>>

-----------------------------------------------------------------------------
Senders == {"handle", "deliver"}
Outcomes == {"sent", "failed", "dropped"}
Terminal == {"completed", "interrupted", "failed"}

Init ==
    /\ handle = [c \in Calls |-> "none"]
    /\ deliver = [c \in Calls |-> "none"]
    /\ sending = [c \in Calls |-> [s \in Senders |-> "dropped"]]
    /\ seq = [c \in Calls |-> 0]
    /\ lost = [c \in Calls |-> FALSE]
    /\ wire = [c \in Calls |-> <<>>]
    /\ aborts = [t \in TurnIds |-> NoCall]
    /\ aborted = [c \in Calls |-> FALSE]

mayOutput(c) == seq[c] < MaxEvents
handleTo(c, where) == handle' = [handle EXCEPT ![c] = where]
deliverTo(c, where) == deliver' = [deliver EXCEPT ![c] = where]

(* sendEvent: a transport that was lost once is not tried again.            *)
sendEvent(c, sender, type) ==
    \E outcome \in IF lost[c] THEN {"dropped"} ELSE {"sent", "failed"} :
        /\ sending' = [sending EXCEPT ![c][sender] = outcome]
        /\ seq' = [seq EXCEPT ![c] = IF lost[c] THEN @ ELSE @ + 1]
        /\ wire' = [wire EXCEPT ![c] = IF outcome = "sent"
                                       THEN Append(@, [seq |-> seq'[c], type |-> type])
                                       ELSE @]

(* Fault: a failed send is only logged.                                     *)
sendDone_KeepsGoing(c, sender) == UNCHANGED outbound

(* The send settles.                                                        *)
sendDone(c, sender) ==
    /\ lost' = [lost EXCEPT ![c] = @ \/ sending[c][sender] = "failed"]
    /\ UNCHANGED <<sending, seq, wire>>

-----------------------------------------------------------------------------
(* handle()                                                                 *)

Handle(c) ==
    /\ handle[c] = "none"
    /\ handleTo(c, "starting")
    /\ aborts' = [aborts EXCEPT ![TurnOf[c]] = c]
    /\ sendEvent(c, "handle", "started")
    /\ UNCHANGED <<deliver, lost, aborted>>

(* Fault: the controller is deleted once the dispatch has its signal.       *)
Dispatch_DropsController(c) ==
    /\ handle[c] = "starting"
    /\ handleTo(c, "dispatching")
    /\ sendDone(c, "handle")
    /\ aborts' = [aborts EXCEPT ![TurnOf[c]] = NoCall]
    /\ UNCHANGED <<deliver, aborted>>

Dispatch(c) ==
    /\ handle[c] = "starting"
    /\ handleTo(c, "dispatching")
    /\ sendDone(c, "handle")
    /\ UNCHANGED <<deliver, aborting>>

maySettle(c) ==
    /\ handle[c] = "dispatching"
    /\ Drains => deliver[c] = "none"

(* Also when the signal is aborted but the dispatcher returns all the same. *)
DispatchResolves(c) ==
    /\ maySettle(c)
    /\ handleTo(c, "ending")
    /\ sendEvent(c, "handle", "completed")
    /\ UNCHANGED <<deliver, lost, aborting>>

(* Faults: nothing is sent for an aborted turn; a failed one is dispatched  *)
(* again.                                                                   *)
DispatchRejects_Silent(c) ==
    /\ maySettle(c)
    /\ handleTo(c, "ending")
    /\ sending' = [sending EXCEPT ![c]["handle"] = "dropped"]
    /\ UNCHANGED <<deliver, seq, lost, wire, aborting>>
DispatchRejects_Again(c) ==
    /\ maySettle(c) /\ mayOutput(c)
    /\ handleTo(c, "starting")
    /\ sendEvent(c, "handle", "failed")
    /\ UNCHANGED <<deliver, lost, aborting>>

(* Rejected with an AbortError or another error.                            *)
DispatchRejects(c) ==
    /\ maySettle(c)
    /\ handleTo(c, "ending")
    /\ \E abortError \in BOOLEAN :
          sendEvent(c, "handle", IF aborted[c] \/ abortError THEN "interrupted" ELSE "failed")
    /\ UNCHANGED <<deliver, lost, aborting>>

(* Fault: the controller stays in the map.                                  *)
Ended_KeepsController(c) ==
    /\ handle[c] = "ending"
    /\ handleTo(c, "done")
    /\ sendDone(c, "handle")
    /\ UNCHANGED <<deliver, aborting>>

(* Whatever controller the map holds for the turn by now is deleted.        *)
Ended(c) ==
    /\ handle[c] = "ending"
    /\ handleTo(c, "done")
    /\ sendDone(c, "handle")
    /\ aborts' = [aborts EXCEPT ![TurnOf[c]] = NoCall]
    /\ UNCHANGED <<deliver, aborted>>

-----------------------------------------------------------------------------
(* deliver(): media references are resolved and sent one by one, then the   *)
(* text.                                                                    *)

DeliverMedia(c) ==
    /\ handle[c] = "dispatching" /\ deliver[c] = "none"
    /\ deliverTo(c, "resolving")
    /\ UNCHANGED <<handle, outbound, aborting>>

DeliverText(c) ==
    /\ handle[c] = "dispatching" /\ deliver[c] = "none" /\ mayOutput(c)
    /\ deliverTo(c, "sending")
    /\ sendEvent(c, "deliver", "output")
    /\ UNCHANGED <<handle, lost, aborting>>

(* The reference is sent; or it was skipped and the text is sent.           *)
Resolved(c) ==
    /\ deliver[c] = "resolving" /\ mayOutput(c)
    /\ deliverTo(c, "sending")
    /\ sendEvent(c, "deliver", "output")
    /\ UNCHANGED <<handle, lost, aborting>>

(* Nothing was left to send, or the upload threw and deliver rejects.       *)
ResolvedToNothing(c) ==
    /\ deliver[c] = "resolving"
    /\ deliverTo(c, "none")
    /\ UNCHANGED <<handle, outbound, aborting>>

DeliverSent(c) ==
    /\ deliver[c] = "sending"
    /\ \E next \in {"resolving", "none"} : deliverTo(c, next)
    /\ sendDone(c, "deliver")
    /\ UNCHANGED <<handle, aborting>>

-----------------------------------------------------------------------------
Interrupt(t) ==
    /\ aborts[t] # NoCall
    /\ aborted' = [aborted EXCEPT ![aborts[t]] = TRUE]
    /\ UNCHANGED <<handle, deliver, outbound, aborts>>

Next ==
    \/ \E c \in Calls :
          \/ Handle(c) \/ Dispatch(c) \/ DispatchResolves(c) \/ DispatchRejects(c) \/ Ended(c)
          \/ DeliverMedia(c) \/ DeliverText(c) \/ Resolved(c) \/ ResolvedToNothing(c)
          \/ DeliverSent(c)
    \/ \E t \in TurnIds : Interrupt(t)

Spec == Init /\ [][Next]_vars

-----------------------------------------------------------------------------
(* Properties                                                               *)

running(c) == handle[c] \in {"starting", "dispatching", "ending"}

(* Type invariant.                                                          *)
TypeOK ==
    /\ handle \in [Calls -> {"none", "starting", "dispatching", "ending", "done"}]
    /\ deliver \in [Calls -> {"none", "resolving", "sending"}]
    /\ sending \in [Calls -> [Senders -> Outcomes]]
    /\ seq \in [Calls -> Nat]
    /\ lost \in [Calls -> BOOLEAN]
    /\ wire \in [Calls -> Seq([seq : Nat, type : Terminal \cup {"started", "output"}])]
    /\ aborts \in [TurnIds -> Calls \cup {NoCall}]
    /\ aborted \in [Calls -> BOOLEAN]

(* If the dispatcher drains, what went out for a turn is numbered without   *)
(* gaps, whatever sends failed, and nothing follows the terminal event.     *)
StreamHasNoGap == \A c \in Calls : \A i \in DOMAIN wire[c] : wire[c][i].seq = i
TerminalIsLast ==
    \A c \in Calls : \A i \in DOMAIN wire[c] :
        wire[c][i].type \in Terminal => i = Len(wire[c])

(* The map does not leak, even when calls share a turn.                     *)
ControllersRun == \A t \in TurnIds : aborts[t] # NoCall => running(aborts[t])

(* A running call can be interrupted, unless another call of its turn took  *)
(* its place in the map or ended.                                           *)
CanBeInterrupted ==
    \A c \in Calls : running(c) /\ aborts[TurnOf[c]] # c =>
        \E b \in Calls \ {c} : TurnOf[b] = TurnOf[c] /\ handle[b] # "none"

=============================================================================
