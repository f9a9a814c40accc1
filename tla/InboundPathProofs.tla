------------------------- MODULE InboundPathProofs --------------------------
(***************************************************************************)
(* Turns and InboundPath for any number of requests, calls, turns and       *)
(* connections.  First the turns by themselves: interrupts, event streams   *)
(* and how a call ends.  Then the path around them, which only restricts    *)
(* what they can meet: what the routers and the gateway know of the calls,  *)
(* and why events are lost.                                                 *)
(***************************************************************************)
EXTENDS InboundPath, FiniteSetTheorems, TLAPS

-----------------------------------------------------------------------------
(* Abort controllers                                                        *)

AbortTypes ==
    /\ handle \in [Calls -> {"none", "starting", "dispatching", "ending", "done"}]
    /\ aborts \in [TurnIds -> Calls \cup {NoCall}]

(* A controller is in the map under its call's turn, while the call runs.   *)
ControllerInv ==
    /\ AbortTypes
    /\ \A t \in TurnIds : aborts[t] # NoCall => TurnOf[aborts[t]] = t
    /\ ControllersRun

LEMMA ControllerStart ==
  ASSUME Init
  PROVE  ControllerInv
BY DEF Init, ControllerInv, AbortTypes, ControllersRun

LEMMA ControllerStep ==
  ASSUME ControllerInv, [Next]_vars
  PROVE  ControllerInv'
<1> USE TurnAssumption DEF ControllerInv, AbortTypes, ControllersRun, running
<1>1. ASSUME NEW c \in Calls, Handle(c)
      PROVE  ControllerInv'
  BY <1>1 DEF Handle, handleTo
<1>2. ASSUME NEW c \in Calls, Dispatch(c)
      PROVE  ControllerInv'
  BY <1>2 DEF Dispatch, handleTo, aborting
<1>3. ASSUME NEW c \in Calls, DispatchResolves(c) \/ DispatchRejects(c)
      PROVE  ControllerInv'
  BY <1>3 DEF DispatchResolves, DispatchRejects, maySettle, handleTo, aborting
<1>4. ASSUME NEW c \in Calls, Ended(c)
      PROVE  ControllerInv'
  BY <1>4 DEF Ended, handleTo
<1>5. ASSUME NEW c \in Calls,
             \/ DeliverMedia(c) \/ DeliverText(c) \/ Resolved(c)
             \/ ResolvedToNothing(c) \/ DeliverSent(c)
      PROVE  ControllerInv'
  BY <1>5 DEF DeliverMedia, DeliverText, Resolved, ResolvedToNothing, DeliverSent, aborting
<1>6. ASSUME NEW t \in TurnIds, Interrupt(t)
      PROVE  ControllerInv'
  BY <1>6 DEF Interrupt
<1>7. CASE UNCHANGED vars
  BY <1>7 DEF vars, aborting
<1> QED BY <1>1, <1>2, <1>3, <1>4, <1>5, <1>6, <1>7 DEF Next

(* activeAborts does not leak: the controllers in it belong to running      *)
(* calls, also when several calls share a turn.                             *)
THEOREM NoLeakedController == Spec => []ControllersRun
<1>1. Init => ControllerInv
  BY ControllerStart
<1>2. ControllerInv /\ [Next]_vars => ControllerInv'
  BY ControllerStep
<1>3. ControllerInv => ControllersRun
  BY DEF ControllerInv
<1> QED BY <1>1, <1>2, <1>3, PTL DEF Spec

LEMMA InterruptibleStep ==
  ASSUME ControllerInv, CanBeInterrupted, [Next]_vars
  PROVE  CanBeInterrupted'
<1> USE TurnAssumption DEF ControllerInv, AbortTypes, CanBeInterrupted, running
<1>1. ASSUME NEW c \in Calls, Handle(c)
      PROVE  CanBeInterrupted'
  BY <1>1 DEF Handle, handleTo
<1>2. ASSUME NEW c \in Calls, Dispatch(c)
      PROVE  CanBeInterrupted'
  BY <1>2 DEF Dispatch, handleTo, aborting
<1>3. ASSUME NEW c \in Calls, DispatchResolves(c) \/ DispatchRejects(c)
      PROVE  CanBeInterrupted'
  BY <1>3 DEF DispatchResolves, DispatchRejects, maySettle, handleTo, aborting
<1>4. ASSUME NEW c \in Calls, Ended(c)
      PROVE  CanBeInterrupted'
  BY <1>4 DEF Ended, handleTo
<1>5. ASSUME NEW c \in Calls,
             \/ DeliverMedia(c) \/ DeliverText(c) \/ Resolved(c)
             \/ ResolvedToNothing(c) \/ DeliverSent(c)
      PROVE  CanBeInterrupted'
  BY <1>5 DEF DeliverMedia, DeliverText, Resolved, ResolvedToNothing, DeliverSent, aborting
<1>6. ASSUME NEW t \in TurnIds, Interrupt(t)
      PROVE  CanBeInterrupted'
  BY <1>6 DEF Interrupt
<1>7. CASE UNCHANGED vars
  BY <1>7 DEF vars, aborting
<1> QED BY <1>1, <1>2, <1>3, <1>4, <1>5, <1>6, <1>7 DEF Next

(* The map holds the controller of a running call, so that an interrupt for *)
(* its turn aborts it, until another call of the same turn is handled.      *)
THEOREM Interruptible == Spec => []CanBeInterrupted
<1>1. Init => ControllerInv /\ CanBeInterrupted
  BY ControllerStart DEF Init, CanBeInterrupted, running
<1>2. ControllerInv /\ CanBeInterrupted /\ [Next]_vars => (ControllerInv /\ CanBeInterrupted)'
  BY ControllerStep, InterruptibleStep
<1> QED BY <1>1, <1>2, PTL DEF Spec

-----------------------------------------------------------------------------
(* Event streams, under a dispatcher that drains                            *)

EventTypes == Terminal \cup {"started", "output"}
Event == [seq : Nat, type : EventTypes]

StreamTypes ==
    /\ handle \in [Calls -> {"none", "starting", "dispatching", "ending", "done"}]
    /\ deliver \in [Calls -> {"none", "resolving", "sending"}]
    /\ sending \in [Calls -> [Senders -> Outcomes]]
    /\ seq \in [Calls -> Nat]
    /\ lost \in [Calls -> BOOLEAN]
    /\ wire \in [Calls -> Seq(Event)]

(* A send of the call is going to fail.                                     *)
failing(c) ==
    \/ handle[c] \in {"starting", "ending"} /\ sending[c]["handle"] = "failed"
    \/ deliver[c] = "sending" /\ sending[c]["deliver"] = "failed"

(* The counter is ahead of the wire only once a send failed or is failing;  *)
(* a terminal event is the last, and only a call past its dispatch has one. *)
Stream(c) ==
    /\ deliver[c] # "none" => handle[c] = "dispatching"
    /\ ~lost[c] /\ ~failing(c) => Len(wire[c]) = seq[c]
    /\ \A i \in 1..Len(wire[c]) :
          /\ wire[c][i].seq = i
          /\ wire[c][i].type \in Terminal => i = Len(wire[c]) /\ handle[c] \in {"ending", "done"}

StreamInv == StreamTypes /\ \A c \in Calls : Stream(c)

(* What sendEvent does.                                                     *)
LEMMA SendEvent ==
  ASSUME StreamTypes, NEW c \in Calls, NEW s \in Senders, NEW type \in EventTypes,
         sendEvent(c, s, type)
  PROVE  /\ sending' \in [Calls -> [Senders -> Outcomes]]
         /\ seq' \in [Calls -> Nat]
         /\ wire' \in [Calls -> Seq(Event)]
         /\ \A b \in Calls \ {c} :
               sending'[b] = sending[b] /\ seq'[b] = seq[b] /\ wire'[b] = wire[b]
         /\ \A r \in Senders \ {s} : sending'[c][r] = sending[c][r]
         /\ \/ wire'[c] = wire[c] /\ (lost[c] \/ sending'[c][s] = "failed")
            \/ /\ wire'[c] = Append(wire[c], [seq |-> seq[c] + 1, type |-> type])
               /\ ~lost[c] /\ seq'[c] = seq[c] + 1
<1> USE DEF StreamTypes
<1>1. PICK outcome \in IF lost[c] THEN {"dropped"} ELSE {"sent", "failed"} :
        /\ sending' = [sending EXCEPT ![c][s] = outcome]
        /\ seq' = [seq EXCEPT ![c] = IF lost[c] THEN @ ELSE @ + 1]
        /\ wire' = [wire EXCEPT ![c] = IF outcome = "sent"
                                       THEN Append(@, [seq |-> seq'[c], type |-> type])
                                       ELSE @]
  BY DEF sendEvent
<1>2. outcome \in Outcomes
  BY DEF Outcomes
<1>3. /\ sending' \in [Calls -> [Senders -> Outcomes]] /\ sending'[c][s] = outcome
      /\ \A r \in Senders \ {s} : sending'[c][r] = sending[c][r]
  BY <1>1, <1>2
<1>4. seq' \in [Calls -> Nat]
  BY <1>1
<1>5. [seq |-> seq'[c], type |-> type] \in Event
  BY <1>4 DEF Event
<1>6. Append(wire[c], [seq |-> seq'[c], type |-> type]) \in Seq(Event)
  BY <1>5
<1>7. wire' \in [Calls -> Seq(Event)]
  BY <1>1, <1>6
<1>8. \A b \in Calls \ {c} :
        sending'[b] = sending[b] /\ seq'[b] = seq[b] /\ wire'[b] = wire[b]
  BY <1>1
<1>9. CASE outcome = "sent"
  <2>1. ~lost[c]
    BY <1>9
  <2>2. seq'[c] = seq[c] + 1
    BY <1>1, <2>1
  <2>3. wire'[c] = Append(wire[c], [seq |-> seq'[c], type |-> type])
    BY <1>1, <1>9
  <2> QED BY <1>3, <1>4, <1>7, <1>8, <2>1, <2>2, <2>3
<1>10. CASE outcome # "sent"
  <2>1. wire'[c] = wire[c]
    BY <1>1, <1>10
  <2>2. lost[c] \/ outcome = "failed"
    BY <1>10
  <2> QED BY <1>3, <1>4, <1>7, <1>8, <2>1, <2>2
<1> QED BY <1>9, <1>10

(* The stream of a call is what it was, if the call is.                     *)
LEMMA OtherStream ==
  ASSUME NEW b, Stream(b), handle'[b] = handle[b], deliver'[b] = deliver[b],
         sending'[b] = sending[b], seq'[b] = seq[b], lost'[b] = lost[b], wire'[b] = wire[b]
  PROVE  Stream(b)'
BY DEF Stream, failing

(* An event that may be sent keeps the stream in order.                     *)
LEMMA EventSent ==
  ASSUME StreamInv, NEW c \in Calls, NEW s \in Senders, NEW type \in EventTypes,
         sendEvent(c, s, type), ~failing(c), handle[c] \notin {"ending", "done"},
         type \in Terminal => handle'[c] = "ending",
         handle' \in [Calls -> {"none", "starting", "dispatching", "ending", "done"}],
         deliver' \in [Calls -> {"none", "resolving", "sending"}],
         lost' = lost,
         \A b \in Calls \ {c} : handle'[b] = handle[b] /\ deliver'[b] = deliver[b],
         deliver'[c] # "none" => handle'[c] = "dispatching",
         s = "handle" => handle'[c] \in {"starting", "ending"},
         s = "deliver" => deliver'[c] = "sending"
  PROVE  StreamInv'
<1>1. StreamTypes /\ Stream(c) /\ (~lost[c] => Len(wire[c]) = seq[c])
  BY DEF StreamInv, Stream
<1>2. /\ sending' \in [Calls -> [Senders -> Outcomes]]
      /\ seq' \in [Calls -> Nat]
      /\ wire' \in [Calls -> Seq(Event)]
      /\ \A b \in Calls \ {c} :
            sending'[b] = sending[b] /\ seq'[b] = seq[b] /\ wire'[b] = wire[b]
      /\ \/ wire'[c] = wire[c] /\ (lost[c] \/ sending'[c][s] = "failed")
         \/ /\ wire'[c] = Append(wire[c], [seq |-> seq[c] + 1, type |-> type])
            /\ ~lost[c] /\ seq'[c] = seq[c] + 1
  BY <1>1, SendEvent
<1>3. StreamTypes'
  BY <1>1, <1>2 DEF StreamTypes
<1>4. \A b \in Calls \ {c} : Stream(b)'
  BY <1>2, OtherStream DEF StreamInv
<1>5. \A i \in 1..Len(wire[c]) : wire[c][i].seq = i /\ wire[c][i].type \notin Terminal
  BY <1>1 DEF Stream
<1>6. Stream(c)'
  <2>1. CASE wire'[c] = wire[c] /\ (lost[c] \/ sending'[c][s] = "failed")
    <3>1. lost'[c] \/ failing(c)'
      BY <2>1 DEF failing, Senders
    <3> QED BY <1>5, <2>1, <3>1 DEF Stream
  <2>2. CASE /\ wire'[c] = Append(wire[c], [seq |-> seq[c] + 1, type |-> type])
             /\ ~lost[c] /\ seq'[c] = seq[c] + 1
    <3>1. wire[c] \in Seq(Event)
      BY <1>1 DEF StreamTypes
    <3>2. Len(wire'[c]) = Len(wire[c]) + 1
      BY <2>2, <3>1
    <3>3. \A i \in 1..Len(wire[c]) : wire'[c][i] = wire[c][i]
      BY <2>2, <3>1
    <3>4. wire'[c][Len(wire[c]) + 1] = [seq |-> seq[c] + 1, type |-> type]
      BY <2>2, <3>1
    <3>5. seq[c] + 1 = Len(wire[c]) + 1
      BY <1>1, <2>2
    <3>6. \A i \in 1..Len(wire'[c]) : i \in 1..Len(wire[c]) \/ i = Len(wire'[c])
      BY <3>1, <3>2
    <3>7. \A i \in 1..Len(wire'[c]) :
             /\ wire'[c][i].seq = i
             /\ wire'[c][i].type \in Terminal => i = Len(wire'[c]) /\ handle'[c] = "ending"
      BY <1>5, <3>2, <3>3, <3>4, <3>5, <3>6
    <3> QED BY <2>2, <3>2, <3>5, <3>7 DEF Stream
  <2> QED BY <1>2, <2>1, <2>2
<1> QED BY <1>3, <1>4, <1>6 DEF StreamInv

LEMMA StreamStart ==
  ASSUME Init
  PROVE  StreamInv
<1>1. sending \in [Calls -> [Senders -> Outcomes]]
  BY DEF Init, Outcomes
<1>2. wire \in [Calls -> Seq(Event)]
  BY DEF Init
<1>3. StreamTypes
  BY <1>1, <1>2 DEF Init, StreamTypes
<1>4. ASSUME NEW c \in Calls
      PROVE  Stream(c)
  <2>1. wire[c] = <<>> /\ seq[c] = 0 /\ deliver[c] = "none" /\ Len(wire[c]) = 0
    BY DEF Init
  <2> QED BY <2>1 DEF Stream
<1> QED BY <1>3, <1>4 DEF StreamInv

LEMMA StreamStep ==
  ASSUME Drains, StreamInv, [Next]_vars
  PROVE  StreamInv'
<1> USE DEF handleTo, deliverTo
<1>1. ASSUME NEW c \in Calls, Handle(c)
      PROVE  StreamInv'
  <2>1. ~failing(c)
    BY <1>1 DEF StreamInv, Stream, Handle, failing
  <2>2. deliver[c] = "none"
    BY <1>1 DEF StreamInv, Stream, StreamTypes, Handle
  <2> QED
    BY <1>1, <2>1, <2>2, EventSent DEF Handle, StreamInv, StreamTypes, Senders, EventTypes, Terminal
<1>2. ASSUME NEW c \in Calls, DispatchResolves(c)
      PROVE  StreamInv'
  <2>1. ~failing(c) /\ deliver[c] = "none"
    BY <1>2 DEF DispatchResolves, maySettle, failing
  <2> QED
    BY <1>2, <2>1, EventSent
       DEF DispatchResolves, maySettle, StreamInv, StreamTypes, Senders, EventTypes, Terminal
<1>3. ASSUME NEW c \in Calls, DispatchRejects(c)
      PROVE  StreamInv'
  <2>1. ~failing(c) /\ deliver[c] = "none"
    BY <1>3 DEF DispatchRejects, maySettle, failing
  <2>2. PICK type \in {"interrupted", "failed"} : sendEvent(c, "handle", type)
    BY <1>3 DEF DispatchRejects
  <2> QED
    BY <1>3, <2>1, <2>2, EventSent
       DEF DispatchRejects, maySettle, StreamInv, StreamTypes, Senders, EventTypes, Terminal
<1>4. ASSUME NEW c \in Calls, DeliverText(c) \/ Resolved(c)
      PROVE  StreamInv'
  <2>1. handle[c] = "dispatching" /\ deliver[c] # "sending"
    BY <1>4 DEF DeliverText, Resolved, StreamInv, Stream
  <2>2. ~failing(c)
    BY <2>1 DEF failing
  <2>3. /\ sendEvent(c, "deliver", "output")
        /\ deliver' = [deliver EXCEPT ![c] = "sending"]
        /\ handle' = handle /\ lost' = lost
    BY <1>4 DEF DeliverText, Resolved
  <2> QED
    BY <2>1, <2>2, <2>3, EventSent DEF StreamInv, StreamTypes, Senders, EventTypes, Terminal
<1>5. ASSUME NEW c \in Calls, Dispatch(c) \/ Ended(c)
      PROVE  StreamInv'
  <2>1. /\ lost' = [lost EXCEPT ![c] = @ \/ sending[c]["handle"] = "failed"]
        /\ deliver' = deliver /\ sending' = sending /\ seq' = seq /\ wire' = wire
    BY <1>5 DEF Dispatch, Ended, sendDone
  <2>2. \/ handle[c] = "starting" /\ handle' = [handle EXCEPT ![c] = "dispatching"]
        \/ handle[c] = "ending" /\ handle' = [handle EXCEPT ![c] = "done"]
    BY <1>5 DEF Dispatch, Ended
  <2>3. StreamTypes'
    BY <2>1, <2>2 DEF StreamInv, StreamTypes
  <2>4. \A b \in Calls \ {c} : Stream(b)'
    BY <2>1, <2>2, OtherStream DEF StreamInv, StreamTypes
  <2>5. lost'[c] = (lost[c] \/ sending[c]["handle"] = "failed")
    BY <2>1 DEF StreamInv, StreamTypes
  <2>6. Stream(c)'
    <3>1. deliver[c] = "none" /\ deliver'[c] = "none"
      BY <2>1, <2>2 DEF StreamInv, StreamTypes, Stream
    <3>2. \/ handle[c] = "starting" /\ handle'[c] = "dispatching"
          \/ handle[c] = "ending" /\ handle'[c] = "done"
      BY <2>2 DEF StreamInv, StreamTypes
    <3>3. ~lost'[c] => ~lost[c] /\ ~failing(c)
      BY <2>5, <3>1, <3>2 DEF failing
    <3>4. Stream(c)
      BY DEF StreamInv
    <3>5. wire'[c] = wire[c] /\ seq'[c] = seq[c]
      BY <2>1
    <3> QED BY <3>1, <3>2, <3>3, <3>4, <3>5 DEF Stream
  <2> QED BY <2>3, <2>4, <2>6 DEF StreamInv
<1>6. ASSUME NEW c \in Calls, DeliverSent(c)
      PROVE  StreamInv'
  <2>1. /\ lost' = [lost EXCEPT ![c] = @ \/ sending[c]["deliver"] = "failed"]
        /\ handle' = handle /\ sending' = sending /\ seq' = seq /\ wire' = wire
        /\ deliver[c] = "sending"
    BY <1>6 DEF DeliverSent, sendDone
  <2>2. PICK next \in {"resolving", "none"} : deliver' = [deliver EXCEPT ![c] = next]
    BY <1>6 DEF DeliverSent
  <2>3. StreamTypes'
    BY <2>1, <2>2 DEF StreamInv, StreamTypes
  <2>4. \A b \in Calls \ {c} : Stream(b)'
    BY <2>1, <2>2, OtherStream DEF StreamInv, StreamTypes
  <2>5. lost'[c] = (lost[c] \/ sending[c]["deliver"] = "failed")
    BY <2>1 DEF StreamInv, StreamTypes
  <2>6. Stream(c)'
    BY <2>1, <2>2, <2>5 DEF StreamInv, StreamTypes, Stream, failing
  <2> QED BY <2>3, <2>4, <2>6 DEF StreamInv
<1>7. ASSUME NEW c \in Calls, DeliverMedia(c) \/ ResolvedToNothing(c)
      PROVE  StreamInv'
  <2>1. /\ handle' = handle /\ sending' = sending /\ seq' = seq /\ lost' = lost /\ wire' = wire
        /\ deliver[c] # "sending"
    BY <1>7 DEF DeliverMedia, ResolvedToNothing, outbound
  <2>2. \/ handle[c] = "dispatching" /\ deliver' = [deliver EXCEPT ![c] = "resolving"]
        \/ deliver' = [deliver EXCEPT ![c] = "none"]
    BY <1>7 DEF DeliverMedia, ResolvedToNothing
  <2>3. StreamTypes'
    BY <2>1, <2>2 DEF StreamInv, StreamTypes
  <2>4. \A b \in Calls \ {c} : Stream(b)'
    BY <2>1, <2>2, OtherStream DEF StreamInv, StreamTypes
  <2>5. Stream(c)'
    BY <2>1, <2>2 DEF StreamInv, StreamTypes, Stream, failing
  <2> QED BY <2>3, <2>4, <2>5 DEF StreamInv
<1>8. ASSUME UNCHANGED <<handle, deliver, outbound>>
      PROVE  StreamInv'
  <2>1. StreamTypes'
    BY <1>8 DEF StreamInv, StreamTypes, outbound
  <2>2. \A b \in Calls : Stream(b)'
    BY <1>8, OtherStream DEF StreamInv, outbound
  <2> QED BY <2>1, <2>2 DEF StreamInv
<1>9. ASSUME NEW t \in TurnIds, Interrupt(t)
      PROVE  StreamInv'
  BY <1>8, <1>9 DEF Interrupt
<1>10. CASE UNCHANGED vars
  BY <1>8, <1>10 DEF vars
<1> QED BY <1>1, <1>2, <1>3, <1>4, <1>5, <1>6, <1>7, <1>9, <1>10 DEF Next

(* What goes out for a turn is numbered from 1 without a gap, whatever      *)
(* sends fail: after the first failure nothing follows.                     *)
THEOREM NoGap ==
  ASSUME Drains
  PROVE  Spec => []StreamHasNoGap
<1>1. Init => StreamInv
  BY StreamStart
<1>2. StreamInv /\ [Next]_vars => StreamInv'
  BY StreamStep
<1>3. StreamInv => StreamHasNoGap
  BY DEF StreamInv, StreamTypes, Stream, StreamHasNoGap
<1> QED BY <1>1, <1>2, <1>3, PTL DEF Spec

(* Nothing follows the terminal event of a turn.                            *)
THEOREM TerminalLast ==
  ASSUME Drains
  PROVE  Spec => []TerminalIsLast
<1>1. Init => StreamInv
  BY StreamStart
<1>2. StreamInv /\ [Next]_vars => StreamInv'
  BY StreamStep
<1>3. StreamInv => TerminalIsLast
  BY DEF StreamInv, StreamTypes, Stream, TerminalIsLast
<1> QED BY <1>1, <1>2, <1>3, PTL DEF Spec


-----------------------------------------------------------------------------
(* How a call ends, whatever the dispatcher does                            *)

(* A call that is over has put a terminal event on the wire or has lost its *)
(* transport; one that is ending may still be about to notice the loss.     *)
Ending(c) ==
    /\ handle[c] = "ending" => answered(c) \/ sending[c]["handle"] = "failed"
    /\ handle[c] = "done" => answered(c)
EndInv == TypeOK /\ \A c \in Calls : Ending(c)

LEMMA TypeParts ==
  TypeOK <=> StreamTypes /\ AbortTypes /\ aborted \in [Calls -> BOOLEAN]
BY Zenon DEF TypeOK, StreamTypes, AbortTypes, Event, EventTypes

(* A send takes nothing back, and a terminal one answers or is going to     *)
(* fail.                                                                    *)
LEMMA SendAnswers ==
  ASSUME StreamTypes, NEW c \in Calls, NEW s \in Senders, NEW type \in EventTypes,
         sendEvent(c, s, type), lost' = lost
  PROVE  /\ \A b \in Calls : answered(b) => answered(b)'
         /\ type \in Terminal => answered(c)' \/ sending'[c][s] = "failed"
<1>1. /\ \A b \in Calls \ {c} : wire'[b] = wire[b]
      /\ \/ wire'[c] = wire[c] /\ (lost[c] \/ sending'[c][s] = "failed")
         \/ wire'[c] = Append(wire[c], [seq |-> seq[c] + 1, type |-> type])
  BY SendEvent
<1>2. CASE wire'[c] = wire[c] /\ (lost[c] \/ sending'[c][s] = "failed")
  BY <1>1, <1>2 DEF answered
<1>3. CASE wire'[c] = Append(wire[c], [seq |-> seq[c] + 1, type |-> type])
  <2>1. wire[c] \in Seq(Event)
    BY DEF StreamTypes
  <2>2. /\ Len(wire[c]) \in Nat
        /\ DOMAIN wire[c] = 1..Len(wire[c]) /\ DOMAIN wire'[c] = 1..(Len(wire[c]) + 1)
        /\ \A i \in 1..Len(wire[c]) : wire'[c][i] = wire[c][i]
    BY <1>3, <2>1
  <2>3. wire'[c][Len(wire[c]) + 1] = [seq |-> seq[c] + 1, type |-> type]
    BY <1>3, <2>1
  <2>4. /\ \A i \in DOMAIN wire[c] : i \in DOMAIN wire'[c] /\ wire'[c][i] = wire[c][i]
        /\ Len(wire[c]) + 1 \in DOMAIN wire'[c]
    BY <2>2
  <2>5. type \in Terminal => answered(c)'
    BY <2>3, <2>4 DEF answered
  <2>6. answered(c) => answered(c)'
    BY <2>4 DEF answered
  <2> QED BY <1>1, <2>5, <2>6 DEF answered
<1> QED BY <1>1, <1>2, <1>3

(* A step that sends keeps the invariant if a call is ending only with a    *)
(* terminal event.                                                          *)
LEMMA EndInvSends ==
  ASSUME EndInv, NEW c \in Calls, NEW s \in Senders, NEW type \in EventTypes,
         sendEvent(c, s, type), UNCHANGED <<lost, aborted>>, AbortTypes',
         deliver' \in [Calls -> {"none", "resolving", "sending"}],
         \A b \in Calls : handle'[b] \in {"ending", "done"} =>
             \/ handle'[b] = handle[b] /\ (b = c => s # "handle")
             \/ b = c /\ handle'[b] = "ending" /\ s = "handle" /\ type \in Terminal
  PROVE  EndInv'
<1>1. StreamTypes /\ aborted \in [Calls -> BOOLEAN] /\ "handle" \in Senders
  BY TypeParts DEF EndInv, Senders
<1>2. /\ sending' \in [Calls -> [Senders -> Outcomes]]
      /\ seq' \in [Calls -> Nat]
      /\ wire' \in [Calls -> Seq(Event)]
  BY <1>1, SendEvent
<1>3. StreamTypes'
  BY <1>1, <1>2 DEF StreamTypes, AbortTypes
<1>4. TypeOK'
  BY <1>1, <1>3, Zenon DEF TypeOK, StreamTypes, AbortTypes, Event, EventTypes
<1>5. /\ \A b \in Calls : answered(b) => answered(b)'
      /\ type \in Terminal => answered(c)' \/ sending'[c][s] = "failed"
  BY <1>1, SendAnswers
<1>6. /\ \A b \in Calls \ {c} : sending'[b] = sending[b]
      /\ \A r \in Senders \ {s} : sending'[c][r] = sending[c][r]
  BY <1>1, SendEvent
<1>7. ASSUME NEW b \in Calls
      PROVE  Ending(b)'
  <2>1. Ending(b)
    BY DEF EndInv
  <2>2. CASE handle'[b] = handle[b] /\ (b = c => s # "handle")
    <3>1. sending'[b]["handle"] = sending[b]["handle"]
      BY <1>1, <1>6, <2>2
    <3> QED BY <1>5, <2>1, <2>2, <3>1 DEF Ending
  <2> QED BY <1>5, <2>2 DEF Ending
<1> QED BY <1>4, <1>7 DEF EndInv

LEMMA EndInvStart ==
  ASSUME Init
  PROVE  EndInv
<1>1. TypeOK
  BY StreamStart, ControllerStart, TypeParts DEF StreamInv, ControllerInv, Init
<1> QED BY <1>1 DEF Init, EndInv, Ending

LEMMA EndInvIdle ==
  ASSUME EndInv, UNCHANGED <<sending, seq, wire, aborted>>, AbortTypes',
         deliver' \in [Calls -> {"none", "resolving", "sending"}],
         lost' \in [Calls -> BOOLEAN], \A b \in Calls : lost[b] => lost'[b],
         \A b \in Calls : handle'[b] \in {"ending", "done"} =>
             handle'[b] = handle[b] \/ lost'[b] \/ answered(b)
  PROVE  EndInv'
<1>1. StreamTypes /\ aborted \in [Calls -> BOOLEAN]
  BY TypeParts DEF EndInv
<1>2. StreamTypes'
  BY <1>1 DEF StreamTypes, AbortTypes
<1>3. TypeOK'
  BY <1>1, <1>2, Zenon DEF TypeOK, StreamTypes, AbortTypes, Event, EventTypes
<1> QED BY <1>3 DEF EndInv, Ending, answered

LEMMA EndInvStep ==
  ASSUME EndInv, [Next]_vars
  PROVE  EndInv'
<1>1. /\ AbortTypes /\ TurnOf \in [Calls -> TurnIds]
      /\ deliver \in [Calls -> {"none", "resolving", "sending"}]
      /\ lost \in [Calls -> BOOLEAN] /\ aborted \in [Calls -> BOOLEAN]
  BY TypeParts, TurnAssumption DEF EndInv, StreamTypes
<1>2. ASSUME NEW c \in Calls, Handle(c)
      PROVE  EndInv'
  <2>1. /\ handle' = [handle EXCEPT ![c] = "starting"]
        /\ aborts' = [aborts EXCEPT ![TurnOf[c]] = c]
        /\ sendEvent(c, "handle", "started") /\ UNCHANGED <<deliver, lost, aborted>>
    BY <1>2 DEF Handle, handleTo
  <2>2. AbortTypes'
    BY <1>1, <2>1 DEF AbortTypes
  <2>3. \A b \in Calls : handle'[b] \in {"ending", "done"} => handle'[b] = handle[b] /\ b # c
    BY <1>1, <2>1 DEF AbortTypes
  <2> QED BY <1>1, <2>1, <2>2, <2>3, EndInvSends DEF Senders, EventTypes
<1>3. ASSUME NEW c \in Calls, DispatchResolves(c) \/ DispatchRejects(c)
      PROVE  EndInv'
  <2>1. PICK type \in Terminal : sendEvent(c, "handle", type)
    BY <1>3 DEF DispatchResolves, DispatchRejects, Terminal
  <2>2. /\ handle' = [handle EXCEPT ![c] = "ending"]
        /\ UNCHANGED <<deliver, lost, aborts, aborted>>
    BY <1>3 DEF DispatchResolves, DispatchRejects, handleTo, aborting
  <2>3. AbortTypes'
    BY <1>1, <2>2 DEF AbortTypes
  <2>4. \A b \in Calls : (b # c /\ handle'[b] = handle[b]) \/ (b = c /\ handle'[b] = "ending")
    BY <1>1, <2>2 DEF AbortTypes
  <2> QED BY <1>1, <2>1, <2>2, <2>3, <2>4, EndInvSends DEF Senders, EventTypes
<1>4. ASSUME NEW c \in Calls, DeliverText(c) \/ Resolved(c)
      PROVE  EndInv'
  <2>1. /\ sendEvent(c, "deliver", "output") /\ deliver' = [deliver EXCEPT ![c] = "sending"]
        /\ UNCHANGED <<handle, lost, aborts, aborted>>
    BY <1>4 DEF DeliverText, Resolved, deliverTo, aborting
  <2>2. AbortTypes' /\ deliver' \in [Calls -> {"none", "resolving", "sending"}]
    BY <1>1, <2>1 DEF AbortTypes
  <2> QED BY <2>1, <2>2, EndInvSends DEF Senders, EventTypes
<1>5. ASSUME NEW c \in Calls, Dispatch(c) \/ Ended(c)
      PROVE  EndInv'
  <2>1. /\ lost' = [lost EXCEPT ![c] = @ \/ sending[c]["handle"] = "failed"]
        /\ UNCHANGED <<deliver, sending, seq, wire, aborted>>
    BY <1>5 DEF Dispatch, Ended, sendDone, aborting
  <2>2. \/ handle[c] = "starting" /\ handle' = [handle EXCEPT ![c] = "dispatching"]
        \/ handle[c] = "ending" /\ handle' = [handle EXCEPT ![c] = "done"]
    BY <1>5 DEF Dispatch, Ended, handleTo
  <2>3. aborts' = aborts \/ aborts' = [aborts EXCEPT ![TurnOf[c]] = NoCall]
    BY <1>5 DEF Dispatch, Ended, aborting
  <2>4. AbortTypes'
    BY <1>1, <2>2, <2>3 DEF AbortTypes
  <2>5. /\ lost' \in [Calls -> BOOLEAN] /\ \A b \in Calls : lost[b] => lost'[b]
        /\ sending[c]["handle"] = "failed" => lost'[c]
    BY <1>1, <2>1
  <2>6. \A b \in Calls : handle'[b] \in {"ending", "done"} =>
            handle'[b] = handle[b] \/ lost'[b] \/ answered(b)
    BY <1>1, <2>2, <2>5 DEF AbortTypes, EndInv, Ending
  <2> QED BY <1>1, <2>1, <2>4, <2>5, <2>6, EndInvIdle
<1>6. ASSUME NEW c \in Calls, DeliverSent(c)
      PROVE  EndInv'
  <2>1. /\ lost' = [lost EXCEPT ![c] = @ \/ sending[c]["deliver"] = "failed"]
        /\ UNCHANGED <<handle, sending, seq, wire, aborts, aborted>>
    BY <1>6 DEF DeliverSent, sendDone, aborting
  <2>2. deliver' \in [Calls -> {"none", "resolving", "sending"}]
    BY <1>1, <1>6 DEF DeliverSent, deliverTo
  <2>3. AbortTypes' /\ lost' \in [Calls -> BOOLEAN] /\ \A b \in Calls : lost[b] => lost'[b]
    BY <1>1, <2>1 DEF AbortTypes
  <2> QED BY <2>1, <2>2, <2>3, EndInvIdle
<1>7. ASSUME NEW c \in Calls, DeliverMedia(c) \/ ResolvedToNothing(c)
      PROVE  EndInv'
  <2>1. UNCHANGED <<handle, sending, seq, lost, wire, aborts, aborted>>
    BY <1>7 DEF DeliverMedia, ResolvedToNothing, outbound, aborting
  <2>2. deliver' \in [Calls -> {"none", "resolving", "sending"}]
    BY <1>1, <1>7 DEF DeliverMedia, ResolvedToNothing, deliverTo
  <2>3. AbortTypes'
    BY <1>1, <2>1 DEF AbortTypes
  <2> QED BY <1>1, <2>1, <2>2, <2>3, EndInvIdle
<1>8. ASSUME NEW t \in TurnIds, Interrupt(t)
      PROVE  EndInv'
  <2>1. UNCHANGED <<handle, deliver, sending, seq, lost, wire, aborts>>
    BY <1>8 DEF Interrupt, outbound
  <2>2. aborted' \in [Calls -> BOOLEAN]
    BY <1>1, <1>8 DEF Interrupt, AbortTypes
  <2>3. TypeOK'
    BY <2>1, <2>2 DEF EndInv, TypeOK
  <2> QED BY <2>1, <2>3 DEF EndInv, Ending, answered
<1>9. CASE UNCHANGED vars
  <2>1. UNCHANGED <<handle, deliver, sending, seq, lost, wire, aborts, aborted>>
    BY <1>9 DEF vars, outbound, aborting
  <2> QED BY <2>1 DEF EndInv, Ending, TypeOK, answered
<1> QED BY <1>2, <1>3, <1>4, <1>5, <1>6, <1>7, <1>8, <1>9 DEF Next

(* The type invariant of the turns.                                         *)
THEOREM TurnsTypeOK == Spec => []TypeOK
<1>1. Init => EndInv
  BY EndInvStart
<1>2. EndInv /\ [Next]_vars => EndInv'
  BY EndInvStep
<1>3. EndInv => TypeOK
  BY DEF EndInv
<1> QED BY <1>1, <1>2, <1>3, PTL DEF Spec

(* A call of handle() that returned has put a terminal event on the wire,   *)
(* unless its transport was lost: whether the dispatch resolved, failed or  *)
(* was aborted, and also if deliver is still running.                       *)
THEOREM AnsweredOrLost == Spec => []EndedIsAnswered
<1>1. Init => EndInv
  BY EndInvStart
<1>2. EndInv /\ [Next]_vars => EndInv'
  BY EndInvStep
<1>3. EndInv => EndedIsAnswered
  BY DEF EndInv, TypeOK, Ending, EndedIsAnswered, handled, running
<1> QED BY <1>1, <1>2, <1>3, PTL DEF Spec

-----------------------------------------------------------------------------
(* The wiring only restricts the turns, so what was shown of them         *)
(* holds through every drop, redial and repetition.                         *)
THEOREM PathImplementsTurns == PathSpec => Spec
<1>1. PathInit => Init
  BY DEF PathInit
<1>2. ASSUME [PathNext]_pathVars
      PROVE  [Next]_vars
  <2>1. CASE Dial
    BY <2>1 DEF Dial
  <2>2. ASSUME NEW k \in Conns, Accept(k) \/ Close(k)
        PROVE  UNCHANGED vars
    BY <2>2 DEF Accept, Close
  <2>3. ASSUME NEW k \in Conns, NEW c \in Calls, RequestArrives(c, k) \/ AckFails(c, k)
        PROVE  UNCHANGED vars
    BY <2>3 DEF RequestArrives, AckFails
  <2>4. ASSUME NEW k \in Conns, NEW c \in Calls, AckSent(c, k)
        PROVE  Next
    BY <2>4 DEF AckSent, Next
  <2>5. ASSUME NEW k \in Conns, NEW t \in TurnIds, RequestKnown(t, k)
        PROVE  UNCHANGED vars
    BY <2>5 DEF RequestKnown
  <2>6. ASSUME NEW c \in Calls, TurnStep(c)
        PROVE  Next
    BY <2>6 DEF TurnStep, Sends, Settles, Next
  <2>7. ASSUME NEW t \in TurnIds, InterruptArrives(t)
        PROVE  Next
    BY <2>7 DEF InterruptArrives, Next
  <2>8. CASE UNCHANGED pathVars
    BY <2>8 DEF pathVars
  <2> QED BY <1>2, <2>1, <2>2, <2>3, <2>4, <2>5, <2>6, <2>7, <2>8 DEF PathNext
<1> QED BY <1>1, <1>2, PTL DEF PathSpec, Spec

(* So the path keeps what was shown of the turns.                           *)
THEOREM TurnsOnThePath ==
  /\ PathSpec => [](TypeOK /\ ControllersRun /\ CanBeInterrupted /\ EndedIsAnswered)
  /\ Drains => (PathSpec => [](StreamHasNoGap /\ TerminalIsLast))
<1>1. PathSpec => [](TypeOK /\ ControllersRun /\ CanBeInterrupted /\ EndedIsAnswered)
  BY PathImplementsTurns, TurnsTypeOK, NoLeakedController, Interruptible, AnsweredOrLost, PTL
<1>2. ASSUME Drains
      PROVE  PathSpec => [](StreamHasNoGap /\ TerminalIsLast)
  <2>1. Spec => []StreamHasNoGap
    BY <1>2, NoGap
  <2>2. Spec => []TerminalIsLast
    BY <1>2, TerminalLast
  <2> QED BY <2>1, <2>2, PathImplementsTurns, PTL
<1> QED BY <1>1, <1>2

-----------------------------------------------------------------------------
(* What routing depends on                                                  *)

RoutingTypes ==
    /\ handle \in [Calls -> {"none", "starting", "dispatching", "ending", "done"}]
    /\ via \in [Calls -> Conns \cup {0}]
    /\ seen \in [Conns -> SUBSET TurnIds]

(* A call that was made is in the cache of its router, and of two calls a   *)
(* router made for one request the second came while the first one's ack    *)
(* was being sent.                                                          *)
HandledIsSeen ==
    \A c \in Calls : handle[c] # "none" => via[c] \in Conns /\ TurnOf[c] \in seen[via[c]]
RepeatedInAck ==
    \A b, c \in Calls :
        via[b] = via[c] /\ via[c] \in Conns /\ TurnOf[b] = TurnOf[c] /\ b # c
            => <<via[c], TurnOf[c]>> \in overlapped
RoutingInv == RoutingTypes /\ HandledIsSeen /\ RepeatedInAck

(* The steps of a turn that was begun leave routing alone.                  *)
LEMMA TurnSteps ==
  ASSUME RoutingTypes, NEW c \in Calls, TurnStep(c)
  PROVE  /\ UNCHANGED routing
         /\ handle' \in [Calls -> {"none", "starting", "dispatching", "ending", "done"}]
         /\ \A b \in Calls : handle'[b] # "none" <=> handle[b] # "none"
<1>1. UNCHANGED routing
  BY DEF TurnStep
<1>2. CASE DispatchResolves(c) \/ DispatchRejects(c)
  BY <1>1, <1>2 DEF DispatchResolves, DispatchRejects, maySettle, handleTo, RoutingTypes
<1>3. CASE Dispatch(c) \/ Ended(c)
  BY <1>1, <1>3 DEF Dispatch, Ended, handleTo, RoutingTypes
<1>4. CASE DeliverText(c) \/ Resolved(c) \/ DeliverMedia(c) \/ ResolvedToNothing(c) \/ DeliverSent(c)
  BY <1>1, <1>4 DEF DeliverText, Resolved, DeliverMedia, ResolvedToNothing, DeliverSent, RoutingTypes
<1> QED BY <1>2, <1>3, <1>4 DEF TurnStep, Sends, Settles

LEMMA RoutingStart ==
  ASSUME PathInit
  PROVE  RoutingInv
<1>1. 0 \notin Conns
  BY SMT DEF Conns
<1>2. RoutingTypes /\ HandledIsSeen
  BY DEF PathInit, Init, RoutingTypes, HandledIsSeen
<1>3. RepeatedInAck
  BY <1>1 DEF PathInit, RepeatedInAck
<1> QED BY <1>2, <1>3 DEF RoutingInv

LEMMA RoutingUnchanged ==
  ASSUME RoutingInv, UNCHANGED routing,
         handle' \in [Calls -> {"none", "starting", "dispatching", "ending", "done"}],
         \A b \in Calls : handle'[b] # "none" => handle[b] # "none"
  PROVE  RoutingInv'
BY DEF RoutingInv, RoutingTypes, HandledIsSeen, RepeatedInAck, routing

(* A request that arrives and was not acknowledged meets only calls that    *)
(* are still acknowledging it.                                              *)
LEMMA RoutingArrival ==
  ASSUME RoutingInv, NEW c \in Calls, NEW k \in Conns, RequestArrives(c, k)
  PROVE  RoutingInv'
<1>1. 0 \notin Conns
  BY SMT DEF Conns
<1>2. /\ via' = [via EXCEPT ![c] = k] /\ via[c] = 0
      /\ UNCHANGED <<handle, seen>> /\ TurnOf[c] \notin seen[k]
      /\ overlapped' = overlapped \cup
           {<<k, TurnOf[b]>> : b \in {b \in Calls : acking(b, k) /\ TurnOf[b] = TurnOf[c]}}
  BY DEF RequestArrives, vars
<1>3. RoutingTypes'
  BY <1>2 DEF RoutingInv, RoutingTypes
<1>4. HandledIsSeen'
  BY <1>1, <1>2 DEF RoutingInv, RoutingTypes, HandledIsSeen
<1>5. RepeatedInAck'
  <2> SUFFICES ASSUME NEW a \in Calls, NEW b \in Calls, a # b, TurnOf[a] = TurnOf[b],
                      via'[a] = via'[b], via'[b] \in Conns
               PROVE  <<via'[b], TurnOf[b]>> \in overlapped'
    BY DEF RepeatedInAck
  <2>1. CASE a # c /\ b # c
    BY <1>2, <2>1 DEF RoutingInv, RoutingTypes, RepeatedInAck
  <2>2. ASSUME NEW d \in Calls, d # c, via[d] = k, TurnOf[d] = TurnOf[c]
        PROVE  <<k, TurnOf[c]>> \in overlapped'
    <3>1. handle[d] = "none"
      BY <1>2, <2>2 DEF RoutingInv, HandledIsSeen
    <3> QED BY <1>2, <2>2, <3>1 DEF acking
  <2> QED BY <1>2, <2>1, <2>2 DEF RoutingInv, RoutingTypes
<1> QED BY <1>3, <1>4, <1>5 DEF RoutingInv

LEMMA RoutingAck ==
  ASSUME RoutingInv, NEW c \in Calls, NEW k \in Conns, AckSent(c, k)
  PROVE  RoutingInv'
<1>1. /\ via[c] = k /\ seen' = [seen EXCEPT ![k] = @ \cup {TurnOf[c]}]
      /\ handle' = [handle EXCEPT ![c] = "starting"] /\ UNCHANGED <<via, overlapped>>
  BY DEF AckSent, acking, Handle, handleTo
<1>2. TurnOf[c] \in TurnIds
  BY TurnAssumption
<1>3. seen' \in [Conns -> SUBSET TurnIds]
  BY <1>1, <1>2, Zenon DEF RoutingInv, RoutingTypes
<1>4. RoutingTypes'
  BY <1>1, <1>3 DEF RoutingInv, RoutingTypes
<1>5. HandledIsSeen'
  BY <1>1 DEF RoutingInv, RoutingTypes, HandledIsSeen
<1> QED BY <1>1, <1>4, <1>5 DEF RoutingInv, RoutingTypes, RepeatedInAck

(* The call of an ack that failed is forgotten.                             *)
LEMMA RoutingAckFails ==
  ASSUME RoutingInv, NEW c \in Calls, NEW k \in Conns, AckFails(c, k)
  PROVE  RoutingInv'
<1>1. 0 \notin Conns
  BY SMT DEF Conns
<1>2. /\ via' = [via EXCEPT ![c] = 0] /\ handle[c] = "none"
      /\ UNCHANGED <<handle, seen, overlapped>>
  BY DEF AckFails, acking, vars
<1>3. RoutingTypes' /\ HandledIsSeen'
  BY <1>2 DEF RoutingInv, RoutingTypes, HandledIsSeen
<1>4. RepeatedInAck'
  BY <1>1, <1>2 DEF RoutingInv, RoutingTypes, RepeatedInAck
<1> QED BY <1>3, <1>4 DEF RoutingInv

LEMMA RoutingStep ==
  ASSUME RoutingInv, [PathNext]_pathVars
  PROVE  RoutingInv'
<1>1. CASE UNCHANGED <<handle, routing>>
  BY <1>1, RoutingUnchanged DEF RoutingInv, RoutingTypes
<1>2. CASE Dial \/ UNCHANGED pathVars
  BY <1>1, <1>2 DEF Dial, pathVars, vars
<1>3. ASSUME NEW k \in Conns, Accept(k) \/ Close(k)
      PROVE  RoutingInv'
  BY <1>1, <1>3 DEF Accept, Close, vars
<1>4. ASSUME NEW k \in Conns, NEW t \in TurnIds, RequestKnown(t, k)
      PROVE  RoutingInv'
  BY <1>4 DEF RequestKnown, vars, RoutingInv, RoutingTypes, HandledIsSeen, RepeatedInAck
<1>5. ASSUME NEW c \in Calls, TurnStep(c)
      PROVE  RoutingInv'
  BY <1>5, TurnSteps, RoutingUnchanged DEF RoutingInv
<1>6. ASSUME NEW t \in TurnIds, InterruptArrives(t)
      PROVE  RoutingInv'
  BY <1>1, <1>6 DEF InterruptArrives, Interrupt
<1> QED BY <1>2, <1>3, <1>4, <1>5, <1>6, RoutingArrival, RoutingAck, RoutingAckFails DEF PathNext

(* However often a request is repeated, one router handles it once, unless  *)
(* a repetition came while the first ack was being sent.                    *)
THEOREM OncePerRouter == PathSpec => []OncePerConnection
<1>1. PathInit => RoutingInv
  BY RoutingStart
<1>2. RoutingInv /\ [PathNext]_pathVars => RoutingInv'
  BY RoutingStep
<1>3. RoutingInv => OncePerConnection
  BY DEF RoutingInv, HandledIsSeen, RepeatedInAck, OncePerConnection
<1> QED BY <1>1, <1>2, <1>3, PTL DEF PathSpec

-----------------------------------------------------------------------------
(* What the routers and the gateway know of the calls                       *)

(* A request is cached, and acknowledged, once a call for it was made.      *)
SeenIsHandled == \A k \in Conns : seen[k] \subseteq {TurnOf[c] : c \in handled}
AckInv == RoutingInv /\ SeenIsHandled /\ AckedIsHandled

LEMMA AckStep ==
  ASSUME AckInv, [PathNext]_pathVars
  PROVE  AckInv'
<1>1. RoutingInv'
  BY RoutingStep DEF AckInv
<1>2. RoutingTypes
  BY DEF AckInv, RoutingInv
<1>3. CASE UNCHANGED <<handle, seen, acked>>
  BY <1>1, <1>3 DEF AckInv, SeenIsHandled, AckedIsHandled, handled
<1>4. ASSUME NEW k \in Conns,
             \/ Accept(k) \/ Close(k)
             \/ \E c \in Calls : RequestArrives(c, k) \/ AckFails(c, k)
      PROVE  AckInv'
  BY <1>3, <1>4 DEF Accept, Close, RequestArrives, AckFails, vars, routing
<1>5. ASSUME NEW c \in Calls, NEW k \in Conns, AckSent(c, k)
      PROVE  AckInv'
  <2>1. /\ handle' = [handle EXCEPT ![c] = "starting"]
        /\ seen' = [seen EXCEPT ![k] = @ \cup {TurnOf[c]}]
        /\ acked' \in {acked, acked \cup {TurnOf[c]}}
    BY <1>5 DEF AckSent, Handle, handleTo
  <2>2. c \in handled' /\ handled \subseteq handled'
    BY <1>2, <2>1 DEF handled, RoutingTypes
  <2>3. {TurnOf[b] : b \in handled} \cup {TurnOf[c]} \subseteq {TurnOf[b] : b \in handled'}
    BY <2>2
  <2>4. SeenIsHandled'
    BY <1>2, <2>1, <2>3 DEF AckInv, SeenIsHandled, RoutingTypes
  <2>5. AckedIsHandled'
    BY <2>1, <2>3 DEF AckInv, AckedIsHandled
  <2> QED BY <1>1, <2>4, <2>5 DEF AckInv
<1>6. ASSUME NEW t \in TurnIds, NEW k \in Conns, RequestKnown(t, k)
      PROVE  AckInv'
  <2>1. UNCHANGED <<handle, seen>> /\ acked' = acked \cup {t} /\ t \in seen[k]
    BY <1>6 DEF RequestKnown, vars
  <2> QED BY <1>1, <2>1 DEF AckInv, SeenIsHandled, AckedIsHandled, handled
<1>7. ASSUME NEW c \in Calls, TurnStep(c)
      PROVE  AckInv'
  <2>1. UNCHANGED <<seen, acked>> /\ \A b \in Calls : handle[b] # "none" => handle'[b] # "none"
    BY <1>2, <1>7, TurnSteps DEF routing
  <2>2. {TurnOf[b] : b \in handled} \subseteq {TurnOf[b] : b \in handled'}
    BY <2>1 DEF handled
  <2> QED BY <1>1, <2>1, <2>2 DEF AckInv, SeenIsHandled, AckedIsHandled
<1>8. ASSUME NEW t \in TurnIds, InterruptArrives(t)
      PROVE  AckInv'
  BY <1>3, <1>8 DEF InterruptArrives, Interrupt, routing
<1>9. CASE UNCHANGED pathVars
  BY <1>3, <1>9 DEF pathVars, vars, routing
<1>10. CASE Dial
  BY <1>3, <1>10 DEF Dial, vars, routing
<1> QED BY <1>4, <1>5, <1>6, <1>7, <1>8, <1>9, <1>10 DEF PathNext

(* The gateway has an ack only for requests that were handed to handle(),   *)
(* so that one it stops repeating is not forgotten.                         *)
THEOREM AckedWereHandled == PathSpec => []AckedIsHandled
<1>1. PathInit => AckInv
  BY RoutingStart DEF PathInit, AckInv, SeenIsHandled, AckedIsHandled
<1>2. AckInv /\ [PathNext]_pathVars => AckInv'
  BY AckStep
<1>3. AckInv => AckedIsHandled
  BY DEF AckInv
<1> QED BY <1>1, <1>2, <1>3, PTL DEF PathSpec

(* An acknowledged request has a call, and a call that is over answered or  *)
(* lost its transport, through every drop, redial and repetition: what is   *)
(* missing to AckedIsAnswered is that calls are over at last.               *)
THEOREM AckedAndOverIsAnswered == PathSpec => [](AckedIsHandled /\ EndedIsAnswered)
BY AckedWereHandled, AnsweredOrLost, PathImplementsTurns, PTL

-----------------------------------------------------------------------------
(* Why events are lost                                                      *)

Lines == {"none", "dialing", "open", "closed"}
LossTypes ==
    /\ handle \in [Calls -> {"none", "starting", "dispatching", "ending", "done"}]
    /\ deliver \in [Calls -> {"none", "resolving", "sending"}]
    /\ sending \in [Calls -> [Senders -> Outcomes]]
    /\ lost \in [Calls -> BOOLEAN]
    /\ line \in [Conns -> Lines]
    /\ via \in [Calls -> Conns \cup {0}]
    /\ dying \in [Calls -> [Senders -> Conns \cup {0}]]

(* Transports are made in the order of their numbers; a call that is made   *)
(* came in on one of them that was open; what it does is behind it.         *)
DialedInTurn(n) == n \in 0..MaxConns /\ \A k \in Conns : line[k] # "none" <=> k <= n
Routed(c) ==
    /\ via[c] # 0 => line[via[c]] \in {"open", "closed"}
    /\ handle[c] # "none" => via[c] # 0
    /\ deliver[c] # "none" \/ lost[c] => handle[c] # "none"

(* The connection of the request is gone, or is not the one that is used:   *)
(* both stay so.  A send fails only then, or at the end of that connection. *)
superseded(c) == line[via[c]] = "closed" \/ via[c] # newest
FailureHasCause(c) ==
    \A s \in Senders :
        sending[c][s] = "failed" =>
            handle[c] # "none" /\ (superseded(c) \/ dying[c][s] = via[c])
LossInv ==
    /\ LossTypes /\ \E n \in Nat : DialedInTurn(n)
    /\ \A c \in Calls : Routed(c) /\ FailureHasCause(c) /\ (lost[c] => superseded(c))

LEMMA NewestIs ==
  ASSUME NEW n \in Nat, DialedInTurn(n)
  PROVE  newest = n
<1>1. {k \in Conns : line[k] # "none"} = 1..n
  BY ConnsAssumption DEF DialedInTurn, Conns
<1>2. Cardinality(1..n) = n
  BY FS_Interval
<1> QED BY <1>1, <1>2 DEF newest

(* The steps that leave the lines and the routing of calls alone: only what *)
(* is being sent and what was lost is left to show.                         *)
LEMMA LossCalls ==
  ASSUME LossInv, UNCHANGED <<line, via>>,
         handle' \in [Calls -> {"none", "starting", "dispatching", "ending", "done"}],
         deliver' \in [Calls -> {"none", "resolving", "sending"}],
         sending' \in [Calls -> [Senders -> Outcomes]],
         lost' \in [Calls -> BOOLEAN],
         dying' \in [Calls -> [Senders -> Conns \cup {0}]],
         \A c \in Calls :
             /\ handle[c] # "none" => handle'[c] # "none"
             /\ handle'[c] # "none" => via[c] # 0
             /\ deliver'[c] # "none" => handle'[c] # "none"
             /\ lost'[c] => lost[c] \/ (handle[c] # "none" /\ superseded(c))
             /\ \A s \in Senders : sending'[c][s] = "failed" =>
                    \/ sending[c][s] = "failed" /\ dying'[c][s] = dying[c][s]
                    \/ handle'[c] # "none" /\ (superseded(c) \/ dying'[c][s] = via[c])
  PROVE  LossInv'
<1>1. newest' = newest /\ \A c \in Calls : superseded(c)' <=> superseded(c)
  BY DEF newest, superseded
<1>2. LossTypes'
  BY DEF LossInv, LossTypes
<1>3. \E n \in Nat : DialedInTurn(n)'
  BY DEF LossInv, DialedInTurn
<1>4. ASSUME NEW c \in Calls
      PROVE  (Routed(c) /\ FailureHasCause(c) /\ (lost[c] => superseded(c)))'
  <2>1. Routed(c) /\ FailureHasCause(c) /\ (lost[c] => superseded(c))
    BY DEF LossInv
  <2>2. Routed(c)'
    BY <2>1 DEF Routed
  <2>3. FailureHasCause(c)'
    BY <1>1, <2>1 DEF FailureHasCause
  <2> QED BY <1>1, <2>1, <2>2, <2>3
<1> QED BY <1>2, <1>3, <1>4 DEF LossInv

(* A send on a socket that is not open fails at once: then the request's    *)
(* connection is not the newest, or closed.  On one that is open it fails   *)
(* with it.                                                                 *)
LEMMA LossSends ==
  ASSUME LossInv, NEW c \in Calls, NEW s \in Senders, NEW type,
         sendEvent(c, s, type), sends(c, s), UNCHANGED <<line, via, lost>>, via[c] # 0,
         handle' \in [Calls -> {"none", "starting", "dispatching", "ending", "done"}],
         deliver' \in [Calls -> {"none", "resolving", "sending"}],
         \A b \in Calls : b # c => handle'[b] = handle[b] /\ deliver'[b] = deliver[b],
         handle'[c] # "none"
  PROVE  LossInv'
<1>1. LossTypes /\ \A b \in Calls : Routed(b)
  BY DEF LossInv
<1>2. PICK outcome \in Outcomes : sending' = [sending EXCEPT ![c][s] = outcome]
  BY DEF sendEvent, Outcomes
<1>3. dying' = [dying EXCEPT ![c][s] =
                    IF sending'[c][s] = "failed" /\ isOpen(newest) THEN newest ELSE 0]
  BY DEF sends, currentSend
<1>4. isOpen(newest) => newest \in Conns
  BY DEF isOpen
<1>5. sending' \in [Calls -> [Senders -> Outcomes]] /\ dying' \in [Calls -> [Senders -> Conns \cup {0}]]
  BY <1>1, <1>2, <1>3, <1>4 DEF LossTypes
<1>6. via[c] \in Conns /\ line[via[c]] \in {"open", "closed"}
  BY <1>1 DEF LossTypes, Routed
<1>7. sending'[c][s] = "failed" => superseded(c) \/ dying'[c][s] = via[c]
  <2>1. CASE isOpen(newest)
    BY <1>1, <1>3, <2>1 DEF superseded, LossTypes
  <2>2. CASE ~isOpen(newest)
    BY <1>6, <2>2 DEF superseded, isOpen
  <2> QED BY <2>1, <2>2
<1>8. \A b \in Calls : \A r \in Senders :
          b # c \/ r # s => sending'[b][r] = sending[b][r] /\ dying'[b][r] = dying[b][r]
  BY <1>1, <1>2, <1>3 DEF LossTypes
<1>9. \A b \in Calls : \A r \in Senders : sending'[b][r] = "failed" =>
          \/ sending[b][r] = "failed" /\ dying'[b][r] = dying[b][r]
          \/ handle'[b] # "none" /\ (superseded(b) \/ dying'[b][r] = via[b])
  BY <1>7, <1>8
<1> QED BY <1>1, <1>5, <1>9, LossCalls DEF LossTypes, Routed

(* A send that was to fail settles when the socket it waits for closed.     *)
LEMMA LossSettles ==
  ASSUME LossInv, NEW c \in Calls, NEW s \in Senders,
         sendDone(c, s), settles(c, s), UNCHANGED <<line, via>>, handle[c] # "none",
         handle' \in [Calls -> {"none", "starting", "dispatching", "ending", "done"}],
         deliver' \in [Calls -> {"none", "resolving", "sending"}],
         \A b \in Calls : /\ handle'[b] # "none" <=> handle[b] # "none"
                          /\ deliver'[b] # "none" => deliver[b] # "none"
  PROVE  LossInv'
<1>1. LossTypes /\ \A b \in Calls : Routed(b) /\ FailureHasCause(b)
  BY DEF LossInv
<1>2. /\ lost' = [lost EXCEPT ![c] = @ \/ sending[c][s] = "failed"] /\ sending' = sending
      /\ dying' = [dying EXCEPT ![c][s] = 0]
  BY DEF sendDone, settles
<1>3. lost' \in [Calls -> BOOLEAN] /\ dying' \in [Calls -> [Senders -> Conns \cup {0}]]
  BY <1>1, <1>2 DEF LossTypes
<1>4. sending[c][s] = "failed" => superseded(c)
  BY <1>1 DEF settles, FailureHasCause, superseded, Routed, LossTypes
<1>5. \A b \in Calls : lost'[b] => lost[b] \/ (b = c /\ sending[c][s] = "failed")
  BY <1>1, <1>2 DEF LossTypes
<1>6. \A b \in Calls : \A r \in Senders : b # c \/ r # s => dying'[b][r] = dying[b][r]
  BY <1>1, <1>2 DEF LossTypes
<1>7. \A b \in Calls : \A r \in Senders : sending'[b][r] = "failed" =>
          \/ sending[b][r] = "failed" /\ dying'[b][r] = dying[b][r]
          \/ handle'[b] # "none" /\ (superseded(b) \/ dying'[b][r] = via[b])
  BY <1>2, <1>4, <1>6
<1>8. \A b \in Calls : lost'[b] => lost[b] \/ (handle[b] # "none" /\ superseded(b))
  BY <1>4, <1>5
<1> QED BY <1>1, <1>2, <1>3, <1>7, <1>8, LossCalls DEF LossTypes, Routed

(* A transport that is made supersedes the others, and one that is closed   *)
(* stays closed.                                                            *)
LEMMA LossLines ==
  ASSUME LossInv, NEW k \in Conns, NEW to \in Lines \ {"none"},
         line' = [line EXCEPT ![k] = to], UNCHANGED <<vars, via, dying>>,
         \/ line[k] = "none" /\ to = "dialing" /\ k = newest + 1
         \/ line[k] = "dialing" /\ to = "open"
         \/ line[k] \in {"dialing", "open"} /\ to = "closed"
  PROVE  LossInv'
<1>1. LossTypes /\ \A c \in Calls : Routed(c) /\ FailureHasCause(c) /\ (lost[c] => superseded(c))
  BY DEF LossInv
<1>2. PICK n \in Nat : DialedInTurn(n)
  BY DEF LossInv
<1>3. newest = n
  BY <1>2, NewestIs
<1>4. UNCHANGED <<handle, deliver, sending, lost, via, dying>>
  BY DEF vars, outbound
<1>5. line' \in [Conns -> Lines] /\ line'[k] = to /\ \A j \in Conns \ {k} : line'[j] = line[j]
  BY <1>1 DEF LossTypes
<1>6. LossTypes'
  BY <1>1, <1>4, <1>5 DEF LossTypes
<1>7. PICK m \in Nat : DialedInTurn(m)' /\ n <= m
  <2>1. CASE line[k] = "none"
    <3>1. k = n + 1 /\ n + 1 \in 0..MaxConns
      BY <1>3, <2>1, ConnsAssumption DEF Conns
    <3>2. \A j \in Conns : line'[j] # "none" <=> j <= n + 1
      <4> SUFFICES ASSUME NEW j \in Conns
                   PROVE  line'[j] # "none" <=> j <= n + 1
        OBVIOUS
      <4>1. line[j] # "none" <=> j <= n
        BY <1>2 DEF DialedInTurn
      <4>2. j \in Int
        BY ConnsAssumption DEF Conns
      <4>3. j # k => line'[j] = line[j]
        BY <1>5
      <4>4. j = k => line'[j] # "none"
        BY <1>5
      <4>5. CASE j = k
        BY <3>1, <4>4, <4>5
      <4>6. CASE j # k
        BY <3>1, <4>1, <4>2, <4>3, <4>6
      <4> QED BY <4>5, <4>6
    <3>3. DialedInTurn(n + 1)'
      BY <3>1, <3>2 DEF DialedInTurn
    <3> QED BY <3>3
  <2>2. CASE line[k] # "none"
    <3>1. \A j \in Conns : line'[j] # "none" <=> line[j] # "none"
      BY <1>5, <2>2
    <3>2. DialedInTurn(n)'
      BY <1>2, <3>1 DEF DialedInTurn
    <3> QED BY <3>2
  <2> QED BY <2>1, <2>2
<1>8. newest' = m
  <2>1. {j \in Conns : line'[j] # "none"} = 1..m
    BY <1>7, ConnsAssumption DEF DialedInTurn, Conns
  <2>2. Cardinality(1..m) = m
    BY FS_Interval
  <2> QED BY <2>1, <2>2 DEF newest
<1>9. ASSUME NEW c \in Calls, via[c] # 0
      PROVE  /\ line'[via[c]] \in {"open", "closed"}
             /\ superseded(c) => superseded(c)'
  <2>1. via[c] \in Conns /\ line[via[c]] \in {"open", "closed"}
    BY <1>1, <1>9 DEF LossTypes, Routed
  <2>2. line'[via[c]] \in {"open", "closed"} /\ (line[via[c]] = "closed" => line'[via[c]] = "closed")
    BY <1>5, <2>1
  <2>3. via[c] <= n /\ via[c] \in Int
    BY <1>2, <2>1, ConnsAssumption DEF DialedInTurn, Conns
  <2>4. via[c] # n => via[c] # m
    BY <1>7, <2>3
  <2> QED BY <1>3, <1>4, <1>8, <2>2, <2>4 DEF superseded
<1>10. ASSUME NEW c \in Calls
       PROVE  (Routed(c) /\ FailureHasCause(c) /\ (lost[c] => superseded(c)))'
  BY <1>1, <1>4, <1>9 DEF Routed, FailureHasCause
<1> QED BY <1>6, <1>7, <1>10 DEF LossInv

(* A request arrives on an open connection, and a call whose ack failed was *)
(* not made: neither has a send to lose.                                    *)
LEMMA LossRouting ==
  ASSUME LossInv, NEW c \in Calls, NEW k \in Conns \cup {0}, via' = [via EXCEPT ![c] = k],
         handle[c] = "none", k # 0 => line[k] = "open",
         UNCHANGED <<vars, line, dying>>
  PROVE  LossInv'
<1>1. LossTypes /\ \A b \in Calls : Routed(b) /\ FailureHasCause(b) /\ (lost[b] => superseded(b))
  BY DEF LossInv
<1>2. UNCHANGED <<handle, deliver, sending, lost, line, dying>>
  BY DEF vars, outbound
<1>3. newest' = newest
  BY DEF newest
<1>4. LossTypes'
  BY <1>1, <1>2 DEF LossTypes
<1>5. \E n \in Nat : DialedInTurn(n)'
  BY DEF LossInv, DialedInTurn
<1>6. ASSUME NEW b \in Calls
      PROVE  (Routed(b) /\ FailureHasCause(b) /\ (lost[b] => superseded(b)))'
  <2>1. CASE b = c
    BY <1>1, <1>2, <2>1 DEF Routed, FailureHasCause, LossTypes
  <2>2. CASE b # c
    <3>1. via'[b] = via[b]
      BY <1>1, <2>2 DEF LossTypes
    <3> QED BY <1>1, <1>2, <1>3, <3>1 DEF Routed, FailureHasCause, superseded
  <2> QED BY <2>1, <2>2
<1> QED BY <1>4, <1>5, <1>6 DEF LossInv

LEMMA LossTurn ==
  ASSUME LossInv, NEW c \in Calls, TurnStep(c)
  PROVE  LossInv'
<1>1. LossTypes /\ \A b \in Calls : Routed(b)
  BY DEF LossInv
<1>2. UNCHANGED <<line, via>>
  BY DEF TurnStep, routing
<1> USE DEF handleTo, deliverTo
<1>3. CASE (DispatchResolves(c) \/ DispatchRejects(c)) /\ sends(c, "handle")
  <2>1. PICK type : sendEvent(c, "handle", type)
    BY <1>3 DEF DispatchResolves, DispatchRejects
  <2>2. /\ handle[c] = "dispatching" /\ handle' = [handle EXCEPT ![c] = "ending"]
        /\ UNCHANGED <<deliver, lost>>
    BY <1>3 DEF DispatchResolves, DispatchRejects, maySettle
  <2>3. /\ handle' \in [Calls -> {"none", "starting", "dispatching", "ending", "done"}]
        /\ handle'[c] # "none" /\ \A b \in Calls : b # c => handle'[b] = handle[b]
    BY <1>1, <2>2 DEF LossTypes
  <2> QED BY <1>1, <1>2, <1>3, <2>1, <2>2, <2>3, LossSends DEF LossTypes, Routed, Senders
<1>4. CASE (DeliverText(c) \/ Resolved(c)) /\ sends(c, "deliver")
  <2>1. /\ sendEvent(c, "deliver", "output") /\ UNCHANGED <<handle, lost>>
        /\ deliver' = [deliver EXCEPT ![c] = "sending"] /\ handle[c] # "none"
    BY <1>1, <1>4 DEF DeliverText, Resolved, Routed
  <2>2. /\ deliver' \in [Calls -> {"none", "resolving", "sending"}]
        /\ \A b \in Calls : b # c => deliver'[b] = deliver[b]
    BY <1>1, <2>1 DEF LossTypes
  <2> QED BY <1>1, <1>2, <1>4, <2>1, <2>2, LossSends DEF LossTypes, Routed, Senders
<1>5. CASE (Dispatch(c) \/ Ended(c)) /\ settles(c, "handle")
  <2>1. /\ sendDone(c, "handle") /\ UNCHANGED deliver
        /\ handle[c] # "none"
        /\ \E to \in {"dispatching", "done"} : handle' = [handle EXCEPT ![c] = to]
    BY <1>5 DEF Dispatch, Ended
  <2>2. /\ handle' \in [Calls -> {"none", "starting", "dispatching", "ending", "done"}]
        /\ \A b \in Calls : handle'[b] # "none" <=> handle[b] # "none"
    BY <1>1, <2>1 DEF LossTypes
  <2> QED BY <1>1, <1>2, <1>5, <2>1, <2>2, LossSettles DEF LossTypes, Senders
<1>6. CASE DeliverSent(c) /\ settles(c, "deliver")
  <2>1. /\ sendDone(c, "deliver") /\ UNCHANGED handle /\ deliver[c] = "sending"
        /\ \E to \in {"resolving", "none"} : deliver' = [deliver EXCEPT ![c] = to]
    BY <1>6 DEF DeliverSent
  <2>2. /\ deliver' \in [Calls -> {"none", "resolving", "sending"}]
        /\ \A b \in Calls : deliver'[b] # "none" => deliver[b] # "none"
    BY <1>1, <2>1 DEF LossTypes
  <2>3. handle[c] # "none"
    BY <1>1, <2>1 DEF Routed
  <2> QED BY <1>1, <1>2, <1>6, <2>1, <2>2, <2>3, LossSettles DEF LossTypes, Senders
<1>7. CASE (DeliverMedia(c) \/ ResolvedToNothing(c)) /\ UNCHANGED dying
  <2>1. /\ UNCHANGED <<handle, sending, lost>> /\ handle[c] # "none"
        /\ \E to \in {"resolving", "none"} : deliver' = [deliver EXCEPT ![c] = to]
    BY <1>1, <1>7 DEF DeliverMedia, ResolvedToNothing, outbound, Routed
  <2>2. /\ deliver' \in [Calls -> {"none", "resolving", "sending"}]
        /\ \A b \in Calls : deliver'[b] # "none" => handle[b] # "none"
    BY <1>1, <2>1 DEF LossTypes, Routed
  <2> QED BY <1>1, <1>2, <1>7, <2>1, <2>2, LossCalls DEF LossTypes, Routed
<1> QED BY <1>3, <1>4, <1>5, <1>6, <1>7 DEF TurnStep, Sends, Settles

LEMMA LossStart ==
  ASSUME PathInit
  PROVE  LossInv
<1>1. LossTypes
  BY DEF PathInit, Init, LossTypes, Lines, Outcomes
<1>2. DialedInTurn(0)
  BY ConnsAssumption DEF PathInit, DialedInTurn, Conns
<1>3. \A c \in Calls : Routed(c) /\ FailureHasCause(c) /\ (lost[c] => superseded(c))
  BY DEF PathInit, Init, Routed, FailureHasCause
<1> QED BY <1>1, <1>2, <1>3 DEF LossInv

LEMMA LossStep ==
  ASSUME LossInv, [PathNext]_pathVars
  PROVE  LossInv'
<1>1. LossTypes /\ \A c \in Calls : Routed(c)
  BY DEF LossInv
<1>2. ASSUME UNCHANGED <<handle, deliver, outbound, line, via, dying>>
      PROVE  LossInv'
  BY <1>2 DEF LossInv, LossTypes, DialedInTurn, Routed, FailureHasCause, superseded, newest, outbound
<1>3. CASE Dial
  <2>1. PICK n \in Nat : DialedInTurn(n)
    BY DEF LossInv
  <2>2. newest = n
    BY <2>1, NewestIs
  <2>3. newest + 1 \in Conns /\ line[newest + 1] = "none"
    BY <1>1, <1>3, <2>1, <2>2, ConnsAssumption DEF Dial, Conns, DialedInTurn
  <2> QED BY <1>3, <2>3, LossLines DEF Dial, routing, Lines
<1>4. ASSUME NEW k \in Conns, Accept(k) \/ Close(k)
      PROVE  LossInv'
  BY <1>4, LossLines DEF Accept, Close, routing, Lines
<1>5. ASSUME NEW c \in Calls, NEW k \in Conns, RequestArrives(c, k)
      PROVE  LossInv'
  <2>1. via[c] = 0 /\ line[k] = "open" /\ via' = [via EXCEPT ![c] = k] /\ UNCHANGED <<vars, line, dying>>
    BY <1>5 DEF RequestArrives, isOpen
  <2>2. handle[c] = "none"
    BY <1>1, <2>1 DEF Routed
  <2> QED BY <2>1, <2>2, LossRouting
<1>6. ASSUME NEW c \in Calls, NEW k \in Conns, AckFails(c, k)
      PROVE  LossInv'
  BY <1>6, LossRouting DEF AckFails, acking
<1>7. ASSUME NEW c \in Calls, NEW k \in Conns, AckSent(c, k)
      PROVE  LossInv'
  <2>1. /\ sendEvent(c, "handle", "started") /\ sends(c, "handle") /\ via[c] = k
        /\ handle' = [handle EXCEPT ![c] = "starting"] /\ UNCHANGED <<deliver, lost, line, via>>
    BY <1>7 DEF AckSent, acking, Handle, handleTo
  <2>2. /\ handle' \in [Calls -> {"none", "starting", "dispatching", "ending", "done"}]
        /\ handle'[c] # "none" /\ \A b \in Calls : b # c => handle'[b] = handle[b]
    BY <1>1, <2>1 DEF LossTypes
  <2>3. via[c] # 0
    BY <2>1, SMT DEF Conns
  <2> QED BY <1>1, <2>1, <2>2, <2>3, LossSends DEF LossTypes, Senders
<1>8. ASSUME NEW k \in Conns, NEW t \in TurnIds, RequestKnown(t, k)
      PROVE  LossInv'
  BY <1>2, <1>8 DEF RequestKnown, vars
<1>9. ASSUME NEW t \in TurnIds, InterruptArrives(t)
      PROVE  LossInv'
  BY <1>2, <1>9 DEF InterruptArrives, Interrupt, routing
<1>10. CASE UNCHANGED pathVars
  BY <1>2, <1>10 DEF pathVars, vars, routing
<1> QED BY <1>3, <1>4, <1>5, <1>6, <1>7, <1>8, <1>9, <1>10, LossTurn DEF PathNext

(* A turn loses events only because the connection of its request closed,   *)
(* or because a newer transport was made: for any number of connections     *)
(* and calls, whether deliver drains or not.                                *)
THEOREM LossHasCause == PathSpec => []LostOnlyToADrop
<1>1. PathInit => LossInv
  BY LossStart
<1>2. LossInv /\ [PathNext]_pathVars => LossInv'
  BY LossStep
<1>3. LossInv => LostOnlyToADrop
  BY DEF LossInv, superseded, LostOnlyToADrop
<1> QED BY <1>1, <1>2, <1>3, PTL DEF PathSpec
=============================================================================
