--------------------------- MODULE ChannelGateway ---------------------------
(***************************************************************************)
(* channel-gateway.ts and its two callers, registerFull (index.ts) and      *)
(* startAccount (channel.ts), in one process and for one gateway and agent: *)
(* each call of startConnectorRuntime takes the run-once lease and starts a *)
(* runtime, whose steps are LifeSteps.  What other processes do with the lock  *)
(* of the same key is StartGuard's.                                         *)
(***************************************************************************)
EXTENDS Naturals, LifeSteps

CONSTANT MaxStarts      \* bound: calls of startConnectorRuntime

VARIABLES
    runtimeSet,     \* plugin-runtime.ts: setRuntime was called
    inRegistry,     \* the start guard's registry has the key
    lease,          \* per call: what became of its lease
    host,           \* per call: the entry point it came from
    life,           \* per call: its ConnectorRuntime
    stops           \* per call and caller of its stop(): where that stop is

vars == <<runtimeSet, inRegistry, lease, host, life, stops>>

-----------------------------------------------------------------------------
Starts == 1..MaxStarts
Callers == {"abortSignal", "handle"}

Init ==
    /\ runtimeSet = FALSE /\ inRegistry = FALSE
    /\ lease = [s \in Starts |-> "none"]
    /\ host = [s \in Starts |-> "none"]
    /\ life = [s \in Starts |-> Idle]
    /\ stops = [s \in Starts |-> [c \in Callers |-> "idle"]]

active(s) == Active(life[s])
stopping(s, c, where) == stops' = [stops EXCEPT ![s][c] = where]

(* Fault: a second release is not ignored.                                  *)
release_Again(s) ==
    /\ lease' = [lease EXCEPT ![s] = "released"]
    /\ inRegistry' = FALSE

(* startLease.release()                                                     *)
release(s) ==
    IF lease[s] = "held"
    THEN lease' = [lease EXCEPT ![s] = "released"] /\ inRegistry' = FALSE
    ELSE UNCHANGED <<lease, inRegistry>>

-----------------------------------------------------------------------------
SetRuntime ==
    /\ ~runtimeSet /\ runtimeSet' = TRUE
    /\ UNCHANGED <<inRegistry, lease, host, life, stops>>

calls(s, entry) ==
    /\ host[s] = "none" /\ \A t \in 1..(s - 1) : host[t] # "none"
    /\ host' = [host EXCEPT ![s] = entry]

mayStart(entry) == entry = "startAccount" => runtimeSet

(* The key is taken: the handle that is returned stops nothing.             *)
StartRefused(s, entry) ==
    /\ calls(s, entry) /\ mayStart(entry) /\ inRegistry
    /\ lease' = [lease EXCEPT ![s] = "refused"]
    /\ UNCHANGED <<runtimeSet, inRegistry, life, stops>>

(* start() runs up to its first request.  A signal that is aborted already  *)
(* stops the runtime in the same step.                                      *)
StartAcquired(s, entry) ==
    /\ calls(s, entry) /\ mayStart(entry) /\ ~inRegistry
    /\ lease' = [lease EXCEPT ![s] = "held"] /\ inRegistry' = TRUE
    /\ \E started \in Started(life[s]) :
          \/ life' = [life EXCEPT ![s] = started] /\ UNCHANGED stops
          \/ /\ entry = "startAccount"
             /\ life' = [life EXCEPT ![s] = StoppedBy(started)]
             /\ stopping(s, "abortSignal", "waiting")
    /\ UNCHANGED runtimeSet

(* startAccount without a runtime reports an error and starts nothing.      *)
StartWithoutRuntime(s) ==
    /\ calls(s, "startAccount") /\ ~runtimeSet
    /\ lease' = [lease EXCEPT ![s] = "error"]
    /\ UNCHANGED <<runtimeSet, inRegistry, life, stops>>

-----------------------------------------------------------------------------
(* Only startAccount passes a signal, and keeps the handle.                 *)
mayStop(s, c) ==
    /\ host[s] = "startAccount" /\ lease[s] \in {"held", "released"}
    /\ stops[s][c] = "idle"

Stop(s, c) ==
    /\ mayStop(s, c) /\ ~life[s].stopped
    /\ life' = [life EXCEPT ![s] = StoppedBy(@)]
    /\ stopping(s, c, "waiting")
    /\ UNCHANGED <<runtimeSet, inRegistry, lease, host>>

(* The runtime is stopped already: stop() returns at once and releases the  *)
(* lease, whether or not an earlier stop() still waits.                     *)
StopAgain(s, c) ==
    /\ mayStop(s, c) /\ life[s].stopped
    /\ stopping(s, c, "returned")
    /\ release(s)
    /\ UNCHANGED <<runtimeSet, host, life>>

(* runtime.stop() returns, when its session is closed or at once if it has  *)
(* none: registering included.                                              *)
StopReturned(s, c) ==
    /\ stops[s][c] = "waiting"
    /\ stopping(s, c, "returned")
    /\ release(s)
    /\ UNCHANGED <<runtimeSet, host, life>>

-----------------------------------------------------------------------------
runs(s, steps) ==
    /\ life' \in {[life EXCEPT ![s] = r] : r \in steps}
    /\ UNCHANGED <<runtimeSet, host, stops>>

(* Fault: nothing releases the lease when start() ends by itself.           *)
ended_KeepsLease(s) == UNCHANGED <<lease, inRegistry>>

(* start().finally(release)                                                 *)
ended(s) == IF life'[s].at = "ended" THEN release(s) ELSE UNCHANGED <<lease, inRegistry>>

Registers(s)  == runs(s, Registered(life[s])) /\ ended(s)
Expires(s)    == runs(s, Expired(life[s])) /\ ended(s)
IsReplaced(s) == runs(s, Replaced(life[s])) /\ ended(s)
Ends(s)       == runs(s, Over(life[s])) /\ ended(s)

Next ==
    \/ SetRuntime
    \/ \E s \in Starts :
          \/ \E entry \in {"registerFull", "startAccount"} :
                StartRefused(s, entry) \/ StartAcquired(s, entry)
          \/ StartWithoutRuntime(s)
          \/ Registers(s) \/ Expires(s) \/ IsReplaced(s) \/ Ends(s)
          \/ \E c \in Callers : Stop(s, c) \/ StopAgain(s, c) \/ StopReturned(s, c)

Spec == Init /\ [][Next]_vars

(* What RuntimeLife promises of each runtime.                               *)
FairSpec ==
    /\ Spec
    /\ \A s \in Starts :
          /\ WF_vars(Registers(s)) /\ WF_vars(Ends(s))
          /\ \A c \in Callers : WF_vars(StopReturned(s, c))

-----------------------------------------------------------------------------
(* Properties                                                               *)

(* Type invariant.                                                          *)
TypeOK ==
    /\ runtimeSet \in BOOLEAN /\ inRegistry \in BOOLEAN
    /\ lease \in [Starts -> {"none", "error", "refused", "held", "released"}]
    /\ host \in [Starts -> {"none", "registerFull", "startAccount"}]
    /\ life \in [Starts -> Lives]
    /\ stops \in [Starts -> [Callers -> {"idle", "waiting", "returned"}]]

(* Of two runtimes that are active at a time, all but one were told to      *)
(* stop: whichever entry points start them, in whatever order they are      *)
(* stopped twice, aborted, replaced or end by themselves.                   *)
OneRuntime ==
    \A s, t \in Starts :
        active(s) /\ active(t) /\ ~life[s].stopped /\ ~life[t].stopped => s = t

(* A start is refused only in favour of a runtime that is still active.     *)
RefusedOnlyWhileActive ==
    [][\A s \in Starts :
         lease[s] # "refused" /\ lease'[s] = "refused" =>
             \E t \in Starts \ {s} : lease[t] = "held" /\ active(t)]_vars

(* The lease of a runtime that is to stop, for whatever reason, comes back: *)
(* a later start is not refused for ever.                                   *)
LeaseComesBack ==
    \A s \in Starts : life[s].stopped ~> lease[s] # "held"
=============================================================================
