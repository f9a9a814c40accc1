------------------------ MODULE ChannelGatewayProofs ------------------------
(***************************************************************************)
(* ChannelGateway for any number of starts: types, and one runtime at a     *)
(* time that was not told to stop.                                          *)
(***************************************************************************)
EXTENDS ChannelGateway, TLAPS

-----------------------------------------------------------------------------
(* Steps of a runtime                                                       *)

LEMMA RuntimeStep ==
  ASSUME NEW r \in Lives, NEW q \in Registered(r) \cup Expired(r) \cup Replaced(r) \cup Over(r)
  PROVE  q \in Lives /\ Active(r) /\ (r.stopped => q.stopped)
<1>1. CASE q \in Registered(r)
  BY <1>1 DEF Registered, Active, Lives
<1>2. CASE q \in Expired(r)
  BY <1>2 DEF Expired, again, Active, Lives
<1>3. CASE q \in Replaced(r)
  BY <1>3 DEF Replaced, Active, Lives
<1>4. CASE q \in Over(r)
  BY <1>4 DEF Over, again, Active, Lives
<1> QED BY <1>1, <1>2, <1>3, <1>4

LEMMA StartStep ==
  ASSUME NEW r \in Lives, NEW q \in Started(r)
  PROVE  q \in Lives
BY DEF Started, again, Lives

LEMMA StopStep ==
  ASSUME NEW r \in Lives
  PROVE  StoppedBy(r) \in Lives /\ StoppedBy(r).stopped
BY DEF StoppedBy, Lives

-----------------------------------------------------------------------------
(* The registry has the key as long as one start holds the lease.           *)
OneHeld ==
    /\ inRegistry => \E s \in Starts : lease[s] = "held"
    /\ \A s \in Starts : lease[s] = "held" => inRegistry
    /\ \A s, t \in Starts : lease[s] = "held" /\ lease[t] = "held" => s = t

(* A runtime that nobody told to stop still has its lease.                  *)
UnstoppedHolds == \A s \in Starts : active(s) /\ ~life[s].stopped => lease[s] = "held"

(* Nobody stops a start that was not called.                                *)
NotCalled ==
    \A s \in Starts : host[s] = "none" => life[s] = Idle /\ \A c \in Callers : stops[s][c] = "idle"

(* The lease comes back with the end of the runtime, if not before.         *)
HeldIsActive == \A s \in Starts : lease[s] = "held" => active(s)

(* A start that was not called, or got no lease, has no runtime; and stop() *)
(* waits only for a runtime that it stopped.                                *)
NoLeaseNoRuntime ==
    \A s \in Starts :
        /\ host[s] = "none" => lease[s] = "none"
        /\ lease[s] \notin {"held", "released"} => ~active(s)
WaitsForStopped ==
    \A s \in Starts, c \in Callers : stops[s][c] = "waiting" => life[s].stopped

GatewayInv == TypeOK /\ OneHeld /\ UnstoppedHolds /\ NoLeaseNoRuntime /\ WaitsForStopped /\ NotCalled /\ HeldIsActive

LEMMA GatewayStart ==
  ASSUME Init
  PROVE  GatewayInv
<1>1. Idle \in Lives /\ ~Active(Idle)
  BY DEF Idle, Lives, Active
<1>2. TypeOK
  BY <1>1 DEF Init, TypeOK
<1>3. \A s \in Starts : ~active(s)
  BY <1>1 DEF Init, active
<1> QED BY <1>2, <1>3 DEF Init, GatewayInv, OneHeld, UnstoppedHolds, NoLeaseNoRuntime, WaitsForStopped,
                          NotCalled, HeldIsActive

(* Releasing a lease, once or again, leaves the leases of others alone.     *)
LEMMA Releases ==
  ASSUME TypeOK, OneHeld, NEW s \in Starts, release(s)
  PROVE  /\ OneHeld' /\ inRegistry' \in BOOLEAN
         /\ lease' \in [Starts -> {"none", "error", "refused", "held", "released"}]
         /\ \A t \in Starts : t # s => lease'[t] = lease[t]
         /\ lease'[s] = lease[s] \/ (lease[s] = "held" /\ lease'[s] = "released")
<1>1. CASE lease[s] = "held"
  <2>1. lease' = [lease EXCEPT ![s] = "released"] /\ inRegistry' = FALSE
    BY <1>1 DEF release
  <2>2. \A t \in Starts : t # s => lease[t] # "held"
    BY <1>1 DEF OneHeld
  <2> QED BY <1>1, <2>1, <2>2 DEF TypeOK, OneHeld
<1>2. CASE lease[s] # "held"
  <2>1. lease' = lease /\ inRegistry' = inRegistry
    BY <1>2 DEF release
  <2>2. OneHeld'
    BY <2>1 DEF OneHeld
  <2>3. inRegistry' \in BOOLEAN /\ lease' \in [Starts -> {"none", "error", "refused", "held", "released"}]
    BY <2>1 DEF TypeOK
  <2>4. \A t \in Starts : lease'[t] = lease[t]
    BY <2>1
  <2> QED BY <2>2, <2>3, <2>4
<1> QED BY <1>1, <1>2

(* A runtime's own step, with the release of its lease when start() ends.   *)
LEMMA RuntimeSteps ==
  ASSUME GatewayInv, NEW s \in Starts, NEW q \in Lives,
         q \in Registered(life[s]) \cup Expired(life[s]) \cup Replaced(life[s]) \cup Over(life[s]),
         life' = [life EXCEPT ![s] = q], UNCHANGED <<runtimeSet, host, stops>>, ended(s)
  PROVE  GatewayInv'
<1>1. life[s] \in Lives /\ life \in [Starts -> Lives]
  BY DEF GatewayInv, TypeOK
<1>2. active(s) /\ (life[s].stopped => q.stopped)
  BY <1>1, RuntimeStep DEF active
<1>3. life'[s] = q /\ \A t \in Starts : t # s => life'[t] = life[t]
  BY <1>1
<1>4. lease[s] \in {"held", "released"}
  BY <1>2 DEF GatewayInv, NoLeaseNoRuntime
<1>5. /\ OneHeld' /\ inRegistry' \in BOOLEAN
      /\ lease' \in [Starts -> {"none", "error", "refused", "held", "released"}]
      /\ \A t \in Starts : t # s => lease'[t] = lease[t]
      /\ lease'[s] = lease[s] \/ (lease[s] = "held" /\ lease'[s] = "released" /\ q.at = "ended")
  <2>1. CASE q.at = "ended"
    BY <1>3, <2>1, Releases DEF ended, GatewayInv
  <2>2. CASE q.at # "ended"
    <3>1. lease' = lease /\ inRegistry' = inRegistry
      BY <1>3, <2>2 DEF ended
    <3>2. OneHeld'
      BY <3>1 DEF GatewayInv, OneHeld
    <3>3. inRegistry' \in BOOLEAN /\ lease' \in [Starts -> {"none", "error", "refused", "held", "released"}]
      BY <3>1 DEF GatewayInv, TypeOK
    <3>4. \A t \in Starts : lease'[t] = lease[t]
      BY <3>1
    <3> QED BY <3>2, <3>3, <3>4
  <2> QED BY <2>1, <2>2
<1>6. TypeOK'
  BY <1>1, <1>5 DEF GatewayInv, TypeOK
<1>7. UnstoppedHolds'
  BY <1>2, <1>3, <1>5 DEF GatewayInv, UnstoppedHolds, active, Active
<1>8. NoLeaseNoRuntime'
  BY <1>3, <1>4, <1>5 DEF GatewayInv, NoLeaseNoRuntime, active
<1>9. WaitsForStopped'
  BY <1>2, <1>3 DEF GatewayInv, WaitsForStopped
<1>10. NotCalled'
  BY <1>3, <1>4 DEF GatewayInv, NotCalled, NoLeaseNoRuntime
<1>11. HeldIsActive'
  <2>1. lease'[s] = "held" => q.at # "ended"
    <3>1. CASE lease[s] = "held" /\ q.at = "ended"
      BY <1>3, <3>1 DEF ended, release, GatewayInv, TypeOK
    <3>2. CASE lease[s] # "held"
      BY <1>5, <3>2
    <3> QED BY <3>1, <3>2
  <2>2. q.at # "idle"
    BY <1>1 DEF Registered, Expired, Replaced, Over, again, Lives
  <2>3. lease'[s] = "held" => active(s)'
    BY <1>3, <2>1, <2>2 DEF active, Active, Lives
  <2> QED BY <1>3, <1>5, <2>3 DEF GatewayInv, HeldIsActive, active
<1> QED BY <1>5, <1>6, <1>7, <1>8, <1>9, <1>10, <1>11 DEF GatewayInv

LEMMA StartsKeep ==
  ASSUME GatewayInv, NEW s \in Starts,
         NEW entry \in {"registerFull", "startAccount"},
         StartRefused(s, entry) \/ StartWithoutRuntime(s)
  PROVE  GatewayInv'
<1>1. /\ host[s] = "none" /\ UNCHANGED <<runtimeSet, inRegistry, life, stops>>
      /\ \E what \in {"refused", "error"} : lease' = [lease EXCEPT ![s] = what]
      /\ \E from \in {"registerFull", "startAccount"} : host' = [host EXCEPT ![s] = from]
  BY DEF StartRefused, StartWithoutRuntime, calls
<1>2. TypeOK'
  BY <1>1 DEF GatewayInv, TypeOK
<1>3. lease[s] = "none"
  BY <1>1 DEF GatewayInv, NoLeaseNoRuntime
<1>4. \A t \in Starts : /\ lease'[t] = "held" <=> lease[t] = "held"
                        /\ lease'[t] = "released" <=> lease[t] = "released"
                        /\ host'[t] = "none" => lease'[t] = lease[t] /\ host[t] = "none"
                        /\ active(t)' <=> active(t)
  BY <1>1, <1>3 DEF GatewayInv, TypeOK, active
<1> QED BY <1>1, <1>2, <1>4 DEF GatewayInv, OneHeld, UnstoppedHolds, NoLeaseNoRuntime, WaitsForStopped,
                                    NotCalled, HeldIsActive

LEMMA StartTakes ==
  ASSUME GatewayInv, NEW s \in Starts,
         NEW entry \in {"registerFull", "startAccount"}, StartAcquired(s, entry)
  PROVE  GatewayInv'
<1>1. /\ host' = [host EXCEPT ![s] = entry] /\ UNCHANGED runtimeSet
      /\ lease' = [lease EXCEPT ![s] = "held"] /\ inRegistry' = TRUE /\ ~inRegistry
  BY DEF StartAcquired, calls
<1>2. PICK q \in Lives :
         /\ life' = [life EXCEPT ![s] = q]
         /\ Active(q)
         /\ \/ UNCHANGED stops
            \/ q.stopped /\ stops' = [stops EXCEPT ![s]["abortSignal"] = "waiting"]
  <2>1. PICK started \in Started(life[s]) :
          \/ life' = [life EXCEPT ![s] = started] /\ UNCHANGED stops
          \/ life' = [life EXCEPT ![s] = StoppedBy(started)] /\ stopping(s, "abortSignal", "waiting")
    BY DEF StartAcquired
  <2>2. started \in Lives
    BY StartStep DEF GatewayInv, TypeOK
  <2>3. life[s] = Idle
    BY DEF StartAcquired, calls, GatewayInv, NotCalled
  <2>4. Active(started) /\ Active(StoppedBy(started))
    BY <2>2, <2>3 DEF Started, again, Idle, Active, StoppedBy, Lives
  <2> QED BY <2>1, <2>2, <2>4, StopStep DEF stopping
<1>3. life[s] \in Lives /\ life \in [Starts -> Lives] /\ stops \in [Starts -> [Callers -> {"idle", "waiting", "returned"}]]
  BY DEF GatewayInv, TypeOK
<1>4. /\ life'[s] = q /\ \A t \in Starts : t # s => life'[t] = life[t]
      /\ lease'[s] = "held" /\ \A t \in Starts : t # s => lease'[t] = lease[t]
      /\ host'[s] = entry /\ \A t \in Starts : t # s => host'[t] = host[t]
  BY <1>1, <1>2, <1>3 DEF GatewayInv, TypeOK
<1>5. ~ \E t \in Starts : lease[t] = "held"
  BY <1>1 DEF GatewayInv, OneHeld
<1>6. TypeOK'
  <2>1. stops' \in [Starts -> [Callers -> {"idle", "waiting", "returned"}]]
    BY <1>2, <1>3 DEF Callers
  <2> QED BY <1>1, <1>2, <1>3, <2>1 DEF GatewayInv, TypeOK
<1>7. OneHeld'
  BY <1>1, <1>4, <1>5 DEF OneHeld
<1>8. UnstoppedHolds'
  BY <1>4 DEF GatewayInv, UnstoppedHolds, active
<1>9. NoLeaseNoRuntime'
  BY <1>4 DEF GatewayInv, NoLeaseNoRuntime, active
<1>10. WaitsForStopped'
  <2>1. \A c \in Callers : stops[s][c] # "waiting"
    BY DEF StartAcquired, calls, GatewayInv, NotCalled
  <2>2. SUFFICES ASSUME NEW t \in Starts, NEW c \in Callers, stops'[t][c] = "waiting"
                 PROVE  life'[t].stopped
    BY DEF WaitsForStopped
  <2>3. CASE t = s
    BY <1>2, <1>3, <1>4, <2>1, <2>2, <2>3 DEF Callers
  <2>4. CASE t # s
    <3>1. stops'[t][c] = stops[t][c]
      BY <1>2, <1>3, <2>4
    <3> QED BY <1>4, <2>2, <2>4, <3>1 DEF GatewayInv, WaitsForStopped
  <2> QED BY <2>3, <2>4
<1>11. NotCalled'
  <2> SUFFICES ASSUME NEW t \in Starts, host'[t] = "none"
               PROVE  life'[t] = Idle /\ \A c \in Callers : stops'[t][c] = "idle"
    BY DEF NotCalled
  <2>1. t # s
    BY <1>4
  <2>2. stops'[t] = stops[t]
    BY <1>2, <1>3, <2>1
  <2> QED BY <1>4, <2>1, <2>2 DEF GatewayInv, NotCalled
<1>12. HeldIsActive'
  BY <1>2, <1>4 DEF GatewayInv, HeldIsActive, active
<1> QED BY <1>6, <1>7, <1>8, <1>9, <1>10, <1>11, <1>12 DEF GatewayInv

-----------------------------------------------------------------------------
(* The steps of a stop                                                      *)

LEMMA StopTells ==
  ASSUME GatewayInv, NEW s \in Starts, NEW c \in Callers, Stop(s, c)
  PROVE  GatewayInv'
<1>1. /\ life[s] \in Lives /\ life \in [Starts -> Lives]
      /\ stops \in [Starts -> [Callers -> {"idle", "waiting", "returned"}]]
  BY DEF GatewayInv, TypeOK
<1>2. /\ life' = [life EXCEPT ![s] = StoppedBy(life[s])]
      /\ stops' = [stops EXCEPT ![s][c] = "waiting"]
      /\ UNCHANGED <<runtimeSet, inRegistry, lease, host>>
      /\ lease[s] \in {"held", "released"} /\ host[s] # "none"
  BY DEF Stop, mayStop, stopping
<1>3. StoppedBy(life[s]) \in Lives /\ StoppedBy(life[s]).stopped
      /\ (Active(life[s]) => Active(StoppedBy(life[s])))
  BY <1>1, StopStep DEF Active, StoppedBy, Lives
<1>4. (active(s) => active(s)') /\ life'[s].stopped /\ \A t \in Starts : t # s => life'[t] = life[t]
  BY <1>1, <1>2, <1>3 DEF active
<1>5. TypeOK'
  BY <1>1, <1>2, <1>3 DEF GatewayInv, TypeOK
<1>6. OneHeld'
  BY <1>2 DEF GatewayInv, OneHeld
<1>7. UnstoppedHolds'
  BY <1>2, <1>4 DEF GatewayInv, UnstoppedHolds, active
<1>8. NoLeaseNoRuntime'
  BY <1>2, <1>4 DEF GatewayInv, NoLeaseNoRuntime, active
<1>10. NotCalled'
  <2> SUFFICES ASSUME NEW t \in Starts, host'[t] = "none"
               PROVE  life'[t] = Idle /\ \A d \in Callers : stops'[t][d] = "idle"
    BY DEF NotCalled
  <2>1. t # s /\ host[t] = "none"
    BY <1>2
  <2>2. stops'[t] = stops[t]
    BY <1>1, <1>2, <2>1
  <2> QED BY <1>4, <2>1, <2>2 DEF GatewayInv, NotCalled
<1>11. HeldIsActive'
  BY <1>2, <1>4 DEF GatewayInv, HeldIsActive, active
<1>9. WaitsForStopped'
  <2> SUFFICES ASSUME NEW t \in Starts, t # s, NEW d \in Callers, stops'[t][d] = "waiting"
               PROVE  life'[t].stopped
    BY <1>4 DEF WaitsForStopped
  <2>1. stops'[t][d] = stops[t][d]
    BY <1>1, <1>2
  <2> QED BY <1>4, <2>1 DEF GatewayInv, WaitsForStopped
<1> QED BY <1>5, <1>6, <1>7, <1>8, <1>9, <1>10, <1>11 DEF GatewayInv

(* A stop() that returns finds its runtime stopped, and releases the lease. *)
LEMMA StopEnds ==
  ASSUME GatewayInv, NEW s \in Starts, NEW c \in Callers, StopAgain(s, c) \/ StopReturned(s, c)
  PROVE  GatewayInv'
<1>1. /\ stops' = [stops EXCEPT ![s][c] = "returned"]
      /\ release(s) /\ UNCHANGED <<runtimeSet, host, life>>
  BY DEF StopAgain, StopReturned, stopping
<1>2. life[s].stopped /\ host[s] # "none"
  BY DEF StopAgain, StopReturned, mayStop, GatewayInv, WaitsForStopped, NotCalled
<1>3. /\ OneHeld' /\ inRegistry' \in BOOLEAN
      /\ lease' \in [Starts -> {"none", "error", "refused", "held", "released"}]
      /\ \A t \in Starts : t # s => lease'[t] = lease[t]
      /\ lease'[s] = lease[s] \/ (lease[s] = "held" /\ lease'[s] = "released")
  BY <1>1, Releases DEF GatewayInv
<1>4. stops \in [Starts -> [Callers -> {"idle", "waiting", "returned"}]]
  BY DEF GatewayInv, TypeOK
<1>5. TypeOK'
  BY <1>1, <1>3, <1>4 DEF GatewayInv, TypeOK
<1>6. UnstoppedHolds'
  BY <1>1, <1>2, <1>3 DEF GatewayInv, UnstoppedHolds, active
<1>7. NoLeaseNoRuntime'
  BY <1>1, <1>3 DEF GatewayInv, NoLeaseNoRuntime, active
<1>8. WaitsForStopped'
  <2> SUFFICES ASSUME NEW t \in Starts, NEW d \in Callers, stops'[t][d] = "waiting"
               PROVE  stops[t][d] = "waiting"
    BY <1>1 DEF GatewayInv, WaitsForStopped
  <2> QED BY <1>1, <1>4
<1>9. NotCalled'
  <2> SUFFICES ASSUME NEW t \in Starts, host[t] = "none"
               PROVE  life[t] = Idle /\ \A d \in Callers : stops'[t][d] = "idle"
    BY <1>1 DEF NotCalled
  <2>1. stops'[t] = stops[t]
    BY <1>1, <1>2, <1>4
  <2> QED BY <2>1 DEF GatewayInv, NotCalled
<1>10. HeldIsActive'
  BY <1>1, <1>3 DEF GatewayInv, HeldIsActive, active
<1> QED BY <1>3, <1>5, <1>6, <1>7, <1>8, <1>9, <1>10 DEF GatewayInv

-----------------------------------------------------------------------------
LEMMA GatewayStep ==
  ASSUME GatewayInv, [Next]_vars
  PROVE  GatewayInv'
<1>1. CASE SetRuntime
  BY <1>1 DEF SetRuntime, GatewayInv, TypeOK, OneHeld, UnstoppedHolds, NoLeaseNoRuntime,
              WaitsForStopped, NotCalled, HeldIsActive, active
<1>2. CASE UNCHANGED vars
  BY <1>2 DEF vars, GatewayInv, TypeOK, OneHeld, UnstoppedHolds, NoLeaseNoRuntime,
              WaitsForStopped, NotCalled, HeldIsActive, active
<1>3. ASSUME NEW s \in Starts, NEW entry \in {"registerFull", "startAccount"},
             StartRefused(s, entry) \/ StartAcquired(s, entry)
      PROVE  GatewayInv'
  BY <1>3, StartsKeep, StartTakes
<1>4. ASSUME NEW s \in Starts, StartWithoutRuntime(s)
      PROVE  GatewayInv'
  BY <1>4, StartsKeep
<1>5. ASSUME NEW s \in Starts, Registers(s) \/ Expires(s) \/ IsReplaced(s) \/ Ends(s)
      PROVE  GatewayInv'
  <2>1. life[s] \in Lives
    BY DEF GatewayInv, TypeOK
  <2>2. PICK q \in Registered(life[s]) \cup Expired(life[s]) \cup Replaced(life[s]) \cup Over(life[s]) :
          life' = [life EXCEPT ![s] = q]
    BY <1>5 DEF Registers, Expires, IsReplaced, Ends, runs
  <2>3. ended(s) /\ UNCHANGED <<runtimeSet, host, stops>>
    BY <1>5 DEF Registers, Expires, IsReplaced, Ends, runs
  <2> QED BY <2>1, <2>2, <2>3, RuntimeStep, RuntimeSteps
<1>6. ASSUME NEW s \in Starts, NEW c \in Callers, Stop(s, c) \/ StopAgain(s, c) \/ StopReturned(s, c)
      PROVE  GatewayInv'
  BY <1>6, StopTells, StopEnds
<1> QED BY <1>1, <1>2, <1>3, <1>4, <1>5, <1>6 DEF Next

(* The invariant of the proofs holds of every reachable state.              *)
THEOREM GatewayInvariant == Spec => []GatewayInv
<1>1. Init => GatewayInv
  BY GatewayStart
<1>2. GatewayInv /\ [Next]_vars => GatewayInv'
  BY GatewayStep
<1> QED BY <1>1, <1>2, PTL DEF Spec

(* channel-gateway.ts, index.ts and channel.ts: of the runtimes that any    *)
(* number of starts made, at most one is active and was not told to stop.   *)
THEOREM OneActive == Spec => []OneRuntime
<1>1. GatewayInv => OneRuntime
  BY DEF GatewayInv, OneHeld, UnstoppedHolds, OneRuntime
<1> QED BY <1>1, GatewayInvariant, PTL

(* channel-gateway.ts:36: whatever the number of starts, one is refused     *)
(* only in favour of another whose runtime is still active.                 *)
THEOREM RefusedForTheActive == Spec => RefusedOnlyWhileActive
<1>1. ASSUME GatewayInv, Next, NEW s \in Starts, lease[s] # "refused", lease'[s] = "refused"
      PROVE  inRegistry /\ lease[s] = "none"
  <2>1. CASE \E entry \in {"registerFull", "startAccount"} : StartRefused(s, entry)
    <3>1. host[s] = "none" /\ inRegistry
      BY <2>1 DEF StartRefused, calls
    <3> QED BY <1>1, <3>1 DEF GatewayInv, NoLeaseNoRuntime
  <2>2. ASSUME NEW t \in Starts, NEW entry \in {"registerFull", "startAccount"},
               StartRefused(t, entry), t # s
        PROVE  FALSE
    BY <1>1, <2>2 DEF StartRefused, GatewayInv, TypeOK
  <2>3. ASSUME NEW t \in Starts, release(t)
        PROVE  FALSE
    BY <1>1, <2>3 DEF release, GatewayInv, TypeOK
  <2>4. ASSUME NEW t \in Starts, lease' = [lease EXCEPT ![t] = "held"]
        PROVE  FALSE
    BY <1>1, <2>4 DEF GatewayInv, TypeOK
  <2>5. ASSUME NEW t \in Starts, lease' = [lease EXCEPT ![t] = "error"]
        PROVE  FALSE
    BY <1>1, <2>5 DEF GatewayInv, TypeOK
  <2>6. lease' # lease
    BY <1>1
  <2> QED
    BY <1>1, <2>1, <2>2, <2>3, <2>4, <2>5, <2>6
       DEF Next, SetRuntime, StartAcquired, StartWithoutRuntime, Registers, Expires, IsReplaced,
           Ends, ended, runs, Stop, StopAgain, StopReturned
<1>2. GatewayInv /\ [Next]_vars =>
        [\A s \in Starts :
           lease[s] # "refused" /\ lease'[s] = "refused" =>
             \E t \in Starts \ {s} : lease[t] = "held" /\ active(t)]_vars
  <2> SUFFICES ASSUME GatewayInv, Next, NEW s \in Starts, lease[s] # "refused", lease'[s] = "refused"
               PROVE  \E t \in Starts \ {s} : lease[t] = "held" /\ active(t)
    OBVIOUS
  <2>1. inRegistry /\ lease[s] = "none"
    BY <1>1
  <2>2. PICK t \in Starts : lease[t] = "held"
    BY <2>1 DEF GatewayInv, OneHeld
  <2> QED BY <2>1, <2>2 DEF GatewayInv, HeldIsActive
<1> QED BY <1>2, GatewayInvariant, PTL DEF Spec, RefusedOnlyWhileActive
=============================================================================
