------------------------------- MODULE Timing -------------------------------
(***************************************************************************)
(* The delays the connector computes: reconnect.ts's backoff between dials  *)
(* and runtime.ts's interval of HTTP heartbeats.                            *)
(***************************************************************************)
EXTENDS Naturals

CONSTANT Parts      \* random() answers a multiple of 1/Parts below 1

ASSUME PartsAssumption == Parts \in Nat \ {0}

least(a, b) == IF a < b THEN a ELSE b
most(a, b) == IF a > b THEN a ELSE b

connectRetryMinMs == 1000
connectRetryMaxMs == 30000

-----------------------------------------------------------------------------
(* 2 ** attempt                                                             *)
power[attempt \in Nat] == IF attempt = 0 THEN 1 ELSE 2 * power[attempt - 1]

(* Fault: the delay grows without end.                                      *)
base_Endless(attempt, min, max) == min * power[attempt]

base(attempt, min, max) == least(max, min * power[attempt])

(* Math.round(base * jitter), in milliseconds, with jitterRatio 0.1;        *)
(* random() is luck / Parts.                                                *)
nextBackoffDelayMs(attempt, min, max, luck) ==
    (base(attempt, min, max) * (9 * Parts + 2 * luck) + 5 * Parts) \div (10 * Parts)

-----------------------------------------------------------------------------
(* Fault: one heartbeat per ttl.                                            *)
heartbeatIntervalSec_Full(configured, ttl) == most(1, least(configured, ttl))

heartbeatIntervalSec(configured, ttl) == most(1, least(configured, ttl \div 2))

(* Two heartbeats fit into a session's ttl, whatever is configured, from a  *)
(* ttl of two seconds on; a shorter one still makes a loop that sleeps.     *)
heartbeatsKeep(configured, ttl) ==
    LET interval == heartbeatIntervalSec(configured, ttl)
    IN  /\ interval >= 1
        /\ interval <= most(1, configured)
        /\ ttl >= 2 => 2 * interval <= ttl
=============================================================================
