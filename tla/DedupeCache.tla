---------------------------- MODULE DedupeCache -----------------------------
(***************************************************************************)
(* dedupe-cache.ts: the acks of recent messages, bounded in age and number. *)
(*                                                                         *)
(* The Map of entries is the function `updatedAt` and its iteration order,  *)
(* the relation `before`.  The stored ack is left out.                      *)
(***************************************************************************)
EXTENDS Integers, FiniteSets

CONSTANTS
    Required,   \* ids of the messages whose acks are cached
    Ttl,        \* options.ttlMs
    MaxEntries, \* options.maxEntries
    MaxTime     \* bound: the clock

ASSUME SizeAssumption == Ttl \in Nat /\ MaxEntries \in Nat \ {0} /\ MaxTime \in Nat

VARIABLES
    updatedAt,  \* per message id in the Map: its entry's updatedAt
    before,     \* <<m, n>> when the Map iterates over m before n
    now,        \* Date.now()
    added       \* per message id: when add was last called for it

caching == <<updatedAt, before, now, added>>

-----------------------------------------------------------------------------
Never == -1

CacheInit ==
    /\ updatedAt = [m \in {} |-> 0] /\ before = {}
    /\ now = 0
    /\ added = [m \in Required |-> Never]

ids == DOMAIN updatedAt

expired(at, m) == now - at[m] > Ttl

(* The order in which entries are evicted: by updatedAt, and entries of the *)
(* same millisecond in the order of the Map, as the sort is stable.         *)
evictedBefore(at, order, m, n) == at[m] < at[n] \/ (at[m] = at[n] /\ <<m, n>> \in order)

(* The oldest entry is deleted until there are MaxEntries: those stay which *)
(* fewer than that would follow.                                            *)
kept(at, order) ==
    LET live == {m \in DOMAIN at : ~expired(at, m)}
    IN  {m \in live : Cardinality({n \in live : evictedBefore(at, order, m, n)}) < MaxEntries}

cleanup(at, order) ==
    /\ updatedAt' = [m \in kept(at, order) |-> at[m]]
    /\ before' = order \cap (kept(at, order) \X kept(at, order))

has(m) == m \in ids /\ ~expired(updatedAt, m)

(* Fault: an entry that is added again is not refreshed.                    *)
set_NoRefresh(m) ==
    [n \in ids \cup {m} |-> IF n \in ids THEN updatedAt[n] ELSE now]

(* entries.set: a key that is set again keeps its place, a new one is last. *)
set(m) ==
    [n \in ids \cup {m} |-> IF n = m THEN now ELSE updatedAt[n]]

setOrder(m) ==
    IF m \in ids THEN before ELSE before \cup (ids \X {m})

Add(m) ==
    /\ cleanup(set(m), setOrder(m))
    /\ added' = [added EXCEPT ![m] = now]
    /\ UNCHANGED now

(* has and get answer has(m) and clean up.                                  *)
Get(m) ==
    /\ cleanup(updatedAt, before)
    /\ UNCHANGED <<now, added>>

Tick == now < MaxTime /\ now' = now + 1 /\ UNCHANGED <<updatedAt, before, added>>

CacheNext == Tick \/ \E m \in Required : Add(m) \/ Get(m)

CacheSpec == CacheInit /\ [][CacheNext]_caching

-----------------------------------------------------------------------------
(* Properties                                                               *)

(* Type invariant.                                                          *)
CacheTypeOK ==
    /\ now \in 0..MaxTime
    /\ added \in [Required -> {Never} \cup 0..now]
    /\ ids \subseteq Required
    /\ updatedAt \in [ids -> 0..now]
    /\ before \subseteq ids \X ids

(* A message is remembered for Ttl after it was last added, unless          *)
(* MaxEntries other messages were added since, or in the same millisecond:  *)
(* neither a refresh nor an addition at the limit evicts the wrong entry.   *)
(* What is answered is neither too old nor evicted in favour of older       *)
(* entries; an entry has the time it was last added, and there are never    *)
(* more entries than the limit.                                             *)
others(m, since) == Cardinality({o \in Required \ {m} : added[o] >= since})
recent(m) == added[m] # Never /\ now - added[m] <= Ttl
RemembersTheLatest ==
    /\ \A m \in Required :
          /\ recent(m) /\ others(m, added[m]) < MaxEntries => has(m)
          /\ has(m) => recent(m) /\ others(m, added[m] + 1) < MaxEntries
    /\ Cardinality(ids) <= MaxEntries
    /\ \A m \in ids : updatedAt[m] = added[m]
=============================================================================
