----------------------------- MODULE StartGuard -----------------------------
(***************************************************************************)
(* runtime-start-guard.ts: the lease that lets one runtime per gateway and  *)
(* agent start.  Within a process it is a registry entry; between processes *)
(* it is a directory in the temporary directory with a pid file in it.      *)
(*                                                                         *)
(* acquireRuntimeStart and release are synchronous, so a process runs one   *)
(* of them at a time, but their system calls interleave with those of other *)
(* processes: an action is one system call.  One key is modelled; leases of *)
(* different keys share nothing.                                            *)
(***************************************************************************)
EXTENDS Naturals, FiniteSets

CONSTANTS
    Procs,       \* connector processes
    Pids,        \* process identifiers
    NoPid,       \* no pid: process down; pid file missing, empty or invalid
    Leases,      \* bound: acquireRuntimeStart calls per process lifetime
    MaxCrashes   \* bound: crashes in one behaviour

ASSUME PidAssumption == NoPid \notin Pids
ASSUME CrashAssumption == MaxCrashes \in Nat

VARIABLES
    dir,        \* the lock directory exists
    pidFile,    \* the pid in it
    registry,   \* per process: the key is in the registry of globalThis
    lease,      \* per process and call: what acquireRuntimeStart gave it
    pid,        \* per process: its pid, NoPid while it is down
    pc,         \* per process: the next system call
    cur,        \* per process: the lease the call is for
    phase,      \* per process: first or second attempt, or a release
    seen,       \* per process: the pid isStaleLock read
    dead,       \* pids of processes that crashed
    crashes,
    overlapped  \* history: a process acquired or released while another did

lockVars == <<dir, pidFile>>
callVars == <<pc, cur, phase, seen>>
procVars == <<pid, dead, crashes>>
vars     == <<lockVars, registry, lease, callVars, procVars, overlapped>>

-----------------------------------------------------------------------------
Pc == {"idle", "mkdir", "writePid", "readPid", "probe", "rmPid", "rmDir"}
LeaseStates == {"none", "refused", "held", "released"}

Up(p) == pid[p] # NoPid
Holds(p) == \E k \in Leases : lease[p][k] = "held"
Alive(n) == \E p \in Procs : pid[p] = n

mayCall(p) == Up(p) /\ pc[p] = "idle"

(* p begins a call that makes system calls.                                 *)
begins(p) ==
    /\ mayCall(p)
    /\ overlapped' = (overlapped \/ \E q \in Procs : pc[q] # "idle")

Init ==
    /\ dir = FALSE /\ pidFile = NoPid
    /\ registry = [p \in Procs |-> FALSE]
    /\ lease = [p \in Procs |-> [k \in Leases |-> "none"]]
    /\ pid = [p \in Procs |-> NoPid]
    /\ pc = [p \in Procs |-> "idle"]
    /\ cur \in [Procs -> Leases]
    /\ phase = [p \in Procs |-> "first"]
    /\ seen = [p \in Procs |-> NoPid]
    /\ dead = {} /\ crashes = 0
    /\ overlapped = FALSE

goto(p, where) == pc' = [pc EXCEPT ![p] = where]
give(p, result) == lease' = [lease EXCEPT ![p][cur[p]] = result]

-----------------------------------------------------------------------------
(* acquireRuntimeStart                                                      *)

AcquireDuplicate(p, k) ==
    /\ mayCall(p) /\ lease[p][k] = "none" /\ registry[p]
    /\ lease' = [lease EXCEPT ![p][k] = "refused"]
    /\ UNCHANGED <<lockVars, registry, callVars, procVars, overlapped>>

Acquire(p, k) ==
    /\ begins(p) /\ lease[p][k] = "none" /\ ~registry[p]
    /\ goto(p, "mkdir")
    /\ cur' = [cur EXCEPT ![p] = k]
    /\ phase' = [phase EXCEPT ![p] = "first"]
    /\ UNCHANGED <<lockVars, registry, lease, seen, procVars>>

Mkdir(p) ==
    /\ pc[p] = "mkdir" /\ ~dir
    /\ goto(p, "writePid")
    /\ dir' = TRUE /\ pidFile' = NoPid
    /\ UNCHANGED <<registry, lease, cur, phase, seen, procVars, overlapped>>

MkdirExists(p) ==
    /\ pc[p] = "mkdir" /\ dir
    /\ goto(p, "readPid")
    /\ UNCHANGED <<lockVars, registry, lease, cur, phase, seen, procVars, overlapped>>

WritePid(p) ==
    /\ pc[p] = "writePid" /\ dir
    /\ goto(p, "idle") /\ give(p, "held")
    /\ pidFile' = pid[p]
    /\ registry' = [registry EXCEPT ![p] = TRUE]
    /\ UNCHANGED <<dir, cur, phase, seen, procVars, overlapped>>

(* ENOENT, when another process removed the directory, is thrown to the     *)
(* caller: there is no lease and no registry entry.                         *)
WritePidFails(p) ==
    /\ pc[p] = "writePid" /\ ~dir
    /\ goto(p, "idle") /\ give(p, "refused")
    /\ UNCHANGED <<lockVars, registry, cur, phase, seen, procVars, overlapped>>

(* isStaleLock: a lock without a readable pid is stale, and so is one whose *)
(* process does not exist.                                                  *)
ReadPid(p) ==
    /\ pc[p] = "readPid" /\ dir /\ pidFile # NoPid
    /\ goto(p, "probe")
    /\ seen' = [seen EXCEPT ![p] = pidFile]
    /\ UNCHANGED <<lockVars, registry, lease, cur, phase, procVars, overlapped>>

ReadNoPid(p) ==
    /\ pc[p] = "readPid" /\ ~(dir /\ pidFile # NoPid)
    /\ goto(p, "rmPid")
    /\ UNCHANGED <<lockVars, registry, lease, cur, phase, seen, procVars, overlapped>>

(* Fault: a lock is never taken for stale.                                  *)
ProbeAlive_Always(p) ==
    /\ pc[p] = "probe"
    /\ goto(p, "idle") /\ give(p, "refused")
    /\ UNCHANGED <<lockVars, registry, cur, phase, seen, procVars, overlapped>>

ProbeAlive(p) ==
    /\ pc[p] = "probe" /\ Alive(seen[p])
    /\ goto(p, "idle") /\ give(p, "refused")
    /\ UNCHANGED <<lockVars, registry, cur, phase, seen, procVars, overlapped>>

(* Fault: every lock is taken for stale.                                    *)
ProbeDead_Always(p) ==
    /\ pc[p] = "probe"
    /\ goto(p, "rmPid")
    /\ UNCHANGED <<lockVars, registry, lease, cur, phase, seen, procVars, overlapped>>

ProbeDead(p) ==
    /\ pc[p] = "probe" /\ ~Alive(seen[p])
    /\ goto(p, "rmPid")
    /\ UNCHANGED <<lockVars, registry, lease, cur, phase, seen, procVars, overlapped>>

-----------------------------------------------------------------------------
(* rmSync(lockDir, recursive, force), called for a stale lock and to release*)

RmPid(p) ==
    /\ pc[p] = "rmPid"
    /\ goto(p, "rmDir")
    /\ pidFile' = NoPid
    /\ UNCHANGED <<dir, registry, lease, cur, phase, seen, procVars, overlapped>>

(* rmdir fails while somebody's pid file is in the directory: ENOTEMPTY is  *)
(* thrown to the caller, who gets no lease, or whose lease stays released.  *)
RmDirFails(p) ==
    /\ pc[p] = "rmDir" /\ dir /\ pidFile # NoPid
    /\ goto(p, "idle")
    /\ IF phase[p] = "release" THEN UNCHANGED lease ELSE give(p, "refused")
    /\ UNCHANGED <<lockVars, registry, cur, phase, seen, procVars, overlapped>>

rmDir(p) ==
    /\ pc[p] = "rmDir" /\ ~(dir /\ pidFile # NoPid)
    /\ dir' = FALSE
    /\ UNCHANGED <<pidFile, registry, cur, seen, procVars, overlapped>>

RmDirThenRetry(p) ==
    /\ rmDir(p) /\ phase[p] = "first"
    /\ goto(p, "mkdir")
    /\ phase' = [phase EXCEPT ![p] = "second"]
    /\ UNCHANGED lease

(* The second attempt found a stale lock too: refused.                      *)
RmDirThenGiveUp(p) ==
    /\ rmDir(p) /\ phase[p] = "second"
    /\ goto(p, "idle") /\ give(p, "refused")
    /\ UNCHANGED phase

RmDirReleased(p) ==
    /\ rmDir(p) /\ phase[p] = "release"
    /\ goto(p, "idle")
    /\ UNCHANGED <<lease, phase>>

(* Faults: the flag `released` is not kept, so both stop() and the end of   *)
(* start() release; the directory is left behind.                           *)
Release_Twice(p, k) ==
    /\ begins(p) /\ lease[p][k] \in {"held", "released"}
    /\ lease' = [lease EXCEPT ![p][k] = "released"]
    /\ registry' = [registry EXCEPT ![p] = FALSE]
    /\ goto(p, "rmPid")
    /\ phase' = [phase EXCEPT ![p] = "release"]
    /\ UNCHANGED <<lockVars, cur, seen, procVars>>
Release_KeepsLock(p, k) ==
    /\ begins(p) /\ lease[p][k] = "held"
    /\ lease' = [lease EXCEPT ![p][k] = "released"]
    /\ registry' = [registry EXCEPT ![p] = FALSE]
    /\ UNCHANGED <<lockVars, callVars, procVars>>

(* release(), the first time it is called on a lease.  It removes the lock  *)
(* directory without looking whose it is.                                   *)
Release(p, k) ==
    /\ begins(p) /\ lease[p][k] = "held"
    /\ lease' = [lease EXCEPT ![p][k] = "released"]
    /\ registry' = [registry EXCEPT ![p] = FALSE]
    /\ goto(p, "rmPid")
    /\ phase' = [phase EXCEPT ![p] = "release"]
    /\ UNCHANGED <<lockVars, cur, seen, procVars>>

-----------------------------------------------------------------------------
(* Processes                                                                *)

Boot(p) ==
    /\ ~Up(p)
    /\ \E n \in Pids :
          /\ ~Alive(n)
          /\ pid' = [pid EXCEPT ![p] = n]
    /\ UNCHANGED <<lockVars, registry, lease, callVars, dead, crashes, overlapped>>

(* A crash between any two system calls: memory is lost, the lock stays.    *)
Crash(p) ==
    /\ Up(p) /\ crashes < MaxCrashes
    /\ crashes' = crashes + 1
    /\ dead' = dead \cup {pid[p]}
    /\ pid' = [pid EXCEPT ![p] = NoPid]
    /\ registry' = [registry EXCEPT ![p] = FALSE]
    /\ lease' = [lease EXCEPT ![p] = [k \in Leases |-> "none"]]
    /\ goto(p, "idle")
    /\ UNCHANGED <<lockVars, cur, phase, seen, overlapped>>

Next ==
    \E p \in Procs :
        \/ \E k \in Leases : AcquireDuplicate(p, k) \/ Acquire(p, k) \/ Release(p, k)
        \/ Mkdir(p) \/ MkdirExists(p) \/ WritePid(p) \/ WritePidFails(p)
        \/ ReadPid(p) \/ ReadNoPid(p) \/ ProbeAlive(p) \/ ProbeDead(p)
        \/ RmPid(p) \/ RmDirFails(p)
        \/ RmDirThenRetry(p) \/ RmDirThenGiveUp(p) \/ RmDirReleased(p)
        \/ Boot(p) \/ Crash(p)

Spec == Init /\ [][Next]_vars

-----------------------------------------------------------------------------
(* Properties                                                               *)

(* Type invariant.                                                          *)
TypeOK ==
    /\ dir \in BOOLEAN /\ pidFile \in Pids \cup {NoPid}
    /\ registry \in [Procs -> BOOLEAN]
    /\ lease \in [Procs -> [Leases -> LeaseStates]]
    /\ pid \in [Procs -> Pids \cup {NoPid}]
    /\ pc \in [Procs -> Pc]
    /\ cur \in [Procs -> Leases]
    /\ phase \in [Procs -> {"first", "second", "release"}]
    /\ seen \in [Procs -> Pids \cup {NoPid}]
    /\ dead \subseteq Pids /\ crashes \in 0..MaxCrashes
    /\ overlapped \in BOOLEAN

(* As long as calls of different processes do not overlap, one process      *)
(* holds the lease, and its pid is in the lock, so that the next one is     *)
(* refused however many crashes and stale locks came before.                *)
oneHolder == \A p, q \in Procs : Holds(p) /\ Holds(q) => p = q
OneHolder == ~overlapped => oneHolder
LockNamesHolder == ~overlapped => \A p \in Procs : Holds(p) => dir /\ pidFile = pid[p]

(* Then the lease is refused to a process only on account of a live holder, *)
(* or of a process that was given a dead holder's pid: every other lock     *)
(* left by a crash, at whichever system call it happened, is reclaimed.     *)
Refused(p) == \E k \in Leases : lease[p][k] # "refused" /\ lease'[p][k] = "refused"
RefusedOnlyByHolder ==
    [][\A p \in Procs : Refused(p) /\ ~overlapped =>
          \/ \E q \in Procs : Holds(q)
          \/ pidFile \in dead /\ Alive(pidFile)]_vars

(* Within one process one lease is held at a time, and the registry says    *)
(* so, whatever other processes do: releasing a lease a second time, after  *)
(* its successor was acquired, has no effect.                               *)
OneLeasePerProcess ==
    \A p \in Procs :
        /\ \A j, k \in Leases : lease[p][j] = "held" /\ lease[p][k] = "held" => j = k
        /\ registry[p] <=> Holds(p)

(* As long as nothing crashed, when every lease was given back or refused   *)
(* the lock directory is gone, whatever the calls overtook each other.      *)
NoLockLeftBehind ==
    crashes = 0 /\ (\A p \in Procs : pc[p] = "idle" /\ ~Holds(p)) => ~dir

-----------------------------------------------------------------------------
(* channel-gateway.ts:58 calls the lease "run-once"; with calls that        *)
(* overlap two processes hold it.                                           *)
RunOnce == oneHolder
=============================================================================
