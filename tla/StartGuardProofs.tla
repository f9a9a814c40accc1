-------------------------- MODULE StartGuardProofs --------------------------
(***************************************************************************)
(* What the start guard guarantees for any number of processes, pids and    *)
(* calls: within a process always, between processes as long as calls do    *)
(* not overlap.                                                             *)
(***************************************************************************)
EXTENDS StartGuard, TLAPS

-----------------------------------------------------------------------------
(* Invariant of one process, in every mode                                  *)

(* A call that acquires works for an unused lease of a process without      *)
(* registry entry; a call that releases has already dropped the entry.      *)
CallsMatchRegistry ==
    \A p \in Procs :
        pc[p] # "idle" =>
            /\ ~registry[p]
            /\ phase[p] # "release" => lease[p][cur[p]] = "none"
            /\ pc[p] \in {"mkdir", "writePid", "readPid", "probe"} => phase[p] # "release"

LocalInv == TypeOK /\ OneLeasePerProcess /\ CallsMatchRegistry

-----------------------------------------------------------------------------
(* Invariant of the lock when calls do not overlap                          *)

OneCaller == \A p, q \in Procs : pc[p] # "idle" /\ pc[q] # "idle" => p = q

DownHasNothing == \A p \in Procs : ~Up(p) => pc[p] = "idle" /\ ~Holds(p)

PidsDistinct == \A p, q \in Procs : Up(p) /\ pid[p] = pid[q] => p = q

Nobody == \A p \in Procs : ~Holds(p)

CallerKnows ==
    \A p \in Procs :
        /\ pc[p] = "writePid" => dir /\ pidFile = NoPid /\ Nobody
        /\ pc[p] = "probe" => dir /\ pidFile = seen[p] /\ seen[p] # NoPid
        /\ pc[p] \in {"rmPid", "rmDir"} => Nobody

NamesHolder == \A p \in Procs : Holds(p) => dir /\ pidFile = pid[p]

SerialCalls ==
    /\ OneCaller
    /\ DownHasNothing
    /\ PidsDistinct
    /\ CallerKnows
    /\ NamesHolder

SerialInv == LocalInv /\ (~overlapped => SerialCalls)

(* A lock with a pid is its holder's, or about to be emptied by the process *)
(* that released it, or was left by a crash; and a second attempt finds the *)
(* directory gone.                                                          *)
PidAccounted ==
    pidFile # NoPid =>
        \/ pidFile \in dead
        \/ \E q \in Procs : pidFile = pid[q] /\ (Holds(q) \/ pc[q] = "rmPid")

RemovalsSucceed ==
    \A p \in Procs :
        /\ pc[p] = "rmDir" => pidFile = NoPid
        /\ pc[p] # "idle" /\ phase[p] = "second" =>
              \/ pc[p] = "mkdir" /\ ~dir
              \/ pc[p] = "writePid"

Reclaims == SerialInv /\ (~overlapped => PidAccounted /\ RemovalsSucceed)

-----------------------------------------------------------------------------
(* Invariant of the lock while nothing crashed, however calls overlap: the  *)
(* directory has a holder or a process on its way to hold or remove it, and *)
(* a pid in it has a holder or a process about to remove it, so that an     *)
(* rmdir which fails leaves the lock to somebody else.                      *)
Attended ==
    crashes = 0 =>
        /\ dir => \E q \in Procs : Holds(q) \/ pc[q] \in {"writePid", "rmPid", "rmDir"}
        /\ pidFile # NoPid => \E q \in Procs : Holds(q) \/ pc[q] = "rmPid"

USE PidAssumption, CrashAssumption
    DEF lockVars, callVars, procVars

LEMMA TypeStep ==
  ASSUME TypeOK, [Next]_vars
  PROVE  TypeOK'
<1> USE DEF TypeOK, LeaseStates, Pc
<1>1. ASSUME NEW p \in Procs, NEW k \in Leases,
             AcquireDuplicate(p, k) \/ Acquire(p, k) \/ Release(p, k)
      PROVE  TypeOK'
  <2>1. CASE AcquireDuplicate(p, k)
    BY <2>1 DEF AcquireDuplicate, begins, mayCall
  <2>2. CASE Acquire(p, k)
    BY <2>2 DEF Acquire, begins, mayCall, goto
  <2>3. CASE Release(p, k)
    BY <2>3 DEF Release, begins, mayCall, goto
  <2> QED BY <1>1, <2>1, <2>2, <2>3
<1>2. ASSUME NEW p \in Procs,
             \/ Mkdir(p) \/ MkdirExists(p) \/ WritePid(p) \/ WritePidFails(p)
             \/ ReadPid(p) \/ ReadNoPid(p) \/ ProbeAlive(p) \/ ProbeDead(p)
             \/ RmPid(p) \/ RmDirFails(p)
             \/ RmDirThenRetry(p) \/ RmDirThenGiveUp(p) \/ RmDirReleased(p)
             \/ Boot(p) \/ Crash(p)
      PROVE  TypeOK'
  <2>1. CASE Mkdir(p)
    BY <2>1 DEF Mkdir, goto
  <2>2. CASE MkdirExists(p)
    BY <2>2 DEF MkdirExists, goto
  <2>3. CASE WritePid(p)
    BY <2>3 DEF WritePid, goto, give
  <2>4. CASE WritePidFails(p)
    BY <2>4 DEF WritePidFails, goto, give
  <2>5. CASE ReadPid(p)
    BY <2>5 DEF ReadPid, goto
  <2>6. CASE ReadNoPid(p)
    BY <2>6 DEF ReadNoPid, goto
  <2>7. CASE ProbeAlive(p)
    BY <2>7 DEF ProbeAlive, goto, give
  <2>8. CASE ProbeDead(p)
    BY <2>8 DEF ProbeDead, goto
  <2>9. CASE RmPid(p)
    BY <2>9 DEF RmPid, goto
  <2>10. CASE RmDirFails(p)
    <3>1. CASE phase[p] = "release"
      BY <2>10, <3>1 DEF RmDirFails, goto
    <3>2. CASE phase[p] # "release"
      <4>1. /\ pc[p] = "rmDir" /\ goto(p, "idle") /\ give(p, "refused")
            /\ UNCHANGED <<lockVars, registry, cur, phase, seen, procVars, overlapped>>
        BY <2>10, <3>2 DEF RmDirFails
      <4> QED BY <3>2, <4>1 DEF goto, give
    <3> QED BY <3>1, <3>2
  <2>11. CASE RmDirThenRetry(p)
    BY <2>11 DEF RmDirThenRetry, rmDir, goto
  <2>12. CASE RmDirThenGiveUp(p)
    BY <2>12 DEF RmDirThenGiveUp, rmDir, goto, give
  <2>13. CASE RmDirReleased(p)
    BY <2>13 DEF RmDirReleased, rmDir, goto
  <2>14. CASE Boot(p)
    BY <2>14 DEF Boot, Up
  <2>15. CASE Crash(p)
    <3>1. pid[p] \in Pids
      BY <2>15 DEF Crash, Up
    <3>2. lease' \in [Procs -> [Leases -> LeaseStates]]
      BY <2>15 DEF Crash, LeaseStates
    <3>3. registry' \in [Procs -> BOOLEAN] /\ pc' \in [Procs -> Pc]
      BY <2>15 DEF Crash, goto
    <3>4. dead' \subseteq Pids /\ pid' \in [Procs -> Pids \cup {NoPid}]
      BY <2>15, <3>1 DEF Crash
    <3>5. crashes' \in 0..MaxCrashes
      BY <2>15, CrashAssumption DEF Crash
    <3> QED
      BY <2>15, <3>2, <3>3, <3>4, <3>5 DEF Crash
  <2> QED BY <1>2, <2>1, <2>2, <2>3, <2>4, <2>5, <2>6, <2>7, <2>8, <2>9, <2>10, <2>11, <2>12, <2>13, <2>14, <2>15
<1>3. CASE UNCHANGED vars BY <1>3 DEF vars
<1> QED BY <1>1, <1>2, <1>3 DEF Next

LEMMA LocalStep ==
  ASSUME LocalInv, [Next]_vars, TypeOK'
  PROVE  OneLeasePerProcess' /\ CallsMatchRegistry'
<1> USE DEF LocalInv, TypeOK, OneLeasePerProcess, CallsMatchRegistry, Holds
<1>1. ASSUME NEW p \in Procs, NEW k \in Leases,
             AcquireDuplicate(p, k) \/ Acquire(p, k) \/ Release(p, k)
      PROVE  OneLeasePerProcess' /\ CallsMatchRegistry'
  <2>1. CASE AcquireDuplicate(p, k)
    BY <2>1 DEF AcquireDuplicate, begins, mayCall
  <2>2. CASE Acquire(p, k)
    BY <2>2 DEF Acquire, begins, mayCall, goto
  <2>3. CASE Release(p, k)
    BY <2>3 DEF Release, begins, mayCall, goto
  <2> QED BY <1>1, <2>1, <2>2, <2>3
<1>2. ASSUME NEW p \in Procs,
             \/ Mkdir(p) \/ MkdirExists(p) \/ WritePid(p) \/ WritePidFails(p)
             \/ ReadPid(p) \/ ReadNoPid(p) \/ ProbeAlive(p) \/ ProbeDead(p)
             \/ RmPid(p) \/ RmDirFails(p)
             \/ RmDirThenRetry(p) \/ RmDirThenGiveUp(p) \/ RmDirReleased(p)
             \/ Boot(p) \/ Crash(p)
      PROVE  OneLeasePerProcess' /\ CallsMatchRegistry'
  <2>1. CASE Mkdir(p)
    BY <2>1 DEF Mkdir, goto
  <2>2. CASE MkdirExists(p)
    BY <2>2 DEF MkdirExists, goto
  <2>3. CASE WritePid(p)
    BY <2>3 DEF WritePid, goto, give
  <2>4. CASE WritePidFails(p)
    BY <2>4 DEF WritePidFails, goto, give
  <2>5. CASE ReadPid(p)
    BY <2>5 DEF ReadPid, goto
  <2>6. CASE ReadNoPid(p)
    BY <2>6 DEF ReadNoPid, goto
  <2>7. CASE ProbeAlive(p)
    BY <2>7 DEF ProbeAlive, goto, give
  <2>8. CASE ProbeDead(p)
    BY <2>8 DEF ProbeDead, goto
  <2>9. CASE RmPid(p)
    BY <2>9 DEF RmPid, goto
  <2>10. CASE RmDirFails(p)
    <3>1. CASE phase[p] = "release"
      BY <2>10, <3>1 DEF RmDirFails, goto
    <3>2. CASE phase[p] # "release"
      <4>1. /\ pc[p] = "rmDir" /\ goto(p, "idle") /\ give(p, "refused")
            /\ UNCHANGED <<lockVars, registry, cur, phase, seen, procVars, overlapped>>
        BY <2>10, <3>2 DEF RmDirFails
      <4> QED BY <3>2, <4>1 DEF goto, give
    <3> QED BY <3>1, <3>2
  <2>11. CASE RmDirThenRetry(p)
    BY <2>11 DEF RmDirThenRetry, rmDir, goto
  <2>12. CASE RmDirThenGiveUp(p)
    BY <2>12 DEF RmDirThenGiveUp, rmDir, goto, give
  <2>13. CASE RmDirReleased(p)
    BY <2>13 DEF RmDirReleased, rmDir, goto
  <2>14. CASE Boot(p)
    BY <2>14 DEF Boot, Up
  <2>15. CASE Crash(p)
    BY <2>15 DEF Crash, goto
  <2> QED BY <1>2, <2>1, <2>2, <2>3, <2>4, <2>5, <2>6, <2>7, <2>8, <2>9, <2>10, <2>11, <2>12, <2>13, <2>14, <2>15
<1>3. CASE UNCHANGED vars BY <1>3 DEF vars
<1> QED BY <1>1, <1>2, <1>3 DEF Next

LEMMA SerialStep ==
  ASSUME LocalInv, SerialCalls, [Next]_vars, LocalInv', ~overlapped'
  PROVE  SerialCalls'
<1> USE DEF SerialCalls, LocalInv, TypeOK, OneLeasePerProcess, CallsMatchRegistry, OneCaller, DownHasNothing,
           PidsDistinct, Nobody, CallerKnows, NamesHolder, Holds, Up, Alive
<1>1. ASSUME NEW p \in Procs, NEW k \in Leases,
             AcquireDuplicate(p, k) \/ Acquire(p, k) \/ Release(p, k)
      PROVE  SerialCalls'
  <2>1. CASE AcquireDuplicate(p, k)
    BY <2>1 DEF AcquireDuplicate, begins, mayCall
  <2>2. CASE Acquire(p, k)
    <3>1. \A q \in Procs : pc[q] = "idle"
      BY <2>2 DEF Acquire, begins, mayCall
    <3>2. OneCaller' /\ CallerKnows'
      BY <2>2, <3>1 DEF Acquire, begins, mayCall, goto
    <3>3. DownHasNothing' /\ PidsDistinct' /\ NamesHolder'
      BY <2>2 DEF Acquire, begins, mayCall, goto
    <3> QED BY <3>2, <3>3
  <2>3. CASE Release(p, k)
    BY <2>3 DEF Release, begins, mayCall, goto
  <2> QED BY <1>1, <2>1, <2>2, <2>3
<1>2. ASSUME NEW p \in Procs,
             \/ Mkdir(p) \/ MkdirExists(p) \/ WritePid(p) \/ WritePidFails(p)
             \/ ReadPid(p) \/ ReadNoPid(p) \/ ProbeAlive(p) \/ ProbeDead(p)
             \/ RmPid(p) \/ RmDirFails(p)
             \/ RmDirThenRetry(p) \/ RmDirThenGiveUp(p) \/ RmDirReleased(p)
             \/ Boot(p) \/ Crash(p)
      PROVE  SerialCalls'
  <2>1. CASE Mkdir(p)
    BY <2>1 DEF Mkdir, goto
  <2>2. CASE MkdirExists(p)
    BY <2>2 DEF MkdirExists, goto
  <2>3. CASE WritePid(p)
    BY <2>3 DEF WritePid, goto, give
  <2>4. CASE WritePidFails(p)
    BY <2>4 DEF WritePidFails, goto, give
  <2>5. CASE ReadPid(p)
    BY <2>5 DEF ReadPid, goto
  <2>6. CASE ReadNoPid(p)
    BY <2>6 DEF ReadNoPid, goto
  <2>7. CASE ProbeAlive(p)
    BY <2>7 DEF ProbeAlive, goto, give
  <2>8. CASE ProbeDead(p)
    BY <2>8 DEF ProbeDead, goto
  <2>9. CASE RmPid(p)
    BY <2>9 DEF RmPid, goto
  <2>10. CASE RmDirFails(p)
    <3>1. CASE phase[p] = "release"
      BY <2>10, <3>1 DEF RmDirFails, goto
    <3>2. CASE phase[p] # "release"
      <4>1. /\ pc[p] = "rmDir" /\ goto(p, "idle") /\ give(p, "refused")
            /\ UNCHANGED <<lockVars, registry, cur, phase, seen, procVars, overlapped>>
        BY <2>10, <3>2 DEF RmDirFails
      <4> QED BY <3>2, <4>1 DEF goto, give
    <3> QED BY <3>1, <3>2
  <2>11. CASE RmDirThenRetry(p)
    BY <2>11 DEF RmDirThenRetry, rmDir, goto
  <2>12. CASE RmDirThenGiveUp(p)
    BY <2>12 DEF RmDirThenGiveUp, rmDir, goto, give
  <2>13. CASE RmDirReleased(p)
    BY <2>13 DEF RmDirReleased, rmDir, goto
  <2>14. CASE Boot(p)
    BY <2>14 DEF Boot, Up
  <2>15. CASE Crash(p)
    BY <2>15 DEF Crash, goto
  <2> QED BY <1>2, <2>1, <2>2, <2>3, <2>4, <2>5, <2>6, <2>7, <2>8, <2>9, <2>10, <2>11, <2>12, <2>13, <2>14, <2>15
<1>3. CASE UNCHANGED vars BY <1>3 DEF vars
<1> QED BY <1>1, <1>2, <1>3 DEF Next


(* An overlap is never forgotten.                                           *)
LEMMA OverlapStays ==
  ASSUME [Next]_vars, overlapped
  PROVE  overlapped'
BY DEF Next, vars, AcquireDuplicate, Acquire, Release, begins, Mkdir, MkdirExists, WritePid,
       WritePidFails, ReadPid, ReadNoPid, ProbeAlive, ProbeDead, RmPid, RmDirFails, rmDir,
       RmDirThenRetry, RmDirThenGiveUp, RmDirReleased, Boot, Crash

-----------------------------------------------------------------------------
LEMMA LocalStart ==
  ASSUME Init
  PROVE  LocalInv
<1>1. TypeOK
  <2>1. lease \in [Procs -> [Leases -> LeaseStates]]
    BY DEF Init, LeaseStates
  <2>2. pc \in [Procs -> Pc] /\ phase \in [Procs -> {"first", "second", "release"}]
    BY DEF Init, Pc
  <2>3. crashes \in 0..MaxCrashes
    BY CrashAssumption DEF Init
  <2> QED BY <2>1, <2>2, <2>3 DEF Init, TypeOK
<1>2. OneLeasePerProcess /\ CallsMatchRegistry
  BY DEF Init, OneLeasePerProcess, CallsMatchRegistry, Holds
<1> QED BY <1>1, <1>2 DEF LocalInv

LEMMA SerialStart ==
  ASSUME Init
  PROVE  SerialInv
<1>1. LocalInv
  BY LocalStart
<1>2. OneCaller /\ DownHasNothing /\ PidsDistinct /\ NamesHolder
  BY DEF Init, OneCaller, DownHasNothing, PidsDistinct, NamesHolder, Holds, Up
<1>3. CallerKnows
  BY DEF Init, CallerKnows
<1> QED BY <1>1, <1>2, <1>3 DEF SerialInv, SerialCalls

(* Whatever the calls of different processes overtake each other and        *)
(* wherever a process crashes, every variable keeps its type; in particular *)
(* an acquisition makes at most two attempts.                               *)
THEOREM GuardTypeCorrect == Spec => []TypeOK
<1>1. Init => LocalInv
  BY LocalStart
<1>2. LocalInv /\ [Next]_vars => LocalInv'
  BY TypeStep, LocalStep DEF LocalInv
<1>3. LocalInv => TypeOK
  BY DEF LocalInv
<1> QED BY <1>1, <1>2, <1>3, PTL DEF Spec

(* Within a process one lease is held at a time and the registry says so,   *)
(* for any number of processes, pids, calls and crashes.                    *)
THEOREM OneLease == Spec => []OneLeasePerProcess
<1>1. Init => LocalInv
  BY LocalStart
<1>2. LocalInv /\ [Next]_vars => LocalInv'
  BY TypeStep, LocalStep DEF LocalInv
<1>3. LocalInv => OneLeasePerProcess
  BY DEF LocalInv
<1> QED BY <1>1, <1>2, <1>3, PTL DEF Spec

LEMMA SerialKept ==
  ASSUME SerialInv, [Next]_vars
  PROVE  SerialInv'
<1>1. LocalInv'
  BY TypeStep, LocalStep DEF SerialInv, LocalInv
<1>2. ASSUME ~overlapped'
      PROVE  SerialCalls'
  BY <1>1, <1>2, OverlapStays, SerialStep DEF SerialInv
<1> QED BY <1>1, <1>2 DEF SerialInv

(* Until two processes acquire or release at the same time, the lock        *)
(* carries the pid of the process that holds the lease, through any number  *)
(* of crashes and reused pids.                                              *)
THEOREM SerialLockNamesHolder == Spec => []LockNamesHolder
<1>1. Init => SerialInv
  BY SerialStart
<1>2. SerialInv /\ [Next]_vars => SerialInv'
  BY SerialKept
<1>3. SerialInv => LockNamesHolder
  BY DEF SerialInv, SerialCalls, NamesHolder, LockNamesHolder
<1> QED BY <1>1, <1>2, <1>3, PTL DEF Spec

(* Until then one process at a time holds the lease.                        *)
THEOREM SerialOneHolder == Spec => []OneHolder
<1>1. Init => SerialInv
  BY SerialStart
<1>2. SerialInv /\ [Next]_vars => SerialInv'
  BY SerialKept
<1>3. SerialInv => OneHolder
  BY DEF SerialInv, SerialCalls, NamesHolder, DownHasNothing, PidsDistinct, OneHolder, oneHolder, Up, Holds
<1> QED BY <1>1, <1>2, <1>3, PTL DEF Spec

-----------------------------------------------------------------------------
(* Who is refused, when calls do not overlap                                *)

LEMMA ReclaimStep ==
  ASSUME LocalInv, SerialCalls, PidAccounted, RemovalsSucceed, [Next]_vars, LocalInv', ~overlapped'
  PROVE  PidAccounted' /\ RemovalsSucceed'
<1> USE DEF LocalInv, TypeOK, OneLeasePerProcess, CallsMatchRegistry, SerialCalls, OneCaller,
            DownHasNothing, CallerKnows, PidAccounted, RemovalsSucceed, Nobody, Holds, Up
<1>1. ASSUME NEW p \in Procs, NEW k \in Leases,
             AcquireDuplicate(p, k) \/ Acquire(p, k) \/ Release(p, k)
      PROVE  PidAccounted' /\ RemovalsSucceed'
  <2>1. CASE AcquireDuplicate(p, k)
    BY <2>1 DEF AcquireDuplicate, mayCall
  <2>2. CASE Acquire(p, k)
    BY <2>2 DEF Acquire, begins, mayCall, goto
  <2>3. CASE Release(p, k)
    BY <2>3 DEF Release, begins, mayCall, goto
  <2> QED BY <1>1, <2>1, <2>2, <2>3
<1>2. ASSUME NEW p \in Procs,
             \/ Mkdir(p) \/ MkdirExists(p) \/ WritePid(p) \/ WritePidFails(p)
             \/ ReadPid(p) \/ ReadNoPid(p) \/ ProbeAlive(p) \/ ProbeDead(p)
             \/ RmPid(p) \/ RmDirFails(p)
             \/ RmDirThenRetry(p) \/ RmDirThenGiveUp(p) \/ RmDirReleased(p)
             \/ Boot(p) \/ Crash(p)
      PROVE  PidAccounted' /\ RemovalsSucceed'
  <2>1. CASE Mkdir(p)
    BY <2>1 DEF Mkdir, goto
  <2>2. CASE MkdirExists(p)
    BY <2>2 DEF MkdirExists, goto
  <2>3. CASE WritePid(p)
    BY <2>3 DEF WritePid, goto, give
  <2>4. CASE WritePidFails(p)
    BY <2>4 DEF WritePidFails, goto, give
  <2>5. CASE ReadPid(p)
    BY <2>5 DEF ReadPid, goto
  <2>6. CASE ReadNoPid(p)
    BY <2>6 DEF ReadNoPid, goto
  <2>7. CASE ProbeAlive(p)
    BY <2>7 DEF ProbeAlive, goto, give
  <2>8. CASE ProbeDead(p)
    BY <2>8 DEF ProbeDead, goto
  <2>9. CASE RmPid(p)
    BY <2>9 DEF RmPid, goto
  <2>10. CASE RmDirFails(p)
    BY <2>10 DEF RmDirFails
  <2>11. CASE RmDirThenRetry(p)
    BY <2>11 DEF RmDirThenRetry, rmDir, goto
  <2>12. CASE RmDirThenGiveUp(p)
    BY <2>12 DEF RmDirThenGiveUp, rmDir, goto, give
  <2>13. CASE RmDirReleased(p)
    BY <2>13 DEF RmDirReleased, rmDir, goto
  <2>14. CASE Boot(p)
    BY <2>14 DEF Boot
  <2>15. CASE Crash(p)
    BY <2>15 DEF Crash, goto
  <2> QED BY <1>2, <2>1, <2>2, <2>3, <2>4, <2>5, <2>6, <2>7, <2>8, <2>9, <2>10, <2>11, <2>12, <2>13, <2>14, <2>15
<1>3. CASE UNCHANGED vars BY <1>3 DEF vars
<1> QED BY <1>1, <1>2, <1>3 DEF Next

LEMMA ReclaimsKept ==
  ASSUME Reclaims, [Next]_vars
  PROVE  Reclaims'
<1>1. SerialInv'
  BY SerialKept DEF Reclaims
<1>2. ASSUME ~overlapped'
      PROVE  PidAccounted' /\ RemovalsSucceed'
  BY <1>1, <1>2, OverlapStays, ReclaimStep DEF Reclaims, SerialInv
<1> QED BY <1>1, <1>2 DEF Reclaims

LEMMA ReclaimStart ==
  ASSUME Init
  PROVE  Reclaims
BY SerialStart DEF Init, Reclaims, PidAccounted, RemovalsSucceed

(* A refusal while calls do not overlap has a live holder as its reason, or *)
(* a live process with a dead holder's pid.                                 *)
LEMMA RefusalHasReason ==
  ASSUME Reclaims, ~overlapped, [Next]_vars, NEW r \in Procs, Refused(r)
  PROVE  \/ \E q \in Procs : Holds(q)
         \/ pidFile \in dead /\ Alive(pidFile)
<1> DEFINE Reason == \/ \E q \in Procs : Holds(q)
                     \/ pidFile \in dead /\ Alive(pidFile)
<1>0. LocalInv /\ OneCaller /\ CallerKnows /\ PidAccounted /\ RemovalsSucceed
  BY DEF Reclaims, SerialInv, SerialCalls
<1> USE <1>0 DEF LocalInv, TypeOK, OneLeasePerProcess, OneCaller, CallerKnows, PidAccounted,
                 RemovalsSucceed, Refused, LeaseStates
<1>1. ASSUME NEW p \in Procs, NEW k \in Leases,
             AcquireDuplicate(p, k) \/ Acquire(p, k) \/ Release(p, k)
      PROVE  Reason
  <2>1. CASE AcquireDuplicate(p, k)
    BY <2>1 DEF AcquireDuplicate, mayCall
  <2>2. CASE Acquire(p, k)
    BY <2>2 DEF Acquire, begins, mayCall, goto
  <2>3. CASE Release(p, k)
    BY <2>3 DEF Release, begins, mayCall, goto
  <2> QED BY <1>1, <2>1, <2>2, <2>3
<1>2. ASSUME NEW p \in Procs,
             \/ Mkdir(p) \/ MkdirExists(p) \/ WritePid(p) \/ WritePidFails(p)
             \/ ReadPid(p) \/ ReadNoPid(p) \/ ProbeAlive(p) \/ ProbeDead(p)
             \/ RmPid(p) \/ RmDirFails(p)
             \/ RmDirThenRetry(p) \/ RmDirThenGiveUp(p) \/ RmDirReleased(p)
             \/ Boot(p) \/ Crash(p)
      PROVE  Reason
  <2>1. CASE Mkdir(p)
    BY <2>1 DEF Mkdir, goto
  <2>2. CASE MkdirExists(p)
    BY <2>2 DEF MkdirExists, goto
  <2>3. CASE WritePid(p)
    BY <2>3 DEF WritePid, goto, give
  <2>4. CASE WritePidFails(p)
    BY <2>4 DEF WritePidFails, goto, give
  <2>5. CASE ReadPid(p)
    BY <2>5 DEF ReadPid, goto
  <2>6. CASE ReadNoPid(p)
    BY <2>6 DEF ReadNoPid, goto
  <2>7. CASE ProbeAlive(p)
    BY <2>7 DEF ProbeAlive, goto, give
  <2>8. CASE ProbeDead(p)
    BY <2>8 DEF ProbeDead, goto
  <2>9. CASE RmPid(p)
    BY <2>9 DEF RmPid, goto
  <2>10. CASE RmDirFails(p)
    BY <2>10 DEF RmDirFails
  <2>11. CASE RmDirThenRetry(p)
    BY <2>11 DEF RmDirThenRetry, rmDir, goto
  <2>12. CASE RmDirThenGiveUp(p)
    BY <2>12 DEF RmDirThenGiveUp, rmDir, goto, give
  <2>13. CASE RmDirReleased(p)
    BY <2>13 DEF RmDirReleased, rmDir, goto
  <2>14. CASE Boot(p)
    BY <2>14 DEF Boot
  <2>15. CASE Crash(p)
    BY <2>15 DEF Crash, goto
  <2> QED BY <1>2, <2>1, <2>2, <2>3, <2>4, <2>5, <2>6, <2>7, <2>8, <2>9, <2>10, <2>11, <2>12, <2>13, <2>14, <2>15
<1>3. CASE UNCHANGED vars BY <1>3 DEF vars
<1>4. Reason
  BY <1>1, <1>2, <1>3 DEF Next
<1> QED BY <1>4

(* The lease is refused, while calls do not overlap, only on account of a   *)
(* live holder or of a process that was given a dead holder's pid: whatever *)
(* the number of processes, and at whichever system call others crashed.    *)
THEOREM SerialRefusals == Spec => RefusedOnlyByHolder
<1>1. Init => Reclaims
  BY ReclaimStart
<1>2. Reclaims /\ [Next]_vars => Reclaims'
  BY ReclaimsKept
<1>3. Reclaims /\ [Next]_vars => [\A p \in Procs : Refused(p) /\ ~overlapped =>
          \/ \E q \in Procs : Holds(q)
          \/ pidFile \in dead /\ Alive(pidFile)]_vars
  BY RefusalHasReason
<1> QED BY <1>1, <1>2, <1>3, PTL DEF Spec, RefusedOnlyByHolder

-----------------------------------------------------------------------------
(* What is left of the lock, when calls do overlap                          *)

LEMMA AttendedStep ==
  ASSUME LocalInv, Attended, [Next]_vars, LocalInv'
  PROVE  Attended'
<1> USE DEF LocalInv, TypeOK, OneLeasePerProcess, CallsMatchRegistry, Attended, Holds, Up
<1>1. ASSUME NEW p \in Procs, NEW k \in Leases,
             AcquireDuplicate(p, k) \/ Acquire(p, k) \/ Release(p, k)
      PROVE  Attended'
  <2>1. CASE AcquireDuplicate(p, k)
    BY <2>1 DEF AcquireDuplicate, mayCall
  <2>2. CASE Acquire(p, k)
    BY <2>2 DEF Acquire, begins, mayCall, goto
  <2>3. CASE Release(p, k)
    BY <2>3 DEF Release, begins, mayCall, goto
  <2> QED BY <1>1, <2>1, <2>2, <2>3
<1>2. ASSUME NEW p \in Procs,
             \/ Mkdir(p) \/ MkdirExists(p) \/ WritePid(p) \/ WritePidFails(p)
             \/ ReadPid(p) \/ ReadNoPid(p) \/ ProbeAlive(p) \/ ProbeDead(p)
             \/ RmPid(p) \/ RmDirFails(p)
             \/ RmDirThenRetry(p) \/ RmDirThenGiveUp(p) \/ RmDirReleased(p)
             \/ Boot(p) \/ Crash(p)
      PROVE  Attended'
  <2>1. CASE Mkdir(p)
    BY <2>1 DEF Mkdir, goto
  <2>2. CASE MkdirExists(p)
    BY <2>2 DEF MkdirExists, goto
  <2>3. CASE WritePid(p)
    BY <2>3 DEF WritePid, goto, give
  <2>4. CASE WritePidFails(p)
    BY <2>4 DEF WritePidFails, goto, give
  <2>5. CASE ReadPid(p)
    BY <2>5 DEF ReadPid, goto
  <2>6. CASE ReadNoPid(p)
    BY <2>6 DEF ReadNoPid, goto
  <2>7. CASE ProbeAlive(p)
    <3>1. /\ pc[p] = "probe" /\ goto(p, "idle") /\ give(p, "refused")
          /\ UNCHANGED <<lockVars, registry, cur, phase, seen, procVars, overlapped>>
      BY <2>7 DEF ProbeAlive
    <3>2. \A q \in Procs : Holds(q) => Holds(q)'
      BY <3>1 DEF give
    <3>3. \A q \in Procs : pc[q] \in {"writePid", "rmPid", "rmDir"} => pc'[q] = pc[q]
      BY <3>1 DEF goto
    <3>4. dir' = dir /\ pidFile' = pidFile /\ crashes' = crashes
      BY <3>1
    <3> HIDE DEF Holds, LocalInv
    <3> QED BY <3>2, <3>3, <3>4
  <2>8. CASE ProbeDead(p)
    BY <2>8 DEF ProbeDead, goto
  <2>9. CASE RmPid(p)
    BY <2>9 DEF RmPid, goto
  <2>10. CASE RmDirFails(p)
    <3>1. CASE phase[p] = "release"
      BY <2>10, <3>1 DEF RmDirFails, goto
    <3>2. CASE phase[p] # "release"
      <4>1. /\ pc[p] = "rmDir" /\ pidFile # NoPid /\ goto(p, "idle") /\ give(p, "refused")
            /\ UNCHANGED <<lockVars, registry, cur, phase, seen, procVars, overlapped>>
        BY <2>10, <3>2 DEF RmDirFails
      <4> QED BY <3>2, <4>1 DEF goto, give
    <3> QED BY <3>1, <3>2
  <2>11. CASE RmDirThenRetry(p)
    BY <2>11 DEF RmDirThenRetry, rmDir, goto
  <2>12. CASE RmDirThenGiveUp(p)
    BY <2>12 DEF RmDirThenGiveUp, rmDir, goto, give
  <2>13. CASE RmDirReleased(p)
    BY <2>13 DEF RmDirReleased, rmDir, goto
  <2>14. CASE Boot(p)
    BY <2>14 DEF Boot
  <2>15. CASE Crash(p)
    BY <2>15 DEF Crash, goto
  <2> QED BY <1>2, <2>1, <2>2, <2>3, <2>4, <2>5, <2>6, <2>7, <2>8, <2>9, <2>10, <2>11, <2>12, <2>13, <2>14, <2>15
<1>3. CASE UNCHANGED vars BY <1>3 DEF vars
<1> QED BY <1>1, <1>2, <1>3 DEF Next

(* While nothing has crashed, when every lease was given back or refused    *)
(* the lock directory is gone, whatever the calls overtook each other and   *)
(* whosever lock they removed.                                              *)
THEOREM LockIsRemoved == Spec => []NoLockLeftBehind
<1> DEFINE Inv == LocalInv /\ Attended
<1>1. Init => Inv
  BY LocalStart DEF Init, Attended
<1>2. Inv /\ [Next]_vars => Inv'
  BY TypeStep, LocalStep, AttendedStep DEF LocalInv
<1>3. Inv => NoLockLeftBehind
  BY DEF Attended, NoLockLeftBehind
<1> QED
  <2> HIDE DEF Inv
  <2> QED BY <1>1, <1>2, <1>3, PTL DEF Spec
=============================================================================
