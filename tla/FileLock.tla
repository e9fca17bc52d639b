------------------------------- MODULE FileLock -------------------------------
(***************************************************************************)
(* The advisory file lock of the teams bridge                              *)
(* (rust/claude-teams-bridge/src/file_lock.rs), for one lock path.         *)
(*                                                                         *)
(* A contender links a complete temporary file to the lock path, which     *)
(* succeeds only when the path is free.  Otherwise it looks whether the    *)
(* lock is stale (older than its TTL, or of a dead process) and then       *)
(* removes the path.  stat, read and remove are separate system calls and  *)
(* separate actions: the path may hold another lock at each of them.       *)
(*                                                                         *)
(* A process here is one caller with a pid of its own.  Callers of one     *)
(* server share its pid and die together, which allows fewer behaviours.   *)
(***************************************************************************)
EXTENDS Integers, FiniteSets

CONSTANTS Procs,       \* the processes that use the lock
          None,        \* no lock file
          MaxFaults,   \* bound: crashes, I/O errors, locks over their TTL
          Slow         \* bound: may a lock outlive its TTL at all

VARIABLES lock,     \* the lock path: None or [owner, aged]
          temps,    \* processes whose temporary lock file exists
          pc,       \* where each process is in acquire / release
          foul,     \* history: a lock of a live process was removed by another
          faults

lockVars == <<lock, temps, pc, foul, faults>>

Lock   == [owner : Procs, aged : BOOLEAN]
ASSUME ProcsAssumption == /\ None \notin Procs \cup Lock /\ IsFiniteSet(Procs)
                          /\ Slow \in BOOLEAN

Places == {"out", "link", "contend", "peek", "break", "held", "failed", "dead"}

Alive(p) == pc[p] # "dead"
Go(p, place) == pc' = [pc EXCEPT ![p] = place]
-----------------------------------------------------------------------------
LockInit ==
  /\ lock = None
  /\ temps = {}
  /\ pc = [p \in Procs |-> "out"]
  /\ foul = FALSE
  /\ faults = 0

(* try_create_lock, up to the claim: the temporary file is written and     *)
(* synced beside the files in ts.                                          *)
Prepare(p, ts) ==
  /\ Go(p, "link")
  /\ temps' = ts \cup {p}

(* Mutant: every temporary file is reclaimed, the live contenders' too.    *)
Reclaimed_All(p) == {}

(* reclaim_orphaned_lock_temps: those of dead processes.                   *)
Reclaimed(p) == {q \in temps : Alive(q)}

(* The call of acquire.                                                    *)
Begin(p) ==
  /\ Prepare(p, Reclaimed(p))
  /\ UNCHANGED <<lock, foul, faults>>

(* hard_link, the atomic claim; the temporary file is removed either way.  *)
(* Without the file the call fails, with a lock in place it is contended.  *)
Link(p) ==
  /\ pc[p] = "link"
  /\ temps' = temps \ {p}
  /\ Go(p, IF p \notin temps THEN "failed"
           ELSE IF lock = None THEN "held" ELSE "contend")
  /\ lock' = IF p \in temps /\ lock = None
             THEN [owner |-> p, aged |-> FALSE] ELSE lock
  /\ UNCHANGED <<foul, faults>>

(* Mutant: only the age of a lock is looked at, neither owner nor time.    *)
Stat_ByAge(p) ==
  /\ pc[p] = "contend"
  /\ IF lock # None /\ lock.aged THEN Go(p, "break") /\ UNCHANGED temps
                                 ELSE Prepare(p, temps)
  /\ UNCHANGED <<lock, foul, faults>>

(* try_break_stale, the stat.  A lock that is gone counts as broken; one   *)
(* over its TTL will be removed, or gone, whatever is read of its owner.   *)
Stat(p) ==
  /\ pc[p] = "contend"
  /\ IF lock = None
     THEN Prepare(p, temps)
     ELSE /\ Go(p, IF lock.aged THEN "break" ELSE "peek")
          /\ UNCHANGED temps
  /\ UNCHANGED <<lock, foul, faults>>

(* pid_stale: the owner of the lock is dead.                               *)
Stale == lock # None /\ ~ Alive(lock.owner)

(* try_break_stale, the read of the owner's pid.  Gone, or held by a live  *)
(* process (after a pause): the claim is tried again.                      *)
Peek(p) ==
  /\ pc[p] = "peek"
  /\ IF Stale THEN Go(p, "break") /\ UNCHANGED temps
              ELSE Prepare(p, temps)
  /\ UNCHANGED <<lock, foul, faults>>

(* The same read when five seconds of waiting are over: acquire fails.     *)
GiveUp(p) ==
  /\ pc[p] = "peek"
  /\ lock # None /\ ~ Stale
  /\ Go(p, "failed")
  /\ UNCHANGED <<lock, temps, foul, faults>>

(* Mutant: the lock file is emptied instead.                               *)
Remove_Truncates(p) ==
  /\ lock' = [owner |-> None, aged |-> FALSE]
  /\ foul' = foul

(* remove_file on the lock path, whatever lock it names by now.            *)
Remove(p) ==
  /\ lock' = None
  /\ foul' = \/ foul
             \/ lock # None /\ lock.owner # p /\ Alive(lock.owner)

(* try_break_stale, the removal, and the next attempt.                     *)
Break(p) ==
  /\ pc[p] = "break"
  /\ Remove(p)
  /\ Prepare(p, temps)
  /\ UNCHANGED faults

(* Drop and release: by path as well.                                      *)
Release(p) ==
  /\ pc[p] = "held"
  /\ Remove(p)

(* The process dies; its lock and its temporary file stay behind.          *)
Crash(p) ==
  /\ Alive(p) /\ pc[p] # "out"
  /\ faults < MaxFaults
  /\ faults' = faults + 1
  /\ Go(p, "dead")
  /\ UNCHANGED <<lock, temps, foul>>

(* The lock file becomes older than its TTL.                               *)
Age ==
  /\ Slow /\ lock # None /\ ~ lock.aged
  /\ faults < MaxFaults
  /\ faults' = faults + 1
  /\ lock' = [lock EXCEPT !.aged = TRUE]
  /\ UNCHANGED <<temps, pc, foul>>

(* One step of a call of acquire.                                          *)
AcquireStep(p) == Link(p) \/ Stat(p) \/ Peek(p) \/ GiveUp(p) \/ Break(p)

LockTypeOK ==
  /\ lock \in Lock \cup {None}
  /\ temps \subseteq Procs
  /\ pc \in [Procs -> Places]
  /\ foul \in BOOLEAN
  /\ faults \in Nat
=============================================================================
