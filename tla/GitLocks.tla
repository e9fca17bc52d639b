------------------------------ MODULE GitLocks ------------------------------
(* Git's index.lock of one worktree, the supervised git processes that take  *)
(* it, and the recovery of a lock whose process died, run by `exomonad init` *)
(* (handlers/process_supervision.rs, git_lock_owner.rs,                      *)
(* git_lock_recovery.rs, init.rs).                                           *)
(*                                                                           *)
(* A supervised git process runs in a process group of its own while the     *)
(* server holds the index lease; the server records the process and, once it *)
(* sees the process hold the lock's inode, a proof of it.  When the server   *)
(* dies the lease is free and the group runs on.  Init takes the lease and   *)
(* moves a lock to quarantine if a proof of exactly that file exists, the    *)
(* group is gone and the file is empty.  Other git processes (a person's)    *)
(* take the same lock and know nothing of leases.                            *)
EXTENDS Integers, FiniteSets, Sequences, SequencesExt

CONSTANTS Managed,      \* supervised git processes, one operation each
          Foreign,      \* git processes nobody supervises
          MaxFiles,     \* lock files ever created
          None,
          Init_,        \* the holder of the lease that is `exomonad init`
          Capacity,     \* QUARANTINE_CAPACITY (64 in the code)
          MaxMishaps    \* crashes of the server or of init, failed ledger
                        \* operations and locks that a person removes

Gits == Managed \cup Foreign
Files == 1..MaxFiles    \* told apart by device, inode and times
Sizes == {"empty", "full"}
Snapshots == [file: Files, size: Sizes]

ASSUME ProcessesDiffer == Managed \cap Foreign = {} /\ Init_ \notin Managed
ASSUME NoneIsNone == None \notin Gits \cup Files \cup Snapshots \cup {Init_}
ASSUME BoundsAreNat == MaxFiles \in Nat /\ Capacity \in Nat /\ MaxMishaps \in Nat

VARIABLES
  lock,      \* the file at index.lock, or None
  owner,     \* [Files -> the git process that created it]
  size,      \* [Files -> "empty", "full"]
  group,     \* [Gits -> what is left of its process group]
  sup,       \* [Managed -> what the server does about it]
  lease,     \* who holds the index lease
  started,   \* git.process.started events of this worktree, by process
  proof,     \* [Managed -> the snapshot in its lock_held event, or None]
  intents,   \* quarantine_intent events, by the process of the proof cited
  receipts,  \* quarantined events, likewise
  quarantine,\* [Managed -> the file at the path named by its proof, or None]
  pc,        \* init's place in reconcile_native_index_lock
  seen,      \* the snapshot init works with
  late,      \* init's wait is over
  mishaps    \* so far

vars == <<lock, owner, size, group, sup, lease, started, proof, intents, receipts, quarantine, pc, seen, late, mishaps>>
init == <<pc, seen, late>>
ledger == <<started, proof, intents, receipts>>
disk == <<lock, owner, size, quarantine>>

(* Init is not running: it never was or crashed, it found the worktree       *)
(* ready, or it gave up (classify_init_git_readiness).                       *)
Ended == {"idle", "ready", "blocked"}

(* Type correctness of the files, the processes and the ledger.               *)
TypeOK ==
  /\ lock \in Files \cup {None}
  /\ owner \in [Files -> Gits \cup {None}]
  /\ size \in [Files -> Sizes]
  /\ group \in [Gits -> {"none", "git", "helper", "gone"}]
  /\ sup \in [Managed -> {"no", "spawned", "watching", "proved", "stopping"}]
  /\ lease \in Managed \cup {Init_, None}
  /\ started \subseteq Managed
  /\ proof \in [Managed -> Snapshots \cup {None}]
  /\ intents \in Seq(Managed) /\ receipts \in Seq(Managed)
  /\ quarantine \in [Managed -> Files \cup {None}]
  /\ pc \in Ended \cup {"look", "absent", "prove", "intend", "revalidate", "move", "rename", "recheck"}
  /\ seen \in Snapshots \cup {None}
  /\ late \in BOOLEAN
  /\ mishaps \in 0..MaxMishaps

Init ==
  /\ lock = None
  /\ owner = [f \in Files |-> None]
  /\ size = [f \in Files |-> "empty"]
  /\ group = [g \in Gits |-> IF g \in Managed THEN "none" ELSE "git"]
  /\ sup = [g \in Managed |-> "no"]
  /\ lease = None
  /\ started = {} /\ proof = [g \in Managed |-> None]
  /\ intents = <<>> /\ receipts = <<>>
  /\ quarantine = [g \in Managed |-> None]
  /\ pc = "idle" /\ seen = None /\ late = FALSE
  /\ mishaps = 0

Running(g) == group[g] \in {"git", "helper"}
Mishap == mishaps < MaxMishaps /\ mishaps' = mishaps + 1
(* snapshot_lock: device, inode, size, times and digest of the file.         *)
Snapshot(f) == [file |-> f, size |-> size[f]]

-----------------------------------------------------------------------------
(* git itself (external)                                                     *)

(* index.lock is created with O_EXCL.                                        *)
TakeLock(g) ==
  /\ Running(g)
  /\ lock = None
  /\ \E f \in Files : /\ \A e \in Files : owner[e] = None <=> e >= f
                      /\ lock' = f
                      /\ owner' = [owner EXCEPT ![f] = g]
  /\ UNCHANGED <<size, quarantine, group, sup, lease, ledger, init, mishaps>>

WriteLock(g) ==
  /\ Running(g)
  /\ lock # None /\ owner[lock] = g /\ size[lock] = "empty"
  /\ size' = [size EXCEPT ![lock] = "full"]
  /\ UNCHANGED <<lock, owner, quarantine, group, sup, lease, ledger, init, mishaps>>

(* The lock becomes the index, or is removed.                                *)
DropLock(g) ==
  /\ Running(g)
  /\ lock # None /\ owner[lock] = g
  /\ lock' = None
  /\ UNCHANGED <<owner, size, quarantine, group, sup, lease, ledger, init, mishaps>>

(* The process ends, orderly or not; a helper of a supervised group may      *)
(* outlive it.                                                               *)
GitEnds(g) ==
  /\ Running(g)
  /\ \/ group' = [group EXCEPT ![g] = "gone"]
     \/ g \in Managed /\ group[g] = "git" /\ group' = [group EXCEPT ![g] = "helper"]
  /\ UNCHANGED <<disk, sup, lease, ledger, init, mishaps>>

(* A person removes the lock by hand between two runs of init.               *)
PersonRemoves ==
  /\ pc \in Ended /\ lock # None
  /\ Mishap
  /\ lock' = None
  /\ UNCHANGED <<owner, size, quarantine, group, sup, lease, ledger, init>>

-----------------------------------------------------------------------------
(* run_supervised: the server and one git process, under the index lease     *)

Spawn(g) ==
  /\ lease = None /\ group[g] = "none"
  /\ lease' = g
  /\ group' = [group EXCEPT ![g] = "git"]
  /\ sup' = [sup EXCEPT ![g] = "spawned"]
  /\ UNCHANGED <<disk, ledger, init, mishaps>>

record_started(g) ==
  /\ sup[g] = "spawned"
  /\ started' = started \cup {g}
  /\ sup' = [sup EXCEPT ![g] = "watching"]
  /\ UNCHANGED <<disk, group, lease, proof, intents, receipts, init, mishaps>>

record_started_Fails(g) ==
  /\ sup[g] = "spawned"
  /\ Mishap
  /\ sup' = [sup EXCEPT ![g] = "stopping"]
  /\ UNCHANGED <<disk, group, lease, ledger, init>>

(* One poll of wait_for_process sees the process hold the lock's inode.      *)
observe_lock(g) ==
  /\ sup[g] = "watching" /\ group[g] = "git"
  /\ lock # None /\ owner[lock] = g
  /\ proof' = [proof EXCEPT ![g] = Snapshot(lock)]
  /\ sup' = [sup EXCEPT ![g] = "proved"]
  /\ UNCHANGED <<disk, group, lease, started, intents, receipts, init, mishaps>>

(* The process has exited, its time is up, it was cancelled, or the lock     *)
(* changed under observe_lock: the group is stopped.                         *)
Stop(g) ==
  /\ sup[g] \in {"watching", "proved"}
  /\ sup' = [sup EXCEPT ![g] = "stopping"]
  /\ UNCHANGED <<disk, group, lease, ledger, init, mishaps>>

stop_process_group(g) ==
  /\ sup[g] = "stopping"
  /\ group' = [group EXCEPT ![g] = "gone"]
  /\ sup' = [sup EXCEPT ![g] = "no"]
  /\ lease' = None
  /\ UNCHANGED <<disk, ledger, init, mishaps>>

(* The server dies: its flock is gone, the process group is not.             *)
ServerCrash ==
  /\ lease \in Managed
  /\ Mishap
  /\ sup' = [sup EXCEPT ![lease] = "no"]
  /\ lease' = None
  /\ UNCHANGED <<disk, group, ledger, init>>

-----------------------------------------------------------------------------
(* reconcile_native_index_lock, under the index lease of init                *)

To(step) == pc' = step /\ UNCHANGED <<seen, late, lease>>
(* Mutant: the verdict is taken for init's state.                           *)
Answer_Verdict(verdict) ==
  /\ pc' = verdict
  /\ lease' = None /\ seen' = None /\ late' = FALSE
Answer(verdict) ==
  /\ pc' = IF verdict \in {"clear", "recovered"} THEN "ready" ELSE "blocked"
  /\ lease' = None /\ seen' = None /\ late' = FALSE

(* Mutant: the deadline is not looked at.                                   *)
Busy_Waits == To("look")
(* reconcile_with_inspector: a busy lock is looked at again until the        *)
(* deadline.                                                                 *)
Busy == IF late THEN Answer("busy") ELSE To("look")

(* Mutant: only the recorded process is looked at, not its group.           *)
managed_scope_active_PidOnly(g) == group[g] = "git"
(* The recorded process lives, or its process group has a member.            *)
managed_scope_active(g) == group[g] \in {"git", "helper"}

(* matching_proof: the process whose durable proof names exactly this file,  *)
(* with the one record of its start.                                         *)
matching_proof(s) == {g \in started : proof[g] = s}

(* append_audit_once                                                         *)
Once(log, g) == IF \E n \in 1..Len(log) : log[n] = g THEN log ELSE Append(log, g)

(* same_quarantined_inode on the file at quarantine_path of the proof.       *)
SameFile(g) == quarantine[g] # None /\ quarantine[g] = proof[g].file

Begin ==
  /\ pc \in Ended /\ lease = None
  /\ lease' = Init_
  /\ pc' = "look" /\ late' = FALSE
  /\ UNCHANGED <<disk, group, sup, ledger, seen, mishaps>>

Deadline ==
  /\ pc \notin Ended /\ ~late
  /\ late' = TRUE
  /\ UNCHANGED <<disk, group, sup, lease, ledger, pc, seen, mishaps>>

(* reconcile_once: is there a lock, and which                                *)
Look ==
  /\ pc = "look"
  /\ \/ lock = None /\ pc' = "absent" /\ seen' = None
     \/ lock # None /\ pc' = "prove" /\ seen' = Snapshot(lock)
  /\ UNCHANGED <<disk, group, sup, lease, ledger, late, mishaps>>

Prove ==
  /\ pc = "prove"
  /\ LET proofs == matching_proof(seen) IN
     \/ Cardinality(proofs) # 1 /\ Answer("uncertain")
     \/ \E g \in proofs :
          /\ proofs = {g}
          /\ \/ managed_scope_active(g) /\ Busy
             \/ ~managed_scope_active(g) /\ seen.size # "empty" /\ Answer("uncertain")
             \/ ~managed_scope_active(g) /\ seen.size = "empty" /\ To("intend")
  /\ UNCHANGED <<disk, group, sup, ledger, mishaps>>

QuarantineFull == Cardinality({g \in Managed : quarantine[g] # None}) >= Capacity

(* The process whose proof init acts on.                                     *)
Proven == CHOOSE g \in Managed : proof[g] = seen

(* Mutant: an intent of an earlier run is taken for a conflict.             *)
Intend_Fresh ==
  /\ pc = "intend"
  /\ \/ Proven \in Range(intents) /\ Answer("uncertain") /\ UNCHANGED intents
     \/ /\ Proven \notin Range(intents)
        /\ intents' = Once(intents, Proven)
        /\ To("revalidate")
  /\ UNCHANGED <<disk, group, sup, started, proof, receipts, mishaps>>
(* Mutant: the lock is moved without a durable intent.                      *)
Intend_Unrecorded ==
  /\ pc = "intend"
  /\ IF quarantine[Proven] = None /\ ~QuarantineFull THEN To("revalidate") ELSE Answer("uncertain")
  /\ UNCHANGED <<disk, group, sup, ledger, mishaps>>
(* quarantine_proven_lock up to its durable intent: the target must be free  *)
(* and the quarantine below its capacity (check_quarantine_capacity).        *)
Intend ==
  /\ pc = "intend"
  /\ IF quarantine[Proven] = None /\ ~QuarantineFull
       THEN /\ intents' = Once(intents, Proven)
            /\ To("revalidate")
       ELSE Answer("uncertain") /\ UNCHANGED intents
  /\ UNCHANGED <<disk, group, sup, started, proof, receipts, mishaps>>

revalidate_before_quarantine ==
  /\ pc = "revalidate"
  /\ IF lock # None /\ Snapshot(lock) = seen /\ ~managed_scope_active(Proven)
       THEN To("move")
       ELSE Answer("uncertain")
  /\ UNCHANGED <<disk, group, sup, ledger, mishaps>>

(* atomic_move_lock: the last look at the source, then renameat2 NOREPLACE   *)
(* of whatever is there.                                                     *)
MoveCheck ==
  /\ pc = "move"
  /\ IF lock # None /\ Snapshot(lock) = seen
       THEN To("rename")
       ELSE Answer("uncertain")
  /\ UNCHANGED <<disk, group, sup, ledger, mishaps>>

MoveRename ==
  /\ pc = "rename"
  /\ IF lock # None /\ quarantine[Proven] = None
       THEN /\ quarantine' = [quarantine EXCEPT ![Proven] = lock]
            /\ lock' = None
            /\ To("recheck")
       ELSE Answer("uncertain") /\ UNCHANGED <<lock, quarantine>>
  /\ UNCHANGED <<owner, size, group, sup, ledger, mishaps>>

(* After the move: no new lock, the moved file is the proven one, its owner  *)
(* is gone; then the durable receipt.                                        *)
Recheck ==
  /\ pc = "recheck"
  /\ \/ (lock # None \/ ~SameFile(Proven)) /\ Answer("uncertain") /\ UNCHANGED receipts
     \/ lock = None /\ SameFile(Proven) /\ managed_scope_active(Proven) /\ Busy /\ UNCHANGED receipts
     \/ /\ lock = None /\ SameFile(Proven) /\ ~managed_scope_active(Proven)
        /\ receipts' = Once(receipts, Proven)
        /\ Answer("recovered")
  /\ UNCHANGED <<disk, group, sup, started, proof, intents, mishaps>>

(* reconcile_absent_lock: the latest receipt if there is one                 *)
(* (verify_quarantine_receipt), else the latest intent                       *)
(* (complete_interrupted_quarantine), else clear.                            *)
Absent ==
  /\ pc = "absent"
  /\ \/ /\ receipts = <<>> /\ intents = <<>>
        /\ Answer("clear") /\ UNCHANGED receipts
     \/ /\ receipts # <<>> \/ intents # <<>>
        /\ LET g == IF receipts # <<>> THEN Last(receipts) ELSE Last(intents) IN
           \/ ~SameFile(g) /\ Answer("uncertain") /\ UNCHANGED receipts
           \/ SameFile(g) /\ managed_scope_active(g) /\ Busy /\ UNCHANGED receipts
           \/ /\ SameFile(g) /\ ~managed_scope_active(g)
              /\ receipts' = Once(receipts, g)
              /\ Answer("recovered")
  /\ UNCHANGED <<disk, group, sup, started, proof, intents, mishaps>>

(* A ledger read or append, or an inspection, fails: uncertain.              *)
InspectFails ==
  /\ pc \in {"absent", "prove", "intend", "revalidate", "recheck"}
  /\ Mishap
  /\ Answer("uncertain")
  /\ UNCHANGED <<disk, group, sup, ledger>>

InitCrash ==
  /\ pc \notin Ended
  /\ Mishap
  /\ pc' = "idle" /\ late' = FALSE /\ seen' = None /\ lease' = None
  /\ UNCHANGED <<disk, group, sup, ledger>>

Reconcile ==
  \/ Look \/ Prove \/ Intend \/ revalidate_before_quarantine
  \/ MoveCheck \/ MoveRename \/ Recheck \/ Absent

-----------------------------------------------------------------------------
Git(g) == TakeLock(g) \/ WriteLock(g) \/ DropLock(g) \/ GitEnds(g)
Supervise(g) ==
  \/ Spawn(g) \/ record_started(g) \/ record_started_Fails(g)
  \/ observe_lock(g) \/ Stop(g) \/ stop_process_group(g)

Next ==
  \/ \E g \in Gits : Git(g)
  \/ \E g \in Managed : Supervise(g)
  \/ PersonRemoves \/ ServerCrash
  \/ Begin \/ Deadline \/ Reconcile \/ InspectFails \/ InitCrash

Spec == Init /\ [][Next]_vars

(* The operator runs `exomonad init --continue` again, as its message asks;  *)
(* its steps and the clock go on; the server stops what it supervises (its   *)
(* timeouts).  git itself owes nothing.                                      *)
FairSpec ==
  /\ Spec
  /\ WF_vars(Begin) /\ WF_vars(Deadline) /\ WF_vars(Reconcile)
  /\ \A g \in Managed : WF_vars(record_started(g)) /\ WF_vars(Stop(g)) /\ WF_vars(stop_process_group(g))

-----------------------------------------------------------------------------
(* What is moved to quarantine was empty and belonged to a process group     *)
(* that is gone: neither the lock of a surviving helper nor staged contents  *)
(* are ever taken away (reconcile_once, revalidate_before_quarantine).       *)
QuarantineIsDead ==
  \A g \in Managed : LET f == quarantine[g] IN
    f # None => size[f] = "empty" /\ owner[f] = g /\ group[g] = "gone"

(* Every receipt is backed by the durable evidence it cites: the start and   *)
(* the proof of the process, an earlier intent, and the proven file in       *)
(* quarantine, whatever crashed or was removed in between                    *)
(* (complete_interrupted_quarantine, quarantine_proven_lock).                *)
ReceiptIsBacked ==
  \A n \in 1..Len(receipts) : LET g == receipts[n] IN
    /\ g \in started
    /\ g \in Range(intents)
    /\ proof[g] # None
    /\ quarantine[g] = proof[g].file

(* A proven, empty lock whose process group is gone does not block the       *)
(* worktree for ever: init recovers it after any crash of its own, unless    *)
(* the quarantine is full (reconcile_native_index_lock).                     *)
Orphaned(g, f) == /\ lock = f /\ g \in started /\ group[g] = "gone"
                  /\ proof[g] = [file |-> f, size |-> "empty"] /\ size[f] = "empty"
OrphanRecovered ==
  \A g \in Managed, f \in Files : Orphaned(g, f) ~> (lock # f \/ QuarantineFull)

(* Init never waits for a lock without end: every run answers, also while    *)
(* the owner of the lock lives on (the wait of reconcile_with_inspector).    *)
InitAnswers == pc \notin Ended ~> pc \in Ended

(* A run of init that finds the worktree ready has receipted every           *)
(* quarantine, interrupted ones included (reconcile_absent_lock).            *)
ReadyIsReceipted ==
  pc = "ready" => \A g \in Managed : quarantine[g] # None => g \in Range(receipts)
=============================================================================
