------------------------------ MODULE TeamsInbox ------------------------------
(***************************************************************************)
(* One inbox file of the teams bridge                                      *)
(* (rust/claude-teams-bridge/src/inbox.rs): senders append their message   *)
(* under the file lock, replacing the whole file, and compact it when it   *)
(* has grown large.  The recipient (Claude Code, not part of this          *)
(* repository) marks messages as read without taking the lock.             *)
(*                                                                         *)
(* Every process of FileLock sends one message, named after it.  The file  *)
(* is the set of its messages: they are appended with increasing           *)
(* timestamps and compaction sorts by them, so the timestamp `at' is also  *)
(* the position.                                                           *)
(***************************************************************************)
EXTENDS FileLock

CONSTANTS Idle,       \* the messages that are idle notifications
          Sender,     \* Sender[m]: the agent a message is from
          MaxCount,   \* compaction starts above this size (1000)
          KeepRead,   \* read messages kept (500)
          KeepIdle    \* read idle notifications kept per sender (10)

VARIABLES inbox,  \* the file: a set of [id, read, at]
          buf,    \* what a process has read of it, None before
          op,     \* the progress of each process's write_to_inbox
          seen    \* history: the messages ever marked as read

inboxVars == <<inbox, buf, op, seen>>
vars == <<lockVars, inboxVars>>

Message == [id : Procs, read : BOOLEAN, at : Nat]
Ops == {"idle", "write", "written", "overfull", "compact", "compacted",
        "sent", "error"}

Ids(ms) == {m.id : m \in ms}
-----------------------------------------------------------------------------
Init ==
  /\ LockInit
  /\ inbox = {}
  /\ buf = [p \in Procs |-> None]
  /\ op = [p \in Procs |-> "idle"]
  /\ seen = {}

(* write_to_inbox is called.                                               *)
Start(p) ==
  /\ op[p] = "idle" /\ pc[p] = "out"
  /\ Begin(p)
  /\ op' = [op EXCEPT ![p] = "write"]
  /\ UNCHANGED <<inbox, buf, seen>>

Contend(p) == AcquireStep(p) /\ UNCHANGED inboxVars

(* acquire returned an error: the write fails, a compaction is given up    *)
(* (non-fatal) and the write still returns Ok.                             *)
Fail(p) ==
  /\ pc[p] = "failed" /\ op[p] \in {"write", "compact"}
  /\ Go(p, "out")
  /\ op' = [op EXCEPT ![p] = IF @ = "write" THEN "error" ELSE "sent"]
  /\ UNCHANGED <<lock, temps, foul, faults>>
  /\ UNCHANGED <<inbox, buf, seen>>

(* Both operations read and parse the whole file under the lock.           *)
Read(p) ==
  /\ pc[p] = "held" /\ op[p] \in {"write", "compact"} /\ buf[p] = None
  /\ buf' = [buf EXCEPT ![p] = inbox]
  /\ UNCHANGED <<lockVars, inbox, op, seen>>

(* Utc::now: every write so far has an earlier timestamp.                  *)
Now == 1 + Cardinality({p \in Procs : op[p] \notin {"idle", "write", "error"}})

(* messages.push                                                           *)
Pushed(ms, p) == ms \cup {[id |-> p, read |-> FALSE, at |-> Now]}

(* Temporary file, fsync and rename: the file is replaced at once.         *)
ReplaceByWrite(p) ==
  /\ pc[p] = "held" /\ op[p] = "write" /\ buf[p] # None
  /\ inbox' = Pushed(buf[p], p)
  /\ op' = [op EXCEPT ![p] = IF Cardinality(buf[p]) + 1 > MaxCount
                             THEN "overfull" ELSE "written"]
  /\ buf' = [buf EXCEPT ![p] = None]
  /\ UNCHANGED <<lockVars, seen>>

(* Reading, parsing, or writing and renaming the temporary file fails: the *)
(* operation ends as in Fail, and _lock is dropped on the way out.         *)
FailInside(p) ==
  /\ op[p] \in {"write", "compact"}
  /\ faults < MaxFaults /\ faults' = faults + 1
  /\ Release(p) /\ Go(p, "out")
  /\ op' = [op EXCEPT ![p] = IF @ = "write" THEN "error" ELSE "sent"]
  /\ buf' = [buf EXCEPT ![p] = None]
  /\ UNCHANGED <<temps, inbox, seen>>

(* The newest n of a set of messages.                                      *)
Newest(ms, n) ==
  {m \in ms : Cardinality({o \in ms : o.at > m.at}) < n}

(* Mutant: compaction keeps the newest messages, read or not.              *)
Compacted_ByAge(ms) == Newest(ms, KeepRead)

(* compact_inbox_at_base: every unread message; of the read ones the       *)
(* newest KeepRead, and among these at most KeepIdle idle notifications    *)
(* of a sender.                                                            *)
Compacted(ms) ==
  LET read == Newest({m \in ms : m.read}, KeepRead)
      idle == {m \in read : m.id \in Idle}
      From(a) == {m \in idle : Sender[m.id] = a}
  IN  {m \in ms : ~ m.read} \cup (read \ idle)
        \cup UNION {Newest(From(a), KeepIdle) : a \in {Sender[m.id] : m \in idle}}

ReplaceByCompaction(p) ==
  /\ pc[p] = "held" /\ op[p] = "compact" /\ buf[p] # None
  /\ inbox' = Compacted(buf[p])
  /\ op' = [op EXCEPT ![p] = "compacted"]
  /\ buf' = [buf EXCEPT ![p] = None]
  /\ UNCHANGED <<lockVars, seen>>

(* drop(_lock) and the return.                                             *)
Unlock(p) ==
  /\ op[p] \in {"written", "compacted"}
  /\ Release(p)
  /\ Go(p, "out")
  /\ op' = [op EXCEPT ![p] = "sent"]
  /\ UNCHANGED <<temps, faults, inbox, buf, seen>>

(* drop(_lock) after a write that left the file too large: compaction      *)
(* acquires the lock anew.                                                 *)
UnlockToCompact(p) ==
  /\ op[p] = "overfull"
  /\ Release(p)
  /\ Prepare(p, Reclaimed(p))
  /\ op' = [op EXCEPT ![p] = "compact"]
  /\ UNCHANGED <<faults, inbox, buf, seen>>

(* External: the recipient marks a message as read, without the lock.      *)
MarkRead(m) ==
  /\ m \in inbox /\ ~ m.read
  /\ inbox' = (inbox \ {m}) \cup {[m EXCEPT !.read = TRUE]}
  /\ seen' = seen \cup {m.id}
  /\ UNCHANGED <<lockVars, buf, op>>

Step(p) == \/ Start(p) \/ Contend(p) \/ Fail(p) \/ Read(p)
           \/ ReplaceByWrite(p) \/ ReplaceByCompaction(p) \/ FailInside(p)
           \/ Unlock(p) \/ UnlockToCompact(p)

Next ==
  \/ \E p \in Procs : Step(p)
  \/ \E p \in Procs : Crash(p) /\ UNCHANGED inboxVars
  \/ Age /\ UNCHANGED inboxVars
  \/ \E m \in inbox : MarkRead(m)

Spec == Init /\ [][Next]_vars

(* A live call keeps running, and its five seconds do pass: a call that    *)
(* keeps finding the lock held gives up.                                   *)
FairSpec ==
  /\ Spec
  /\ \A p \in Procs : /\ WF_vars(Step(p))
                      /\ SF_vars(GiveUp(p) /\ UNCHANGED inboxVars)
-----------------------------------------------------------------------------
(* Type invariant.                                                         *)
TypeOK ==
  /\ LockTypeOK
  /\ inbox \subseteq Message
  /\ buf \in [Procs -> (SUBSET Message) \cup {None}]
  /\ op \in [Procs -> Ops]
  /\ seen \subseteq Procs

(* FileLock: "Provides mutual exclusion for read-modify-write operations   *)
(* on shared JSON files.  Stale locks ... are automatically broken."       *)
(* At most one live process is between acquire and release.                *)
MutualExclusion ==
  \A p, q \in Procs : pc[p] = "held" /\ pc[q] = "held" => p = q

(* The temporary file of a live contender is never reclaimed, so its       *)
(* hard_link does not fail.                                                *)
TempsKept == \A p \in Procs : pc[p] = "link" => p \in temps

(* The inbox keeps every message it acknowledged until it was seen, unless *)
(* a live process was robbed of the lock.                                  *)
M == INSTANCE Mailbox WITH Messages <- Procs,
                           box      <- Ids(inbox),
                           acked    <- {p \in Procs : op[p] = "sent"},
                           waived   <- foul

ImplementsMailbox == M!Spec

(* Every call of write_to_inbox returns, or its process dies.              *)
CallReturns ==
  \A p \in Procs :
    op[p] = "write" ~> op[p] \in {"sent", "error"} \/ pc[p] = "dead"
=============================================================================
