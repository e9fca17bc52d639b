--------------------------- MODULE TeamsInboxProofs ---------------------------
(***************************************************************************)
(* Proofs about TeamsInbox and FileLock, for any number of processes,      *)
(* messages, crashes, I/O errors and stale locks and any limits of the     *)
(* compaction: temporary files of live contenders are kept, and the inbox  *)
(* implements Mailbox until a live process is robbed of the lock.          *)
(***************************************************************************)
EXTENDS TeamsInbox, FiniteSetTheorems, TLAPS

(* Who is in the critical section owns the lock.                           *)
HolderOwns == ~ foul => \A p \in Procs : pc[p] = "held" => lock # None /\ lock.owner = p

(* A copy of the file exists only inside the critical section, and nobody  *)
(* has added or dropped a message since it was made.                       *)
BufHeld    == \A p \in Procs : buf[p] # None => pc[p] \in {"held", "dead"} /\ op[p] \in {"write", "compact"}
BufCurrent == ~ foul => \A p \in Procs : pc[p] = "held" /\ buf[p] # None => Ids(buf[p]) = Ids(inbox)

(* What is marked as read, in the file or in a copy, was seen.             *)
ReadIsSeen == /\ \A m \in inbox : m.read => m.id \in seen
              /\ \A p \in Procs : buf[p] # None => \A m \in buf[p] : m.read => m.id \in seen

(* A message is nowhere before its call has written it ...                 *)
Unwritten == \A p \in Procs : op[p] \in {"idle", "write", "error"} =>
               /\ p \notin Ids(inbox)
               /\ \A q \in Procs : buf[q] # None => p \notin Ids(buf[q])

(* ... and in the file from then on until it is seen.                      *)
Written == ~ foul => \A p \in Procs :
             op[p] \in {"written", "overfull", "compact", "compacted", "sent"} => p \in Ids(inbox) \cup seen

(* The inductive invariant.  HolderOwns gives exclusion while nobody was   *)
(* robbed of the lock (Alone); the refinement needs that a copy is current when it replaces the file       *)
(* (BufCurrent) and that compaction drops only what was seen (ReadIsSeen). *)
Inv == /\ TypeOK /\ HolderOwns /\ TempsKept
       /\ BufHeld /\ BufCurrent /\ ReadIsSeen /\ Unwritten /\ Written

-----------------------------------------------------------------------------
(* Compaction invents nothing and keeps what is unread.                    *)
LEMMA CompactedSubset ==
  ASSUME NEW ms
  PROVE  Compacted(ms) \subseteq ms /\ \A m \in ms : ~ m.read => m \in Compacted(ms)
<1>1. \A S, n : Newest(S, n) \subseteq S
  BY DEF Newest
<1> DEFINE read == Newest({m \in ms : m.read}, KeepRead)
           idle == {m \in read : m.id \in Idle}
           From(a) == {m \in idle : Sender[m.id] = a}
<1>2. Compacted(ms) = {m \in ms : ~ m.read} \cup (read \ idle)
        \cup UNION {Newest(From(a), KeepIdle) : a \in {Sender[m.id] : m \in idle}}
  BY DEF Compacted
<1>3. read \subseteq ms
  BY <1>1
<1>4. idle \subseteq ms
  BY <1>3
<1>5. \A a : Newest(From(a), KeepIdle) \subseteq ms
  BY <1>1, <1>4
<1> HIDE DEF read, idle, From
<1>6. QED
  BY <1>2, <1>3, <1>5

(* The timestamp of a write is a number.                                   *)
LEMMA NowIsNat == Now \in Nat
<1>1. IsFiniteSet({p \in Procs : op[p] \notin {"idle", "write", "error"}})
  BY ProcsAssumption, FS_Subset
<1>2. Cardinality({p \in Procs : op[p] \notin {"idle", "write", "error"}}) \in Nat
  BY <1>1, FS_CardinalityType
<1>3. QED
  BY <1>2 DEF Now

(* The initial state satisfies the invariant.                              *)
LEMMA InitInv == Init => Inv
<1> SUFFICES ASSUME Init PROVE Inv
  OBVIOUS
<1>1. TypeOK
  BY DEF Init, LockInit, TypeOK, LockTypeOK, Places, Ops
<1>2. HolderOwns /\ TempsKept /\ BufHeld /\ BufCurrent /\ ReadIsSeen /\ Unwritten /\ Written
  BY DEF Init, LockInit, HolderOwns, TempsKept, BufHeld, BufCurrent, ReadIsSeen, Unwritten, Written, Ids
<1>3. QED
  BY <1>1, <1>2 DEF Inv

(* Steps of the lock that leave the file alone: a call of acquire, a crash *)
(* and the passing of the TTL.                                             *)
LEMMA LockInv ==
  ASSUME Inv, UNCHANGED inboxVars,
         (\E p \in Procs : AcquireStep(p) \/ Crash(p)) \/ Age
  PROVE  Inv'
<1>1. LockTypeOK'
  <2>1. ASSUME NEW p \in Procs, Link(p) PROVE LockTypeOK'
    <3>1. [owner |-> p, aged |-> FALSE] \in Lock
      BY DEF Lock
    <3>2. QED
      BY <2>1, <3>1 DEF Inv, TypeOK, LockTypeOK, Link, Go, Places
  <2>2. ASSUME NEW p \in Procs, Stat(p) \/ Peek(p) \/ GiveUp(p) \/ Break(p) PROVE LockTypeOK'
    BY <2>2 DEF Inv, TypeOK, LockTypeOK, Stat, Peek, GiveUp, Break, Remove, Prepare, Go, Places
  <2>3. ASSUME NEW p \in Procs, Crash(p) PROVE LockTypeOK'
    BY <2>3 DEF Inv, TypeOK, LockTypeOK, Crash, Go, Places
  <2>4. CASE Age
    <3>1. lock \in Lock /\ lock' = [lock EXCEPT !.aged = TRUE]
      BY <2>4 DEF Inv, TypeOK, LockTypeOK, Age
    <3>2. lock' \in Lock
      BY <3>1 DEF Lock
    <3>3. QED
      BY <2>4, <3>2 DEF Inv, TypeOK, LockTypeOK, Age
  <2>5. QED
    BY <2>1, <2>2, <2>3, <2>4 DEF AcquireStep
<1>2. TypeOK'
  BY <1>1 DEF Inv, TypeOK, inboxVars
<1>3. foul => foul'
  BY DEF Inv, TypeOK, LockTypeOK, AcquireStep, Link, Stat, Peek, GiveUp, Break, Remove, Crash, Age
<1>4. HolderOwns'
  <2>1. ASSUME NEW p \in Procs, Link(p) PROVE HolderOwns'
    <3>1. [owner |-> p, aged |-> FALSE] # None
      <4>1. [owner |-> p, aged |-> FALSE] \in Lock
        BY DEF Lock
      <4>2. None \notin Lock
        BY ProcsAssumption
      <4>3. QED
        BY <4>1, <4>2
    <3>2. QED
      BY <2>1, <3>1 DEF Inv, TypeOK, LockTypeOK, HolderOwns, Link, Go
  <2>2. ASSUME NEW p \in Procs, Stat(p) \/ Peek(p) \/ GiveUp(p) PROVE HolderOwns'
    BY <2>2 DEF Inv, TypeOK, LockTypeOK, HolderOwns, Stat, Peek, GiveUp, Prepare, Go
  <2>3. ASSUME NEW p \in Procs, Break(p) PROVE HolderOwns'
    <3>1. pc[p] = "break" /\ pc' = [pc EXCEPT ![p] = "link"]
          /\ foul' = (foul \/ (lock # None /\ lock.owner # p /\ Alive(lock.owner)))
      BY <2>3 DEF Break, Remove, Prepare, Go
    <3>2. QED
      BY <3>1 DEF Inv, TypeOK, LockTypeOK, HolderOwns, Alive
  <2>4. ASSUME NEW p \in Procs, Crash(p) PROVE HolderOwns'
    BY <2>4 DEF Inv, TypeOK, LockTypeOK, HolderOwns, Crash, Go
  <2>5. CASE Age
    <3>1. lock' \in Lock /\ lock'.owner = lock.owner
      <4>1. lock \in Lock /\ lock' = [lock EXCEPT !.aged = TRUE]
        BY <2>5 DEF Inv, TypeOK, LockTypeOK, Age
      <4>2. QED
        BY <4>1 DEF Lock
    <3>2. QED
      BY <2>5, <3>1, ProcsAssumption DEF Inv, HolderOwns, Age
  <2>6. QED
    BY <2>1, <2>2, <2>3, <2>4, <2>5 DEF AcquireStep
<1>5. TempsKept'
  BY DEF Inv, TypeOK, LockTypeOK, TempsKept, AcquireStep, Link, Stat, Peek, GiveUp, Break, Prepare, Crash, Age, Go
<1>6. \A p \in Procs : /\ pc[p] \in {"held", "dead"} => pc'[p] \in {"held", "dead"}
                       /\ pc'[p] = "held" /\ pc[p] # "held" => pc[p] = "link"
  BY DEF Inv, TypeOK, LockTypeOK, AcquireStep, Link, Stat, Peek, GiveUp, Break, Prepare, Crash, Age, Go
<1>7. BufHeld' /\ BufCurrent'
  BY <1>3, <1>6 DEF Inv, BufHeld, BufCurrent, inboxVars
<1>8. ReadIsSeen' /\ Unwritten' /\ Written'
  BY <1>3 DEF Inv, ReadIsSeen, Unwritten, Written, inboxVars
<1>9. QED
  BY <1>2, <1>4, <1>5, <1>7, <1>8 DEF Inv

(* Calls that begin, fail or end: the file and its copies stay as they are.*)
LEMMA CallInv ==
  ASSUME Inv, NEW p \in Procs, Start(p) \/ Fail(p) \/ Unlock(p) \/ UnlockToCompact(p)
  PROVE  Inv'
<1>1. UNCHANGED <<inbox, buf, seen>>
  BY DEF Start, Fail, Unlock, UnlockToCompact
<1>2. LockTypeOK'
  BY DEF Inv, TypeOK, LockTypeOK, Start, Begin, Fail, Unlock, UnlockToCompact, Release, Remove, Prepare, Go,
         Places, Reclaimed
<1>3. TypeOK'
  <2>1. op' \in [Procs -> Ops]
    BY DEF Inv, TypeOK, Start, Fail, Unlock, UnlockToCompact, Ops
  <2>2. QED
    BY <1>1, <1>2, <2>1 DEF Inv, TypeOK
<1>4. foul => foul'
  BY DEF Start, Begin, Fail, Unlock, UnlockToCompact, Release, Remove
<1>5. /\ \A q \in Procs : q # p => pc'[q] = pc[q] /\ op'[q] = op[q]
      /\ pc'[p] \in {"link", "out"}
  BY DEF Inv, TypeOK, LockTypeOK, Start, Begin, Fail, Unlock, UnlockToCompact, Prepare, Go
<1>6. HolderOwns'
  <2>1. CASE Start(p) \/ Fail(p)
    BY <2>1, <1>5 DEF Inv, HolderOwns, Start, Begin, Fail
  <2>2. CASE Unlock(p) \/ UnlockToCompact(p)
    <3>1. pc[p] = "held" /\ foul' = (foul \/ (lock # None /\ lock.owner # p /\ Alive(lock.owner)))
      BY <2>2 DEF Unlock, UnlockToCompact, Release, Remove
    <3>2. QED
      BY <3>1, <1>5 DEF Inv, HolderOwns
  <2>3. QED
    BY <2>1, <2>2
<1>7. TempsKept'
  <2>1. CASE Start(p) \/ UnlockToCompact(p)
    <3>1. temps' = Reclaimed(p) \cup {p}
      BY <2>1 DEF Start, Begin, UnlockToCompact, Prepare
    <3>2. QED
      BY <1>5, <3>1 DEF Inv, TypeOK, LockTypeOK, TempsKept, Reclaimed, Alive
  <2>2. CASE Fail(p) \/ Unlock(p)
    BY <2>2 DEF Inv, TypeOK, LockTypeOK, TempsKept, Fail, Unlock, Go
  <2>3. QED
    BY <2>1, <2>2
<1>8. buf[p] = None
  BY DEF Inv, BufHeld, Start, Fail, Unlock, UnlockToCompact
<1>9. BufHeld' /\ BufCurrent' /\ ReadIsSeen'
  BY <1>1, <1>4, <1>5, <1>8 DEF Inv, BufHeld, BufCurrent, ReadIsSeen
<1>10. /\ op'[p] \in {"idle", "write", "error"} => op[p] \in {"idle", "write", "error"}
       /\ op'[p] \in {"written", "overfull", "compact", "compacted", "sent"} =>
            op[p] \in {"written", "overfull", "compact", "compacted", "sent"}
  BY DEF Inv, TypeOK, Start, Fail, Unlock, UnlockToCompact
<1>11. Unwritten' /\ Written'
  BY <1>1, <1>4, <1>5, <1>10 DEF Inv, Unwritten, Written
<1>12. QED
  BY <1>3, <1>6, <1>7, <1>9, <1>11 DEF Inv

(* An operation that fails under the lock forgets its copy and releases.   *)
LEMMA FailInsideInv ==
  ASSUME Inv, NEW p \in Procs, FailInside(p)
  PROVE  Inv'
<1>1. /\ pc[p] = "held" /\ op[p] \in {"write", "compact"} /\ faults' = faults + 1
      /\ lock' = None /\ foul' = (foul \/ (lock # None /\ lock.owner # p /\ Alive(lock.owner)))
      /\ pc' = [pc EXCEPT ![p] = "out"] /\ buf' = [buf EXCEPT ![p] = None]
      /\ op' = [op EXCEPT ![p] = IF @ = "write" THEN "error" ELSE "sent"]
      /\ UNCHANGED <<temps, inbox, seen>>
  BY DEF FailInside, Release, Remove, Go
<1>2. LockTypeOK'
  BY <1>1 DEF Inv, TypeOK, LockTypeOK, Places
<1>3. TypeOK'
  <2>1. op' \in [Procs -> Ops]
    BY <1>1 DEF Inv, TypeOK, Ops
  <2>2. buf' \in [Procs -> (SUBSET Message) \cup {None}]
    BY <1>1 DEF Inv, TypeOK
  <2>3. QED
    BY <1>1, <1>2, <2>1, <2>2 DEF Inv, TypeOK
<1>4. \A q \in Procs : /\ pc'[q] = IF q = p THEN "out" ELSE pc[q]
                       /\ buf'[q] = IF q = p THEN None ELSE buf[q]
                       /\ q # p => op'[q] = op[q]
  BY <1>1 DEF Inv, TypeOK, LockTypeOK
<1>5. (foul => foul') /\ HolderOwns'
  <2>1. foul => foul'
    BY <1>1
  <2>2. ~ foul => \A q \in Procs : q # p => pc[q] # "held"
    BY <1>1 DEF Inv, HolderOwns
  <2>3. QED
    BY <1>4, <2>1, <2>2 DEF HolderOwns
<1>6. TempsKept'
  BY <1>1, <1>4 DEF Inv, TempsKept
<1>7. BufHeld' /\ BufCurrent' /\ ReadIsSeen'
  BY <1>1, <1>4, <1>5 DEF Inv, BufHeld, BufCurrent, ReadIsSeen
<1>8. /\ op'[p] \in {"idle", "write", "error"} => op[p] \in {"idle", "write", "error"}
      /\ op'[p] \in {"written", "overfull", "compact", "compacted", "sent"} => op[p] = "compact"
  BY <1>1 DEF Inv, TypeOK
<1>9. Unwritten' /\ Written'
  BY <1>1, <1>4, <1>5, <1>8 DEF Inv, Unwritten, Written
<1>10. QED
  BY <1>3, <1>5, <1>6, <1>7, <1>9 DEF Inv

(* The file is read under the lock.                                        *)
LEMMA ReadInv ==
  ASSUME Inv, NEW p \in Procs, Read(p)
  PROVE  Inv'
<1>1. pc[p] = "held" /\ op[p] \in {"write", "compact"} /\ buf' = [buf EXCEPT ![p] = inbox]
      /\ UNCHANGED <<lockVars, inbox, op, seen>>
  BY DEF Read
<1>2. TypeOK'
  BY <1>1 DEF Inv, TypeOK, LockTypeOK, lockVars
<1>3. HolderOwns' /\ TempsKept' /\ Written'
  BY <1>1 DEF Inv, HolderOwns, TempsKept, Written, lockVars
<1>4. \A q \in Procs : buf'[q] = IF q = p THEN inbox ELSE buf[q]
  BY <1>1 DEF Inv, TypeOK
<1>5. BufHeld' /\ BufCurrent' /\ ReadIsSeen' /\ Unwritten'
  BY <1>1, <1>4 DEF Inv, BufHeld, BufCurrent, ReadIsSeen, Unwritten, lockVars
<1>6. QED
  BY <1>2, <1>3, <1>5 DEF Inv

(* While p holds the lock and nobody was robbed, p alone holds it.         *)
LEMMA Alone ==
  ASSUME Inv, ~ foul, NEW p \in Procs, NEW q \in Procs, pc[p] = "held", pc[q] = "held"
  PROVE  p = q
BY DEF Inv, HolderOwns

(* What the two replacements leave in the file.                            *)
LEMMA PushedIds ==
  ASSUME NEW ms, NEW p \in Procs
  PROVE  /\ Ids(Pushed(ms, p)) = Ids(ms) \cup {p}
         /\ \A m \in Pushed(ms, p) : m \in ms \/ (m.id = p /\ ~ m.read)
<1> DEFINE new == [id |-> p, read |-> FALSE, at |-> Now]
<1>1. new.id = p /\ ~ new.read
  OBVIOUS
<1>2. Pushed(ms, p) = ms \cup {new}
  BY DEF Pushed
<1> HIDE DEF new
<1>3. \A m \in Pushed(ms, p) : m \in ms \/ (m.id = p /\ ~ m.read)
  BY <1>1, <1>2
<1>4. \A x : x \in Ids(Pushed(ms, p)) <=> x \in Ids(ms) \/ x = p
  BY <1>1, <1>2 DEF Ids
<1>5. QED
  BY <1>3, <1>4

(* The file is replaced by the copy and the new message.                   *)
LEMMA WriteInv ==
  ASSUME Inv, NEW p \in Procs, ReplaceByWrite(p)
  PROVE  Inv'
<1>1. /\ pc[p] = "held" /\ op[p] = "write" /\ buf[p] # None
      /\ inbox' = Pushed(buf[p], p) /\ buf' = [buf EXCEPT ![p] = None]
      /\ UNCHANGED <<lockVars, seen>>
      /\ \E o \in {"overfull", "written"} : op' = [op EXCEPT ![p] = o]
  BY DEF ReplaceByWrite
<1>2. /\ Ids(inbox') = Ids(buf[p]) \cup {p}
      /\ \A m \in inbox' : m \in buf[p] \/ (m.id = p /\ ~ m.read)
  BY <1>1, PushedIds
<1>3. TypeOK'
  <2>1. buf[p] \subseteq Message
    BY <1>1 DEF Inv, TypeOK
  <2>2. [id |-> p, read |-> FALSE, at |-> Now] \in Message
    BY NowIsNat DEF Message
  <2>3. inbox' \subseteq Message
    BY <1>1, <2>1, <2>2 DEF Pushed
  <2>4. op' \in [Procs -> Ops] /\ buf' \in [Procs -> (SUBSET Message) \cup {None}]
    BY <1>1 DEF Inv, TypeOK, Ops
  <2>5. QED
    BY <1>1, <2>3, <2>4 DEF Inv, TypeOK, LockTypeOK, lockVars
<1>4. HolderOwns' /\ TempsKept'
  BY <1>1 DEF Inv, HolderOwns, TempsKept, lockVars
<1>5. /\ \A q \in Procs : buf'[q] = IF q = p THEN None ELSE buf[q]
      /\ \A q \in Procs : q # p => op'[q] = op[q]
      /\ op'[p] \in {"overfull", "written"}
  BY <1>1 DEF Inv, TypeOK
<1>6. BufHeld'
  BY <1>1, <1>5 DEF Inv, BufHeld, lockVars
<1>7. BufCurrent'
  BY <1>1, <1>5, Alone DEF BufCurrent, lockVars
<1>8. ReadIsSeen'
  BY <1>1, <1>2, <1>5 DEF Inv, ReadIsSeen
<1>9. Unwritten'
  BY <1>1, <1>2, <1>5 DEF Inv, Unwritten
<1>10. Written'
  <2>1. ~ foul => Ids(inbox) \subseteq Ids(inbox') /\ p \in Ids(inbox')
    BY <1>1, <1>2 DEF Inv, BufCurrent
  <2>2. QED
    BY <1>1, <1>5, <2>1 DEF Inv, Written, lockVars
<1>11. QED
  BY <1>3, <1>4, <1>6, <1>7, <1>8, <1>9, <1>10 DEF Inv

(* What a compaction drops was seen.                                       *)
LEMMA CompactionDrops ==
  ASSUME Inv, NEW p \in Procs, ReplaceByCompaction(p)
  PROVE  /\ inbox' \subseteq buf[p]
         /\ Ids(inbox') \subseteq Ids(buf[p])
         /\ Ids(buf[p]) \subseteq Ids(inbox') \cup seen
<1>1. inbox' \subseteq buf[p] /\ \A m \in buf[p] : ~ m.read => m \in inbox'
  BY CompactedSubset DEF ReplaceByCompaction
<1>2. \A m \in buf[p] : m.read => m.id \in seen
  BY DEF Inv, ReadIsSeen, ReplaceByCompaction
<1>3. QED
  BY <1>1, <1>2 DEF Ids

(* The file is replaced by the compacted copy.                             *)
LEMMA CompactionInv ==
  ASSUME Inv, NEW p \in Procs, ReplaceByCompaction(p)
  PROVE  Inv'
<1>1. /\ pc[p] = "held" /\ op[p] = "compact" /\ buf[p] # None
      /\ op' = [op EXCEPT ![p] = "compacted"] /\ buf' = [buf EXCEPT ![p] = None]
      /\ UNCHANGED <<lockVars, seen>>
  BY DEF ReplaceByCompaction
<1>2. /\ inbox' \subseteq buf[p]
      /\ Ids(inbox') \subseteq Ids(buf[p])
      /\ Ids(buf[p]) \subseteq Ids(inbox') \cup seen
  BY CompactionDrops
<1>3. TypeOK'
  <2>1. inbox' \subseteq Message
    BY <1>1, <1>2 DEF Inv, TypeOK
  <2>2. op' \in [Procs -> Ops] /\ buf' \in [Procs -> (SUBSET Message) \cup {None}]
    BY <1>1 DEF Inv, TypeOK, Ops
  <2>3. QED
    BY <1>1, <2>1, <2>2 DEF Inv, TypeOK, LockTypeOK, lockVars
<1>4. HolderOwns' /\ TempsKept'
  BY <1>1 DEF Inv, HolderOwns, TempsKept, lockVars
<1>5. /\ \A q \in Procs : buf'[q] = IF q = p THEN None ELSE buf[q]
      /\ \A q \in Procs : op'[q] = IF q = p THEN "compacted" ELSE op[q]
  BY <1>1 DEF Inv, TypeOK
<1>6. BufHeld'
  BY <1>1, <1>5 DEF Inv, BufHeld, lockVars
<1>7. BufCurrent'
  BY <1>1, <1>5, Alone DEF BufCurrent, lockVars
<1>8. ReadIsSeen'
  BY <1>1, <1>2, <1>5 DEF Inv, ReadIsSeen
<1>9. Unwritten'
  BY <1>1, <1>2, <1>5 DEF Inv, Unwritten
<1>10. Written'
  <2>1. ~ foul => Ids(inbox) \subseteq Ids(inbox') \cup seen
    BY <1>1, <1>2 DEF Inv, BufCurrent
  <2>2. QED
    BY <1>1, <1>5, <2>1 DEF Inv, Written, lockVars
<1>11. QED
  BY <1>3, <1>4, <1>6, <1>7, <1>8, <1>9, <1>10 DEF Inv

(* The recipient marks a message as read.                                  *)
LEMMA MarkReadInv ==
  ASSUME Inv, NEW m \in inbox, MarkRead(m)
  PROVE  Inv' /\ Ids(inbox') = Ids(inbox)
<1>1. /\ inbox' = (inbox \ {m}) \cup {[m EXCEPT !.read = TRUE]}
      /\ seen' = seen \cup {m.id} /\ UNCHANGED <<lockVars, buf, op>>
  BY DEF MarkRead
<1>2. m \in Message
  BY DEF Inv, TypeOK
<1>3. [m EXCEPT !.read = TRUE] \in Message /\ [m EXCEPT !.read = TRUE].id = m.id
  BY <1>2 DEF Message
<1>4. Ids(inbox') = Ids(inbox)
  BY <1>1, <1>3 DEF Ids
<1>5. TypeOK'
  <2>1. m.id \in Procs
    BY <1>2 DEF Message
  <2>2. QED
    BY <1>1, <1>3, <2>1 DEF Inv, TypeOK, LockTypeOK, lockVars
<1>6. HolderOwns' /\ TempsKept' /\ BufHeld'
  BY <1>1 DEF Inv, HolderOwns, TempsKept, BufHeld, lockVars
<1>7. BufCurrent' /\ Unwritten' /\ Written'
  BY <1>1, <1>4 DEF Inv, BufCurrent, Unwritten, Written, lockVars
<1>8. ReadIsSeen'
  BY <1>1, <1>3 DEF Inv, ReadIsSeen
<1>9. QED
  BY <1>4, <1>5, <1>6, <1>7, <1>8 DEF Inv

(* Every step preserves the invariant.                                     *)
LEMMA NextInv == Inv /\ [Next]_vars => Inv'
<1> SUFFICES ASSUME Inv, [Next]_vars PROVE Inv'
  OBVIOUS
<1>1. ASSUME NEW p \in Procs, Step(p) PROVE Inv'
  BY <1>1, CallInv, FailInsideInv, ReadInv, WriteInv, CompactionInv, LockInv DEF Step, Contend
<1>2. CASE ((\E p \in Procs : Crash(p)) \/ Age) /\ UNCHANGED inboxVars
  BY <1>2, LockInv
<1>3. ASSUME NEW m \in inbox, MarkRead(m) PROVE Inv'
  BY <1>3, MarkReadInv
<1>4. CASE UNCHANGED vars
  BY <1>4 DEF vars, lockVars, inboxVars, Inv, TypeOK, LockTypeOK, HolderOwns, TempsKept, BufHeld, BufCurrent,
              ReadIsSeen, Unwritten, Written
<1>5. QED
  BY <1>1, <1>2, <1>3, <1>4 DEF Next

(* The inductive invariant holds always.                                   *)
THEOREM InvAlways == Spec => []Inv
BY InitInv, NextInv, PTL DEF Spec

(* The lock file, the temporary files, the inbox and the copies have their *)
(* types (file_lock.rs, inbox.rs).                                         *)
THEOREM InboxTyped == Spec => []TypeOK
<1>1. Inv => TypeOK
  BY DEF Inv
<1>2. QED
  BY <1>1, InvAlways, PTL

(* reclaim_orphaned_lock_temps never removes the temporary file of a live  *)
(* contender.                                                              *)
THEOREM TempsOfLiveKept == Spec => []TempsKept
<1>1. Inv => TempsKept
  BY DEF Inv
<1>2. QED
  BY <1>1, InvAlways, PTL

-----------------------------------------------------------------------------
(* The refinement: an initial state maps to an initial state ...           *)
LEMMA InitMaps == Init => M!Init
BY DEF Init, LockInit, M!Init, Ids

(* ... and every step to a step of Mailbox or a stutter.                   *)
LEMMA StepMaps == Inv /\ [Next]_vars => [M!Next]_(M!vars)
<1> SUFFICES ASSUME Inv, [Next]_vars PROVE [M!Next]_(M!vars)
  OBVIOUS
<1> DEFINE Acked == {p \in Procs : op[p] = "sent"}
<1>1. CASE foul'
  BY <1>1 DEF M!Next, M!Waived
<1>2. ASSUME UNCHANGED inboxVars, UNCHANGED foul
      PROVE  UNCHANGED M!vars
  BY <1>2 DEF M!vars, inboxVars
<1>3. CASE ~ foul'
  <2>1. ~ foul /\ UNCHANGED foul
    <3>1. foul \in BOOLEAN /\ foul' \in BOOLEAN
      BY NextInv DEF Inv, TypeOK, LockTypeOK
    <3>2. foul => foul'
      BY DEF Next, vars, lockVars, Step, Start, Begin, Contend, AcquireStep, Link, Stat, Peek, GiveUp, Break, Remove,
             Fail, FailInside, Read, ReplaceByWrite, ReplaceByCompaction, Unlock, UnlockToCompact, Release, Crash, Age, MarkRead
    <3>3. QED
      BY <1>3, <3>1, <3>2
  <2>2. ASSUME NEW p \in Procs, Step(p) PROVE [M!Next]_(M!vars)
    <3>1. CASE Contend(p)
      BY <3>1, <2>1, <1>2 DEF Contend
    <3>2. CASE Start(p) \/ Read(p)
      <4>1. UNCHANGED <<inbox, seen>> /\ Acked' = Acked
        BY <3>2 DEF Start, Read, Inv, TypeOK
      <4>2. QED
        BY <2>1, <4>1 DEF M!vars
    <3>3. CASE Fail(p) \/ FailInside(p) \/ Unlock(p) \/ UnlockToCompact(p)
      <4>1. UNCHANGED <<inbox, seen>>
        BY <3>3 DEF Fail, FailInside, Unlock, UnlockToCompact
      <4>2. CASE op'[p] = "sent"
        <5>1. Acked' = Acked \cup {p}
          BY <3>3, <4>2 DEF Fail, FailInside, Unlock, UnlockToCompact, Inv, TypeOK
        <5>2. op[p] \in {"compact", "written", "compacted"}
          BY <3>3, <4>2 DEF Fail, FailInside, Unlock, UnlockToCompact, Inv, TypeOK
        <5>3. p \in Ids(inbox) \cup seen
          BY <2>1, <5>2 DEF Inv, Written
        <5>4. QED
          BY <2>1, <4>1, <5>1, <5>3 DEF M!Next, M!Ack
      <4>3. CASE op'[p] # "sent"
        <5>1. Acked' = Acked
          BY <3>3, <4>3 DEF Fail, FailInside, Unlock, UnlockToCompact, Inv, TypeOK
        <5>2. QED
          BY <2>1, <4>1, <5>1 DEF M!vars
      <4>4. QED
        BY <4>2, <4>3
    <3>4. CASE ReplaceByWrite(p)
      <4>1. Ids(inbox') = Ids(inbox) \cup {p}
        BY <2>1, <3>4, PushedIds DEF ReplaceByWrite, Inv, BufCurrent
      <4>2. p \notin Ids(inbox) /\ p \notin Acked /\ Acked' = Acked /\ seen' = seen
        BY <3>4 DEF ReplaceByWrite, Inv, TypeOK, Unwritten
      <4>3. QED
        BY <2>1, <4>1, <4>2 DEF M!Next, M!Post
    <3>5. CASE ReplaceByCompaction(p)
      <4>1. Ids(inbox') \subseteq Ids(inbox) /\ Ids(inbox) \ Ids(inbox') \subseteq seen
        BY <2>1, <3>5, CompactionDrops DEF ReplaceByCompaction, Inv, BufCurrent
      <4>2. Acked' = Acked /\ seen' = seen
        BY <3>5 DEF ReplaceByCompaction, Inv, TypeOK
      <4>3. QED
        BY <2>1, <4>1, <4>2 DEF M!Next, M!Forget
    <3>6. QED
      BY <2>2, <3>1, <3>2, <3>3, <3>4, <3>5 DEF Step
  <2>3. ASSUME NEW m \in inbox, MarkRead(m) PROVE [M!Next]_(M!vars)
    <3>1. Ids(inbox') = Ids(inbox)
      BY <2>3, MarkReadInv
    <3>2. m.id \in Ids(inbox) /\ m.id \in Procs
      BY DEF Ids, Inv, TypeOK, Message
    <3>3. seen' = seen \cup {m.id} /\ Acked' = Acked
      BY <2>3 DEF MarkRead
    <3>4. QED
      BY <2>1, <3>1, <3>2, <3>3 DEF M!Next, M!See
  <2>4. CASE UNCHANGED inboxVars
    BY <2>1, <2>4, <1>2
  <2>5. QED
    BY <2>2, <2>3, <2>4 DEF Next, vars
<1>4. QED
  BY <1>1, <1>3

(* An inbox file keeps every message whose write returned Ok until the     *)
(* recipient has seen it, through concurrent writers, crashes, breakings   *)
(* of stale locks and compactions, until a live process is robbed of the   *)
(* lock (write_to_inbox, compact_inbox_at_base).                           *)
THEOREM InboxIsMailbox == Spec => ImplementsMailbox
<1>1. Inv /\ [Next]_vars => [M!Next]_(M!vars)
  BY StepMaps
<1>2. Spec => M!Init /\ [][M!Next]_(M!vars)
  BY <1>1, InitMaps, InvAlways, PTL DEF Spec
<1>3. QED
  BY <1>2 DEF ImplementsMailbox, M!Spec

(* A message whose write returned Ok is in the inbox file or was seen.     *)
AckedInBox == ~ foul => \A p \in Procs : op[p] = "sent" => p \in Ids(inbox) \cup seen

(* No acknowledged message is lost before its recipient has seen it, as    *)
(* long as no live process was robbed of the lock: what the promise of     *)
(* Mailbox means for the file (write_to_inbox, compact_inbox_at_base).     *)
THEOREM AckedKept == Spec => []AckedInBox
<1> DEFINE Acked == {p \in Procs : op[p] = "sent"}
           Safe  == foul \/ Acked \subseteq Ids(inbox) \cup seen
<1>1. M!Init => Safe
  BY DEF M!Init
<1>2. Safe /\ [M!Next]_(M!vars) => Safe'
  BY DEF M!Next, M!vars, M!Post, M!Ack, M!See, M!Forget, M!Waived
<1>3. Safe => AckedInBox
  BY DEF AckedInBox
<1>4. ImplementsMailbox => []Safe
  BY <1>1, <1>2, PTL DEF ImplementsMailbox, M!Spec
<1>5. QED
  BY <1>3, <1>4, InboxIsMailbox, PTL
=============================================================================
