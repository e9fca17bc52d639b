--------------------------- MODULE GitLocksProofs ---------------------------
(* Proofs about GitLocks: only dead and empty locks go to quarantine and     *)
(* every receipt is backed by its evidence, for any number of git processes, *)
(* supervised or not, lock files, crashes, failures and removals.            *)
EXTENDS GitLocks, TLAPS

(* A supervised process has the lease of its server; its proof is written    *)
(* once, after its start.                                                    *)
Supervision ==
  \A g \in Managed :
    /\ sup[g] # "no" => lease = g
    /\ sup[g] \in {"spawned", "watching"} => proof[g] = None
    /\ sup[g] \in {"watching", "proved"} => g \in started

(* While init works it has the lease.                                        *)
InitHasLease == pc \notin Ended => lease = Init_

(* A proof names a file that its process created.                            *)
ProofsOwned ==
  \A g \in Managed : proof[g] # None =>
    g \in started /\ owner[proof[g].file] = g /\ group[g] # "none"

(* From the intent to the receipt init holds the snapshot of an empty lock   *)
(* whose process is gone; nobody is left who would touch the file at         *)
(* index.lock between the last look at it and the rename.                    *)
Acting == {"intend", "revalidate", "move", "rename", "recheck"}
InHand(g) ==
  /\ proof[g] = seen /\ group[g] = "gone"
  /\ pc # "intend" => g \in Range(intents)
  /\ pc \in {"move", "rename"} => lock = seen.file /\ size[lock] = "empty"
InitActs ==
  /\ pc = "prove" => seen \in Snapshots
  /\ pc \in Acting => /\ seen \in Snapshots /\ seen.size = "empty"
                      /\ \E g \in Managed : InHand(g)

(* The file in the quarantine of a proof is the proven file.                 *)
QuarantineProven ==
  \A g \in Managed : quarantine[g] # None =>
    proof[g] # None /\ quarantine[g] = proof[g].file

(* The inductive invariant.  QuarantineIsDead needs InitActs (what is at     *)
(* index.lock when init renames it), which needs that the ledger stands      *)
(* still while init has the lease and that a group that is gone owns the     *)
(* file; ReceiptIsBacked needs QuarantineProven.                             *)
Inv == /\ TypeOK
       /\ Supervision
       /\ InitHasLease
       /\ ProofsOwned
       /\ InitActs
       /\ QuarantineProven
       /\ QuarantineIsDead
       /\ ReceiptIsBacked

(* None is no snapshot, and a process of init is no git process.             *)
LEMMA NoneIsNoSnapshot ==
  None \notin Files /\ None \notin Gits /\ None \notin Snapshots /\ Init_ \notin Managed /\ None # Init_
BY ProcessesDiffer, NoneIsNone

(* What append_audit_once leaves in the log.                                 *)
LEMMA OnceAppends ==
  ASSUME NEW log \in Seq(Managed), NEW g \in Managed
  PROVE  /\ Once(log, g) \in Seq(Managed)
         /\ Range(Once(log, g)) = Range(log) \cup {g}
         /\ \A n \in 1..Len(Once(log, g)) :
              Once(log, g)[n] = g \/ \E m \in 1..Len(log) : Once(log, g)[n] = log[m]
<1>1. CASE \E n \in 1..Len(log) : log[n] = g
  BY <1>1 DEF Once, Range
<1>2. CASE ~ \E n \in 1..Len(log) : log[n] = g
  <2>1. Once(log, g) = Append(log, g)
    BY <1>2 DEF Once
  <2>2. /\ Append(log, g) \in Seq(Managed) /\ Len(Append(log, g)) = Len(log) + 1
        /\ \A n \in 1..Len(log) : Append(log, g)[n] = log[n]
        /\ Append(log, g)[Len(log) + 1] = g
        /\ DOMAIN Append(log, g) = 1..(Len(log) + 1) /\ DOMAIN log = 1..Len(log) /\ Len(log) \in Nat
    OBVIOUS
  <2>3. Range(Append(log, g)) = Range(log) \cup {g}
    <3>1. \A x : x \in Range(Append(log, g)) <=> \E n \in 1..(Len(log) + 1) : x = Append(log, g)[n]
      BY <2>2 DEF Range
    <3>2. \A x : x \in Range(log) <=> \E n \in 1..Len(log) : x = log[n]
      BY <2>2 DEF Range
    <3>3. \A n : n \in 1..(Len(log) + 1) <=> n \in 1..Len(log) \/ n = Len(log) + 1
      BY <2>2
    <3>4. QED
      BY <2>2, <3>1, <3>2, <3>3
  <2>4. QED
    BY <2>1, <2>2, <2>3
<1>3. QED
  BY <1>1, <1>2

(* The proof that init works with determines its process.                    *)
LEMMA ProvenIs ==
  ASSUME TypeOK, ProofsOwned, NEW g \in Managed, proof[g] = seen, seen # None
  PROVE  Proven = g
<1>1. \A h \in Managed : proof[h] = seen => h = g
  BY DEF ProofsOwned
<1>2. QED
  BY <1>1 DEF Proven

(* The initial state satisfies the invariant.                                *)
LEMMA InitInv == Init => Inv
<1> SUFFICES ASSUME Init PROVE Inv
  OBVIOUS
<1>1. TypeOK
  <2>1. owner \in [Files -> Gits \cup {None}] /\ size \in [Files -> Sizes] /\ group \in [Gits -> {"none", "git", "helper", "gone"}]
    BY DEF Init, Sizes
  <2>2. /\ sup \in [Managed -> {"no", "spawned", "watching", "proved", "stopping"}]
        /\ proof \in [Managed -> Snapshots \cup {None}] /\ quarantine \in [Managed -> Files \cup {None}]
    BY DEF Init
  <2>3. intents \in Seq(Managed) /\ receipts \in Seq(Managed) /\ started \subseteq Managed
    BY DEF Init
  <2>4. mishaps \in 0..MaxMishaps
    BY BoundsAreNat DEF Init
  <2>5. QED
    BY <2>1, <2>2, <2>3, <2>4 DEF Init, TypeOK, Ended
<1>2. Supervision /\ InitHasLease /\ ProofsOwned /\ InitActs
  BY DEF Init, Supervision, InitHasLease, ProofsOwned, InitActs, Acting, Ended
<1>3. QuarantineProven /\ QuarantineIsDead
  BY DEF Init, QuarantineProven, QuarantineIsDead
<1>4. ReceiptIsBacked
  BY DEF Init, ReceiptIsBacked
<1>5. QED
  BY <1>1, <1>2, <1>3, <1>4 DEF Inv

(* Steps of git: TakeLock, WriteLock, DropLock, GitEnds.                     *)
LEMMA GitInv ==
  ASSUME Inv, NEW g \in Gits, Git(g)
  PROVE  Inv'
<1> USE NoneIsNoSnapshot DEF Gits
<1>1. TypeOK'
  <2>1. CASE TakeLock(g)
    BY <2>1 DEF Inv, TypeOK, TakeLock, disk, init, ledger
  <2>2. CASE WriteLock(g)
    BY <2>2 DEF Inv, TypeOK, WriteLock, Sizes, disk, init, ledger
  <2>3. CASE DropLock(g)
    BY <2>3 DEF Inv, TypeOK, DropLock, disk, init, ledger
  <2>4. CASE GitEnds(g)
    BY <2>4 DEF Inv, TypeOK, GitEnds, disk, init, ledger
  <2>5. QED
    BY <2>1, <2>2, <2>3, <2>4 DEF Git
<1>2. Supervision' /\ InitHasLease' /\ ReceiptIsBacked' /\ QuarantineProven'
  BY DEF Inv, Git, TakeLock, WriteLock, DropLock, GitEnds, disk, init, ledger, Supervision, InitHasLease,
         ReceiptIsBacked, QuarantineProven, Range
<1>7. UNCHANGED <<proof, quarantine, started>>
  BY DEF Git, TakeLock, WriteLock, DropLock, GitEnds, disk, ledger
<1>8. \A f \in Files : owner[f] # None => owner'[f] = owner[f]
  <2>1. CASE TakeLock(g)
    <3>1. PICK f \in Files : /\ \A e \in Files : owner[e] = None <=> e >= f
                            /\ owner' = [owner EXCEPT ![f] = g]
      BY <2>1 DEF TakeLock
    <3>2. f >= f
      BY BoundsAreNat DEF Files
    <3>3. owner[f] = None
      BY <3>1, <3>2
    <3>4. QED
      BY <3>1, <3>3 DEF Inv, TypeOK
  <2>2. QED
    BY <2>1 DEF Git, WriteLock, DropLock, GitEnds, disk
<1>9. \A h \in Gits : /\ group[h] = "gone" => group'[h] = "gone"
                      /\ group[h] # "none" => group'[h] # "none"
  BY DEF Inv, TypeOK, Git, TakeLock, WriteLock, DropLock, GitEnds, Running
<1>10. \A f \in Files : owner[f] # None /\ group[owner[f]] = "gone" => size'[f] = size[f]
  BY DEF Inv, TypeOK, Git, TakeLock, WriteLock, DropLock, GitEnds, disk, Running
<1>3. ProofsOwned'
  <2>1. \A h \in Managed : proof[h] # None => proof[h].file \in Files
    BY DEF Inv, TypeOK, Snapshots
  <2>2. QED
    BY <1>7, <1>8, <1>9, <2>1 DEF Inv, ProofsOwned
<1>4. QuarantineIsDead'
  <2>1. \A h \in Managed : quarantine[h] # None => quarantine[h] \in Files
    BY DEF Inv, TypeOK
  <2>2. QED
    BY <1>7, <1>8, <1>9, <1>10, <2>1 DEF Inv, QuarantineIsDead
<1>5. InitActs'
  <2>1. SUFFICES ASSUME pc \in Acting
                 PROVE  /\ seen \in Snapshots /\ seen.size = "empty"
                        /\ \E h \in Managed : InHand(h)'
    BY DEF Inv, Git, TakeLock, WriteLock, DropLock, GitEnds, init, InitActs
  <2>2. PICK h \in Managed : InHand(h)
    BY <2>1 DEF Inv, InitActs
  <2>3. owner[seen.file] = h /\ seen.file # None /\ group[h] = "gone"
    BY <2>1, <2>2 DEF Inv, TypeOK, InitActs, InHand, ProofsOwned, Snapshots
  <2>4. UNCHANGED <<pc, seen, proof, intents>>
    BY DEF Git, TakeLock, WriteLock, DropLock, GitEnds, init, ledger
  <2>5. group'[h] = "gone"
    BY <2>3 DEF Inv, TypeOK, Git, TakeLock, WriteLock, DropLock, GitEnds, Running
  <2>6. lock = seen.file /\ size[lock] = "empty" => lock' = seen.file /\ size'[lock'] = "empty"
    <3>1. seen.file \in Files
      BY <2>1 DEF Inv, InitActs, Snapshots
    <3>2. QED
      BY <2>3, <3>1, <1>10 DEF Inv, TypeOK, Git, TakeLock, WriteLock, DropLock, GitEnds, disk, Running
  <2>7. InHand(h)'
    BY <2>2, <2>4, <2>5, <2>6 DEF InHand
  <2>8. QED
    BY <2>1, <2>7 DEF Inv, InitActs
<1>6. QED
  BY <1>1, <1>2, <1>3, <1>4, <1>5 DEF Inv

(* Steps of the server: nobody but the server has the lease, so init is not  *)
(* at work.                                                                  *)
LEMMA SuperviseInv ==
  ASSUME Inv, NEW g \in Managed, Supervise(g)
  PROVE  Inv'
<1> USE NoneIsNoSnapshot
<1>1. pc \in Ended /\ pc' = pc /\ seen' = seen /\ late' = late
  BY DEF Inv, InitHasLease, Supervision, Supervise, Spawn, record_started, record_started_Fails, observe_lock, Stop,
         stop_process_group, init
<1>2. UNCHANGED <<lock, owner, size, quarantine, intents, receipts>>
  BY DEF Supervise, Spawn, record_started, record_started_Fails, observe_lock, Stop, stop_process_group, disk, ledger
<1>3. InitHasLease' /\ InitActs'
  BY <1>1 DEF InitHasLease, InitActs, Ended, Acting
<1>4. TypeOK'
  <2>1. CASE Spawn(g)
    BY <1>1, <1>2, <2>1 DEF Inv, TypeOK, Spawn, ledger, Gits
  <2>2. CASE record_started(g)
    BY <1>1, <1>2, <2>2 DEF Inv, TypeOK, record_started
  <2>3. CASE record_started_Fails(g)
    BY <1>1, <1>2, <2>3, BoundsAreNat DEF Inv, TypeOK, record_started_Fails, Mishap, ledger
  <2>4. CASE observe_lock(g)
    <3>1. Snapshot(lock) \in Snapshots
      BY <2>4 DEF Inv, TypeOK, observe_lock, Snapshot, Snapshots
    <3>2. QED
      BY <1>1, <1>2, <2>4, <3>1 DEF Inv, TypeOK, observe_lock
  <2>5. CASE Stop(g)
    BY <1>1, <1>2, <2>5 DEF Inv, TypeOK, Stop, ledger
  <2>6. CASE stop_process_group(g)
    BY <1>1, <1>2, <2>6 DEF Inv, TypeOK, stop_process_group, ledger, Gits
  <2>7. QED
    BY <2>1, <2>2, <2>3, <2>4, <2>5, <2>6 DEF Supervise
<1>5. \A h \in Managed : /\ h # g => proof'[h] = proof[h]
                         /\ proof[h] # None => proof'[h] = proof[h]
                         /\ h \in started => h \in started'
                         /\ group[h] = "gone" => group'[h] = "gone"
                         /\ group[h] # "none" => group'[h] # "none"
  BY DEF Inv, TypeOK, Supervision, Supervise, Spawn, record_started, record_started_Fails, observe_lock, Stop,
         stop_process_group, ledger, Gits
<1>6. Supervision'
  <2>1. CASE Spawn(g)
    <3>1. \A h \in Managed : sup[h] = "no"
      BY <2>1 DEF Inv, Supervision, Spawn, Gits
    <3>2. QED
      BY <2>1, <3>1 DEF Inv, TypeOK, Supervision, Spawn, ledger, ProofsOwned
  <2>2. CASE record_started(g) \/ record_started_Fails(g) \/ observe_lock(g) \/ Stop(g)
    BY <2>2 DEF Inv, TypeOK, Supervision, record_started, record_started_Fails, observe_lock, Stop, ledger
  <2>3. CASE stop_process_group(g)
    BY <2>3 DEF Inv, TypeOK, Supervision, stop_process_group, ledger
  <2>4. QED
    BY <2>1, <2>2, <2>3 DEF Supervise
<1>7. ProofsOwned'
  <2>1. CASE observe_lock(g)
    <3>1. proof'[g].file = lock /\ owner[lock] = g /\ group'[g] = "git" /\ g \in started'
      BY <2>1 DEF Inv, TypeOK, Supervision, observe_lock, Snapshot, ledger
    <3>2. QED
      BY <1>2, <1>5, <3>1 DEF Inv, ProofsOwned
  <2>2. CASE ~observe_lock(g)
    <3>1. proof' = proof
      BY <2>2 DEF Supervise, Spawn, record_started, record_started_Fails, Stop, stop_process_group, ledger
    <3>2. QED
      BY <1>2, <1>5, <3>1 DEF Inv, ProofsOwned
  <2>3. QED
    BY <2>1, <2>2
<1>8. QuarantineProven' /\ QuarantineIsDead'
  BY <1>2, <1>5 DEF Inv, QuarantineProven, QuarantineIsDead
<1>9. ReceiptIsBacked'
  BY <1>2, <1>5 DEF Inv, TypeOK, ReceiptIsBacked
<1>10. QED
  BY <1>3, <1>4, <1>6, <1>7, <1>8, <1>9 DEF Inv

(* While init works no process is supervised.                                *)
LEMMA NoSupervision ==
  ASSUME Inv, pc \notin Ended
  PROVE  lease = Init_ /\ \A g \in Managed : sup[g] = "no"
BY NoneIsNoSnapshot DEF Inv, InitHasLease, Supervision

(* What a step of init leaves alone.                                         *)
LEMMA InitFrame ==
  ASSUME Inv, pc \notin Ended, UNCHANGED <<owner, group, sup, started, proof>>,
         pc' \notin Ended => lease' = lease
  PROVE  Supervision' /\ InitHasLease' /\ ProofsOwned'
BY NoSupervision DEF Inv, Supervision, InitHasLease, ProofsOwned

(* A verdict ends the run of init, with or without a new receipt.            *)
LEMMA AnswerInv ==
  ASSUME Inv, pc \notin Ended, NEW v, Answer(v),
         UNCHANGED <<disk, group, sup, started, proof, intents>>,
         mishaps' \in 0..MaxMishaps,
         receipts' \in Seq(Managed), ReceiptIsBacked'
  PROVE  Inv'
<1>1. Supervision' /\ InitHasLease' /\ ProofsOwned'
  BY InitFrame DEF Answer, Ended, disk
<1>2. TypeOK'
  BY DEF Inv, TypeOK, Answer, disk, Ended
<1>3. InitActs'
  BY DEF Answer, InitActs, Acting
<1>4. QuarantineProven' /\ QuarantineIsDead'
  BY DEF Inv, QuarantineProven, QuarantineIsDead, disk
<1>5. QED
  BY <1>1, <1>2, <1>3, <1>4 DEF Inv

(* A step of init that only moves on.                                        *)
LEMMA MoveOnInv ==
  ASSUME Inv, pc \notin Ended, pc' \notin Ended, TypeOK', InitActs',
         UNCHANGED <<disk, group, sup, lease, started, proof, receipts>>,
         Range(intents) \subseteq Range(intents')
  PROVE  Inv'
<1>1. Supervision' /\ InitHasLease' /\ ProofsOwned'
  BY InitFrame DEF disk
<1>2. QuarantineProven' /\ QuarantineIsDead'
  BY DEF Inv, QuarantineProven, QuarantineIsDead, disk
<1>3. ReceiptIsBacked'
  BY DEF Inv, ReceiptIsBacked, disk
<1>4. QED
  BY <1>1, <1>2, <1>3 DEF Inv

(* A busy verdict ends the run or starts it over.                            *)
LEMMA BusyInv ==
  ASSUME Inv, pc \notin Ended, Busy, UNCHANGED <<disk, group, sup, ledger, mishaps>>
  PROVE  Inv'
<1>1. CASE Answer("busy")
  BY <1>1, AnswerInv DEF ledger, Inv, TypeOK, ReceiptIsBacked, disk
<1>2. CASE To("look")
  <2>1. TypeOK' /\ InitActs' /\ pc' \notin Ended
    BY <1>2 DEF Inv, TypeOK, To, disk, ledger, InitActs, Acting, Ended
  <2>2. QED
    BY <1>2, <2>1, MoveOnInv DEF To, ledger
<1>3. QED
  BY <1>1, <1>2 DEF Busy

(* A verdict that writes nothing.                                            *)
LEMMA PlainAnswerInv ==
  ASSUME Inv, pc \notin Ended, NEW v, Answer(v), UNCHANGED <<disk, group, sup, ledger>>,
         mishaps' \in 0..MaxMishaps
  PROVE  Inv'
<1>1. ReceiptIsBacked' /\ receipts' \in Seq(Managed)
  BY DEF Inv, TypeOK, ReceiptIsBacked, ledger, disk
<1>2. QED
  BY <1>1, AnswerInv DEF ledger

(* A verdict with the receipt of a file found in its quarantine.             *)
LEMMA ReceiptInv ==
  ASSUME Inv, pc \notin Ended, NEW v, Answer(v), NEW g \in Managed,
         SameFile(g), g \in Range(intents), receipts' = Once(receipts, g),
         UNCHANGED <<disk, group, sup, started, proof, intents, mishaps>>
  PROVE  Inv'
<1>1. /\ receipts' \in Seq(Managed)
      /\ \A n \in 1..Len(receipts') : receipts'[n] = g \/ \E m \in 1..Len(receipts) : receipts'[n] = receipts[m]
  <2>1. receipts \in Seq(Managed)
    BY DEF Inv, TypeOK
  <2>2. /\ Once(receipts, g) \in Seq(Managed)
        /\ \A n \in 1..Len(Once(receipts, g)) :
             Once(receipts, g)[n] = g \/ \E m \in 1..Len(receipts) : Once(receipts, g)[n] = receipts[m]
    BY <2>1, OnceAppends
  <2>3. QED
    BY <2>2
<1>2. /\ g \in started /\ proof[g] # None /\ quarantine[g] = proof[g].file
  BY DEF Inv, SameFile, QuarantineProven, ProofsOwned
<1>3. ReceiptIsBacked'
  <2>1. \A m \in 1..Len(receipts) : LET h == receipts[m] IN
          h \in started /\ h \in Range(intents) /\ proof[h] # None /\ quarantine[h] = proof[h].file
    BY DEF Inv, ReceiptIsBacked
  <2>2. UNCHANGED <<started, intents, proof, quarantine>>
    BY DEF disk
  <2>3. ASSUME NEW n \in 1..Len(receipts')
        PROVE  LET h == receipts'[n] IN
               h \in started /\ h \in Range(intents) /\ proof[h] # None /\ quarantine[h] = proof[h].file
    BY <1>1, <1>2, <2>1, <2>3
  <2>4. QED
    BY <2>2, <2>3 DEF ReceiptIsBacked
<1>4. QED
  BY <1>1, <1>3, AnswerInv DEF Inv, TypeOK

(* Begin, Deadline and Look: init takes the lease and looks at the lock.     *)
LEMMA LookInv ==
  ASSUME Inv, Begin \/ Deadline \/ Look
  PROVE  Inv'
<1>1. CASE Begin
  <2>1. \A g \in Managed : sup[g] = "no"
    BY <1>1, NoneIsNoSnapshot DEF Inv, Supervision, Begin, Gits
  <2>2. TypeOK' /\ InitHasLease' /\ InitActs' /\ Supervision' /\ ProofsOwned'
    BY <1>1, <2>1 DEF Inv, TypeOK, Begin, InitHasLease, InitActs, Acting, Ended, Supervision, ProofsOwned, disk, ledger
  <2>3. QuarantineProven' /\ QuarantineIsDead' /\ ReceiptIsBacked'
    BY <1>1 DEF Inv, Begin, QuarantineProven, QuarantineIsDead, ReceiptIsBacked, disk, ledger
  <2>4. QED
    BY <2>2, <2>3 DEF Inv
<1>2. CASE Deadline
  <2>1. TypeOK' /\ InitActs' /\ pc' \notin Ended
    BY <1>2 DEF Inv, TypeOK, Deadline, InitActs, InHand, disk, ledger
  <2>2. QED
    BY <1>2, <2>1, MoveOnInv DEF Deadline, ledger
<1>3. CASE Look
  <2>1. lock # None => Snapshot(lock) \in Snapshots
    BY DEF Inv, TypeOK, Snapshot, Snapshots
  <2>2. TypeOK' /\ InitActs' /\ pc \notin Ended /\ pc' \notin Ended
    BY <1>3, <2>1 DEF Inv, TypeOK, Look, InitActs, Acting, Ended, disk, ledger
  <2>3. QED
    BY <1>3, <2>2, MoveOnInv DEF Look, ledger
<1>4. QED
  BY <1>1, <1>2, <1>3

(* Prove: a proof of exactly this file, of a process that is gone.           *)
LEMMA ProveInv ==
  ASSUME Inv, Prove
  PROVE  Inv'
<1>1. pc \notin Ended /\ UNCHANGED <<disk, group, sup, ledger, mishaps>> /\ mishaps' \in 0..MaxMishaps
  BY DEF Inv, TypeOK, Prove, Ended
<1>2. CASE Answer("uncertain")
  BY <1>1, <1>2, PlainAnswerInv
<1>3. CASE Busy
  BY <1>1, <1>3, BusyInv
<1>4. ASSUME NEW g \in matching_proof(seen), ~managed_scope_active(g), seen.size = "empty", To("intend")
      PROVE  Inv'
  <2>1. g \in Managed /\ g \in started /\ proof[g] = seen
    BY <1>4 DEF matching_proof, Inv, TypeOK
  <2>2. seen \in Snapshots /\ group[g] = "gone"
    BY <1>4, <2>1, NoneIsNoSnapshot DEF Inv, TypeOK, InitActs, ProofsOwned, managed_scope_active, Gits, Prove
  <2>3. TypeOK' /\ pc' \notin Ended
    BY <1>1, <1>4 DEF Inv, TypeOK, To, disk, ledger, Ended
  <2>4. InHand(g)'
    BY <1>1, <1>4, <2>1, <2>2 DEF To, InHand, ledger, disk
  <2>5. InitActs'
    BY <1>4, <2>1, <2>2, <2>4 DEF InitActs, To
  <2>6. QED
    BY <1>1, <1>4, <2>3, <2>5, MoveOnInv DEF To, ledger
<1>5. QED
  BY <1>2, <1>3, <1>4 DEF Prove

(* The process init acts on is the one whose proof it holds.                 *)
LEMMA ActsOnProven ==
  ASSUME Inv, pc \in Acting
  PROVE  Proven \in Managed /\ InHand(Proven) /\ pc \notin Ended
<1>1. PICK g \in Managed : InHand(g)
  BY DEF Inv, InitActs
<1>2. Proven = g
  BY <1>1, ProvenIs, NoneIsNoSnapshot DEF Inv, InitActs, InHand
<1>3. QED
  BY <1>1, <1>2 DEF Acting, Ended

(* Intend: the durable intent.                                               *)
LEMMA IntendInv ==
  ASSUME Inv, Intend
  PROVE  Inv'
<1>1. Proven \in Managed /\ InHand(Proven) /\ pc \notin Ended
  BY ActsOnProven DEF Intend, Acting
<1>2. CASE Answer("uncertain") /\ UNCHANGED intents
  BY <1>1, <1>2, PlainAnswerInv DEF Intend, ledger, Inv, TypeOK
<1>3. CASE intents' = Once(intents, Proven) /\ To("revalidate")
  <2>1. intents \in Seq(Managed)
    BY DEF Inv, TypeOK
  <2>2. Once(intents, Proven) \in Seq(Managed) /\ Range(Once(intents, Proven)) = Range(intents) \cup {Proven}
    BY <1>1, <2>1, OnceAppends
  <2>3. intents' \in Seq(Managed) /\ Range(intents') = Range(intents) \cup {Proven}
    BY <1>3, <2>2
  <2>4. TypeOK' /\ pc' \notin Ended
    BY <1>3, <2>3 DEF Inv, TypeOK, Intend, To, disk, Ended
  <2>5. InitActs'
    <3>1. seen' \in Snapshots /\ seen'.size = "empty" /\ pc' = "revalidate"
      BY <1>3 DEF Inv, InitActs, Intend, Acting, To
    <3>2. Proven \in Range(intents')
      BY <2>3
    <3>3. \E g \in Managed : InHand(g)'
      <4>1. PICK g \in Managed : g = Proven
        BY <1>1
      <4>2. InHand(g) /\ g \in Range(intents')
        BY <1>1, <3>2, <4>1
      <4>3. InHand(g)'
        BY <3>1, <4>2, <1>3 DEF InHand, Intend, To
      <4>4. QED
        BY <4>3
    <3>4. QED
      BY <3>1, <3>3 DEF InitActs
  <2>6. QED
    BY <1>1, <1>3, <2>3, <2>4, <2>5, MoveOnInv DEF Intend, To
<1>4. QED
  BY <1>2, <1>3 DEF Intend

(* revalidate_before_quarantine and the last look of atomic_move_lock: the   *)
(* lock at index.lock is the proven, empty file.                             *)
LEMMA CheckInv ==
  ASSUME Inv, revalidate_before_quarantine \/ MoveCheck
  PROVE  Inv'
<1>1. /\ Proven \in Managed /\ InHand(Proven) /\ pc \notin Ended /\ pc # "intend"
      /\ seen \in Snapshots /\ seen.size = "empty"
      /\ UNCHANGED <<disk, group, sup, ledger, mishaps>>
  BY ActsOnProven DEF Inv, InitActs, revalidate_before_quarantine, MoveCheck, Acting
<1>2. CASE Answer("uncertain")
  BY <1>1, <1>2, PlainAnswerInv DEF Inv, TypeOK
<1>3. ASSUME NEW step \in {"move", "rename"}, To(step), lock # None, Snapshot(lock) = seen
      PROVE  Inv'
  <2>1. TypeOK' /\ pc' \notin Ended
    BY <1>1, <1>3 DEF Inv, TypeOK, To, disk, ledger, Ended
  <2>2. lock = seen.file /\ size[lock] = "empty"
    BY <1>1, <1>3 DEF Snapshot
  <2>3. PICK g \in Managed : g = Proven
    BY <1>1
  <2>4. InHand(g)'
    BY <1>1, <1>3, <2>2, <2>3 DEF InHand, To, disk, ledger
  <2>5. InitActs'
    BY <1>1, <1>3, <2>4 DEF InitActs, To
  <2>6. QED
    BY <1>1, <1>3, <2>1, <2>5, MoveOnInv DEF To, ledger
<1>4. QED
  BY <1>2, <1>3 DEF revalidate_before_quarantine, MoveCheck

(* The rename: what moves is the proven file of a dead process.              *)
LEMMA RenameInv ==
  ASSUME Inv, MoveRename
  PROVE  Inv'
<1>1. /\ Proven \in Managed /\ InHand(Proven) /\ pc = "rename" /\ pc \notin Ended
      /\ seen \in Snapshots /\ seen.size = "empty"
  BY ActsOnProven DEF Inv, InitActs, MoveRename, Acting
<1>2. CASE Answer("uncertain") /\ UNCHANGED <<lock, quarantine>>
  BY <1>1, <1>2, PlainAnswerInv DEF MoveRename, Inv, TypeOK, disk
<1>3. CASE lock # None /\ quarantine' = [quarantine EXCEPT ![Proven] = lock] /\ lock' = None /\ To("recheck")
  <2>1. PICK g \in Managed : g = Proven
    BY <1>1
  <2>2. InHand(g) /\ quarantine' = [quarantine EXCEPT ![g] = lock]
    BY <1>1, <1>3, <2>1
  <2>3. /\ lock = seen.file /\ size[lock] = "empty" /\ proof[g] = seen /\ group[g] = "gone" /\ owner[lock] = g
        /\ g \in Range(intents) /\ proof[g] # None
    BY <1>1, <2>2, NoneIsNoSnapshot DEF InHand, Inv, ProofsOwned
  <2>4. UNCHANGED <<owner, size, group, sup, lease, started, proof, intents, receipts, seen, late, mishaps>> /\ pc' = "recheck"
    BY <1>3 DEF MoveRename, To, ledger
  <2>5. TypeOK'
    BY <1>3, <2>2, <2>4 DEF Inv, TypeOK
  <2>6. Supervision' /\ InitHasLease' /\ ProofsOwned'
    BY <1>1, <2>4, InitFrame
  <2>7. InitActs'
    BY <1>1, <2>3, <2>4 DEF InitActs, InHand
  <2>8. QuarantineProven' /\ QuarantineIsDead'
    BY <2>2, <2>3, <2>4 DEF Inv, TypeOK, QuarantineProven, QuarantineIsDead
  <2>9. ReceiptIsBacked'
    BY <2>2, <2>3, <2>4 DEF Inv, TypeOK, ReceiptIsBacked
  <2>10. QED
    BY <2>5, <2>6, <2>7, <2>8, <2>9 DEF Inv
<1>4. QED
  BY <1>2, <1>3 DEF MoveRename

(* Recheck: the receipt of the move, or no receipt.                          *)
LEMMA RecheckInv ==
  ASSUME Inv, Recheck
  PROVE  Inv'
<1>1. Proven \in Managed /\ InHand(Proven) /\ pc = "recheck" /\ pc \notin Ended
  BY ActsOnProven DEF Recheck, Acting
<1>2. UNCHANGED <<disk, group, sup, started, proof, intents, mishaps>> /\ mishaps' \in 0..MaxMishaps
  BY DEF Recheck, Inv, TypeOK
<1>3. CASE Answer("uncertain") /\ UNCHANGED receipts
  BY <1>1, <1>2, <1>3, PlainAnswerInv DEF ledger
<1>4. CASE Busy /\ UNCHANGED receipts
  BY <1>1, <1>2, <1>4, BusyInv DEF ledger
<1>5. CASE SameFile(Proven) /\ receipts' = Once(receipts, Proven) /\ Answer("recovered")
  <2>1. PICK g \in Managed : g = Proven
    BY <1>1
  <2>2. SameFile(g) /\ receipts' = Once(receipts, g) /\ g \in Range(intents)
    BY <1>1, <1>5, <2>1 DEF InHand
  <2>3. QED
    BY <1>1, <1>2, <1>5, <2>2, ReceiptInv
<1>6. QED
  BY <1>3, <1>4, <1>5 DEF Recheck

(* Absent: a receipt is confirmed, an interrupted quarantine completed.      *)
LEMMA AbsentInv ==
  ASSUME Inv, Absent
  PROVE  Inv'
<1>1. pc \notin Ended
  BY DEF Absent, Ended
<1>2. UNCHANGED <<disk, group, sup, started, proof, intents, mishaps>> /\ mishaps' \in 0..MaxMishaps
  BY DEF Absent, Inv, TypeOK
<1>3. ASSUME NEW v, Answer(v), UNCHANGED receipts
      PROVE  Inv'
  BY <1>1, <1>2, <1>3, PlainAnswerInv DEF ledger
<1>4. CASE Busy /\ UNCHANGED receipts
  BY <1>1, <1>2, <1>4, BusyInv DEF ledger
<1>5. ASSUME NEW g, receipts # <<>> \/ intents # <<>>,
             g = IF receipts # <<>> THEN Last(receipts) ELSE Last(intents),
             SameFile(g), receipts' = Once(receipts, g), Answer("recovered")
      PROVE  Inv'
  <2>1. intents \in Seq(Managed) /\ receipts \in Seq(Managed)
    BY DEF Inv, TypeOK
  <2>2. \A s \in Seq(Managed) : s # <<>> => Len(s) \in 1..Len(s) /\ Last(s) = s[Len(s)] /\ s[Len(s)] \in Managed
    BY DEF Last
  <2>3. CASE receipts # <<>>
    <3>1. Len(receipts) \in 1..Len(receipts) /\ g = receipts[Len(receipts)] /\ g \in Managed
      BY <1>5, <2>1, <2>2, <2>3
    <3>2. g \in Range(intents)
      BY <3>1 DEF Inv, ReceiptIsBacked
    <3>3. QED
      BY <1>1, <1>2, <1>5, <3>1, <3>2, ReceiptInv
  <2>4. CASE receipts = <<>>
    <3>1. Len(intents) \in 1..Len(intents) /\ g = intents[Len(intents)] /\ g \in Managed
      BY <1>5, <2>1, <2>2, <2>4
    <3>2. g \in Range(intents)
      BY <2>1, <3>1 DEF Range
    <3>3. QED
      BY <1>1, <1>2, <1>5, <3>1, <3>2, ReceiptInv
  <2>5. QED
    BY <2>3, <2>4
<1>6. QED
  BY <1>3, <1>4, <1>5 DEF Absent

(* A failed inspection, a crash of init, a crash of the server, a lock that  *)
(* a person removes.                                                         *)
LEMMA MishapInv ==
  ASSUME Inv, InspectFails \/ InitCrash \/ ServerCrash \/ PersonRemoves
  PROVE  Inv'
<1>1. mishaps' \in 0..MaxMishaps
  BY BoundsAreNat DEF Inv, TypeOK, InspectFails, InitCrash, ServerCrash, PersonRemoves, Mishap
<1>2. CASE InspectFails
  BY <1>1, <1>2, PlainAnswerInv DEF InspectFails, Ended
<1>3. CASE InitCrash
  <2>1. Supervision' /\ InitHasLease' /\ ProofsOwned'
    BY <1>3, InitFrame DEF InitCrash, Ended, disk, ledger
  <2>2. TypeOK' /\ InitActs'
    BY <1>1, <1>3 DEF Inv, TypeOK, InitCrash, disk, ledger, Ended, InitActs, Acting
  <2>3. QuarantineProven' /\ QuarantineIsDead' /\ ReceiptIsBacked'
    BY <1>3 DEF Inv, QuarantineProven, QuarantineIsDead, ReceiptIsBacked, InitCrash, disk, ledger
  <2>4. QED
    BY <2>1, <2>2, <2>3 DEF Inv
<1>4. CASE ServerCrash
  <2>1. pc \in Ended /\ lease \in Managed /\ UNCHANGED <<disk, group, ledger, init>>
    BY <1>4, NoneIsNoSnapshot DEF Inv, InitHasLease, ServerCrash
  <2>2. \A g \in Managed : sup'[g] = "no"
    BY <1>4 DEF Inv, TypeOK, Supervision, ServerCrash
  <2>3. Supervision' /\ InitHasLease' /\ ProofsOwned'
    BY <2>1, <2>2 DEF Inv, Supervision, InitHasLease, ProofsOwned, disk, ledger, init
  <2>4. TypeOK' /\ InitActs'
    BY <1>1, <1>4, <2>1 DEF Inv, TypeOK, ServerCrash, disk, ledger, init, Ended, InitActs, Acting
  <2>5. QuarantineProven' /\ QuarantineIsDead' /\ ReceiptIsBacked'
    BY <2>1 DEF Inv, QuarantineProven, QuarantineIsDead, ReceiptIsBacked, disk, ledger
  <2>6. QED
    BY <2>3, <2>4, <2>5 DEF Inv
<1>5. CASE PersonRemoves
  <2>1. pc \in Ended /\ lock' = None /\ UNCHANGED <<owner, size, quarantine, group, sup, lease, ledger, init>>
    BY <1>5 DEF PersonRemoves
  <2>2. Supervision' /\ InitHasLease' /\ ProofsOwned'
    BY <2>1 DEF Inv, Supervision, InitHasLease, ProofsOwned, ledger, init
  <2>3. TypeOK' /\ InitActs'
    BY <1>1, <2>1 DEF Inv, TypeOK, ledger, init, Ended, InitActs, Acting
  <2>4. QuarantineProven' /\ QuarantineIsDead' /\ ReceiptIsBacked'
    BY <2>1 DEF Inv, QuarantineProven, QuarantineIsDead, ReceiptIsBacked, ledger
  <2>5. QED
    BY <2>2, <2>3, <2>4 DEF Inv
<1>6. QED
  BY <1>2, <1>3, <1>4, <1>5

(* Every step preserves the invariant.                                       *)
LEMMA NextInv == Inv /\ [Next]_vars => Inv'
<1> SUFFICES ASSUME Inv, [Next]_vars PROVE Inv'
  OBVIOUS
<1>1. ASSUME NEW g \in Gits, Git(g) PROVE Inv'
  BY <1>1, GitInv
<1>2. ASSUME NEW g \in Managed, Supervise(g) PROVE Inv'
  BY <1>2, SuperviseInv
<1>3. CASE PersonRemoves \/ ServerCrash \/ InspectFails \/ InitCrash
  BY <1>3, MishapInv
<1>4. CASE Begin \/ Deadline \/ Look
  BY <1>4, LookInv
<1>5. CASE Reconcile
  BY <1>5, LookInv, ProveInv, IntendInv, CheckInv, RenameInv, RecheckInv, AbsentInv DEF Reconcile
<1>6. CASE UNCHANGED vars
  BY <1>6 DEF vars, Inv, TypeOK, Supervision, InitHasLease, ProofsOwned, InitActs, InHand, QuarantineProven,
              QuarantineIsDead, ReceiptIsBacked
<1>7. QED
  BY <1>1, <1>2, <1>3, <1>4, <1>5, <1>6 DEF Next

(* The inductive invariant holds always.                                     *)
THEOREM InvAlways == Spec => []Inv
BY InitInv, NextInv, PTL DEF Spec

(* The files, processes, ledger and quarantine always have their types       *)
(* (git_lock_owner.rs, git_lock_recovery.rs).                                *)
THEOREM LocksTyped == Spec => []TypeOK
<1>1. Inv => TypeOK
  BY DEF Inv
<1>2. QED
  BY <1>1, InvAlways, PTL

(* Recovery never takes away the lock of a living process group, nor staged  *)
(* contents, whatever crashes and whoever else runs git                      *)
(* (revalidate_before_quarantine, atomic_move_lock).                         *)
THEOREM DeadOnly == Spec => []QuarantineIsDead
<1>1. Inv => QuarantineIsDead
  BY DEF Inv
<1>2. QED
  BY <1>1, InvAlways, PTL

(* No receipt without the start, the proof, the intent and the proven file   *)
(* in quarantine (quarantine_proven_lock, complete_interrupted_quarantine).  *)
THEOREM ReceiptsBacked == Spec => []ReceiptIsBacked
<1>1. Inv => ReceiptIsBacked
  BY DEF Inv
<1>2. QED
  BY <1>1, InvAlways, PTL

-----------------------------------------------------------------------------
(* The evidence a later run of init reads: the records of starts, intents    *)
(* and receipts, the proofs, and the files in quarantine.                    *)
EvidenceKept ==
  /\ started \subseteq started'
  /\ Range(intents) \subseteq Range(intents') /\ Range(receipts) \subseteq Range(receipts')
  /\ \A g \in Managed : /\ proof[g] # None => proof'[g] = proof[g]
                        /\ quarantine[g] # None => quarantine'[g] = quarantine[g]

(* How init takes a lock away: it is the empty, proven lock of a group that  *)
(* is gone, its intent is durable, and the place in quarantine is free.      *)
InitTakes ==
  lock' # lock /\ pc' # pc =>
    /\ lock # None /\ lock' = None
    /\ \E g \in Managed :
         /\ owner[lock] = g /\ group[g] = "gone" /\ size[lock] = "empty"
         /\ proof[g] = Snapshot(lock) /\ g \in Range(intents)
         /\ quarantine[g] = None /\ quarantine' = [quarantine EXCEPT ![g] = lock]

(* What is in quarantine has its durable intent.                             *)
Intended == \A g \in Managed : quarantine[g] # None => g \in Range(intents)

(* A worktree found ready without a receipt never had an intent.             *)
ReadyClear == pc = "ready" /\ receipts = <<>> => intents = <<>>

(* The one step that moves a lock.                                           *)
LEMMA RenameTakes ==
  ASSUME Inv, MoveRename
  PROVE  /\ UNCHANGED ledger
         /\ \/ UNCHANGED <<lock, quarantine>>
            \/ \E g \in Managed :
                 /\ lock # None /\ lock' = None
                 /\ owner[lock] = g /\ group[g] = "gone" /\ size[lock] = "empty"
                 /\ proof[g] = Snapshot(lock) /\ g \in Range(intents)
                 /\ quarantine[g] = None /\ quarantine' = [quarantine EXCEPT ![g] = lock]
<1>1. /\ Proven \in Managed /\ InHand(Proven) /\ pc = "rename"
      /\ seen \in Snapshots /\ seen.size = "empty"
  BY ActsOnProven DEF Inv, InitActs, MoveRename, Acting
<1>2. CASE UNCHANGED <<lock, quarantine>>
  BY <1>2 DEF MoveRename
<1>3. CASE lock # None /\ quarantine[Proven] = None /\ quarantine' = [quarantine EXCEPT ![Proven] = lock] /\ lock' = None
  <2>1. PICK g \in Managed : g = Proven
    BY <1>1
  <2>2. InHand(g) /\ quarantine[g] = None /\ quarantine' = [quarantine EXCEPT ![g] = lock]
    BY <1>1, <1>3, <2>1
  <2>3. /\ lock = seen.file /\ size[lock] = "empty" /\ proof[g] = seen /\ group[g] = "gone" /\ owner[lock] = g
        /\ g \in Range(intents)
    BY <1>1, <2>2, NoneIsNoSnapshot DEF InHand, Inv, ProofsOwned
  <2>4. seen = Snapshot(lock)
    BY <1>1, <2>3 DEF Snapshot, Snapshots
  <2>5. QED
    BY <1>3, <2>2, <2>3, <2>4 DEF MoveRename
<1>4. QED
  BY <1>2, <1>3 DEF MoveRename

(* Which steps leave the quarantine and the audit alone.                     *)
LEMMA AuditFrame ==
  ASSUME Inv, [Next]_vars, ~ MoveRename
  PROVE  /\ UNCHANGED quarantine
         /\ ~ Intend => UNCHANGED intents
         /\ ~ Recheck /\ ~ Absent => UNCHANGED receipts
<1>1. ASSUME NEW g \in Gits, Git(g) PROVE UNCHANGED <<quarantine, intents, receipts>>
  BY <1>1 DEF Git, TakeLock, WriteLock, DropLock, GitEnds, disk, ledger
<1>2. ASSUME NEW g \in Managed, Supervise(g) PROVE UNCHANGED <<quarantine, intents, receipts>>
  BY <1>2 DEF Supervise, Spawn, record_started, record_started_Fails, observe_lock, Stop, stop_process_group, disk, ledger
<1>3. CASE PersonRemoves \/ ServerCrash \/ InspectFails \/ InitCrash \/ Begin \/ Deadline
  BY <1>3 DEF PersonRemoves, ServerCrash, InspectFails, InitCrash, Begin, Deadline, disk, ledger
<1>4. CASE Reconcile
  BY <1>4 DEF Reconcile, Look, Prove, Intend, revalidate_before_quarantine, MoveCheck, Recheck, Absent, disk, ledger
<1>5. QED
  BY <1>1, <1>2, <1>3, <1>4 DEF Next, vars

(* append_audit_once only adds.                                              *)
LEMMA AuditGrows ==
  ASSUME Inv, [Next]_vars
  PROVE  Range(intents) \subseteq Range(intents') /\ Range(receipts) \subseteq Range(receipts')
<1>1. intents \in Seq(Managed) /\ receipts \in Seq(Managed)
  BY DEF Inv, TypeOK
<1>2. Range(intents) \subseteq Range(intents')
  <2>1. CASE Intend
    <3>1. Proven \in Managed
      BY <2>1, ActsOnProven DEF Intend, Acting
    <3>2. Range(Once(intents, Proven)) = Range(intents) \cup {Proven}
      BY <1>1, <3>1, OnceAppends
    <3>3. QED
      BY <2>1, <3>2 DEF Intend
  <2>2. CASE MoveRename
    BY <2>2 DEF MoveRename, ledger
  <2>3. CASE ~ Intend /\ ~ MoveRename
    BY <2>3, AuditFrame
  <2>4. QED
    BY <2>1, <2>2, <2>3
<1>3. Range(receipts) \subseteq Range(receipts')
  <2>1. \A g \in Managed : Range(receipts) \subseteq Range(Once(receipts, g))
    BY <1>1, OnceAppends
  <2>2. CASE Recheck
    <3>1. Proven \in Managed
      BY <2>2, ActsOnProven DEF Recheck, Acting
    <3>2. QED
      BY <2>1, <2>2, <3>1 DEF Recheck
  <2>3. CASE Absent
    <3>1. \A q \in Seq(Managed) : q # <<>> => Last(q) \in Managed
      BY DEF Last
    <3>2. QED
      BY <1>1, <2>1, <2>3, <3>1 DEF Absent
  <2>4. CASE MoveRename
    BY <2>4 DEF MoveRename, ledger
  <2>5. CASE ~ Recheck /\ ~ Absent /\ ~ MoveRename
    BY <2>5, AuditFrame
  <2>6. QED
    BY <2>2, <2>3, <2>4, <2>5
<1>4. QED
  BY <1>2, <1>3

(* A step keeps the evidence.                                                *)
LEMMA NextKeeps == Inv /\ [Next]_vars => EvidenceKept
<1> SUFFICES ASSUME Inv, [Next]_vars PROVE EvidenceKept
  OBVIOUS
<1>1. Range(intents) \subseteq Range(intents') /\ Range(receipts) \subseteq Range(receipts')
  BY AuditGrows
<1>2. \A g \in Managed : quarantine[g] # None => quarantine'[g] = quarantine[g]
  <2>1. CASE MoveRename
    BY <2>1, RenameTakes DEF Inv, TypeOK
  <2>2. CASE ~ MoveRename
    BY <2>2, AuditFrame
  <2>3. QED
    BY <2>1, <2>2
<1>3. started \subseteq started' /\ \A g \in Managed : proof[g] # None => proof'[g] = proof[g]
  <2>1. ASSUME NEW g \in Managed, Supervise(g)
        PROVE  started \subseteq started' /\ \A h \in Managed : proof[h] # None => proof'[h] = proof[h]
    BY <2>1 DEF Inv, TypeOK, Supervision, Supervise, Spawn, record_started, record_started_Fails, observe_lock, Stop,
                stop_process_group, ledger
  <2>2. ASSUME NEW g \in Gits, Git(g) PROVE UNCHANGED <<started, proof>>
    BY <2>2 DEF Git, TakeLock, WriteLock, DropLock, GitEnds, ledger
  <2>3. CASE PersonRemoves \/ ServerCrash \/ InspectFails \/ InitCrash \/ Begin \/ Deadline
    BY <2>3 DEF PersonRemoves, ServerCrash, InspectFails, InitCrash, Begin, Deadline, ledger
  <2>4. CASE Reconcile
    BY <2>4 DEF Reconcile, Look, Prove, Intend, revalidate_before_quarantine, MoveCheck, MoveRename, Recheck, Absent, ledger
  <2>5. QED
    BY <2>1, <2>2, <2>3, <2>4 DEF Next, vars
<1>4. QED
  BY <1>1, <1>2, <1>3 DEF EvidenceKept

(* A step of init takes a lock only so.                                      *)
LEMMA NextTakes == Inv /\ [Next]_vars => InitTakes
<1> SUFFICES ASSUME Inv, [Next]_vars, lock' # lock, pc' # pc PROVE InitTakes
  BY DEF InitTakes
<1>1. CASE MoveRename
  BY <1>1, RenameTakes DEF InitTakes
<1>2. ASSUME NEW g \in Gits, Git(g) PROVE FALSE
  BY <1>2 DEF Git, TakeLock, WriteLock, DropLock, GitEnds, init
<1>3. ASSUME NEW g \in Managed, Supervise(g) PROVE FALSE
  BY <1>3 DEF Supervise, Spawn, record_started, record_started_Fails, observe_lock, Stop, stop_process_group, disk
<1>4. CASE PersonRemoves \/ ServerCrash \/ InspectFails \/ InitCrash \/ Begin \/ Deadline
  BY <1>4 DEF PersonRemoves, ServerCrash, InspectFails, InitCrash, Begin, Deadline, disk, init
<1>5. CASE Reconcile
  BY <1>1, <1>5 DEF Reconcile, Look, Prove, Intend, revalidate_before_quarantine, MoveCheck, Recheck, Absent, disk
<1>6. QED
  BY <1>2, <1>3, <1>4, <1>5 DEF Next, vars

(* The intent is durable before the move.                                    *)
LEMMA NextIntended == Inv /\ Intended /\ [Next]_vars => Intended'
<1> SUFFICES ASSUME Inv, Intended, [Next]_vars PROVE Intended'
  OBVIOUS
<1>1. Range(intents) \subseteq Range(intents')
  BY AuditGrows
<1>2. CASE MoveRename
  BY <1>1, <1>2, RenameTakes DEF Intended, Inv, TypeOK
<1>3. CASE ~ MoveRename
  BY <1>1, <1>3, AuditFrame DEF Intended
<1>4. QED
  BY <1>2, <1>3

(* Only a clear verdict makes a worktree ready without a receipt.            *)
LEMMA NextReadyClear == Inv /\ ReadyClear /\ [Next]_vars => ReadyClear'
<1> SUFFICES ASSUME Inv, ReadyClear, [Next]_vars, pc' = "ready", receipts' = <<>> PROVE intents' = <<>>
  BY DEF ReadyClear
<1>1. ASSUME NEW g \in Gits, Git(g) PROVE intents' = <<>>
  BY <1>1 DEF Git, TakeLock, WriteLock, DropLock, GitEnds, init, ledger, ReadyClear
<1>2. ASSUME NEW g \in Managed, Supervise(g) PROVE intents' = <<>>
  BY <1>2 DEF Supervise, Spawn, record_started, record_started_Fails, observe_lock, Stop, stop_process_group, init, ledger,
              ReadyClear
<1>3. CASE PersonRemoves \/ ServerCrash \/ Deadline
  BY <1>3 DEF PersonRemoves, ServerCrash, Deadline, init, ledger, ReadyClear, Ended
<1>4. CASE Begin \/ InitCrash \/ InspectFails
  BY <1>4 DEF Begin, InitCrash, InspectFails, Answer
<1>5. CASE Look \/ Prove \/ Intend \/ revalidate_before_quarantine \/ MoveCheck \/ MoveRename
  BY <1>5 DEF Look, Prove, Intend, revalidate_before_quarantine, MoveCheck, MoveRename, Answer, Busy, To
<1>6. \A g \in Managed : Once(receipts, g) # <<>>
  <2>1. \A g \in Managed : Range(Once(receipts, g)) = Range(receipts) \cup {g}
    BY OnceAppends DEF Inv, TypeOK
  <2>2. Range(<<>>) = {}
    BY DEF Range
  <2>3. QED
    BY <2>1, <2>2
<1>7. CASE Recheck
  <2>1. Proven \in Managed
    BY <1>7, ActsOnProven DEF Recheck, Acting
  <2>2. QED
    BY <1>6, <1>7, <2>1 DEF Recheck, Answer, Busy, To
<1>8. CASE Absent
  <2>1. \A q \in Seq(Managed) : q # <<>> => Last(q) \in Managed
    BY DEF Last
  <2>2. intents \in Seq(Managed) /\ receipts \in Seq(Managed)
    BY DEF Inv, TypeOK
  <2>3. QED
    BY <1>6, <1>8, <2>1, <2>2 DEF Absent, Answer, Busy, To
<1>9. CASE UNCHANGED vars
  BY <1>9 DEF vars, ReadyClear
<1>10. QED
  BY <1>1, <1>2, <1>3, <1>4, <1>5, <1>7, <1>8, <1>9 DEF Next, Reconcile

(* No lock leaves the worktree before its durable intent, its proof and the  *)
(* record of its process, so that a run of init after a crash at any point   *)
(* finds in the ledger whose lock it is (quarantine_proven_lock).            *)
WriteAhead ==
  \A g \in Managed : quarantine[g] # None =>
    /\ g \in started /\ g \in Range(intents)
    /\ proof[g] # None /\ quarantine[g] = proof[g].file

(* The move comes after everything that explains it, in every state that a   *)
(* crash can leave (Intend before MoveRename).                               *)
THEOREM IntentFirst == Spec => []WriteAhead
<1>1. Init => Intended
  BY DEF Init, Intended
<1>2. Inv /\ Intended => WriteAhead
  BY DEF Inv, Intended, WriteAhead, QuarantineProven, ProofsOwned
<1>3. QED
  BY <1>1, <1>2, InvAlways, NextIntended, PTL DEF Spec

(* How far ReadyIsReceipted holds: as long as the ledger has no receipt, a   *)
(* run of init that answers ready leaves nothing unreceipted, an interrupted *)
(* quarantine included; only behind an earlier receipt, where                *)
(* reconcile_absent_lock looks no further, can one be passed over.           *)
FirstReadyReceipted ==
  pc = "ready" /\ (\E g \in Managed : quarantine[g] # None /\ g \notin Range(receipts)) => receipts # <<>>

(* The first recovery of a worktree is never reported ready without its      *)
(* receipt (complete_interrupted_quarantine).                                *)
THEOREM FirstRecoveryReceipted == Spec => []FirstReadyReceipted
<1>1. Init => Intended /\ ReadyClear
  BY DEF Init, Intended, ReadyClear
<1>2. Intended /\ ReadyClear => FirstReadyReceipted
  BY DEF Intended, ReadyClear, FirstReadyReceipted, Range
<1>3. QED
  BY <1>1, <1>2, InvAlways, NextIntended, NextReadyClear, PTL DEF Spec

(* Init takes away a lock in one way only: in the very step of the rename    *)
(* the file is the empty, proven lock of a group that is gone, although the  *)
(* last look at it was a step earlier and other git processes ran in between *)
(* (atomic_move_lock).                                                       *)
THEOREM TakesOnlyProven == Spec => [][InitTakes]_vars
<1>1. Inv /\ [Next]_vars => [InitTakes]_vars
  BY NextTakes
<1>2. QED
  BY <1>1, InvAlways, PTL DEF Spec

(* No step overwrites or removes evidence: records, proofs, intents,         *)
(* receipts and quarantined files only accumulate, whatever crashes          *)
(* (append_audit_once, the NOREPLACE of atomic_move_lock).                   *)
THEOREM EvidenceAccumulates == Spec => [][EvidenceKept]_vars
<1>1. Inv /\ [Next]_vars => [EvidenceKept]_vars
  BY NextKeeps
<1>2. QED
  BY <1>1, InvAlways, PTL DEF Spec
=============================================================================
