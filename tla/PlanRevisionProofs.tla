-------------------------- MODULE PlanRevisionProofs --------------------------
(***************************************************************************)
(* PlanRevision implements PlanStore, for any plans, scopes and answers,   *)
(* and any number of commands, crashes, failures and edits.                *)
(***************************************************************************)
EXTENDS PlanRevision, TLAPS

(* The files that only the transaction writes.                             *)
Own == {"audit", "snap", "digest"}

(* What a document says: the plan it accepts, logged once, and for the     *)
(* scopes that take part their new manifest with the answers they have.    *)
Sound(d) ==
  /\ DocumentOk(d)
  /\ d.after["digest"] = d.after["snap"]
  /\ d.after["plan"] = d.after["snap"] /\ d.before["plan"] = d.after["snap"]
  /\ d.after["audit"] = Append(d.before["audit"], d.after["snap"])
  /\ \A s \in Scopes \cap DOMAIN d.after :
       /\ d.after[s].man = Manifest[d.after["snap"]][s]
       /\ d.after[s].answers = d.before[s].answers

(* The scopes that take no part run under the new manifest already.        *)
Others(d) ==
  \A s \in Scopes \ DOMAIN d.after : file[s].man = Manifest[d.after["snap"]][s]

(* File f is done: an answer may have come in since, nothing else.         *)
Done(f) == IF f \in Scopes THEN file[f].man = journal.after[f].man
           ELSE f = "plan" \/ AtAfter(f)

JournalSound ==
  Pending =>
    /\ Sound(journal) /\ Others(journal)
    /\ \A f \in Own : AtBefore(f) \/ AtAfter(f)
    /\ journal.phase = "committed" => \A f \in Entries : Done(f)

NoJournal == ~ Pending => Agreed

Staged == pc = "publish" =>
            /\ doc.phase = "prepared" /\ Sound(doc) /\ Others(doc)
            /\ \A f \in Own : file[f] = doc.before[f]

Places ==
  /\ pc \in {"running", "analyse", "lock", "stage", "publish"} => ~ Pending
  /\ pc \in Rolling => Pending
  /\ pc \in {"lock", "stage"} => cand \in Plans
  /\ pc \in {"verify", "cleanup", "unlink"} => journal.phase = "committed"
  /\ pc \in {"apply", "replace"} =>
       todo \subseteq Entries /\ \A f \in Entries \ todo : Done(f)
  /\ pc = "replace" =>
       at \in Entries /\ at # "plan" /\ AtBefore(at)

(* The inductive invariant.                                                *)
Inv == TypeOK /\ JournalSound /\ NoJournal /\ Staged /\ Places
-----------------------------------------------------------------------------
(* What the invariant says of the documents depends on the files and the   *)
(* journal only.                                                           *)
LEMMA Quiet ==
  ASSUME Inv, file' = file, journal' = journal
  PROVE  /\ JournalSound' /\ NoJournal'
         /\ DOMAIN file' = Files /\ \A f \in Files : file'[f] \in Contents(f)
         /\ DocumentOk(journal')
  BY DEF Inv, TypeOK, JournalSound, NoJournal, Others, Pending, Agreed, DigestMatches, ManifestsMatch, Entries,
         AtBefore, AtAfter, Done

LEMMA AbsentOk == DocumentOk(Absent) /\ DOMAIN Absent.after = {}
  BY DEF DocumentOk, Absent, Empty

(* The command ends and leaves files and journal as they are.              *)
LEMMA EndStep ==
  ASSUME Inv, End, file' = file, journal' = journal, images' \in BOOLEAN
  PROVE  Inv'
<1>1. TypeOK'
  BY Quiet, AbsentOk DEF End, TypeOK
<1>2. Staged' /\ Places'
  BY DEF End, Staged, Places, Rolling
<1>3. QED
  BY <1>1, <1>2, Quiet DEF Inv

(* So do the steps before the journal is published.                        *)
LEMMA ProceedStep ==
  ASSUME Inv, Proceed, ~ Pending', file' = file, journal' = journal, images' = images
  PROVE  Inv'
<1>1. CASE cmd = "recover"
  BY <1>1, EndStep DEF Proceed, Inv, TypeOK
<1>2. CASE cmd # "recover"
  <2>1. TypeOK'
    BY <1>2, Quiet DEF Proceed, TypeOK, Inv
  <2>2. Staged' /\ Places'
    BY <1>2 DEF Proceed, Staged, Places, Rolling
  <2>3. QED
    BY <2>1, <2>2, Quiet DEF Inv
<1>3. QED
  BY <1>1, <1>2

LEMMA OpeningActions ==
  ASSUME Inv, \/ \E c \in Commands : Start(c)
              \/ OpenClean \/ OpenPending \/ Stop
  PROVE  Inv' /\ file' = file /\ journal' = journal /\ edits' = edits
<1>1. ASSUME NEW c \in Commands, Start(c) PROVE Inv'
  <2>1. TypeOK'
    BY <1>1, Quiet DEF Start, TypeOK, Inv
  <2>2. Staged' /\ Places'
    BY <1>1 DEF Start, Staged, Places, Rolling
  <2>3. QED
    BY <1>1, <2>1, <2>2, Quiet DEF Inv, Start
<1>2. CASE OpenClean
  BY <1>2, ProceedStep DEF OpenClean, Pending
<1>3. CASE OpenPending
  <2>1. Resume \in {"preflight", "verify"}
    BY DEF Resume
  <2>2. TypeOK'
    BY <1>3, <2>1, Quiet DEF OpenPending, TypeOK, Inv, Rolling
  <2>3. Resume = "verify" => journal.phase = "committed"
    <3>1. journal.phase \in {"prepared", "committed"}
      BY <1>3 DEF OpenPending, Pending, Inv, TypeOK, DocumentOk
    <3>2. QED
      BY <3>1 DEF Resume
  <2>4. Staged' /\ Places'
    BY <1>3, <2>1, <2>3 DEF OpenPending, Staged, Places, Rolling, Pending
  <2>5. QED
    BY <1>3, <2>2, <2>4, Quiet DEF Inv, OpenPending
<1>4. CASE Stop
  BY <1>4, EndStep DEF Stop, Inv, TypeOK
<1>5. QED
  BY <1>1, <1>2, <1>3, <1>4 DEF Start, OpenClean, OpenPending, Stop
-----------------------------------------------------------------------------
(* The document that Stage prepares.                                       *)
LEMMA DocumentSound ==
  ASSUME Inv, NEW p \in Plans, ~ Pending, file["plan"] = p
  PROVE  LET d == Document(p)
         IN  /\ DocumentOk(d) /\ d.phase = "prepared" /\ Sound(d) /\ Others(d)
             /\ \A f \in Own : file[f] = d.before[f]
<1> DEFINE d == Document(p)
           E == Participants(p)
<1>1. /\ d.phase = "prepared"
      /\ d.before = [f \in E |-> file[f]]
      /\ d.after  = [f \in E |-> Revised(p, f)]
      /\ d = [phase |-> d.phase, before |-> d.before, after |-> d.after]
  BY DEF Document
<1>2. E \subseteq Files /\ {"audit", "snap", "digest", "plan"} \subseteq E
  BY DEF Participants, Files
<1>3. \A f \in Files : file[f] \in Contents(f)
  BY DEF Inv, TypeOK
<1>4. /\ "audit" \notin Scopes /\ "snap" \notin Scopes
      /\ "digest" \notin Scopes /\ "plan" \notin Scopes
      /\ "audit" # "snap" /\ "audit" # "digest" /\ "audit" # "plan"
  BY PlanAssumption
<1>5. /\ Revised(p, "snap") = p /\ Revised(p, "digest") = p
      /\ Revised(p, "plan") = p
      /\ Revised(p, "audit") = Append(file["audit"], p)
  BY <1>4 DEF Revised
<1>6. ASSUME NEW s \in Scopes
      PROVE  /\ Revised(p, s) \in ScopeContent
             /\ Revised(p, s).man = Manifest[p][s]
             /\ Revised(p, s).answers = file[s].answers
  <2>1. file[s] \in ScopeContent
    BY <1>3 DEF Contents, Files
  <2>2. Manifest[p][s] \in Plans
    BY PlanAssumption
  <2>3. QED
    BY <2>1, <2>2 DEF Revised, ScopeContent
<1>7. \A f \in E : Revised(p, f) \in Contents(f)
  <2>1. file["audit"] \in Seq(Plans)
    BY <1>3, <1>4 DEF Contents, Files
  <2>2. Append(file["audit"], p) \in Seq(Plans)
    BY <2>1
  <2>3. \A f \in Files \ Scopes : f \in {"audit", "snap", "digest", "plan"}
    BY DEF Files
  <2>4. QED
    BY <1>2, <1>4, <1>5, <1>6, <2>2, <2>3 DEF Contents
<1>8. Agreed
  BY DEF Inv, NoJournal
<1> HIDE DEF d
<1>9. DocumentOk(d)
  BY <1>1, <1>2, <1>3, <1>7 DEF DocumentOk
<1>10. Sound(d)
  <2>1. \A s \in Scopes \cap E : d.after[s] = Revised(p, s) /\ d.before[s] = file[s]
    BY <1>1
  <2>2. QED
    BY <1>1, <1>2, <1>5, <1>6, <1>9, <2>1 DEF Sound
<1>11. Others(d)
  <2>1. d.after["snap"] = p /\ DOMAIN d.after = E
    BY <1>1, <1>2, <1>5
  <2>2. QED
    BY <1>8, <2>1 DEF Others, Agreed, DigestMatches, ManifestsMatch, Participants
<1>12. \A f \in Own : file[f] = d.before[f]
  BY <1>1, <1>2 DEF Own
<1>13. QED
  BY <1>1, <1>9, <1>10, <1>11, <1>12 DEF d

LEMMA PreparingActions ==
  ASSUME Inv, Analyse \/ LockRuns \/ Stage \/ Decline
  PROVE  Inv' /\ file' = file /\ journal' = journal /\ edits' = edits
<1>1. CASE Analyse
  <2>1. file["plan"] \in Plans
    BY PlanAssumption DEF Inv, TypeOK, Files, Contents
  <2>2. TypeOK'
    BY <1>1, <2>1, Quiet DEF Analyse, TypeOK, Inv
  <2>3. Staged' /\ Places'
    BY <1>1, <2>1 DEF Analyse, Staged, Places, Rolling, Inv, Pending
  <2>4. QED
    BY <1>1, <2>2, <2>3, Quiet DEF Inv, Analyse
<1>2. CASE LockRuns
  <2>1. TypeOK'
    BY <1>2, Quiet DEF LockRuns, TypeOK, Inv
  <2>2. Staged' /\ Places'
    BY <1>2 DEF LockRuns, Staged, Places, Rolling, Inv, Pending
  <2>3. QED
    BY <1>2, <2>1, <2>2, Quiet DEF Inv, LockRuns
<1>3. CASE Stage
  <2>1. ~ Pending /\ cand \in Plans /\ file["plan"] = cand
    BY <1>3 DEF Stage, Inv, Places
  <2>2. /\ DocumentOk(doc') /\ doc'.phase = "prepared" /\ Sound(doc') /\ Others(doc')
        /\ \A f \in Own : file[f] = doc'.before[f]
    BY <1>3, <2>1, DocumentSound DEF Stage
  <2>3. TypeOK'
    BY <1>3, <2>2, Quiet DEF Stage, TypeOK, Inv
  <2>4. Staged'
    <3>1. file' = file
      BY <1>3 DEF Stage
    <3>2. QED
      BY <2>2, <3>1 DEF Staged, Others
  <2>5. Places'
    BY <1>3, <2>1 DEF Stage, Places, Rolling, Pending
  <2>6. QED
    BY <1>3, <2>3, <2>4, <2>5, Quiet DEF Inv, Stage
<1>4. CASE Decline
  BY <1>4, EndStep DEF Decline, Inv, TypeOK
<1>5. QED
  BY <1>1, <1>2, <1>3, <1>4 DEF Analyse, LockRuns, Stage, Decline
-----------------------------------------------------------------------------
LEMMA JournalKinds ==
  ASSUME Inv, Pending
  PROVE  /\ journal.phase \in {"prepared", "committed"}
         /\ Entries \subseteq Files /\ Own \cup {"plan"} \subseteq Entries
         /\ \A f \in Entries : /\ journal.before[f] \in Contents(f)
                               /\ journal.after[f] \in Contents(f)
  BY DEF Inv, TypeOK, DocumentOk, Pending, Entries, Own

LEMMA FilesAre ==
  /\ Files = Own \cup {"plan"} \cup Scopes
  /\ Own \cap Scopes = {} /\ "plan" \notin Scopes /\ "plan" \notin Own
  BY PlanAssumption DEF Files, Own

(* A file that has its after-image is done.                                *)
LEMMA AfterIsDone == \A f : AtAfter(f) => Done(f)
  BY DEF AtAfter, Done

(* Where recovery begins.                                                  *)
LEMMA ResumeIs ==
  ASSUME Inv, Pending
  PROVE  \/ Resume = "preflight"
         \/ Resume = "verify" /\ journal.phase = "committed"
  BY JournalKinds DEF Resume

LEMMA FailedStep ==
  ASSUME Inv, pc \in Rolling, Failed
  PROVE  Inv'
<1>1. Pending
  BY DEF Inv, Places
<1>2. CASE mode = "commit"
  <2>1. TypeOK'
    BY <1>1, <1>2, ResumeIs, Quiet DEF Failed, TypeOK, Inv, Rolling
  <2>2. Staged' /\ Places'
    BY <1>1, <1>2, ResumeIs DEF Failed, Staged, Places, Rolling, Pending
  <2>3. QED
    BY <2>1, <2>2, Quiet DEF Inv, Failed
<1>3. CASE mode # "commit"
  BY <1>3, EndStep DEF Failed, Inv, TypeOK
<1>4. QED
  BY <1>2, <1>3

LEMMA RollingActions ==
  ASSUME Inv, \/ Preflight \/ (\E f \in todo : PassOver(f) \/ Compare(f))
              \/ Verify \/ RemoveImages \/ Refuse \/ Fault \/ Crash
  PROVE  Inv' /\ file' = file /\ journal' = journal /\ edits' = edits
<1>1. CASE Preflight
  <2>1. Pending
    BY <1>1 DEF Preflight, Inv, Places, Rolling
  <2>2. TypeOK'
    BY <1>1, <2>1, JournalKinds, Quiet DEF Preflight, TypeOK, Inv, Rolling
  <2>3. Staged' /\ Places'
    BY <1>1, <2>1 DEF Preflight, Staged, Places, Rolling, Pending, Entries
  <2>4. QED
    BY <1>1, <2>2, <2>3, Quiet DEF Inv, Preflight
<1>2. ASSUME NEW f \in todo, PassOver(f) PROVE Inv'
  <2>1. TypeOK'
    BY <1>2, Quiet DEF PassOver, TypeOK, Inv
  <2>2. Staged'
    BY <1>2 DEF PassOver, Staged
  <2>3. Places'
    BY <1>2, AfterIsDone
    DEF PassOver, Places, Rolling, Pending, Inv, Entries, AtAfter, AtBefore, Done
  <2>4. QED
    BY <1>2, <2>1, <2>2, <2>3, Quiet DEF Inv, PassOver
<1>3. ASSUME NEW f \in todo, Compare(f) PROVE Inv'
  <2>1. Pending /\ f \in Entries /\ f \in Files
    BY <1>3, JournalKinds DEF Compare, Inv, Places, Rolling
  <2>2. AtBefore(f) /\ f # "plan"
    BY <1>3, <2>1 DEF Compare, CanApply, AtAfter, AtBefore, Inv, JournalSound, Sound
  <2>3. TypeOK'
    BY <1>3, <2>1, Quiet DEF Compare, TypeOK, Inv, Rolling
  <2>4. Staged'
    BY <1>3 DEF Compare, Staged
  <2>5. Places'
    BY <1>3, <2>1, <2>2
    DEF Compare, Places, Rolling, Pending, Inv, Entries, AtAfter, AtBefore, Done
  <2>6. QED
    BY <1>3, <2>3, <2>4, <2>5, Quiet DEF Inv, Compare
<1>4. CASE Verify
  <2>1. TypeOK'
    BY <1>4, Quiet DEF Verify, TypeOK, Inv, Rolling
  <2>2. Staged' /\ Places'
    BY <1>4 DEF Verify, Staged, Places, Rolling, Pending, Inv
  <2>3. QED
    BY <1>4, <2>1, <2>2, Quiet DEF Inv, Verify
<1>5. CASE RemoveImages
  <2>1. TypeOK'
    BY <1>5, Quiet DEF RemoveImages, TypeOK, Inv, Rolling
  <2>2. Staged' /\ Places'
    BY <1>5 DEF RemoveImages, Staged, Places, Rolling, Pending, Inv
  <2>3. QED
    BY <1>5, <2>1, <2>2, Quiet DEF Inv, RemoveImages
<1>6. CASE Refuse
  <2>1. Failed /\ pc \in Rolling
    BY <1>6 DEF Refuse, Rolling
  <2>2. QED
    BY <2>1, FailedStep DEF Failed
<1>7. CASE Fault
  <2>1. Failed /\ pc \in Rolling
    BY <1>7 DEF Fault
  <2>2. QED
    BY <2>1, FailedStep DEF Failed
<1>8. CASE Crash
  BY <1>8, EndStep DEF Crash, Inv, TypeOK
<1>9. QED
  BY <1>1, <1>2, <1>3, <1>4, <1>5, <1>6, <1>7, <1>8
  DEF Preflight, PassOver, Compare, Verify, RemoveImages, Refuse, Fault, Failed, Crash
-----------------------------------------------------------------------------
(* What PlanStore sees changes with the files, the after-images and the    *)
(* number of edits only.                                                   *)
LEMMA Stutter ==
  ASSUME file' = file, journal'.after = journal.after, edits' = edits
  PROVE  UNCHANGED P!vars
  BY DEF P!vars, InForce, Entries

(* The publication of a journal is the acceptance of its plan.             *)
LEMMA Published ==
  ASSUME Inv, pc = "publish", journal' = doc, file' = file, edits' = edits
  PROVE  /\ \E p \in Plans : P!Accept(p)
         /\ JournalSound' /\ NoJournal' /\ Pending' /\ DocumentOk(journal')
<1>1. /\ doc.phase = "prepared" /\ Sound(doc) /\ Others(doc)
      /\ \A f \in Own : file[f] = doc.before[f]
      /\ ~ Pending /\ DocumentOk(doc)
  BY DEF Inv, Staged, Places, TypeOK
<1>2. journal.after = Empty /\ DOMAIN journal.after = {} /\ doc # Absent
  BY <1>1 DEF Pending, Absent, Empty
<1>3. /\ Own \cup {"plan"} \subseteq DOMAIN doc.after
      /\ DOMAIN doc.after \subseteq Files
      /\ \A f \in DOMAIN doc.after : doc.after[f] \in Contents(f)
  BY <1>1, <1>2 DEF DocumentOk, Own
<1> DEFINE p == doc.after["snap"]
<1>4. p \in Plans
  BY <1>3, FilesAre DEF Contents, Own
<1>5. Pending' /\ DocumentOk(journal')
  BY <1>1, <1>2 DEF Pending
<1>6. JournalSound'
  BY <1>1, <1>5 DEF JournalSound, Others, Entries, AtBefore, AtAfter
<1>7. \A f : InForce(f) = file[f]
  BY <1>2 DEF InForce, Entries
<1>8. /\ \A f \in DOMAIN doc.after : InForce(f)' = doc.after[f]
      /\ \A f : f \notin DOMAIN doc.after => InForce(f)' = file[f]
  BY DEF InForce, Entries
<1>9. /\ InForce("snap")' = p /\ InForce("digest")' = p
      /\ InForce("audit")' = Append(InForce("audit"), p)
  <2>1. "snap" \in DOMAIN doc.after /\ "digest" \in DOMAIN doc.after
        /\ "audit" \in DOMAIN doc.after /\ "audit" \in Own
    BY <1>3 DEF Own
  <2>2. QED
    BY <1>1, <1>7, <1>8, <2>1 DEF Sound
<1>10. [s \in Scopes |-> InForce(s).man]' = Manifest[p]
  <2>1. \A s \in Scopes : InForce(s)'.man = Manifest[p][s]
    <3> SUFFICES ASSUME NEW s \in Scopes PROVE InForce(s)'.man = Manifest[p][s]
      OBVIOUS
    <3>1. CASE s \in DOMAIN doc.after
      BY <1>1, <1>8, <3>1 DEF Sound
    <3>2. CASE s \notin DOMAIN doc.after
      BY <1>1, <1>8, <3>2 DEF Others
    <3>3. QED
      BY <3>1, <3>2
  <2>2. Manifest[p] \in [Scopes -> Plans]
    BY <1>4, PlanAssumption
  <2>3. QED
    BY <2>1, <2>2
<1>11. P!Accept(p)
  BY <1>9, <1>10 DEF P!Accept
<1>12. QED
  BY <1>4, <1>5, <1>6, <1>11 DEF NoJournal

LEMMA PublishActions ==
  ASSUME Inv, Publish \/ PublishFails
  PROVE  Inv' /\ \E p \in Plans : P!Accept(p)
<1>1. pc = "publish" /\ journal' = doc /\ file' = file /\ edits' = edits
  BY DEF Publish, PublishFails
<1>2. /\ \E p \in Plans : P!Accept(p)
      /\ JournalSound' /\ NoJournal' /\ Pending' /\ DocumentOk(journal')
  BY <1>1, Published
<1>3. TypeOK'
  BY <1>1, <1>2, AbsentOk
  DEF Inv, TypeOK, Publish, PublishFails, End, Rolling, Commands
<1>4. Staged' /\ Places'
  BY <1>2 DEF Publish, PublishFails, End, Staged, Places, Rolling
<1>5. QED
  BY <1>2, <1>3, <1>4 DEF Inv
-----------------------------------------------------------------------------
(* The journal is marked when every entry is done.                         *)
LEMMA CommitAction ==
  ASSUME Inv, Commit
  PROVE  Inv' /\ UNCHANGED P!vars
<1>1. Pending /\ todo = {} /\ \A f \in Entries : Done(f)
  BY DEF Commit, Inv, Places, Rolling
<1>2. /\ journal = [phase |-> journal.phase, before |-> journal.before,
                    after |-> journal.after]
      /\ Sound(journal) /\ Others(journal)
      /\ \A f \in Own : AtBefore(f) \/ AtAfter(f)
  BY <1>1 DEF Inv, TypeOK, JournalSound, DocumentOk, Pending
<1>3. /\ journal'.phase = "committed" /\ journal'.before = journal.before
      /\ journal'.after = journal.after /\ file' = file
      /\ journal' = [phase |-> "committed", before |-> journal.before,
                     after |-> journal.after]
  BY <1>2 DEF Commit
<1>4. Pending'
  BY <1>3 DEF Pending, Absent
<1>5. DocumentOk(journal')
  BY <1>1, <1>3 DEF Inv, TypeOK, DocumentOk, Pending
<1>6. JournalSound' /\ NoJournal'
  <2>1. Sound(journal') /\ Others(journal)'
    BY <1>2, <1>3, <1>5 DEF Sound, Others
  <2>2. /\ \A f \in Own : AtBefore(f)' \/ AtAfter(f)'
        /\ \A f \in Entries' : Done(f)'
    BY <1>1, <1>2, <1>3 DEF AtBefore, AtAfter, Done, Entries
  <2>3. QED
    BY <1>4, <2>1, <2>2 DEF JournalSound, NoJournal
<1>7. TypeOK'
  BY <1>5 DEF Commit, Inv, TypeOK, Rolling
<1>8. Staged' /\ Places'
  BY <1>3, <1>4 DEF Commit, Staged, Places, Rolling
<1>9. UNCHANGED P!vars
  BY <1>3, Stutter DEF Commit
<1>10. QED
  BY <1>6, <1>7, <1>8, <1>9 DEF Inv

(* A replaced file stands for what it stood for before.                    *)
LEMMA ReplaceAction ==
  ASSUME Inv, Replace
  PROVE  Inv' /\ UNCHANGED P!vars
<1>1. /\ Pending /\ at \in Entries /\ at # "plan" /\ AtBefore(at)
      /\ todo \subseteq Entries /\ \A f \in Entries \ todo : Done(f)
      /\ at \in Files /\ journal.after[at] \in Contents(at)
  BY JournalKinds DEF Replace, Inv, Places, Rolling
<1>2. /\ DOMAIN file = Files /\ \A f \in Files : file[f] \in Contents(f)
      /\ Sound(journal) /\ Others(journal)
      /\ \A f \in Own : AtBefore(f) \/ AtAfter(f)
      /\ journal.phase = "committed" => \A f \in Entries : Done(f)
  BY <1>1 DEF Inv, TypeOK, JournalSound
<1>3. /\ DOMAIN file' = Files /\ file'[at] = journal.after[at]
      /\ \A f \in Files : f # at => file'[f] = file[f]
      /\ journal' = journal /\ edits' = edits
  BY <1>1, <1>2 DEF Replace
<1>4. \A f \in Files : file'[f] \in Contents(f)
  BY <1>1, <1>2, <1>3
<1>5. TypeOK'
  BY <1>1, <1>3, <1>4 DEF Replace, Inv, TypeOK, Rolling
<1>6. /\ \A f \in Entries : f = at \/ Done(f) => Done(f)'
      /\ \A f \in Own : AtBefore(f)' \/ AtAfter(f)'
  <2>1. Entries \subseteq Files /\ Own \subseteq Files
    BY <1>1, JournalKinds, FilesAre
  <2>2. QED
    BY <1>1, <1>2, <1>3, <2>1 DEF Done, AtBefore, AtAfter
<1>7. Others(journal)'
  <2>1. \A s \in Scopes \ Entries : file'[s] = file[s]
    BY <1>1, <1>3, FilesAre
  <2>2. QED
    BY <1>2, <1>3, <2>1 DEF Others, Entries
<1>8. JournalSound' /\ NoJournal'
  BY <1>1, <1>2, <1>3, <1>6, <1>7 DEF JournalSound, NoJournal, Pending, Entries
<1>9. Staged' /\ Places'
  BY <1>1, <1>3, <1>6 DEF Replace, Staged, Places, Rolling, Pending, Entries
<1>10. UNCHANGED P!vars
  <2>1. \A f \in Files : InForce(f)' = InForce(f)
    BY <1>1, <1>3 DEF InForce, Entries
  <2>2. \A s \in Scopes : file'[s].answers = file[s].answers
    <3> SUFFICES ASSUME NEW s \in Scopes PROVE file'[s].answers = file[s].answers
      OBVIOUS
    <3>1. CASE s = at
      BY <1>1, <1>2, <1>3, <3>1 DEF Sound, AtBefore, Entries
    <3>2. CASE s # at
      BY <1>3, <3>2, FilesAre
    <3>3. QED
      BY <3>1, <3>2
  <2>3. file'["plan"] = file["plan"]
    BY <1>1, <1>3, FilesAre
  <2>4. /\ InForce("snap")' = InForce("snap") /\ InForce("digest")' = InForce("digest")
        /\ InForce("audit")' = InForce("audit")
    BY <2>1 DEF Files
  <2>5. [s \in Scopes |-> InForce(s).man]' = [s \in Scopes |-> InForce(s).man]
    BY <2>1, FilesAre
  <2>6. [s \in Scopes |-> file[s].answers]' = [s \in Scopes |-> file[s].answers]
    BY <2>2
  <2>7. QED
    BY <1>3, <2>3, <2>4, <2>5, <2>6 DEF P!vars
<1>11. QED
  BY <1>5, <1>8, <1>9, <1>10 DEF Inv

(* Without the journal the files stand for themselves, and agree.          *)
LEMMA UnlinkAction ==
  ASSUME Inv, Unlink
  PROVE  Inv' /\ UNCHANGED P!vars
<1>1. /\ Pending /\ journal.phase = "committed"
      /\ file' = file /\ journal' = Absent /\ edits' = edits
  BY DEF Unlink, Inv, Places, Rolling
<1>2. /\ Sound(journal) /\ Others(journal)
      /\ \A f \in Entries : Done(f)
      /\ Own \subseteq Entries
  BY <1>1, JournalKinds DEF Inv, JournalSound
<1>3. \A f \in Own : file[f] = journal.after[f]
  BY <1>2, FilesAre DEF Done, AtAfter
<1>4. \A s \in Scopes : file[s].man = Manifest[journal.after["snap"]][s]
  <2> SUFFICES ASSUME NEW s \in Scopes
               PROVE  file[s].man = Manifest[journal.after["snap"]][s]
    OBVIOUS
  <2>1. CASE s \in Entries
    BY <1>2, <2>1 DEF Done, Sound, Entries
  <2>2. CASE s \notin Entries
    BY <1>2, <2>2 DEF Others, Entries
  <2>3. QED
    BY <2>1, <2>2
<1>5. Agreed
  BY <1>2, <1>3, <1>4 DEF Agreed, DigestMatches, ManifestsMatch, Sound, Own
<1>6. JournalSound' /\ NoJournal' /\ ~ Pending'
  BY <1>1, <1>5 DEF JournalSound, NoJournal, Pending, Agreed, DigestMatches, ManifestsMatch
<1>7. TypeOK'
  BY <1>1, AbsentOk DEF Unlink, Proceed, End, Inv, TypeOK, Commands, Rolling
<1>8. Staged' /\ Places'
  BY <1>1, <1>6 DEF Unlink, Proceed, End, Staged, Places, Rolling
<1>9. UNCHANGED P!vars
  <2>1. \A f : InForce(f)' = file[f]
    BY <1>1, AbsentOk DEF InForce, Entries
  <2>2. \A f \in Own : InForce(f)' = InForce(f)
    BY <1>2, <1>3, <2>1 DEF InForce
  <2>3. \A s \in Scopes : InForce(s)'.man = InForce(s).man
    BY <1>2, <2>1 DEF InForce, Done
  <2>4. [s \in Scopes |-> InForce(s).man]' = [s \in Scopes |-> InForce(s).man]
    BY <2>3
  <2>5. /\ InForce("snap")' = InForce("snap") /\ InForce("digest")' = InForce("digest")
        /\ InForce("audit")' = InForce("audit")
    BY <2>2 DEF Own
  <2>6. QED
    BY <1>1, <2>4, <2>5 DEF P!vars
<1>10. QED
  BY <1>6, <1>7, <1>8, <1>9 DEF Inv
-----------------------------------------------------------------------------
(* The others write what no unfinished replacement is about to overwrite.  *)
LEMMA EditAction ==
  ASSUME Inv, NEW p \in Plans, Edit(p)
  PROVE  Inv' /\ P!Edit(p)
<1>1. DOMAIN file = Files /\ \A f \in Files : file[f] \in Contents(f)
  BY DEF Inv, TypeOK
<1>2. /\ DOMAIN file' = Files /\ file'["plan"] = p
      /\ \A f \in Files : f # "plan" => file'[f] = file[f]
      /\ journal' = journal /\ edits' = edits + 1
  BY <1>1 DEF Edit, Files
<1>3. \A f \in Files : file'[f] \in Contents(f)
  BY <1>1, <1>2, FilesAre DEF Contents
<1>4. \A f \in Own \cup Scopes : f \in Files /\ f # "plan" /\ file'[f] = file[f]
  BY <1>2, FilesAre
<1>5. TypeOK'
  BY <1>2, <1>3 DEF Edit, Inv, TypeOK
<1>6. NoJournal'
  BY <1>2, <1>4 DEF Inv, NoJournal, Pending, Agreed, DigestMatches, ManifestsMatch, Own
<1>7. JournalSound' /\ \A f \in Entries : Done(f) => Done(f)'
  <2> SUFFICES ASSUME Pending PROVE JournalSound' /\ \A f \in Entries : Done(f) => Done(f)'
    BY <1>2, AbsentOk DEF JournalSound, Pending, Entries
  <2>1. Entries \subseteq Own \cup Scopes \cup {"plan"}
    BY JournalKinds, FilesAre
  <2>2. \A f \in Entries : Done(f) => Done(f)'
    BY <1>2, <1>4, <2>1 DEF Done, AtAfter
  <2>3. Others(journal)' /\ \A f \in Own : AtBefore(f)' \/ AtAfter(f)'
    BY <1>2, <1>4 DEF Inv, JournalSound, Others, AtBefore, AtAfter
  <2>4. QED
    BY <1>2, <2>2, <2>3 DEF Inv, JournalSound, Entries, Pending
<1>8. Staged'
  BY <1>4 DEF Edit, Inv, Staged, Others
<1>9. Places'
  <2>1. pc = "replace" => at \in Entries /\ at # "plan" /\ AtBefore(at)'
    <3> SUFFICES ASSUME pc = "replace"
                 PROVE  at \in Entries /\ at # "plan" /\ AtBefore(at)'
      OBVIOUS
    <3>1. Pending /\ at \in Entries /\ at # "plan" /\ AtBefore(at)
      BY DEF Inv, Places, Rolling
    <3>2. QED
      BY <1>2, <3>1, JournalKinds DEF AtBefore, Edit
  <2>2. QED
    BY <1>2, <1>7, <2>1 DEF Edit, Inv, Places, Rolling, Pending, Entries
<1>10. P!Edit(p)
  <2>1. \A f \in Own \cup Scopes : InForce(f)' = InForce(f)
    BY <1>2, <1>4 DEF InForce, Entries
  <2>2. [s \in Scopes |-> InForce(s).man]' = [s \in Scopes |-> InForce(s).man]
    BY <2>1
  <2>3. [s \in Scopes |-> file[s].answers]' = [s \in Scopes |-> file[s].answers]
    BY <1>4
  <2>4. /\ InForce("snap")' = InForce("snap") /\ InForce("digest")' = InForce("digest")
        /\ InForce("audit")' = InForce("audit")
    BY <2>1 DEF Own
  <2>5. QED
    BY <1>2, <2>2, <2>3, <2>4 DEF P!Edit
<1>11. QED
  BY <1>5, <1>6, <1>7, <1>8, <1>9, <1>10 DEF Inv

LEMMA WriteAction ==
  ASSUME Inv, NEW s \in Scopes, NEW a \in Answers, Write(s, a)
  PROVE  Inv' /\ P!Answer(s, a)
<1>1. /\ DOMAIN file = Files /\ \A f \in Files : file[f] \in Contents(f)
      /\ s \in Files /\ s \notin Own /\ s # "plan"
      /\ file[s] \in ScopeContent
  BY FilesAre DEF Inv, TypeOK, Contents
<1>2. /\ DOMAIN file' = Files
      /\ file'[s] = [file[s] EXCEPT !.answers = @ \cup {a}]
      /\ \A f \in Files : f # s => file'[f] = file[f]
      /\ journal' = journal /\ edits' = edits
  BY <1>1 DEF Write
<1>3. /\ file'[s] \in ScopeContent /\ file'[s].man = file[s].man
      /\ file'[s].answers = file[s].answers \cup {a}
  BY <1>1, <1>2 DEF ScopeContent
<1>4. \A f \in Files : file'[f] \in Contents(f)
  BY <1>1, <1>2, <1>3 DEF Contents
<1>5. /\ \A f \in Own \cup {"plan"} : f \in Files /\ f # s /\ file'[f] = file[f]
      /\ \A t \in Scopes : t \in Files /\ file'[t].man = file[t].man
  BY <1>1, <1>2, <1>3, FilesAre
<1>6. TypeOK'
  BY <1>2, <1>4 DEF Write, Inv, TypeOK
<1>7. NoJournal'
  BY <1>2, <1>5 DEF Inv, NoJournal, Pending, Agreed, DigestMatches, ManifestsMatch, Own
<1>8. JournalSound' /\ \A f \in Entries : Done(f) => Done(f)'
  <2> SUFFICES ASSUME Pending PROVE JournalSound' /\ \A f \in Entries : Done(f) => Done(f)'
    BY <1>2, AbsentOk DEF JournalSound, Pending, Entries
  <2>1. Entries \subseteq Own \cup Scopes \cup {"plan"}
    BY JournalKinds, FilesAre
  <2>2. \A f \in Entries : Done(f) => Done(f)'
    BY <1>2, <1>5, <2>1 DEF Done, AtAfter
  <2>3. Others(journal)' /\ \A f \in Own : AtBefore(f)' \/ AtAfter(f)'
    BY <1>2, <1>5 DEF Inv, JournalSound, Others, AtBefore, AtAfter
  <2>4. QED
    BY <1>2, <2>2, <2>3 DEF Inv, JournalSound, Entries, Pending
<1>9. Staged'
  BY <1>5 DEF Write, Inv, Staged, Others
<1>10. Places'
  <2>1. pc = "replace" => at \in Entries /\ at # "plan" /\ AtBefore(at)'
    <3> SUFFICES ASSUME pc = "replace"
                 PROVE  at \in Entries /\ at # "plan" /\ AtBefore(at)'
      OBVIOUS
    <3>1. Pending /\ at \in Entries /\ at # "plan" /\ AtBefore(at)
      BY DEF Inv, Places, Rolling
    <3>2. at # s
      BY <3>1 DEF Write, Locked, Rolling
    <3>3. QED
      BY <1>2, <3>1, <3>2, JournalKinds DEF AtBefore, Write
  <2>2. QED
    BY <1>2, <1>8, <2>1 DEF Write, Inv, Places, Rolling, Pending, Entries
<1>11. P!Answer(s, a)
  <2>1. /\ \A f \in Own : InForce(f)' = InForce(f)
        /\ \A t \in Scopes : InForce(t)'.man = InForce(t).man
    BY <1>2, <1>5 DEF InForce, Entries
  <2>2. [t \in Scopes |-> InForce(t).man]' = [t \in Scopes |-> InForce(t).man]
    BY <2>1
  <2>3. [t \in Scopes |-> file[t].answers]'
          = [[t \in Scopes |-> file[t].answers] EXCEPT ![s] = @ \cup {a}]
    BY <1>2, <1>3, FilesAre
  <2>4. /\ InForce("snap")' = InForce("snap") /\ InForce("digest")' = InForce("digest")
        /\ InForce("audit")' = InForce("audit") /\ file'["plan"] = file["plan"]
    BY <1>5, <2>1 DEF Own
  <2>5. QED
    BY <1>2, <2>2, <2>3, <2>4 DEF P!Answer
<1>12. QED
  BY <1>6, <1>7, <1>8, <1>9, <1>10, <1>11 DEF Inv
-----------------------------------------------------------------------------
(* The files are created by init from one plan.                            *)
LEMMA InitInv ==
  ASSUME Init
  PROVE  Inv /\ P!Init
<1>1. PICK p \in Plans :
        file = [f \in Files |-> IF f \in Scopes
                                THEN [man |-> Manifest[p][f], answers |-> {}]
                                ELSE IF f = "audit" THEN << >> ELSE p]
  BY DEF Init
<1>2. /\ journal = Absent /\ Entries = {} /\ ~ Pending
      /\ pc = "idle" /\ edits = 0
  BY AbsentOk DEF Init, Entries, Pending
<1>3. /\ file["snap"] = p /\ file["digest"] = p /\ file["plan"] = p
      /\ file["audit"] = << >>
  BY <1>1, FilesAre DEF Own
<1>4. Manifest[p] \in [Scopes -> Plans]
  BY PlanAssumption
<1> DEFINE first(s) == [man |-> Manifest[p][s], answers |-> {}]
<1>5. \A s \in Scopes : file[s] = first(s)
  BY <1>1, FilesAre
<1>6. \A s \in Scopes : /\ first(s) \in ScopeContent
                        /\ first(s).man = Manifest[p][s] /\ first(s).answers = {}
  BY <1>4 DEF ScopeContent
<1> HIDE DEF first
<1>7. TypeOK
  <2>1. DOMAIN file = Files
    BY <1>1
  <2>2. \A f \in Files : file[f] \in Contents(f)
    <3>1. \A s \in Scopes : file[s] \in ScopeContent
      BY <1>5, <1>6
    <3>2. << >> \in Seq(Plans)
      OBVIOUS
    <3>3. QED
      BY <1>3, <3>1, <3>2, FilesAre DEF Contents, Own
  <2>3. QED
    BY <2>1, <2>2, AbsentOk DEF Init, TypeOK
<1>8. NoJournal
  BY <1>3, <1>5, <1>6 DEF NoJournal, Agreed, DigestMatches, ManifestsMatch
<1>9. JournalSound /\ Staged /\ Places
  BY <1>2 DEF JournalSound, Staged, Places, Rolling
<1>10. P!Init
  <2>1. \A f : InForce(f) = file[f]
    BY <1>2 DEF InForce
  <2>2. [s \in Scopes |-> InForce(s).man] = Manifest[p]
    BY <1>4, <1>5, <1>6, <2>1
  <2>3. [s \in Scopes |-> file[s].answers] = [s \in Scopes |-> {}]
    BY <1>5, <1>6
  <2>4. QED
    BY <1>2, <1>3, <2>1, <2>2, <2>3 DEF P!Init
<1>11. QED
  BY <1>7, <1>8, <1>9, <1>10 DEF Inv

(* Every step keeps the invariant and is a step of PlanStore or none.      *)
LEMMA NextInv ==
  ASSUME Inv, [Next]_vars
  PROVE  Inv' /\ [P!Next]_(P!vars)
<1>1. CASE \/ \E c \in Commands : Start(c)
           \/ OpenClean \/ OpenPending \/ Stop
  BY <1>1, OpeningActions, Stutter
<1>2. CASE Analyse \/ LockRuns \/ Stage \/ Decline
  BY <1>2, PreparingActions, Stutter
<1>3. CASE \/ Preflight \/ (\E f \in todo : PassOver(f) \/ Compare(f))
           \/ Verify \/ RemoveImages \/ Refuse \/ Fault \/ Crash
  BY <1>3, RollingActions, Stutter
<1>4. CASE Publish \/ PublishFails
  BY <1>4, PublishActions DEF P!Next
<1>5. CASE Commit
  BY <1>5, CommitAction
<1>6. CASE Replace
  BY <1>6, ReplaceAction
<1>7. CASE Unlink
  BY <1>7, UnlinkAction
<1>8. CASE \E p \in Plans : Edit(p)
  BY <1>8, EditAction DEF P!Next
<1>9. CASE \E s \in Scopes, a \in Answers : Write(s, a)
  BY <1>9, WriteAction DEF P!Next
<1>10. CASE UNCHANGED vars
  <2>1. file' = file /\ journal' = journal /\ edits' = edits
    BY <1>10 DEF vars
  <2>2. TypeOK' /\ Staged' /\ Places'
    BY <1>10 DEF vars, Inv, TypeOK, Staged, Places, Others, Pending, Entries,
                 Done, AtBefore, AtAfter
  <2>3. QED
    BY <2>1, <2>2, Quiet, Stutter DEF Inv
<1>11. QED
  BY <1>1, <1>2, <1>3, <1>4, <1>5, <1>6, <1>7, <1>8, <1>9, <1>10 DEF Next, Step

(* Files, journal and the place of the command keep their types: the       *)
(* journal on disk is absent, or covers the log, the snapshot, the digest  *)
(* and the plan, whenever the command may die.                             *)
THEOREM RevisionTyped == Spec => []TypeOK
<1>1. Init => Inv
  BY InitInv
<1>2. Inv /\ [Next]_vars => Inv'
  BY NextInv
<1>3. Inv => TypeOK
  BY DEF Inv
<1>4. QED
  BY <1>1, <1>2, <1>3, PTL DEF Spec

(* Whenever no journal is on disk, the snapshot, its digest and the        *)
(* manifest of every scope agree: no path of the commit or of its recovery *)
(* leaves a revision applied in part.                                      *)
THEOREM NoPartialRevision == Spec => [](~ Pending => Agreed)
<1>1. Init => Inv
  BY InitInv
<1>2. Inv /\ [Next]_vars => Inv'
  BY NextInv
<1>3. Inv => (~ Pending => Agreed)
  BY DEF Inv, NoJournal
<1>4. QED
  BY <1>1, <1>2, <1>3, PTL DEF Spec

(* The commit of several files and its recovery implement the one-step     *)
(* acceptance of PlanStore.                                                *)
THEOREM RevisionIsAtomic == Spec => ImplementsPlanStore
<1>1. Init => Inv /\ P!Init
  BY InitInv
<1>2. Inv /\ [Next]_vars => Inv' /\ [P!Next]_(P!vars)
  BY NextInv
<1>3. QED
  BY <1>1, <1>2, PTL DEF Spec, ImplementsPlanStore, P!Spec

-----------------------------------------------------------------------------
(***************************************************************************)
(* What the one-step acceptance means for the files, at every moment of a  *)
(* commit, of its recovery and of the store commands between them.         *)
(***************************************************************************)

(* What is in force is one revision: its digest, the manifest of every     *)
(* scope and, once there was a revision, the last line of the audit log.   *)
OneInForce ==
  /\ InForce("digest") = InForce("snap")
  /\ [s \in Scopes |-> InForce(s).man] = Manifest[InForce("snap")]
  /\ InForce("audit") # <<>> =>
       InForce("audit")[Len(InForce("audit"))] = InForce("snap")

(* The sequence that the audit log is.                                     *)
AuditTyped == InForce("audit") \in Seq(Plans)

(* The revision in force is never a mixture of two, whatever journal is on *)
(* disk and whichever files it has replaced already                        *)
(* (commit_prepared_revision, recover_plan_revision).                      *)
THEOREM NeverMixed == Spec => []OneInForce
<1> DEFINE A == OneInForce /\ AuditTyped
<1>1. P!Init => A
  <2> SUFFICES ASSUME P!Init PROVE A
    OBVIOUS
  <2> DEFINE man == [s \in Scopes |-> InForce(s).man]
  <2>1. /\ InForce("digest") = InForce("snap") /\ InForce("audit") = <<>>
        /\ man = Manifest[InForce("snap")]
    BY DEF P!Init
  <2>2. OneInForce
    BY <2>1 DEF OneInForce
  <2> HIDE DEF man
  <2>3. AuditTyped
    <3>1. <<>> \in Seq(Plans)
      OBVIOUS
    <3>2. QED
      BY <2>1, <3>1 DEF AuditTyped
  <2>4. QED
    BY <2>2, <2>3
<1>2. A /\ [P!Next]_(P!vars) => A'
  <2> SUFFICES ASSUME A, [P!Next]_(P!vars) PROVE A'
    OBVIOUS
  <2>1. ASSUME NEW p \in Plans, P!Accept(p) PROVE A'
    <3> DEFINE log == InForce("audit")
    <3>1. /\ InForce("snap")' = p /\ InForce("digest")' = p
          /\ [s \in Scopes |-> InForce(s).man]' = Manifest[p]
          /\ InForce("audit")' = Append(log, p) /\ log \in Seq(Plans)
      BY <2>1 DEF P!Accept, AuditTyped
    <3> HIDE DEF log
    <3>2. Append(log, p) \in Seq(Plans) /\ Append(log, p)[Len(Append(log, p))] = p
      BY <3>1
    <3>3. QED
      BY <3>1, <3>2 DEF OneInForce, AuditTyped
  <2>2. CASE UNCHANGED <<InForce("snap"), InForce("digest"), [s \in Scopes |-> InForce(s).man], InForce("audit")>>
    BY <2>2 DEF OneInForce, AuditTyped
  <2>3. QED
    BY <2>1, <2>2 DEF P!Next, P!Edit, P!Answer, P!vars
<1>3. ImplementsPlanStore => []A
  BY <1>1, <1>2, PTL DEF ImplementsPlanStore, P!Spec
<1>4. QED
  BY <1>3, RevisionIsAtomic, PTL

(* One step of the files as a reader of the store sees them: an answer     *)
(* stays, plan.json changes only by an edit, and what is in force changes  *)
(* only together with a new line at the end of the audit log.              *)
NothingOverwritten ==
  /\ \A s \in Scopes : file[s].answers \subseteq file'[s].answers
  /\ file'["plan"] # file["plan"] => edits' = edits + 1
  /\ \/ InForce("audit")' = InForce("audit") /\ InForce("snap")' = InForce("snap")
     \/ InForce("audit")' = Append(InForce("audit"), InForce("snap")')

(* No file write of a commit, a recovery or a retry overwrites an answer   *)
(* that a store command recorded or an edit of the operator, and none      *)
(* takes a revision back (_preflight_entries, _require_before_digest and   *)
(* the scope locks of _recover_journal_with_scope_locks).                  *)
THEOREM RevisionOverwritesNothing == Spec => [][NothingOverwritten]_vars
<1>1. [P!Next]_(P!vars) => NothingOverwritten
  <2> SUFFICES ASSUME [P!Next]_(P!vars) PROVE NothingOverwritten
    OBVIOUS
  <2> DEFINE ans == [s \in Scopes |-> file[s].answers]
  <2>1. \A s \in Scopes : ans[s] = file[s].answers /\ ans'[s] = file'[s].answers
    OBVIOUS
  <2>2. ASSUME NEW s \in Scopes PROVE file[s].answers \subseteq file'[s].answers
    <3>1. CASE ans' = ans
      BY <2>1, <3>1
    <3>2. ASSUME NEW t \in Scopes, NEW a \in Answers, P!Answer(t, a) PROVE ans[s] \subseteq ans'[s]
      BY <3>2 DEF P!Answer
    <3>3. QED
      BY <2>1, <3>1, <3>2 DEF P!Next, P!Edit, P!Accept, P!vars
  <2>3. file'["plan"] # file["plan"] => edits' = edits + 1
    BY DEF P!Next, P!Edit, P!Accept, P!Answer, P!vars
  <2>4. \/ InForce("audit")' = InForce("audit") /\ InForce("snap")' = InForce("snap")
        \/ InForce("audit")' = Append(InForce("audit"), InForce("snap")')
    BY DEF P!Next, P!Edit, P!Accept, P!Answer, P!vars
  <2>5. QED
    BY <2>2, <2>3, <2>4 DEF NothingOverwritten
<1>2. Inv /\ [Next]_vars => [NothingOverwritten]_vars
  BY <1>1, NextInv
<1>3. QED
  BY <1>2, InitInv, NextInv, PTL DEF Spec
=============================================================================
