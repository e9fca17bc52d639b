----------------------------- MODULE PlanRevision -----------------------------
(***************************************************************************)
(* The journalled commit of a plan revision and its recovery               *)
(* (plan_revision_apply.py, plan_revision_transaction.py).  A revision     *)
(* replaces several files one by one: the audit log, the plan snapshot,    *)
(* its digest and the run.json of every scope whose manifest changes.      *)
(*                                                                         *)
(* The commands `plan revise`, `plan-revision-recover` and `run` hold the  *)
(* controller lifecycle lock from their first step to their last, so one   *)
(* of them is active at a time; pc is its place.  The others act meanwhile *)
(* without that lock: the operator edits plan.json, and store commands     *)
(* (answers to gates and the like) rewrite a run.json under its run lock.  *)
(***************************************************************************)
EXTENDS Sequences, Naturals

CONSTANTS
  Plans, Scopes, Answers,
  Manifest,    \* Manifest[p][s] is what plan p declares for scope s
  Place,       \* Place[s] is the place of the run.json of s in path order
  None,
  MaxEdits,    \* bound on the edits of plan.json
  MaxMishaps   \* bound on crashes and failed reads and writes

ASSUME PlanAssumption ==
  /\ Manifest \in [Plans -> [Scopes -> Plans]]
  /\ Place \in [Scopes -> Nat]
  /\ Scopes \cap {"plan", "snap", "digest", "audit"} = {}
  /\ None \notin Plans

(* The participants, and the order in which they are replaced: plan.json   *)
(* last, the others by path.                                               *)
Files == {"audit", "snap", "digest", "plan"} \cup Scopes

Rank(f) == CASE f = "audit"  -> 0
             [] f = "snap"   -> 1
             [] f = "digest" -> 2
             [] OTHER        -> 3 + Place[f]

First(f, S) ==
  /\ f \in S
  /\ \A g \in S \ {"plan"} : f # "plan" /\ Rank(f) <= Rank(g)

VARIABLES
  file,     \* file[f] is the content of f
  journal,  \* plan-revision-transition.json, or Absent
  images,   \* the after-images of the journalled transition are on disk
  pc, cmd,  \* the place and the name of the command that has the lock
  mode,     \* which call rolls the journal forward
  cand,     \* the candidate that the first analysis saw
  doc,      \* the document about to be published as the journal
  todo,     \* the entries that _apply_entries has still to visit
  at,       \* the one it is about to replace
  edits, mishaps

vars == <<file, journal, images, pc, cmd, mode, cand, doc, todo, at, edits, mishaps>>

Empty  == [f \in {} |-> None]
Absent == [phase |-> "none", before |-> Empty, after |-> Empty]

Pending == journal # Absent

Commands == {"revise", "recover", "run"}
Rolling  == {"preflight", "apply", "replace", "verify", "cleanup", "unlink"}

Init ==
  /\ \E p \in Plans :
       file = [f \in Files |-> IF f \in Scopes
                               THEN [man |-> Manifest[p][f], answers |-> {}]
                               ELSE IF f = "audit" THEN << >> ELSE p]
  /\ journal = Absent /\ images = FALSE
  /\ pc = "idle" /\ cmd = None /\ mode = None
  /\ cand = None /\ doc = Absent /\ todo = {} /\ at = None
  /\ edits = 0 /\ mishaps = 0

(* Everything is released when the command ends: the locks with the        *)
(* process, and an unpublished transition is never looked at again.        *)
End ==
  /\ pc' = "idle" /\ cmd' = None /\ mode' = None
  /\ cand' = None /\ doc' = Absent /\ todo' = {} /\ at' = None
-----------------------------------------------------------------------------
(* Start of a command, and the recovery that each of them begins with.     *)
Start(c) ==
  /\ pc = "idle"
  /\ pc' = "open" /\ cmd' = c
  /\ UNCHANGED <<file, journal, images, mode, cand, doc, todo, at, edits, mishaps>>

(* With no journal (left), each command goes on with its own work.         *)
Proceed ==
  /\ IF cmd = "recover" THEN End
     ELSE /\ pc' = IF cmd = "run" THEN "running" ELSE "analyse"
          /\ mode' = None
          /\ UNCHANGED <<cmd, cand, doc, todo, at>>

OpenClean ==
  /\ pc = "open" /\ ~ Pending
  /\ Proceed
  /\ UNCHANGED <<file, journal, images, edits, mishaps>>

(* Mutant: recovery takes every journal for a committed one.               *)
Resume_OnlyVerifies == "verify"

(* Where _recover_locked begins.                                           *)
Resume == IF journal.phase = "prepared" THEN "preflight" ELSE "verify"

OpenPending ==
  /\ pc = "open" /\ Pending
  /\ mode' = "startup" /\ pc' = Resume
  /\ UNCHANGED <<file, journal, images, cmd, cand, doc, todo, at, edits, mishaps>>

(* The controller ends.                                                    *)
Stop ==
  /\ pc = "running"
  /\ End
  /\ UNCHANGED <<file, journal, images, edits, mishaps>>
-----------------------------------------------------------------------------
(* Analysis and preparation of a revision.                                 *)

(* The saved state that analyze_plan_revision insists on: the snapshot has *)
(* its recorded digest, and every scope the manifest of the snapshot.      *)
DigestMatches  == file["digest"] = file["snap"]
ManifestsMatch == \A s \in Scopes : file[s].man = Manifest[file["snap"]][s]
Agreed         == DigestMatches /\ ManifestsMatch

Analyse ==
  /\ pc = "analyse" /\ Agreed
  /\ cand' = file["plan"] /\ pc' = "lock"
  /\ UNCHANGED <<file, journal, images, cmd, mode, doc, todo, at, edits, mishaps>>

(* With the run locks of all scopes the analysis is made again, and must   *)
(* see the same candidate, one that differs from the plan in force.        *)
LockRuns ==
  /\ pc = "lock" /\ Agreed
  /\ file["plan"] = cand /\ cand # file["snap"]
  /\ pc' = "stage"
  /\ UNCHANGED <<file, journal, images, cmd, mode, cand, doc, todo, at, edits, mishaps>>

(* Mutant: the digest is not a participant.                                *)
Participants_NoDigest(p) ==
  {"audit", "snap", "plan"} \cup
  {s \in Scopes : Manifest[p][s] # Manifest[file["snap"]][s]}

(* The scopes whose manifest the candidate changes take part.              *)
Participants(p) ==
  {"audit", "snap", "digest", "plan"} \cup
  {s \in Scopes : Manifest[p][s] # Manifest[file["snap"]][s]}

Revised(p, f) == IF f \in Scopes THEN [file[f] EXCEPT !.man = Manifest[p][f]]
                 ELSE IF f = "audit" THEN Append(file[f], p) ELSE p

Document(p) == [phase  |-> "prepared",
                before |-> [f \in Participants(p) |-> file[f]],
                after  |-> [f \in Participants(p) |-> Revised(p, f)]]

(* The images are on disk before the journal that names them.              *)
Stage ==
  /\ pc = "stage" /\ file["plan"] = cand
  /\ doc' = Document(cand) /\ images' = TRUE
  /\ pc' = "publish"
  /\ UNCHANGED <<file, journal, cmd, mode, cand, todo, at, edits, mishaps>>

Publish ==
  /\ pc = "publish"
  /\ journal' = doc /\ mode' = "commit" /\ pc' = "preflight"
  /\ doc' = Absent
  /\ UNCHANGED <<file, images, cmd, cand, todo, at, edits, mishaps>>

(* The journal is in place but its write reports an error: the command     *)
(* leaves it to recovery (_cleanup_failed_preparation).                    *)
PublishFails ==
  /\ pc = "publish" /\ mishaps < MaxMishaps
  /\ journal' = doc
  /\ mishaps' = mishaps + 1
  /\ End
  /\ UNCHANGED <<file, images, edits>>

(* A blocked, changed or no-op candidate, a lock timeout or an error       *)
(* before the journal was published ends the command without a trace.      *)
Decline ==
  /\ pc \in {"analyse", "lock", "stage", "publish"}
  /\ images' = FALSE
  /\ End
  /\ UNCHANGED <<file, journal, edits, mishaps>>
-----------------------------------------------------------------------------
(* Rolling the journal forward: commit_prepared_revision, and              *)
(* _recover_locked at startup or after a failed commit.                    *)
Entries == DOMAIN journal.after

AtBefore(f) == file[f] = journal.before[f]
AtAfter(f)  == file[f] = journal.after[f]
AllAfter    == \A f \in Entries : AtAfter(f)

PreflightOk == \A f \in Entries : AtAfter(f) \/ (AtBefore(f) /\ images)

Preflight ==
  /\ pc = "preflight" /\ PreflightOk
  /\ pc' = "apply" /\ todo' = Entries
  /\ UNCHANGED <<file, journal, images, cmd, mode, cand, doc, at, edits, mishaps>>

(* An entry that has its after-image is passed over; one that has neither  *)
(* image is left alone.                                                    *)
CanApply(f) == AtAfter(f) \/ (AtBefore(f) /\ images)

PassOver(f) ==
  /\ pc = "apply" /\ First(f, todo) /\ AtAfter(f)
  /\ todo' = todo \ {f}
  /\ UNCHANGED <<file, journal, images, pc, cmd, mode, cand, doc, at, edits, mishaps>>

(* The target is compared with the before-image, then replaced.            *)
Compare(f) ==
  /\ pc = "apply" /\ First(f, todo) /\ ~ AtAfter(f) /\ CanApply(f)
  /\ at' = f /\ pc' = "replace"
  /\ UNCHANGED <<file, journal, images, cmd, mode, cand, doc, todo, edits, mishaps>>

Replace ==
  /\ pc = "replace"
  /\ file' = [file EXCEPT ![at] = journal.after[at]]
  /\ todo' = todo \ {at} /\ at' = None /\ pc' = "apply"
  /\ UNCHANGED <<journal, images, cmd, mode, cand, doc, edits, mishaps>>

(* Only the commit proper verifies before it marks the journal.            *)
CanCommit == mode = "commit" => AllAfter

Commit ==
  /\ pc = "apply" /\ todo = {} /\ CanCommit
  /\ journal' = [journal EXCEPT !.phase = "committed"]
  /\ pc' = "verify"
  /\ UNCHANGED <<file, images, cmd, mode, cand, doc, todo, at, edits, mishaps>>

Verify ==
  /\ pc = "verify" /\ AllAfter
  /\ pc' = "cleanup"
  /\ UNCHANGED <<file, journal, images, cmd, mode, cand, doc, todo, at, edits, mishaps>>

RemoveImages ==
  /\ pc = "cleanup"
  /\ images' = FALSE /\ pc' = "unlink"
  /\ UNCHANGED <<file, journal, cmd, mode, cand, doc, todo, at, edits, mishaps>>

(* Recovery at startup is followed by the command's own work.              *)
Unlink ==
  /\ pc = "unlink"
  /\ journal' = Absent
  /\ IF mode = "startup" THEN Proceed ELSE End
  /\ UNCHANGED <<file, images, edits, mishaps>>
-----------------------------------------------------------------------------
(* Failure while rolling forward.  A failed commit goes over to recovery   *)
(* under the same locks; a failed recovery leaves the journal in place.    *)
Failed ==
  /\ IF mode = "commit"
     THEN /\ mode' = "retry" /\ pc' = Resume
          /\ todo' = {} /\ at' = None
          /\ UNCHANGED <<cmd, cand, doc>>
     ELSE End
  /\ UNCHANGED <<file, journal, images, edits>>

(* A check of the code fails: a target has drifted.                        *)
Refuse ==
  /\ \/ pc = "preflight" /\ ~ PreflightOk
     \/ pc = "apply" /\ \E f \in todo : First(f, todo) /\ ~ CanApply(f)
     \/ pc = "apply" /\ todo = {} /\ ~ CanCommit
     \/ pc = "verify" /\ ~ AllAfter
  /\ Failed
  /\ UNCHANGED mishaps

(* A read or a write fails.                                                *)
Fault ==
  /\ pc \in Rolling /\ mishaps < MaxMishaps
  /\ Failed
  /\ mishaps' = mishaps + 1

(* The process dies.                                                       *)
Crash ==
  /\ pc # "idle" /\ mishaps < MaxMishaps
  /\ End
  /\ images' = (images /\ Pending)
  /\ mishaps' = mishaps + 1
  /\ UNCHANGED <<file, journal, edits>>
-----------------------------------------------------------------------------
(* The others.                                                             *)
Edit(p) ==
  /\ edits < MaxEdits /\ p # file["plan"]
  /\ file' = [file EXCEPT !["plan"] = p]
  /\ edits' = edits + 1
  /\ UNCHANGED <<journal, images, pc, cmd, mode, cand, doc, todo, at, mishaps>>

(* Mutant: the run locks are not taken.                                    *)
Locked_None == {}

(* The run locks the command holds: of all scopes in an apply, of the      *)
(* scopes in the journal in a recovery at startup.                         *)
Locked ==
  IF pc \in {"stage", "publish"} \/ mode \in {"commit", "retry"} THEN Scopes
  ELSE IF pc \in Rolling THEN Entries \cap Scopes ELSE {}

(* A store command or the controller writes a run.json (write.apply).      *)
Write(s, a) ==
  /\ s \notin Locked /\ a \notin file[s].answers
  /\ file' = [file EXCEPT ![s].answers = @ \cup {a}]
  /\ UNCHANGED <<journal, images, pc, cmd, mode, cand, doc, todo, at, edits, mishaps>>
-----------------------------------------------------------------------------
Step == \/ OpenClean \/ OpenPending
        \/ Analyse \/ LockRuns \/ Stage \/ Publish \/ Decline
        \/ Preflight \/ (\E f \in todo : PassOver(f) \/ Compare(f)) \/ Replace
        \/ Commit \/ Verify \/ RemoveImages \/ Unlink \/ Refuse

Next == \/ Step \/ Stop \/ PublishFails \/ Fault \/ Crash
        \/ \E c \in Commands : Start(c)
        \/ \E p \in Plans : Edit(p)
        \/ \E s \in Scopes, a \in Answers : Write(s, a)

Spec == Init /\ [][Next]_vars

(* A command that runs goes on, and some command is started again.         *)
FairSpec == Spec /\ WF_vars(Step) /\ WF_vars(\E c \in Commands : Start(c))
-----------------------------------------------------------------------------
ScopeContent == [man : Plans, answers : SUBSET Answers]

Contents(f) == IF f \in Scopes THEN ScopeContent
               ELSE IF f = "audit" THEN Seq(Plans) ELSE Plans

DocumentOk(d) ==
  \/ d = Absent
  \/ /\ d = [phase |-> d.phase, before |-> d.before, after |-> d.after]
     /\ d.phase \in {"prepared", "committed"}
     /\ DOMAIN d.before = DOMAIN d.after
     /\ DOMAIN d.after \subseteq Files
     /\ {"audit", "snap", "digest", "plan"} \subseteq DOMAIN d.after
     /\ \A f \in DOMAIN d.after : /\ d.before[f] \in Contents(f)
                                  /\ d.after[f] \in Contents(f)

(* Type invariant: the files have the content of their kind, and the       *)
(* journal covers the log, the snapshot, its digest and the plan.          *)
TypeOK ==
  /\ DOMAIN file = Files /\ \A f \in Files : file[f] \in Contents(f)
  /\ DocumentOk(journal) /\ DocumentOk(doc)
  /\ images \in BOOLEAN
  /\ pc \in {"idle", "open", "running", "analyse", "lock", "stage", "publish"}
            \cup Rolling
  /\ cmd \in Commands \cup {None}
  /\ mode \in {"startup", "commit", "retry", None}
  /\ cand \in Plans \cup {None}
  /\ todo \subseteq Files /\ at \in Files \cup {None}

(* A transition takes effect when its journal is published: from then on   *)
(* its after-images are what the files stand for, whoever crashes.         *)
InForce(f) == IF f \in Entries THEN journal.after[f] ELSE file[f]

P == INSTANCE PlanStore WITH draft    <- file["plan"],
                             edited   <- edits,
                             accepted <- InForce("snap"),
                             digest   <- InForce("digest"),
                             bound    <- [s \in Scopes |-> InForce(s).man],
                             audit    <- InForce("audit"),
                             answered <- [s \in Scopes |-> file[s].answers]

(* The commit of several files is one step of PlanStore, in spite of       *)
(* crashes, failures, edits and store commands between any two writes: a   *)
(* published revision is never taken back or applied in part, and neither  *)
(* an edit of plan.json nor an answer in a run.json is overwritten.        *)
ImplementsPlanStore == P!Spec

(* A target that an outsider changed after the journal was published.      *)
Drifted ==
  \E f \in Entries : ~ AtAfter(f) /\ (journal.phase = "committed" \/ ~ AtBefore(f))

(* A published transition is completed by the next command that lives long *)
(* enough, unless a target drifted (_recover_plan_revision_locked).        *)
Settles == Pending ~> (~ Pending \/ Drifted)
=============================================================================
