------------------------------ MODULE PostMerge ------------------------------
(***************************************************************************)
(* The post-merge progression of one child: the reducer of                 *)
(* tl_loop/fsm/post_merge*.py.  A state is a phase and cumulative          *)
(* evidence; X(s, ...) is the state after event X and CanX(s, ...) says    *)
(* that the reducer accepts it.  An event that merely repeats the evidence *)
(* of the current phase returns the state and is not stated here.          *)
(*                                                                         *)
(* Intent ids are hashes of (run, operation, child, generation); what they *)
(* tell apart is the generation: intent 0 is `changelog' and `parent_push',*)
(* intent g > 0 their `_rebuild' forms of generation g.                    *)
(***************************************************************************)
EXTENDS Integers, Sequences

CONSTANT Missing        \* evidence.get(key) is None

(* PostMergePhase, in the order of the progression.                        *)
PhaseOrder == <<"not_started", "remote_merge_adopted", "parent_branch_synced",
                "issue_close_pending", "issue_close_confirmed",
                "changelog_pending", "changelog_committed",
                "parent_push_pending", "complete">>
PostMergePhases == {PhaseOrder[i] : i \in 1..Len(PhaseOrder)}
Rank(phase) == CHOOSE i \in 1..Len(PhaseOrder) : PhaseOrder[i] = phase

(* epoch: lane_epoch; gen, intent: changelog_generation, _intent_id;       *)
(* commit: changelog_commit_sha; push: parent_push_intent_id and           *)
(* push_journal_id; base: expected_base_sha; rebuild, applied:             *)
(* rebuild_reason, rebuild_applied; failed: rebuild_failed_push_*_id;      *)
(* attempt, fgen, fattempt: issue_close_attempt, _failure_generation,      *)
(* _failure_attempt.                                                       *)
NotStarted ==
  [phase |-> "not_started", epoch |-> Missing, gen |-> 0, intent |-> Missing,
   commit |-> Missing, push |-> Missing, base |-> Missing,
   rebuild |-> FALSE, applied |-> FALSE, failed |-> Missing,
   attempt |-> 0, fgen |-> 0, fattempt |-> 0]

(* _merge_adopted                                                          *)
MergeAdopted(s, epoch) ==
  [s EXCEPT !.phase = "remote_merge_adopted", !.epoch = epoch]

(* _parent_branch_synced                                                   *)
ParentBranchSynced(s) == [s EXCEPT !.phase = "parent_branch_synced"]

(* _issue_close_pending                                                    *)
IssueClosePending(s) ==
  [s EXCEPT !.phase = "issue_close_pending", !.attempt = 1]

(* _issue_close_confirmed, _issue_close_already_closed                     *)
IssueCloseConfirmed(s) == [s EXCEPT !.phase = "issue_close_confirmed"]

(* _issue_close_failed, for the next failure generation.                   *)
IssueCloseFailed(s) == [s EXCEPT !.fgen = @ + 1, !.fattempt = s.attempt]

(* _issue_close_retry_authorized                                           *)
IssueCloseRetryAuthorized(s) == [s EXCEPT !.attempt = @ + 1]

(* _changelog_pending, the first generation.                               *)
ChangelogPending(s) ==
  [s EXCEPT !.phase = "changelog_pending", !.intent = 0, !.gen = 0]

(* _changelog_committed                                                    *)
CanChangelogCommitted(s, intent) ==
  /\ s.phase = "changelog_pending"
  /\ IF s.rebuild /\ ~ s.applied THEN s.intent # intent ELSE s.intent = intent

ChangelogCommitted(s, intent, commit) ==
  [s EXCEPT !.phase = "changelog_committed", !.intent = intent,
            !.commit = commit, !.applied = s.rebuild]

(* _parent_push_pending with require_fresh_rebuild_push.                   *)
CanParentPushPending(s, push) ==
  s.phase = "changelog_committed" /\ push # s.failed

ParentPushPending(s, push, base, epoch) ==
  [s EXCEPT !.phase = "parent_push_pending", !.push = push, !.base = base,
            !.epoch = epoch]

(* rebuild_post_merge: a strictly newer generation after a stale push.     *)
CanRebuild(s, gen, failed) ==
  s.phase = "parent_push_pending" /\ s.push = failed /\ gen > s.gen

Rebuild(s, gen, failed, base) ==
  [s EXCEPT !.phase = "changelog_pending", !.gen = gen, !.base = base,
            !.failed = failed, !.rebuild = TRUE]

(* complete_post_merge: the receipt repeats the pending push.              *)
CanComplete(s, receipt) ==
  /\ s.phase = "parent_push_pending"
  /\ receipt.push = s.push /\ receipt.base = s.base
  /\ receipt.epoch = s.epoch /\ receipt.commit = s.commit

PostMergeComplete(s) == [s EXCEPT !.phase = "complete"]
=============================================================================
