----------------------------- MODULE ParentLane -----------------------------
(***************************************************************************)
(* How the team-lead controller (tl_loop/loop/driver.py) takes approved    *)
(* children through the lane of one parent branch: compare-bound merge,    *)
(* adoption, parent sync, issue close, changelog commit, and the push of   *)
(* the bookkeeping commit, with the action journal, operator gates, lost   *)
(* responses, restarts and other writers of the remote branch.             *)
(*                                                                         *)
(* Durable state is run.json (lane, pm, status, rec, gate) and the action  *)
(* journal (jr); every checkpoint is an action, so a crash is the absence  *)
(* of a next step of the pass.  What a pass keeps in memory is `held', the *)
(* RunState that _advance_post_merge_boundary was called with: its except  *)
(* clauses write that state back, over what the handler has checkpointed   *)
(* since.  held is None where it still equals the durable state.           *)
(*                                                                         *)
(* A commit is its history: a sequence of commits [op, who], so the        *)
(* ancestors of a commit are its prefixes.  Which child a pass serves      *)
(* (derive_next_action) is left open.                                      *)
(***************************************************************************)
EXTENDS Lane, PostMerge, FiniteSets, SequencesExt

CONSTANTS MaxEpoch,     \* bound: lane epochs handed out
          MaxFaults,    \* bound: lost responses, failed effects, crashes
          MaxForeign,   \* bound: pushes to the remote by others
          MaxHuman,     \* bound: PRs merged, issues closed by hand
          MaxMishaps,   \* bound: all of the three together
          MaxTries      \* bound: attempts and generations

ASSUME BoundsAreNaturals ==
  /\ {MaxEpoch, MaxFaults, MaxForeign, MaxHuman, MaxMishaps, MaxTries}
       \subseteq Nat
  /\ MaxTries > 0

VARIABLES
  lane,     \* integration.lanes: the lane of the parent branch
  status,   \* slice status and merge action
  pm,       \* slice.post_merge
  rec,      \* slice.reconciliation: remote_head_sha, else merge_base_sha
            \* (while the merge is in flight: its expected_base_sha)
  gate,     \* gate[c][g]: gate of the issue-close failure generation g
  jr,       \* action journal: <<child, operation, number>> -> entry
  held,     \* RunState in the memory of the running pass
  issue,    \* chainlink: is the child's issue open or closed
  dirty,    \* children whose changelog entry is written, not committed
  local,    \* HEAD of the parent worktree
  attached, \* is the parent branch checked out there
  remote,   \* head of the parent branch on the forge
  faults, foreign, human   \* bounded counters of the environment

store == <<lane, status, pm, rec, gate>>
env   == <<issue, dirty, local, attached, remote>>
vars  == <<store, jr, held, env, faults, foreign, human>>
-----------------------------------------------------------------------------
Commit(op, who) == [op |-> op, who |-> who]
PrHead(c)       == <<Commit("head", {c})>>
Merged(c)       == Commit("merge", {c}) \in ToSet(remote)

Operations == {"close", "changelog", "push", "rebuild"}
Keys       == Children \X Operations \X (0..MaxTries)
NoEntry    == [st |-> "none", base |-> None, commit |-> None]

(* intended and unknown entries are treated alike everywhere: "unknown".   *)
(* A rejected push whose error names a stale lease is "stale"; an issue    *)
(* close is reconciled as found open ("reconciled") or closed ("closed").  *)
Entries == {"none", "unknown", "confirmed", "rejected", "stale",
            "compensated", "reconciled", "closed"}

(* _invoke dispatches when there is no entry or an operator cleared it.    *)
MayDispatch(k) == jr[k].st \in {"none", "compensated"}

Log(k, st)            == jr' = [jr EXCEPT ![k].st = st]
LogResult(k, base, commit) ==
  jr' = [jr EXCEPT ![k] = [st |-> "confirmed", base |-> base,
                           commit |-> commit]]

MoreMishaps == faults + foreign + human < MaxMishaps
Fault       == MoreMishaps /\ faults < MaxFaults /\ faults' = faults + 1
-----------------------------------------------------------------------------
(* The RunState of the pass for c: what held says, else what is durable.   *)
Held(c) == IF held = None
           THEN [child |-> c, step |-> "run", lane |-> lane, pm |-> pm[c],
                 gens |-> {}]
           ELSE held

(* Only one pass runs (the lifecycle lock); step tells how far it got,     *)
(* gens which gates of its child it is about to clear.                     *)
Running(c) == held # None => held.child = c /\ held.step = "run"

(* _abandon_owned_lane_integration                                         *)
AbandonOwned(l, c) == IF l.child = c /\ l.phase # "idle" THEN Idled(l) ELSE l

(* Mutant: the blocked child goes back to the start of its changelog.      *)
Block_Restart(c) ==
  /\ lane' = AbandonOwned(Held(c).lane, c)
  /\ pm'   = [pm EXCEPT ![c] = ChangelogPending(Held(c).pm)]
  /\ held' = None

(* _block_post_merge_recovery, from an except clause: the state the pass   *)
(* was called with is checkpointed with its lane abandoned.  (The gate     *)
(* tl-post-merge-<child> it opens is consulted by no later pass.)          *)
Block(c) ==
  /\ lane' = AbandonOwned(Held(c).lane, c)
  /\ pm'   = [pm EXCEPT ![c] = Held(c).pm]
  /\ held' = None

Blocked(c) == Block(c) /\ UNCHANGED <<status, rec, gate, env, foreign, human>>

(* A checkpoint of the post-merge state that ends the pass.                *)
Advance(c, s) == pm' = [pm EXCEPT ![c] = s] /\ held' = None
-----------------------------------------------------------------------------
(* Merging an approved child: _execute_direct_merge_intent.                *)

(* _ensure_candidate_lane: only an idle lane is reserved.                  *)
EnsureCandidateLane(c, base) ==
  /\ lane.phase = "idle" /\ lane.last < MaxEpoch
  /\ CanReserve(lane, c, lane.last + 1)
  /\ lane' = Reserve(lane, c, lane.last + 1, base)

ReserveLane(c) ==
  /\ held = None /\ status[c] = "approved" /\ ~ Merged(c)
  /\ EnsureCandidateLane(c, remote)
  /\ UNCHANGED <<status, pm, rec, gate, jr, held, env, faults, foreign, human>>

(* _start_candidate_lane                                                   *)
StartIntegration(c) ==
  /\ held = None /\ status[c] = "approved" /\ ~ Merged(c)
  /\ lane.phase = "reserved" /\ CanStart(lane, c, PrHead(c))
  /\ lane' = Start(lane, PrHead(c))
  /\ UNCHANGED <<status, pm, rec, gate, jr, held, env, faults, foreign, human>>

(* The IN_FLIGHT checkpoint, with the base the merge is bound to.          *)
BeginMerge(c) ==
  /\ held = None /\ status[c] = "approved" /\ ~ Merged(c)
  /\ lane.phase = "integrating" /\ CanStart(lane, c, PrHead(c))
  /\ status' = [status EXCEPT ![c] = "inflight"]
  /\ rec'    = [rec EXCEPT ![c] = remote]
  /\ UNCHANGED <<lane, pm, gate, jr, held, env, faults, foreign, human>>

(* merge_pr on the forge, possibly long after its response was given up:   *)
(* it takes effect on the expected base only.                              *)
MergeLands(c) ==
  /\ status[c] \in {"inflight", "unknown"} /\ ~ Merged(c)
  /\ remote = rec[c]
  /\ remote' = Append(remote, Commit("merge", {c}))
  /\ UNCHANGED <<store, jr, held, issue, dirty, local, attached, faults,
                 foreign, human>>

(* _adopt_direct_merge_result (failed) and _resolve_nonmerged_merge: the   *)
(* merge was refused, as it must be once the base has moved, or the        *)
(* watcher or the operator says it did not happen.                         *)
MergeRefused(c) ==
  /\ held = None /\ status[c] \in {"inflight", "unknown"} /\ ~ Merged(c)
  /\ status' = [status EXCEPT ![c] = "approved"]
  /\ lane'   = AbandonOwned(lane, c)
  /\ IF remote = rec[c] THEN Fault ELSE UNCHANGED faults
  /\ UNCHANGED <<pm, rec, gate, jr, held, env, foreign, human>>

(* _reconcile_unknown_merge: no answer, and the watcher has none either.   *)
MergeUnknown(c) ==
  /\ held = None /\ status[c] = "inflight"
  /\ status' = [status EXCEPT ![c] = "unknown"]
  /\ lane'   = IF lane.child = c /\ lane.phase \in ActivePhases
               THEN Recover(lane) ELSE lane
  /\ Fault
  /\ UNCHANGED <<pm, rec, gate, jr, held, env, foreign, human>>

(* _merge_adoption_lane_epoch: the epoch of the lane record, whoever owns  *)
(* it; 1 before the lane has a record.                                     *)
AdoptionEpoch == IF lane.last = 0 THEN 1 ELSE lane.epoch

(* _reconcile_merged_slice, _adopt_post_merge_slice: the watcher or the    *)
(* journal proves the merge.  A lane in recovery is resolved by the same   *)
(* checkpoint.  Without an epoch the adoption raises and nothing changes.  *)
Adopt(c) ==
  /\ held = None /\ status[c] # "merged" /\ Merged(c)
  /\ AdoptionEpoch # None
  /\ status' = [status EXCEPT ![c] = "merged"]
  /\ pm'     = [pm EXCEPT ![c] = MergeAdopted(pm[c], AdoptionEpoch)]
  /\ lane'   = IF CanResolve(lane, c, PrHead(c)) THEN Resolve(lane) ELSE lane
  /\ UNCHANGED <<rec, gate, jr, held, env, faults, foreign, human>>
-----------------------------------------------------------------------------
(* _run_parent_sync: fetch and merge --ff-only on the parent branch; local *)
(* and remote heads must agree afterwards.                                 *)
CanSync == attached /\ IsPrefix(local, remote)

ParentSync(c) ==
  /\ held = None /\ pm[c].phase = "remote_merge_adopted"
  /\ CanSync
  /\ local' = remote
  /\ rec'   = [rec EXCEPT ![c] = remote]
  /\ Advance(c, ParentBranchSynced(pm[c]))
  /\ UNCHANGED <<lane, status, gate, jr, issue, dirty, attached, remote,
                 faults, foreign, human>>

(* The fast-forward happened, its receipt did not reach the checkpoint; or *)
(* the branches have diverged, HEAD is detached or the probe failed, which *)
(* blocks.                                                                 *)
ParentSyncFails(c) ==
  /\ held = None /\ pm[c].phase = "remote_merge_adopted"
  /\ \/ /\ Fault /\ CanSync /\ local' = remote
        /\ UNCHANGED <<store, held>>
     \/ /\ Fault /\ Block(c) /\ UNCHANGED <<status, rec, gate, local>>
     \/ /\ ~ CanSync /\ lane.child = c
        /\ Block(c) /\ UNCHANGED <<status, rec, gate, local, faults>>
  /\ UNCHANGED <<jr, issue, dirty, attached, remote, foreign, human>>
-----------------------------------------------------------------------------
(* Issue close: _run_issue_close and _record_issue_close_failure.          *)
CloseKey(c, s) == <<c, "close", s.attempt>>

RequestIssueClose(c) ==
  /\ held = None /\ pm[c].phase = "parent_branch_synced"
  /\ Advance(c, IssueClosePending(pm[c]))
  /\ UNCHANGED <<lane, status, rec, gate, jr, env, faults, foreign, human>>

Closing(c) == pm[c].phase = "issue_close_pending"

(* An operation that failed on the attempt in force waits for its gate.    *)
FailedAttempt(s) == s.fattempt = s.attempt

(* _clear_issue_close_gates: pending gates, one write each, read from the  *)
(* checkpoint of the close.                                                *)
Unanswered(c) == {g \in 0..MaxTries : gate[c][g] = "pending"}

ThenClear(c) ==
  held' = IF Unanswered(c) = {} THEN None
          ELSE [child |-> c, step |-> "clear", lane |-> lane, pm |-> pm'[c],
                gens |-> Unanswered(c)]

(* _issue_close_entry_has_receipt: a confirmed close is adopted, at once   *)
(* or after a restart.                                                     *)
IssueCloseReceipt(c) ==
  /\ Running(c) /\ Closing(c) /\ jr[CloseKey(c, pm[c])].st = "confirmed"
  /\ pm' = [pm EXCEPT ![c] = IssueCloseConfirmed(@)]
  /\ ThenClear(c)
  /\ UNCHANGED <<lane, status, rec, gate, jr, env, faults, foreign, human>>

(* _resolve_issue_close_entry: what chainlink says of the issue is written *)
(* to the journal before the pass does anything else about it.             *)
ReconcileClose(c) ==
  LET k == CloseKey(c, pm[c])
  IN  /\ held = None /\ Closing(c)
      /\ \/ jr[k].st = "unknown"
         \/ jr[k].st = "reconciled" /\ issue[c] = "closed"
      /\ Log(k, IF issue[c] = "closed" THEN "closed" ELSE "reconciled")
      /\ UNCHANGED <<store, held, env, faults, foreign, human>>

(* _accept_already_closed_issue, in the pass that saw it closed.           *)
IssueAlreadyClosed(c) ==
  /\ held = None /\ Closing(c) /\ issue[c] = "closed"
  /\ jr[CloseKey(c, pm[c])].st \in {"none", "closed"}
  /\ pm' = [pm EXCEPT ![c] = IssueCloseConfirmed(@)]
  /\ ThenClear(c)
  /\ UNCHANGED <<lane, status, rec, gate, jr, env, faults, foreign, human>>

(* The same in a later pass, from the journal alone: no gate is cleared.   *)
IssueFoundClosed(c) ==
  /\ held = None /\ Closing(c) /\ jr[CloseKey(c, pm[c])].st = "closed"
  /\ Advance(c, IssueCloseConfirmed(pm[c]))
  /\ UNCHANGED <<lane, status, rec, gate, jr, env, faults, foreign, human>>

(* The first of the three writes of _record_issue_close_failure.  Written  *)
(* from Held(c), it takes back a retry that this pass authorized.          *)
RecordFailure(c) ==
  LET s == IssueCloseFailed(Held(c).pm)
  IN  /\ s.fgen <= MaxTries
      /\ pm'   = [pm EXCEPT ![c] = s]
      /\ held' = [child |-> c, step |-> "abandon", lane |-> lane, pm |-> s,
                  gens |-> {}]
      /\ UNCHANGED <<lane, status, rec, gate>>

(* _chainlink_issue_status raises.                                         *)
IssueStatusFails(c) ==
  /\ held = None /\ Closing(c)
  /\ jr[CloseKey(c, pm[c])].st \notin {"confirmed", "closed"}
  /\ Fault /\ RecordFailure(c)
  /\ UNCHANGED <<jr, env, foreign, human>>

(* A restart finds the issue open after an attempt without an outcome.     *)
IssueCloseUnresolved(c) ==
  /\ held = None /\ Closing(c) /\ issue[c] = "open"
  /\ jr[CloseKey(c, pm[c])].st = "reconciled" /\ ~ FailedAttempt(pm[c])
  /\ RecordFailure(c)
  /\ UNCHANGED <<jr, env, faults, foreign, human>>

(* The operator approved the gate of the failure in force.  Its removal is *)
(* a write of its own.                                                     *)
AuthorizeRetry(c) ==
  /\ held = None /\ Closing(c) /\ issue[c] = "open"
  /\ jr[CloseKey(c, pm[c])].st \in {"none", "reconciled"}
  /\ FailedAttempt(pm[c]) /\ gate[c][pm[c].fgen] = "approved"
  /\ pm[c].attempt < MaxTries
  /\ pm'   = [pm EXCEPT ![c] = IssueCloseRetryAuthorized(@)]
  /\ held' = [child |-> c, step |-> "clear", lane |-> lane, pm |-> pm[c],
              gens |-> {pm[c].fgen}]
  /\ UNCHANGED <<lane, status, rec, gate, jr, env, faults, foreign, human>>

(* store.clear_gate, whatever the gate says by now.  A retry goes on with  *)
(* the close; after a close the pass is over.                              *)
ClearGate(c) ==
  /\ held # None /\ held.child = c /\ held.step = "clear"
  /\ \E g \in held.gens :
       /\ gate' = [gate EXCEPT ![c][g] = "none"]
       /\ held' = IF held.gens # {g} THEN [held EXCEPT !.gens = @ \ {g}]
                  ELSE IF Closing(c) THEN [held EXCEPT !.step = "run",
                                                       !.gens = {}]
                  ELSE None
  /\ UNCHANGED <<lane, status, pm, rec, jr, env, faults, foreign, human>>

(* _post_merge_issue_close_effect: chainlink_issue_close closes the issue  *)
(* and writes its changelog entry; a failure of any kind leaves the entry  *)
(* unknown and is recorded, unless the process dies first.                 *)
CloseIssue(c) ==
  LET k == CloseKey(c, pm[c])
      closed == /\ issue' = [issue EXCEPT ![c] = "closed"]
                /\ dirty' = dirty \cup {c}
  IN  /\ Running(c) /\ Closing(c) /\ issue[c] = "open"
      /\ jr[k].st = "none" /\ ~ FailedAttempt(pm[c])
      /\ \/ /\ closed /\ Log(k, "confirmed")
            /\ UNCHANGED <<store, held, faults>>
         \/ /\ closed \/ UNCHANGED <<issue, dirty>>
            /\ Log(k, "unknown") /\ Fault
            /\ \/ RecordFailure(c)
               \/ held' = None /\ UNCHANGED store
      /\ UNCHANGED <<local, attached, remote, foreign, human>>

(* _invoke refuses the retry: its key already has an unresolved entry.     *)
RetryRefused(c) ==
  /\ held # None /\ Running(c) /\ Closing(c)
  /\ jr[CloseKey(c, pm[c])].st \notin {"none", "confirmed"}
  /\ Blocked(c) /\ UNCHANGED <<jr, faults>>

(* The second and the third write of _record_issue_close_failure.          *)
AbandonAfterFailure(c) ==
  /\ held # None /\ held.child = c /\ held.step = "abandon"
  /\ lane' = AbandonOwned(held.lane, c)
  /\ held' = [held EXCEPT !.step = "gate"]
  /\ UNCHANGED <<status, pm, rec, gate, jr, env, faults, foreign, human>>

OpenIssueCloseGate(c) ==
  /\ held # None /\ held.child = c /\ held.step = "gate"
  /\ gate' = [gate EXCEPT ![c][held.pm.fgen] = "pending"]
  /\ held' = None
  /\ UNCHANGED <<lane, status, pm, rec, jr, env, faults, foreign, human>>
-----------------------------------------------------------------------------
(* The changelog commit: _run_changelog and postMergeChangelogCore.        *)
RequestChangelog(c) ==
  /\ held = None /\ pm[c].phase = "issue_close_confirmed"
  /\ Advance(c, ChangelogPending(pm[c]))
  /\ UNCHANGED <<lane, status, rec, gate, jr, env, faults, foreign, human>>

ChangelogKey(c) == <<c, "changelog", pm[c].gen>>

(* The parent branch is checked out, at the head that was synchronised.    *)
AtExpectedBase(c) == attached /\ local = rec[c]

(* The commit holds every entry written so far; none means HEAD itself.    *)
CommitChangelog(c) ==
  LET k    == ChangelogKey(c)
      head == IF dirty = {} THEN local ELSE Append(local, Commit("log", dirty))
  IN  /\ held = None /\ pm[c].phase = "changelog_pending" /\ MayDispatch(k)
      /\ AtExpectedBase(c)
      /\ \/ LogResult(k, None, head) /\ UNCHANGED faults
         \/ Log(k, "unknown") /\ Fault
      /\ local' = head /\ dirty' = {}
      /\ UNCHANGED <<store, held, issue, attached, remote, foreign, human>>

(* The tool refuses (a failure is retryable: unknown) or its answer is     *)
(* lost; the refusal blocks.                                               *)
ChangelogFails(c) ==
  LET k == ChangelogKey(c)
  IN  /\ held = None /\ pm[c].phase = "changelog_pending" /\ MayDispatch(k)
      /\ \/ ~ AtExpectedBase(c) /\ UNCHANGED faults
         \/ Fault
      /\ Log(k, "unknown") /\ Blocked(c)

AdoptChangelog(c) ==
  LET k == ChangelogKey(c)
  IN  /\ held = None /\ pm[c].phase = "changelog_pending"
      /\ jr[k].st = "confirmed"
      /\ CanChangelogCommitted(pm[c], pm[c].intent)
      /\ Advance(c, ChangelogCommitted(pm[c], pm[c].intent, jr[k].commit))
      /\ UNCHANGED <<lane, status, rec, gate, jr, env, faults, foreign, human>>

ChangelogRefused(c) ==
  /\ held = None /\ pm[c].phase = "changelog_pending" /\ lane.child = c
  /\ jr[ChangelogKey(c)].st \in {"unknown", "rejected"}
  /\ Blocked(c) /\ UNCHANGED <<jr, faults>>
-----------------------------------------------------------------------------
(* The push: _ensure_bookkeeping_lane, _run_parent_push and                *)
(* postMergePushCore.                                                      *)
PushGen(s) == IF s.rebuild THEN s.gen ELSE 0
Pushing(c) == pm[c].phase = "parent_push_pending"

(* The pass of a pending push goes on with `state' rebound only inside     *)
(* _run_parent_push; before the push is pending nothing stale is kept.     *)
KeepHeld(c) == held' = IF Pushing(c) THEN Held(c) ELSE held

(* The three lane writes of _ensure_bookkeeping_lane, as far as needed.    *)
EnsureLane(c) ==
  /\ Running(c) /\ pm[c].phase \in {"changelog_committed", "parent_push_pending"}
  /\ \/ EnsureCandidateLane(c, rec[c])
     \/ /\ lane.child = c /\ lane.epoch >= pm[c].epoch
        /\ lane.phase = "reserved" /\ lane' = Start(lane, PrHead(c))
     \/ /\ lane.child = c /\ lane.epoch >= pm[c].epoch
        /\ lane.phase = "integrating"
        /\ lane' = Bookkeep(lane, IF Pushing(c) THEN pm[c].push
                                  ELSE PushGen(pm[c]), pm[c].commit, rec[c])
  /\ KeepHeld(c)
  /\ UNCHANGED <<status, pm, rec, gate, jr, env, faults, foreign, human>>

LaneReady(c) == /\ lane.phase = "bookkeeping" /\ lane.child = c
                /\ lane.epoch >= pm[c].epoch

(* ParentPushPending and LaneBookkeepingStarted in one checkpoint.         *)
RequestPush(c) ==
  LET push == PushGen(pm[c])
  IN  /\ Running(c) /\ pm[c].phase = "changelog_committed" /\ LaneReady(c)
      /\ CanParentPushPending(pm[c], push) /\ CanBookkeep(lane, c, rec[c])
      /\ Advance(c, ParentPushPending(pm[c], push, rec[c], lane.epoch))
      /\ lane' = Bookkeep(lane, push, pm[c].commit, rec[c])
      /\ UNCHANGED <<status, rec, gate, jr, env, faults, foreign, human>>

PushKey(c) == <<c, "push", pm[c].push>>

(* Mutant: the push is forced without a lease.                             *)
PushAccepted_Forced(c) == TRUE

(* git push --force-with-lease=branch:base HEAD:branch; a remote that is   *)
(* at HEAD already is up to date.                                          *)
PushAccepted(c) == remote = pm[c].base \/ remote = local

(* A detached HEAD is refused, with an error that names no stale lease.    *)
Push(c) ==
  LET k == PushKey(c)
  IN  /\ Running(c) /\ Pushing(c) /\ LaneReady(c) /\ MayDispatch(k)
      /\ \/ /\ attached /\ PushAccepted(c) /\ remote' = local
            /\ Log(k, IF local = pm[c].commit THEN "confirmed" ELSE "rejected")
            /\ UNCHANGED <<held, faults>>
         \/ /\ attached /\ ~ PushAccepted(c) /\ Log(k, "stale")
            /\ UNCHANGED <<remote, held, faults>>
         \/ /\ Log(k, "rejected") /\ UNCHANGED <<remote, held>>
            /\ IF attached THEN Fault ELSE UNCHANGED faults
         \/ /\ Fault /\ Log(k, "unknown") /\ held' = None
            /\ \/ attached /\ PushAccepted(c) /\ remote' = local
               \/ UNCHANGED remote
      /\ UNCHANGED <<store, issue, dirty, local, attached, foreign, human>>

(* What the tool echoes of its arguments, which are the evidence.          *)
Receipt(c) == [child |-> c, epoch |-> pm[c].epoch, push |-> pm[c].push,
               base |-> pm[c].base, commit |-> pm[c].commit]

(* Mutant: an unresolved push counts as done once the lane allows it.      *)
AdoptPush_Unresolved(c) ==
  /\ Running(c) /\ Pushing(c) /\ LaneReady(c)
  /\ jr[PushKey(c)].st \in {"confirmed", "unknown"}
  /\ CanComplete(pm[c], Receipt(c)) /\ CanRelease(lane, Receipt(c))
  /\ Advance(c, PostMergeComplete(pm[c]))
  /\ lane' = Idled(lane)
  /\ UNCHANGED <<status, rec, gate, jr, env, faults, foreign, human>>

(* PostMergeComplete and LaneReleased in one checkpoint.                   *)
AdoptPush(c) ==
  /\ Running(c) /\ Pushing(c) /\ LaneReady(c)
  /\ jr[PushKey(c)].st = "confirmed"
  /\ CanComplete(pm[c], Receipt(c)) /\ CanRelease(lane, Receipt(c))
  /\ Advance(c, PostMergeComplete(pm[c]))
  /\ lane' = Idled(lane)
  /\ UNCHANGED <<status, rec, gate, jr, env, faults, foreign, human>>

(* No usable outcome, or a receipt for another lane epoch: ValueError or   *)
(* TLLoopError, and the child is blocked.                                  *)
PushRefused(c) ==
  /\ Running(c) /\ Pushing(c) /\ LaneReady(c)
  /\ \/ jr[PushKey(c)].st \in {"unknown", "rejected"}
     \/ /\ jr[PushKey(c)].st = "confirmed"
        /\ ~ CanRelease(lane, Receipt(c))
  /\ Blocked(c) /\ UNCHANGED <<jr, faults>>
-----------------------------------------------------------------------------
(* A stale push: _recover_remote_advance and postMergeRemoteReconcileCore. *)
RebuildKey(c) == <<c, "rebuild", pm[c].gen>>
Stale(c) == /\ Running(c) /\ Pushing(c) /\ LaneReady(c)
            /\ jr[PushKey(c)].st = "stale"

CanRebase(c) == /\ attached /\ remote # pm[c].base /\ local # pm[c].base
                /\ IsPrefix(pm[c].base, local)

(* git rebase --onto remote base HEAD: the commits after base, in their    *)
(* order, without those whose change the remote already has.  HEAD is not  *)
(* the name of a branch: git detaches HEAD, and the branch stays behind.   *)
(* Nothing in the repository checks it out again.                          *)
Rebase(c) ==
  LET k    == RebuildKey(c)
      mine == SubSeq(local, Len(pm[c].base) + 1, Len(local))
      new  == {i \in 1..Len(mine) : mine[i] \notin ToSet(remote)}
  IN  /\ Stale(c) /\ MayDispatch(k) /\ CanRebase(c)
      /\ \E pick \in [1..Cardinality(new) -> new] :
           /\ \A i, j \in DOMAIN pick : i < j => pick[i] < pick[j]
           /\ local' = remote \o [i \in DOMAIN pick |-> mine[pick[i]]]
      /\ \/ LogResult(k, remote, local') /\ UNCHANGED <<held, faults>>
         \/ Log(k, "unknown") /\ Fault /\ held' = None
      /\ attached' = FALSE
      /\ UNCHANGED <<store, issue, dirty, remote, foreign, human>>

(* The rebase stops at a conflict; rebase --abort brings the commit back,  *)
(* not the branch.                                                         *)
RebaseConflicts(c) ==
  LET k == RebuildKey(c)
  IN  /\ Stale(c) /\ MayDispatch(k) /\ CanRebase(c) /\ Fault
      /\ Log(k, "unknown") /\ Block(c)
      /\ attached' = FALSE
      /\ UNCHANGED <<status, rec, gate, issue, dirty, local, remote, foreign,
                     human>>

(* Every failure of the tool is retryable (unknown) and blocks; so does an *)
(* entry that stays unresolved.                                            *)
RebaseRefused(c) ==
  LET k == RebuildKey(c)
  IN  /\ Stale(c)
      /\ \/ /\ MayDispatch(k) /\ Log(k, "unknown")
            /\ \/ ~ CanRebase(c) /\ UNCHANGED faults
               \/ Fault
         \/ jr[k].st \in {"unknown", "rejected"} /\ UNCHANGED <<jr, faults>>
      /\ Blocked(c)

Rebuilt(c, base) == Rebuild(pm[c], pm[c].gen + 1, pm[c].push, base)

(* The reducers' verdict on the rebuilt commit under its fresh intent.  It *)
(* is favourable the first time; a second rebuild is never asked for, as a *)
(* detached HEAD makes no push stale.                                      *)
RebuildAccepted(c) ==
  /\ CanRebuild(pm[c], pm[c].gen + 1, pm[c].push)
  /\ CanChangelogCommitted(Rebuilt(c, remote), pm[c].gen + 1)

(* Rebuild, commit and a new reservation in one checkpoint.                *)
AdoptRebuild(c) ==
  LET e == jr[RebuildKey(c)]
      s == ChangelogCommitted(Rebuilt(c, e.base), pm[c].gen + 1, e.commit)
  IN  /\ Stale(c) /\ e.st = "confirmed" /\ RebuildAccepted(c)
      /\ lane.epoch < MaxEpoch
      /\ Advance(c, [s EXCEPT !.epoch = lane.epoch + 1])
      /\ rec'  = [rec EXCEPT ![c] = e.base]
      /\ lane' = Start(Reserve(Recover(lane), c, lane.epoch + 1, e.base),
                       e.commit)
      /\ UNCHANGED <<status, gate, jr, env, faults, foreign, human>>
-----------------------------------------------------------------------------
(* A crash ends the pass; nothing durable changes.                         *)
Crash ==
  /\ held # None /\ Fault /\ held' = None
  /\ UNCHANGED <<store, jr, env, foreign, human>>

(* _reconcile_action_journal at a restart, with the operator's answer to   *)
(* the gate it opens.  issue_close entries are never offered.              *)
ResolveEntry(k) ==
  /\ held = None /\ k[2] # "close" /\ jr[k].st = "unknown"
  /\ \E st \in {"compensated", "rejected"} : Log(k, st)
  /\ UNCHANGED <<store, held, env, faults, foreign, human>>

(* The operator approves an issue-close gate (a rejected one is inert).    *)
ApproveGate(c) ==
  /\ \E g \in Unanswered(c) : gate' = [gate EXCEPT ![c][g] = "approved"]
  /\ UNCHANGED <<lane, status, pm, rec, jr, held, env, faults, foreign, human>>

(* Somebody else pushes to the parent branch.                              *)
ForeignPush ==
  /\ MoreMishaps /\ foreign < MaxForeign /\ foreign' = foreign + 1
  /\ remote' = Append(remote, Commit("other", {}))
  /\ UNCHANGED <<store, jr, held, issue, dirty, local, attached, faults, human>>

(* Somebody merges the PR on the forge, or closes the issue.               *)
HumanActs(c) ==
  /\ MoreMishaps /\ human < MaxHuman /\ human' = human + 1
  /\ \/ /\ held = None /\ status[c] = "approved" /\ ~ Merged(c)
        /\ remote' = Append(remote, Commit("merge", {c}))
        /\ rec'    = [rec EXCEPT ![c] = remote]
        /\ UNCHANGED issue
     \/ /\ issue[c] = "open" /\ issue' = [issue EXCEPT ![c] = "closed"]
        /\ UNCHANGED <<remote, rec>>
  /\ UNCHANGED <<lane, status, pm, gate, jr, held, dirty, local, attached,
                 faults, foreign>>
-----------------------------------------------------------------------------
Init ==
  /\ lane   = IdleLane
  /\ status = [c \in Children |-> "approved"]
  /\ pm     = [c \in Children |-> NotStarted]
  /\ rec    = [c \in Children |-> None]
  /\ gate   = [c \in Children |-> [g \in 0..MaxTries |-> "none"]]
  /\ jr     = [k \in Keys |-> NoEntry]
  /\ held   = None
  /\ issue  = [c \in Children |-> "open"]
  /\ dirty  = {}
  /\ local  = <<>> /\ remote = <<>> /\ attached = TRUE
  /\ faults = 0 /\ foreign = 0 /\ human = 0

Merge(c) == ReserveLane(c) \/ StartIntegration(c) \/ BeginMerge(c)
            \/ MergeRefused(c) \/ MergeUnknown(c) \/ Adopt(c)
CloseOut(c) == RequestIssueClose(c) \/ IssueCloseReceipt(c)
               \/ ReconcileClose(c) \/ IssueAlreadyClosed(c)
               \/ IssueFoundClosed(c) \/ IssueStatusFails(c)
               \/ IssueCloseUnresolved(c) \/ AuthorizeRetry(c)
               \/ ClearGate(c) \/ CloseIssue(c) \/ RetryRefused(c)
               \/ AbandonAfterFailure(c) \/ OpenIssueCloseGate(c)
Bookkeeping(c) == RequestChangelog(c) \/ CommitChangelog(c)
                  \/ ChangelogFails(c) \/ AdoptChangelog(c)
                  \/ ChangelogRefused(c) \/ EnsureLane(c) \/ RequestPush(c)
                  \/ Push(c) \/ AdoptPush(c) \/ PushRefused(c) \/ Rebase(c)
                  \/ RebaseConflicts(c) \/ RebaseRefused(c) \/ AdoptRebuild(c)

(* One step of the controller for child c.                                 *)
Pass(c) == Merge(c) \/ ParentSync(c) \/ ParentSyncFails(c) \/ CloseOut(c)
           \/ Bookkeeping(c)

Next == \/ \E c \in Children : \/ Pass(c) \/ MergeLands(c) \/ ApproveGate(c)
                               \/ HumanActs(c)
        \/ \E k \in Keys : ResolveEntry(k)
        \/ Crash \/ ForeignPush

Spec == Init /\ [][Next]_vars
-----------------------------------------------------------------------------
(* Type invariant: the lane record and the slices as the store decodes     *)
(* them, and journal entries under the known statuses.                     *)
TypeOK ==
  /\ lane.phase \in LanePhases /\ lane.last \in 0..MaxEpoch
  /\ status \in [Children -> {"approved", "inflight", "unknown", "merged"}]
  /\ \A c \in Children : /\ pm[c].phase \in PostMergePhases
                         /\ pm[c].fgen \in 0..MaxTries
                         /\ pm[c].attempt \in 0..MaxTries
                         /\ pm[c].gen \in 0..MaxTries
  /\ gate \in [Children -> [0..MaxTries -> {"none", "pending", "approved"}]]
  /\ \A k \in Keys : jr[k].st \in Entries
  /\ issue \in [Children -> {"open", "closed"}]
  /\ dirty \subseteq Children /\ attached \in BOOLEAN

(* The lane is idle exactly when it has no owner, and an owner holds the   *)
(* epoch that was handed out last, through every abandonment, rebuild,     *)
(* crash and stale write-back.                                             *)
LaneOwned ==
  IF lane.phase = "idle" THEN lane = [IdleLane EXCEPT !.last = lane.last]
  ELSE lane.child \in Children /\ lane.epoch = lane.last /\ lane.last > 0

(* A complete child has its issue closed, its bookkeeping commit on the    *)
(* remote branch and no changelog entry left behind uncommitted ("not      *)
(* released ... until the changelog and issue bookkeeping has been pushed  *)
(* and confirmed").                                                        *)
CompleteIsPublished ==
  \A c \in Children :
    pm[c].phase = "complete" =>
      /\ issue[c] = "closed" /\ c \notin dirty
      /\ IsPrefix(pm[c].commit, remote)

(* The controller never drops a commit from the remote branch, whoever     *)
(* pushed it and whichever retry or rebuild is running.                    *)
RemoteKeepsHistory == [][IsPrefix(remote, remote')]_vars

(* The lane passes from one child to another only through idle.            *)
HandOverThroughIdle ==
  [][lane.child # None /\ lane'.child # lane.child
       => lane'.phase = "idle"]_vars

(* Post-merge progress is never taken back, except by a rebuild into the   *)
(* next bookkeeping generation: blocking, crashing and writing back a      *)
(* state read earlier leave the phase alone.                               *)
ProgressKept ==
  [][\A c \in Children :
       Rank(pm'[c].phase) < Rank(pm[c].phase)
         => pm'[c].gen = pm[c].gen + 1 /\ pm'[c].failed = pm[c].push]_vars
=============================================================================
