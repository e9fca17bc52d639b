# Verification of exomonad's coordination core

exomonad runs a tree of coding agents: a Rust server with a WASM guest (Haskell)
offers tools and effects, a watcher in it follows the pull requests, and a Python
controller, `tl_loop`, drives one team-lead run from plan to merged branch. These
modules model the parts of it whose correctness depends on the order of steps taken
by several actors, check them with TLC and prove their core with TLAPS.

## Inventory

| Component | State it keeps | Operations | What is hard | What makes it correct |
| --- | --- | --- | --- | --- |
| guidance queue (`guidance_queue.rs`) | SQLite rows: state, class, `queue_seq`, lease, attempts | enqueue, claim, submit, acknowledge, release, cancel, recover | competing consumers, lost leases, late acknowledgements | one lease per agent, budget, stable terminal rows, steering first |
| lane reducer (`fsm/lane_transition.py`) | owner, epoch, base, head, push of a parent branch | reserve, start, bookkeep, release, abandon, recover | events from stale readers | one owner, hand-over through idle |
| post-merge reducer (`fsm/post_merge*.py`) | phase and cumulative evidence of a child | one event per phase, retry, rebuild | repeated failures meeting old evidence | progress is kept, completion has a receipt |
| merge and bookkeeping driver (`loop/driver.py`, `PostMergeRecovery.hs`) | run.json, action journal, gates, parent worktree, remote branch | merge, adopt, sync, close, commit, push, rebuild | crashes, lost answers, other writers, state held in memory | published before complete, history kept, retries approved, children get through |
| mutex registry (`mutex_registry.rs`) | table of locks, queues of waiters | acquire, release, expire | several critical sections per call, timeouts, stale sweeps | a lock is lost only by its lock_id or its TTL, calls are answered |
| agent inbox and delivery (`agent_inbox.rs`, `delivery.rs`) | durable rows, a FIFO per agent, consumer tasks | deliver, rebuild, inject, retry, poke, read, restart | consumers that end while messages arrive, rebuilds beside injections, restarts | commit before transport, one injector, nothing answered is forgotten |
| teams bridge (`file_lock.rs`, `inbox.rs`) | lock file, temporary files, inbox file | acquire, break, release; write, compact | processes breaking one lock, crashes between system calls, a reader without the lock | exclusion, no acknowledged message lost |
| git locks (`process_supervision.rs`, `git_lock_*.rs`) | index.lock, lease, process groups, audit ledger, quarantine | spawn, prove, stop; look, intend, move, receipt | owner dies or lives on, helpers survive, init crashes in mid-recovery | no live lock moved, every receipt backed, orphans recovered |
| review watcher (`worktree_event_watcher.rs`) | observation, runtime state, watcher-state.json, controller epoch | poll, compare, persist, announce; restart_review, clearing a review | forge changes during a poll, crash between save and announcement, tools that write the file unlocked | approvals bound to their head, told and not told twice |
| plan revision (`state/plan_revision*.py`) | journal, after-images, plan, snapshot, digest, audit log, one run.json per scope | analyse, stage, publish, roll forward, recover | crash or failure between any two files, edits and store commands meanwhile | all files or none, nobody's write lost, recovery completes it |
| scope FSM (`fsm/scope*.py`) | ordered stages, waiting sets | plan, stage, merge, finalize, fail, park | barriers with late results | a stage starts after the one before it |
| run store (`state/store.py`, `write.py`, `lock.py`) | run.json with revision | checkpoint, transition, gate | read-modify-write by several callers | no lost update |
| ledger queue (`events/`) | durable cursor, bounded queue | tail, get, acknowledge | full queue, restart | at least once, in order |
| recovery FSM (`fsm/recovery.py`, `loop/nested_recovery.py`) | recovery phase, attempts | classify, resume, park | nested failures | bounded attempts |
| event queue (`event_queue.rs`) | events, wakers | wait, notify | two critical sections per call | no lost wakeup |

The first ten are modelled, wholly or in part; the last five are not. The rest of
the repository (CLI, effect routing, forge clients, WASM tools, prompts, generated
and vendored code) is listed in `PROJECT.json` with the reason it is left out.

How they interact. The controller reads the ledger, reduces events into `run.json`
and issues effects through the server, each recorded in the action journal before and
after the call. A merge goes to the forge through `merge_pr`, bound to the base and
head it was approved for; that the head is approved is what the watcher announces. The
post-merge tools run git in the parent worktree, which all children of a parent share;
git runs supervised, under the index lease, and `exomonad init` reconciles the lock of
a git process that died with its server. Guidance is committed to the queue by
delivery, which then writes to the teams inbox, the agent's socket or its pane.
Operators answer gates, edit the plan and revise it, and run init again; a revision
excludes the controller by the lifecycle lock, but not the commands that answer gates.

## Modules

* `GuidanceQueue`: the table of batches. One action per public operation; each runs
  in one IMMEDIATE transaction. Time is relative (`wait`, `left`), which keeps the
  state space finite without a bound on the clock.
* `Lane`, `PostMerge`: the two pure reducers as operators. `CanX` is the reducer
  accepting event X, `X` its result.
* `ParentLane`: the driver, composed with both. Its variables are `run.json` (`lane`,
  `status`, `pm`, `rec`, `gate`), the action journal `jr`, the in-memory state of the
  running pass `held`, and the outside world (`issue`, `dirty`, `local`, `attached`,
  `remote`). A checkpoint is an action, and so is every `clear_gate` (`ClearGate`): each
  failure of an issue close has a gate of its own, a retry removes the one it answers
  after its checkpoint, a close removes those still pending (`ThenClear`), and an issue
  that a later pass finds closed in the journal removes none (`IssueFoundClosed`). A crash between two checkpoints is another step taken
  instead of the next one; where the pass keeps state in memory it is the action
  `Crash`. A commit is its history, so ancestry is the prefix relation and a rebase
  is a concatenation. `attached` says whether the parent branch is checked out in the
  worktree: the rebase of a rebuild, completed or aborted, detaches HEAD, and sync,
  changelog, push and rebuild all refuse a detached HEAD.
* `MutexRegistry`: the in-memory mutexes. `locks` and `queue` are the two maps, `guard`
  is the holder of the tokio mutex around the queues (`grant_next_waiter` keeps it
  while others use the table), `releasing` the grants still to be made, `sweep` the
  list the expiry task works off. A wait ends in two steps: `Timer` finds the channel
  empty and the time up, `Timeout` drops the receiver and refuses the call. In between
  (`expiring`) `tx.send` still succeeds, and its lock belongs to a call that is refused
  all the same. A critical section over the table never waits and
  is one action. A `lock_id` is a fresh UUID drawn at most once per call, so it is
  named after the call.
* `LockService`: what the registry promises agents. A call is answered once, in one step
  with the table, except that a grant may cross the timeout of its call (`Late`); a lock
  goes only by its `lock_id` or after its TTL. `ImplementsLockService` is its `Spec`.
* `FileLock`: `acquire` and `release`, one action per system call (create the
  temporary file, link it, stat, read, remove), a process dying at any of them, and,
  if `Slow`, `Age`, by which a lock outlives its TTL while its owner lives.
* `TeamsInbox` composes `FileLock` with `write_to_inbox` and its compaction. Every
  process sends one message. A message carries its timestamp, by which the code sorts;
  the recipient's `MarkRead` needs no lock. `FailInside` is a failed read, parse or write
  under the lock, which is dropped on the way out.
* `Mailbox`: what an inbox promises its senders. A message whose write returned Ok
  stays until it was seen. `TeamsInbox` instantiates it with the ids in the file as
  the box, the calls that returned Ok as the acknowledged messages, and `foul` (a
  live process was robbed of its lock) as the waiver; `ImplementsMailbox` is its `Spec`.
* `Delivery`: the delivery of messages to one agent. `rows` are the pending rows of
  the guidance table, `fifo`, `cached` and `active` an `AgentQueue`, `task`, `item`
  and `attempt` the consumer tasks, `call` and `todo` the calls of `deliver_to_agent`
  in the middle of a rebuild, a commit, a route or a verification. `Restart` loses all
  but the rows and fills the FIFO from them.
* `ReviewWatcher`: a poll cycle is `Load`, `Look`, `Compute`, `Persist` (or a failed
  one) and one `Say` per announcement, with the forge, the clock, the controller and
  the tools acting in between. `Compute` composes `Stage1` to `Stage6`, one operator for
  each passage of `compute_pr_actions_with_context`. Two tools write watcher-state.json
  beside the watcher, without a lock: `restart_review` (`ResetCycle`, `ReadCopy`) drops
  the fingerprint of the entry, and `clear_watcher_pr_state` (`ReadToClear`), called when
  a reviewer is spawned and when a leaf is cleaned up or replaced (`handlers/agent.rs`
  1606, 1665, 1867), drops the entry. Both read, truncate and write, in three steps; a
  reader of the torn file gets the default. `kept` is what the watcher saved last and
  `strayed` that it has since read back something else.
* `GitLocks`: git processes, supervised or not, on one index.lock; the supervisor under
  the index lease; `init` in `reconcile_native_index_lock`, whose place is `pc`. The
  audit ledger is `started`, `proof`, `intents` and `receipts`.
* `PlanRevision`: the commands `plan revise`, `plan-revision-recover` and `run` hold the
  controller lifecycle lock, so one of them is active and `pc` is its place. It looks for
  a journal, rolls it forward (`preflight`, `apply`, `replace`, `verify`, `cleanup`,
  `unlink`) and goes on with its own work; a revision stages its images, publishes the
  journal and rolls it forward in turn, a failed commit once more under the same locks.
  `Crash` and `Fault` are possible at every place, `Edit` and `Write` at every moment,
  the latter for the run.json whose run lock is free.
* `PlanStore`: what a revision promises. The accepted plan, its digest, the manifests of
  all scopes and the audit log change in one step, and edits and answers are never lost.
  `PlanRevision` instantiates it with `InForce`: from the publication of the journal on
  a file stands for its after-image. `ImplementsPlanStore` is its `Spec`.
* `MC...` modules: instances for TLC, with symmetry, fairness and liveness properties
  where they are not in the specification itself.
* `...Proofs` modules: theorems (GuidanceQueue, ParentLane, MutexRegistry, TeamsInbox,
  Delivery, GitLocks, ReviewWatcher, PlanRevision).

Operators whose names end in a suffix after an underscore and a capital
(`Requeued_OverBudget`, `Reclaimed_All`), except the `_Fails` action of the
supervisor, are faulty variants. No specification uses them; replacing the original by
one of them makes the property it belongs to fail, which is how each property was
shown to depend on the code.

## Runs

| Run | Bounds | Result |
| --- | --- | --- |
| `queue` | 2 batches, 2 agents, 2 consumers, 1 key, 1 invocation, budget 2 | identity, exclusion, budget, terminal stability, steering precedence, leases kept until their deadline and not beyond, attempts count submissions |
| `lane` | 2 children, 3 epochs, any 3 mishaps (at most 2 faults, 2 foreign pushes, 1 human act) | ownership, publication, history, progress |
| `lane_rebuild` | 1 child, 1 foreign push, no faults, fair | violated: see findings |
| `mutex` | 3 calls, 2 agents, 2 resources, 1 release per answer, fair | `LockService` implemented, locks kept, calls are answered, locks expire |
| `teams_inbox` | 3 senders, any 2 of crashes, failures under the lock and aged locks, compaction above 2 messages, fair | temporary files kept, `Mailbox` implemented, calls return |
| `teams_exclusion` | 3 senders, 1 crash, no aged locks | violated |
| `delivery` | 3 messages of 2 keys, FIFO of 2, 2 consumer tasks, 2 attempts, 1 restart, fair | one injection, cache mirrors FIFO, commit first, what was answered Tmux is handled |
| `delivery_stranded` | the same | violated |
| `watcher` | 2 reviews, any 2 of eleven kinds of event, fair | head binding, no repetition, approvals are told |
| `git_locks` | 2 supervised and 1 other git process, 2 lock files, quarantine of 1, 2 mishaps, fair | only dead locks moved, receipts backed, orphans recovered, init answers |
| `git_receipts` | the same, quarantine of 2 | violated |
| `plan_revision` | 3 plans, 2 scopes, 1 answer each, 2 edits, any 2 of crashes and failures, fair | `PlanStore` implemented; a published revision is completed unless a target drifted |

Why the bounds are enough. In the queue a competition needs two batches and two
consumers; the budget is a constant of the code (8) and any value above one exercises
the comparison; agents do not share rows, and a batch is given to either. In the lane two children are enough for every
conflict over ownership and worktree; two faults reach a failure of a retry, two
foreign pushes a rebuild that is itself overtaken, and three mishaps in any mix their
combinations; `MaxEpoch` only stops the counting of reservations. In the registry three calls are a
holder, a waiter and a newcomer; two of one agent share a lock_id, so that a repeated
release happens too, and two resources give a sweep of several entries. The file lock
needs an owner, a process that judges it stale and one that takes it in between; two
faults let one of them die and another lock age. Delivery needs a duplicate, a full
FIFO and a second task that starts while the first is between messages; 2 stands for
the 32 places and the 8 attempts of the code. The watcher needs two reviews for one
verdict replacing another and two events for one to fall into the handling of the
other. Git needs two supervised processes for a second quarantine, an unsupervised one
for a lock without proof, and two mishaps for init crashing after the server did; the
capacity (64 in the code) is 1 so that it is reached. A revision needs a candidate that
changes one scope and one that changes both, a second edit for a change under way, and
two mishaps for recovery itself to be interrupted.

The lane runs do not check deadlock: a run whose children are complete, or wait for an
operator who refused, stops. Nor do the mutex, inbox, delivery, watcher and git runs,
in which calls, messages, events or files are used up, nor the plan revision run, where
no command need be given.

Fairness. *queue*: none. In the repository only tests claim, submit, acknowledge or
release a batch; production code enqueues and recovers expired leases
(`delivery.rs:839`, `agent_inbox.rs:302`). That a lost lease comes back therefore
depends on callers that do not exist yet, and what is checked instead is `LeasesKept`:
whoever claims or recovers next leaves no expired lease behind. *lane_rebuild*: each
child's next step is weakly fair, as the loop makes passes over all slices until the run
ends; the forge answers; operators answer gates. Without the foreign push the children
are all booked under this fairness, so the violation is the rebuild's. *mutex*: tasks
run, time passes and the expiry task ticks (it is spawned at server start); no agent is
assumed to release anything. *teams_inbox*: a process that has not died takes its next
step; `GiveUp` is strongly fair because the deadline of `acquire` is a clock that every
turn of its loop compares. *delivery*: calls and tasks run on and the watcher keeps
poking; nobody has to send, read or restart. *watcher*: its cycle goes on. *git*: init
is run again, as its own message tells the operator, its steps and its deadline come,
and the server stops what it supervises (its timeouts); git itself owes nothing.
*plan_revision*: a command that runs goes on, and some command is given again; each of
them begins with recovery, so it does not matter which.

## Findings

* `lane_rebuild`: `git rebase --onto <remote> <base> HEAD` detaches HEAD
  (`PostMergeRecovery.hs:990`), and the push of the rebuilt commit is refused because the
  parent branch is not checked out (889). The error is not one of the markers of a remote
  advance (`driver.py:452`), so the entry is rejected and the child cycles between
  reserving the lane and being blocked. The tests replace the git tools by a fake client.
* `delivery_stranded`: a rebuild puts pending rows into the FIFO and starts no
  consumer. When they fill it, every later enqueue is refused before it could start
  one; the FIFO is full and idle for ever.
* `git_receipts`: with the lock gone, init looks at the latest receipt before any
  intent; an interrupted quarantine is not completed once an older one has a receipt.
* `teams_exclusion`: a stale lock is judged and removed in three system calls
  (`file_lock.rs:203-245`). After one dead owner two processes judge its lock stale, the
  second removes the lock the first has just made, and both are inside.

Each is described with its source lines in `PROJECT.json`. Disagreements between code
and documents that the models show without a run of their own:

* Waiters of a mutex are not served in order (`src/CHANGELOG.md:568`): a newcomer takes
  the resource between its release and the grant, and all waiters are refused.
* A waiter that timed out may hold the mutex until its TTL, without knowing the lock_id
  (`mutex_registry.rs:101` and `:163`): `tx.send` returns Ok between the last poll of the
  channel and the drop of its receiver. `Late` in `LockService`.
* `rebuild_post_merge` leaves `rebuild_applied` set (`post_merge_recovery.py:32`), so the
  reducers accept one rebuild of a child; the contract sets no limit
  (`recursive-tl-orchestration-contract.md:383`). The driver does not get that far: after
  the first rebuild no push is dispatched that could go stale.
* Within one class a younger batch is leased while the head backs off
  (`src/docs/decisions/durable-agent-steering-queue.md:289`).
* Messages of one idempotency key but different content are one row; the second
  content is dropped from the durable side (`agent_inbox.rs:86`, against lines 203-204
  of the same decision).
* Blocking a child writes back the lane from before the pass (`driver.py:9667`), so
  that a lane epoch is handed out twice (`lane_transition.py:89`).
* Failure, abandonment and gate of an issue close are three writes (`driver.py:11683`);
  a crash in between leaves a child waiting for a gate nobody opened (`lane.py:122`).
  Approved gates outlive their failure after a crash between a retry and `clear_gate`
  (11354-11367) and when a person closes the issue first (11740-11747); they authorize
  nothing (`RetryIsApproved`).
* Changelog commits and issue closes do not consult the lane (`driver.py:11769`,
  against `recursive-tl-orchestration-contract.md:406`).
* Recovery of a plan revision "completes an already-approved transition"
  (`src/docs/guides/programming-the-tl.md:337`), unless plan.json was edited or a gate
  answered in a journalled run.json between the crash and the recovery: neither needs the
  lifecycle lock or looks for the journal (`store.py:1371`), the target then has neither
  image, and every later command refuses (`plan_revision_transaction.py:440`) until the
  file is put back by hand. `Settles` exempts it as `Drifted`.
* The controller epoch is saved after its first cycle even if the lookup of the reviews
  failed in it (`worktree_event_watcher.rs:1811`); the standing approval is then never
  replayed to that epoch, which the test at line 5127 expects of a new epoch.
* The watcher announces changes_requested again when the fetch of comments flickers
  (line 3212 of `worktree_event_watcher.rs`), does not announce an approval given after
  the timeout (2814), forgets `review_approved_at` in a restart (2789).
* The watcher may repeat announcements if it reads back something else than it saved: a
  tool has cleared the entry before a restart, has truncated the file and not yet written
  it, or has put an older file back over the watcher's (`handlers/agent.rs:5193`).

## Proofs

All theorems hold for every value of the constants: any number of batches, children,
calls, processes, messages, crashes and restarts.

`GuidanceQueueProofs`: type correctness, lease columns, one lease per agent, the retry
budget, queue identity, stability of terminal rows, precedence of steering and
`OldestFirst` (within a class the oldest batch that is not backing off is leased), from
`NoneAssumption` (NULL is none of the values) and `BoundsAssumption` (the limits are
positive). `Inv` is the conjunction of `TypeOK`, `LeaseConsistent`, `BudgetRespected`,
`QueueIdentity` and `OneLeasePerAgent`. `OneLeasePerAgent` is not inductive alone: a
claim looks for a live lease after recovery has run, so one needs that recovery leaves
no active row whose deadline has passed, and that rows outside `leased` and
`submitted` carry no owner. `BudgetRespected` needs its second half (a pending or
leased row is strictly below the budget), because the count goes up at submission and
is compared at release and recovery. Two theorems are about single steps.
`LeasesHonoured`: a batch does not pass from one consumer to the next in one step,
because what a claim recovers has a backoff of at least a second (`BackoffPositive`) and
so cannot be leased by that same claim; a lease with time left is left alone by every
claim and recovery. `AttemptsAreSubmissions`: `attempts` counts the transport submissions
of a batch over its whole life, so that the budget bounds submissions and not just a
column. Both are also properties of the run `queue` (`LeasesKept`, `SubmissionsCounted`).

`ParentLaneProofs`: types, `LaneOwned`, `HandOverThroughIdle`, `CompleteIsPublished`,
`RemoteKeepsHistory` and `ProgressKept`, from `NoneIsNoChild` and `BoundsAreNaturals`.
`LaneOwned` is not inductive: blocking a child writes back the lane that the pass read
when it began. The invariant adds `HeldSound`: a record held in memory is itself
sound, and where it differs from the durable lane the child of the pass owns the
latter and the old record was idle or its own. `EnsureLane` is the only step that
makes the record stale, `BlockStep` is where that matters. Publication and history need
`PInv`: the evidence of a child is true of the issue, the changelog and the two branches
(`Holds`), where the recorded head is `Shared` by worktree and remote, so that a push
whose lease names it only adds commits; a confirmed entry of the journal proves what an
adoption takes from it (`JournalHolds`, `PushesHold`); and what a pass holds in memory
differs from the durable evidence in the retries of the issue close at most
(`HeldSame`). Part of it is that a child is rebuilt at most once (`Generation`).
`RebuildNeverBooked` is the general form of the finding `lane_rebuild`: whoever was
rebuilt is not complete, because HEAD is detached from the rebase on (`StrandInv`: no push
of a later generation is ever confirmed).

A second invariant, `EntriesHold`, follows the changelog entries: no entry reaches the
remote branch past the parent worktree, and the commit that the evidence or a confirmed
journal entry names carries every entry of its child. It rests on three facts about a
step: no commit of the worktree disappears and every new changelog commit is the one of
the uncommitted entries (`EntriesKept`, `Traced`), the tools report the HEAD they leave
(`ResultFrom`), and the commit of the evidence is an old one or the journal's
(`CommitFrom`). The rebase is the hard case: a strictly increasing choice of as many
commits as are new takes all of them (`RebasedCommits`). It gives `EntriesPublished` and
`WorktreeKept`. `BooksFollowMerges` says that a slice is recorded as merged only when its
merge is on the remote branch; it needs that the branch only grows.

`NothingTwice` (each child is merged once and entered in the changelog once, on both
branches) is inductive only as `OnceInv`: besides that neither branch holds such a commit
twice, an entry still to be made or committed is not yet on the worktree (`EntryFresh`),
and merges come to the worktree only from the remote branch, each for one child
(`MergeFresh`). The rebase of a stale push
is again the hard case: it picks only commits that the remote branch does not have.

The retries of an issue close rest on `GateInv`: every gate belongs to a failure on
record, and the gate of the latest failure is pending only while no retry has superseded
it (`GateFits`); a pass that holds a state in memory either holds the failures and
attempts that are on disk, or is the pass of a retry, which then has the approved gate
still to remove or has removed it (`HeldFits`). The last part is what makes a write-back
harmless: a pass that retried and blocks brings the old attempt back, but its gate is gone
by then. `GateOfItsFailure` is the invariant, `RetryIsApproved` the consequence: every
attempt after the first answers the approved gate of the failure in force and puts that
failure out of force, in a checkpoint before the gate is removed; and a failure that comes
into force, for the first time or again, has no answer, so that an approved gate left
behind by a crash authorizes nothing. `EpochsTakenBack` states
when lane epochs fail to grow. That they always grow is false: a pass that reserved the
lane for a pending push and then blocks writes the idle lane of before back, and the same
number is handed out again. The theorem says that this is the only case, and that the
number is never one that another child holds.

`MutexRegistryProofs`: types, `LockKept` and the refinement `ImplementsLockService`, from
`MutexAssumption` (the special values are distinct). The invariant adds `LockHasCaller` (a
lock belongs to a call of its agent for its resource, which was told its lock_id or whose
timer had fired; the theorem `OrphansGaveUp`), `CallsConsistent` (a call without
an answer has no lock_id), `QueuesConsistent` (a waiter waits for the resource in whose
queue it is) and `SweepElapsed` (the expiry task only carries elapsed lock_ids). Further:
`NoForgottenWaiter` (who waits is in the queue of its resource), `OwnAnswersOnly` (a
lock_id is told only to the agent and for the resource it was drawn for) and
`LockIdsSpent` (a lock_id that left the table never names a lock again). A waiter in the
queue of a free resource may still have to sit out its timeout: it may register after
the release it waited for, as the code does not look at the table again.

`RegistryIsLockService` is the refinement of `LockService`. The answers of the service are
what the calls that are over were told; queues, guard and sweep are hidden. An acquire on
the fast path is `Grant` or `Reenter`, or hidden if the call goes on to wait; the
iteration of grant_next_waiter that answers the head is `Grant` or `Refuse`, or `Late` if
the timer of the head has fired; a timer is hidden and the timeout after it is `Refuse`; a
release is `Release` even when it is late and frees nothing, and an entry of the sweep is
`Expire` only if the lock is still the one of the snapshot. It rests on the invariant
above: the head of a queue is a call for that resource, a call that was granted nothing
holds nothing, and what the sweep carries has expired.

`TeamsInboxProofs`: types, `TempsKept` and the refinement `ImplementsMailbox`, from `ProcsAssumption` (finitely many processes; None is no
process and no lock). Until a process is robbed, who is inside owns the lock file
(`HolderOwns`), so nobody has added or dropped a message since it read the file
(`BufCurrent`); what is marked read, in the file or in a copy, was seen
(`ReadIsSeen`), so compaction is `Forget`. `Unwritten` and `Written` say where a message
is before and after its write, which `Post` and `Ack` need. Each step of the inbox is
shown to be a step of `Mailbox` or a stutter. `AckedKept` draws the conclusion for the
file: what was acknowledged is in it or was seen.

`DeliveryProofs`: types, `OneInjection`, `CacheMirrorsFifo` and `DurableFirst`, from
`DeliveryAssumption` (types of the constants; the special values are distinct). The
invariant adds that the table has one pending row per key (`RowsUnique`, needed when a
restart fills the FIFO), that a rebuild works off rows of the table (`Todo`) and that a
call past its commit has its row (`Recorded`). `OwedHasConsumer` is the absence of lost
wakeups: consumer_active is set only while a task injects, and every path that leaves
something owed in the FIFO finds such a task or starts one. It does not contradict
`delivery_stranded`, which is about rebuilt entries that no caller was promised.
`FirstInFirstOut` says that between restarts the FIFO only grows at its end, by a batch it
does not hold, and only loses its head, to the task that was injecting that message; its
`Finish` case is `OneInjection`. `CapRespected` follows from it and from the length of
what a restart rebuilds.

`GitLocksProofs`: types, `QuarantineIsDead` and `ReceiptIsBacked`, from
`ProcessesDiffer`, `NoneIsNone` and `BoundsAreNat`. The point is the rename, which moves
whatever is at index.lock. `InitActs` says that between the intent and the receipt
init holds the snapshot of an empty lock whose process group is gone, and that the file
is still the one at index.lock after the last look: a lock file is dropped only by the
group that created it, or by a person between runs of init. It needs `InitHasLease` and
`Supervision` (the ledger stands still while init has the lease) and `ProofsOwned`.
From it follow `TakesOnlyProven` (the rename itself takes only the empty, proven lock of
a dead group), `EvidenceAccumulates`, `IntentFirst` (nothing is in quarantine before its
intent) and `FirstRecoveryReceipted`: `ReadyIsReceipted`, which the run `git_receipts`
refutes, does hold until the ledger has its first receipt.

`ReviewWatcherProofs`: types, `HeadBound` and `NotToldTwice`, from `BoundAssumption` (the bounds are
naturals). An approval is announced from the observation, but a CI event claims
reviewer_approved from a flag that outlives the cycle, the process and a rewrite of the
file. The invariant therefore has `Flags` (in memory, in the file and in the copy of
a tool the flag belongs to a head that was approved), `ObservedHead` (the
observed review is of the observed head, and what is about to be saved belongs to that
head) and `Announced` (announcements made or pending name approved heads). Each stage of
`Compute` has a lemma; that a set of reviews in force has a last one follows from the
well-foundedness of inclusion on finite sets. The file changes under the watcher by the
steps of a tool, which have one lemma (`ToolSteps`).

`NotToldTwice` needs an invariant of its own, `Memory`, which holds until the watcher
reads back something else than it saved (`strayed`): everything told is recorded in what
it saved last (`kept`) and, where there is runtime state, in memory (`Remembered`); a record is a later
head or the mark of that announcement, unless the reviews have changed or restart_review
was called since (`Recorded`); an observation is never older than an approval told
(`Looked`); and what is about to be told is new and already recorded, and saved before
the first of it is told (`Pending`). The tools do not disturb it: what they write matters
only when the watcher reads it, the epoch in every cycle and the entry in the first cycle
after a restart. Heads, epochs and the count of changes to the reviews
only grow. The converse is `SilentOnlyIfTold`, with the invariant `MarksStand`: a mark that
silences the watcher has its announcement among those made or pending, in memory, in the
file and in the copy of a tool, unless some were lost (`dropped`).

`PlanRevisionProofs`: types, the refinement `ImplementsPlanStore`, and that the files
agree whenever no journal is on disk, from `PlanAssumption` (types of the constants; the
scopes are none of the other files). The invariant adds `JournalSound` (the document
accepts one plan, logs it once and keeps the answers; the files that only the transaction
writes have their before- or their after-image; once it is marked committed all entries
are done), `Staged` (the same of the document about to be published) and `Places` (what
has been replaced when the command is where it is; the file about to be replaced is not
plan.json and has its before-image, which needs the run locks). Publishing is `Accept`,
every other step of a command a stutter. `NeverMixed` and `RevisionOverwritesNothing` are
drawn from the refinement: what is in force is one revision at every moment, and no write
loses an answer, an edit or an accepted revision.

Only model-checked: all liveness (fairness and ENABLED are outside the prover). Every
invariant and every action property of a passing run is proved.

## Abstractions

* `Delivery`: one agent, addressed by one key (an agent known by a dotted and a bare
  name has two FIFOs in the code); every DeliveryResult but Failed is "ok"; which
  transport works, and when a poke is due, is left open. The cache key of an entry is
  its batch, hence the idempotency key of its row. The log writes of a consumer between
  an injection and its completion are part of the injection.
* `TeamsInbox`: the recipient, which is not part of the repository, marks a message in the
  file in one step; how it writes the file is unknown, and a copy written back from
  before a sender's write would lose that message whatever the senders do. Callers of one
  server share its pid in the code and die together,
  which allows fewer behaviours than processes that die alone.
* `ReviewWatcher`: one pull request; review rounds, stuck and sibling events, reviewer
  spawning, `addressed_changes` and inline comments are left out; the save is atomic
  (a rename). One tool call is under way at a time.
* `GitLocks`: one worktree and one of the two leases (index; shared refs are left out);
  a file is identified by device, inode and times, so by a number; helper processes
  never hold a lock without a proof of their group; a person removes a lock only
  between runs of init.
* `PlanRevision`: a manifest is named by a plan that declares it; all scopes have a
  run.json; the analysis is its check that the saved state agrees, and what makes a
  candidate inadmissible is left open (`Decline`). Reads made under one lock are one
  step. File modes, symbolic links, directory syncs and the validation of a journal's
  format are left out, and so is the recording of a first snapshot by init, which
  precedes `Init`. A gate answer stands for all writes of a run.json by others.
* `GuidanceQueue`: items and their text, limits on sizes, ledger lines and rows written
  before the migration.
* `ParentLane`: planning, dispatch, review, heartbeats and the choice of the child a
  pass serves (left open, so any order is checked); slices without a linked issue;
  parked lanes, which no code of this version writes; several parent branches in one
  run (their lanes are independent records); nobody checks the parent branch out again by
  hand after a rebase has detached HEAD. The journal entries of the parent sync are
  folded into the sync, which is idempotent and reconciles itself.
* `MutexRegistry`: intents, which only serve diagnostics, and negative time estimates,
  which no caller in the repository passes.

## Not modelled

The modules stand for a small part of the repository's 140 000 lines. Most of it is I/O
and presentation whose behaviour is that of tmux, git, the forge or a model: `init.rs`
and `serve.rs` set up sessions and routes, `handlers/`, `agent_control/` and the forge
clients translate requests, the WASM guest and the prompts format them, and half of
many files is tests. A state machine of them would restate their assignments. Protocols
that remain, in the order in which they are worth modelling:

1. run store: revision check and atomic replace, with an abstract register it implements;
2. scope FSM: ordered stages, with an abstract barrier, and the recovery FSM that
   suspends it;
3. ledger queue; reconciliation of a plan, on top of the transaction modelled here;
4. in-memory event queue; the shared-refs lease and its order with the index lease; the
   unlinked changelog path; worktree lifecycle.
