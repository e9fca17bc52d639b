-------------------------- MODULE ParentLaneProofs --------------------------
(***************************************************************************)
(* Ownership of the lane of a parent branch, for any number of children    *)
(* and any number of faults, crashes, foreign pushes and human acts.       *)
(***************************************************************************)
EXTENDS ParentLane, TLAPS, FiniteSetTheorems

(* The fields of a lane record.                                            *)
LaneShape(l) ==
  l = [phase |-> l.phase, child |-> l.child, epoch |-> l.epoch,
       base |-> l.base, head |-> l.head, push |-> l.push,
       commit |-> l.commit, last |-> l.last]

(* Types and LaneOwned for a lane record, durable or held in memory.       *)
Sound(l) ==
  /\ LaneShape(l) /\ l.phase \in LanePhases /\ l.last \in 0..MaxEpoch
  /\ IF l.phase = "idle" THEN l = [IdleLane EXCEPT !.last = l.last]
     ELSE l.child \in Children /\ l.epoch = l.last /\ l.last > 0

(* What the pass keeps in memory may be older than the durable lane, but   *)
(* then the child of the pass owns the durable lane, and the old record    *)
(* was idle or its own; a pass about to abandon has the current record.    *)
HeldSound ==
  held # None =>
    /\ held = [child |-> held.child, step |-> held.step,
               lane |-> held.lane, pm |-> held.pm, gens |-> held.gens]
    /\ Sound(held.lane)
    /\ \/ held.lane = lane
       \/ held.step = "gate"
       \/ /\ held.step = "run" /\ lane.child = held.child
          /\ held.lane.child \in {None, held.child}

(* The inductive invariant: LaneOwned alone is not inductive, because      *)
(* blocking a child writes the lane of `held' back.                        *)
Inv == Sound(lane) /\ HeldSound

(* One step of the hand-over property.                                     *)
HandOver == lane.child # None /\ lane'.child # lane.child
              => lane'.phase = "idle"

LaneFields == {"phase", "child", "epoch", "base", "head", "push", "commit",
               "last"}

(* A function on the fields is a lane record, and the other way round.     *)
LEMMA FieldsShape ==
  ASSUME NEW m
  PROVE  LaneShape(m)
           <=> DOMAIN m = LaneFields /\ m = [f \in DOMAIN m |-> m[f]]
BY DEF LaneShape, LaneFields

(* What the reducer makes of a sound lane is sound (lane_transition.py).   *)
LEMMA IdledSound ==
  ASSUME NEW l, Sound(l)
  PROVE  /\ Sound(Idled(l)) /\ Idled(l).phase = "idle"
         /\ Idled(l).child = None
BY DEF Sound, LaneShape, Idled, IdleLane, LanePhases

LEMMA ReserveSound ==
  ASSUME NEW l, NEW c \in Children, NEW e \in 1..MaxEpoch, NEW base
  PROVE  /\ Sound(Reserve(l, c, e, base))
         /\ Reserve(l, c, e, base).child = c
         /\ Reserve(l, c, e, base).phase = "reserved"
<1> DEFINE m == Reserve(l, c, e, base)
<1>1. DOMAIN m = LaneFields /\ m = [f \in DOMAIN m |-> m[f]]
  BY DEF Reserve, IdleLane, LaneFields
<1>2. m.phase = "reserved" /\ m.child = c /\ m.epoch = e /\ m.last = e
  BY DEF Reserve, IdleLane
<1> HIDE DEF m
<1>3. Sound(m)
  BY <1>1, <1>2, FieldsShape, BoundsAreNaturals DEF Sound, LanePhases, ActivePhases
<1>4. QED
  BY <1>2, <1>3 DEF m

(* Events that only move an owned lane between its active phases and       *)
(* recovery keep it sound and keep its owner.                              *)
LEMMA ActiveSound ==
  ASSUME NEW l, Sound(l), l.phase # "idle", NEW head, NEW push, NEW commit,
         NEW base
  PROVE  /\ Sound(Start(l, head)) /\ Start(l, head).child = l.child
         /\ Sound(Recover(l)) /\ Recover(l).child = l.child
         /\ Sound(Resolve(l)) /\ Resolve(l).child = l.child
         /\ Sound(Bookkeep(l, push, commit, base))
         /\ Bookkeep(l, push, commit, base).child = l.child
<1>1. /\ LaneShape(l) /\ l.last \in 0..MaxEpoch
      /\ l.child \in Children /\ l.epoch = l.last /\ l.last > 0
  BY DEF Sound
<1>2. Sound(Start(l, head)) /\ Start(l, head).child = l.child
  <2> DEFINE m == Start(l, head)
  <2>1. DOMAIN m = LaneFields /\ m = [f \in DOMAIN m |-> m[f]]
    BY <1>1, FieldsShape DEF Start
  <2>2. /\ m.phase = "integrating" /\ m.child = l.child
        /\ m.epoch = l.epoch /\ m.last = l.last
    BY <1>1, FieldsShape DEF Start, LaneFields
  <2> HIDE DEF m
  <2>3. Sound(m)
    BY <1>1, <2>1, <2>2, FieldsShape DEF Sound, LanePhases, ActivePhases
  <2>4. QED
    BY <2>2, <2>3 DEF m
<1>3. Sound(Recover(l)) /\ Recover(l).child = l.child
  BY <1>1 DEF Sound, LaneShape, Recover, LanePhases
<1>4. Sound(Resolve(l)) /\ Resolve(l).child = l.child
  BY <1>1 DEF Sound, LaneShape, Resolve, LanePhases, ActivePhases
<1>5. /\ Sound(Bookkeep(l, push, commit, base))
      /\ Bookkeep(l, push, commit, base).child = l.child
  <2> DEFINE m == Bookkeep(l, push, commit, base)
  <2>1. DOMAIN m = LaneFields /\ m = [f \in DOMAIN m |-> m[f]]
    BY <1>1, FieldsShape DEF Bookkeep
  <2>2. /\ m.phase = "bookkeeping" /\ m.child = l.child
        /\ m.epoch = l.epoch /\ m.last = l.last
    BY <1>1, FieldsShape DEF Bookkeep, LaneFields
  <2> HIDE DEF m
  <2>3. Sound(m)
    BY <1>1, <2>1, <2>2, FieldsShape DEF Sound, LanePhases, ActivePhases
  <2>4. QED
    BY <2>2, <2>3 DEF m
<1>6. QED
  BY <1>2, <1>3, <1>4, <1>5

(* _abandon_owned_lane_integration idles an owned lane or leaves it.       *)
LEMMA AbandonSound ==
  ASSUME NEW l, Sound(l), NEW c \in Children
  PROVE  /\ Sound(AbandonOwned(l, c))
         /\ \/ AbandonOwned(l, c) = l /\ l.child # c
            \/ AbandonOwned(l, c).phase = "idle"
<1>1. CASE l.child = c /\ l.phase # "idle"
  BY <1>1, IdledSound DEF AbandonOwned
<1>2. CASE ~ (l.child = c /\ l.phase # "idle")
  BY <1>2 DEF AbandonOwned
<1>3. QED
  BY <1>1, <1>2

(* An owner means that the lane is not idle.                               *)
LEMMA OwnedIsActive ==
  ASSUME NEW l, Sound(l), NEW c \in Children, l.child = c
  PROVE  l.phase # "idle"
BY NoneIsNoChild DEF Sound, LaneShape, IdleLane

(* Steps that leave the durable lane alone, and keep, end or begin a pass  *)
(* with the lane as it is.                                                 *)
LEMMA QuietStep ==
  ASSUME Inv, lane' = lane,
         \/ held' = held
         \/ held' = None
         \/ \E c, st, s, g : held' = [child |-> c, step |-> st, lane |-> lane,
                                      pm |-> s, gens |-> g]
  PROVE  Inv' /\ HandOver
<1>1. HandOver
  BY DEF HandOver
<1>2. Sound(lane')
  BY DEF Inv
<1>3. CASE held' = held
  BY <1>1, <1>2, <1>3 DEF Inv, HeldSound
<1>4. CASE held' = None
  BY <1>1, <1>2, <1>4 DEF Inv, HeldSound
<1>5. ASSUME NEW c, NEW st, NEW s, NEW g,
             held' = [child |-> c, step |-> st, lane |-> lane, pm |-> s,
                      gens |-> g]
      PROVE  Inv'
  BY <1>2, <1>5 DEF Inv, HeldSound
<1>6. QED
  BY <1>1, <1>3, <1>4, <1>5

(* A checkpoint of the lane outside a pass, or one that ends it.           *)
LEMMA LaneStep ==
  ASSUME Inv, held' = None, Sound(lane'),
         \/ lane.child = None
         \/ lane'.child = lane.child
         \/ lane'.phase = "idle"
  PROVE  Inv' /\ HandOver
BY DEF Inv, HeldSound, HandOver

(* The write-back of a blocked child: the lane in memory may be stale, yet *)
(* nobody but the child itself loses the lane.                             *)
LEMMA BlockStep ==
  ASSUME Inv, NEW c \in Children, Running(c), Block(c)
  PROVE  Inv' /\ HandOver
<1> DEFINE l == Held(c).lane
<1>1. Sound(l) /\ (l = lane \/ (lane.child = c /\ l.child \in {None, c}))
  <2>1. CASE held = None
    BY <2>1 DEF Inv, Held
  <2>2. CASE held # None
    BY <2>2 DEF Inv, HeldSound, Held, Running
  <2>3. QED
    BY <2>1, <2>2
<1>2. lane' = AbandonOwned(l, c) /\ held' = None
  BY DEF Block
<1> HIDE DEF l
<1>3. /\ Sound(lane')
      /\ (lane' = l /\ l.child # c) \/ lane'.phase = "idle"
  BY <1>1, <1>2, AbandonSound
<1>4. lane'.child = lane.child \/ lane'.phase = "idle"
  <2>1. CASE lane' = l /\ l.child # c
    <3>1. CASE l = lane
      BY <2>1, <3>1
    <3>2. CASE l.child = None
      BY <1>1, <2>1, <3>2, NoneIsNoChild DEF Sound
    <3>3. QED
      BY <1>1, <2>1, <3>1, <3>2
  <2>2. QED
    BY <1>3, <2>1
<1>5. QED
  BY <1>2, <1>3, <1>4, LaneStep

(* Merging an approved child.                                              *)
LEMMA MergeStep ==
  ASSUME Inv, NEW c \in Children, Merge(c)
  PROVE  Inv' /\ HandOver
<1>1. held = None /\ held' = None
  BY DEF Merge, ReserveLane, StartIntegration, BeginMerge, MergeRefused,
         MergeUnknown, Adopt
<1>2. /\ Sound(lane')
      /\ \/ lane.child = None \/ lane'.child = lane.child
         \/ lane'.phase = "idle"
  <2>1. Sound(lane) /\ lane.last \in 0..MaxEpoch /\ (lane.phase = "idle" => lane.child = None)
    BY DEF Inv, Sound, IdleLane
  <2>2. CASE ReserveLane(c)
    BY <2>1, <2>2, ReserveSound, BoundsAreNaturals DEF ReserveLane, EnsureCandidateLane
  <2>3. CASE StartIntegration(c)
    BY <2>1, <2>3, ActiveSound DEF StartIntegration
  <2>4. CASE BeginMerge(c)
    BY <2>1, <2>4 DEF BeginMerge
  <2>5. CASE MergeRefused(c)
    BY <2>1, <2>5, AbandonSound DEF MergeRefused
  <2>6. CASE MergeUnknown(c)
    BY <2>1, <2>6, ActiveSound DEF MergeUnknown, ActivePhases
  <2>7. CASE Adopt(c)
    BY <2>1, <2>7, ActiveSound DEF Adopt, CanResolve
  <2>8. QED
    BY <2>2, <2>3, <2>4, <2>5, <2>6, <2>7 DEF Merge
<1>3. QED
  BY <1>1, <1>2, LaneStep

(* The parent sync.                                                        *)
LEMMA SyncStep ==
  ASSUME Inv, NEW c \in Children, ParentSync(c) \/ ParentSyncFails(c)
  PROVE  Inv' /\ HandOver
<1>1. CASE ParentSync(c)
  BY <1>1, QuietStep DEF ParentSync, Advance
<1>2. CASE ParentSyncFails(c)
  <2>1. Block(c) \/ (lane' = lane /\ held' = held)
    BY <1>2 DEF ParentSyncFails, store
  <2>2. Running(c)
    BY <1>2 DEF ParentSyncFails, Running
  <2>3. QED
    BY <2>1, <2>2, BlockStep, QuietStep
<1>3. QED
  BY <1>1, <1>2

(* The first write of an issue-close failure.                              *)
LEMMA RecordFailureStep ==
  ASSUME Inv, NEW c \in Children, RecordFailure(c)
  PROVE  Inv' /\ HandOver
<1>1. lane' = lane
  BY DEF RecordFailure
<1>2. \E k, st, s, g : held' = [child |-> k, step |-> st, lane |-> lane,
                                pm |-> s, gens |-> g]
  BY DEF RecordFailure
<1>3. QED
  BY <1>1, <1>2, QuietStep

(* The removal of one gate.                                                *)
LEMMA ClearGateStep ==
  ASSUME Inv, NEW c \in Children, ClearGate(c)
  PROVE  Inv' /\ HandOver
<1>1. held # None /\ held.step = "clear" /\ lane' = lane
  BY DEF ClearGate
<1>2. /\ held = [child |-> held.child, step |-> held.step,
                 lane |-> held.lane, pm |-> held.pm, gens |-> held.gens]
      /\ held.lane = lane
  BY <1>1 DEF Inv, HeldSound
<1>3. \/ held' = None
      \/ \E g : held' = [held EXCEPT !.gens = g]
      \/ held' = [held EXCEPT !.step = "run", !.gens = {}]
  BY DEF ClearGate
<1>4. \/ held' = None
      \/ \E k, st, s, g : held' = [child |-> k, step |-> st, lane |-> lane,
                                   pm |-> s, gens |-> g]
  <2>1. ASSUME NEW g, held' = [held EXCEPT !.gens = g]
        PROVE  held' = [child |-> held.child, step |-> "clear",
                        lane |-> lane, pm |-> held.pm, gens |-> g]
    BY <1>1, <1>2, <2>1
  <2>2. ASSUME held' = [held EXCEPT !.step = "run", !.gens = {}]
        PROVE  held' = [child |-> held.child, step |-> "run",
                        lane |-> lane, pm |-> held.pm, gens |-> {}]
    BY <1>1, <1>2, <2>2
  <2>3. QED
    BY <1>3, <2>1, <2>2
<1>5. QED
  BY <1>1, <1>4, QuietStep

(* Issue close.                                                            *)
LEMMA CloseOutStep ==
  ASSUME Inv, NEW c \in Children, CloseOut(c)
  PROVE  Inv' /\ HandOver
<1>1. CASE \/ RequestIssueClose(c) \/ IssueFoundClosed(c)
           \/ ReconcileClose(c) \/ OpenIssueCloseGate(c)
  BY <1>1, QuietStep DEF RequestIssueClose, IssueFoundClosed,
     ReconcileClose, OpenIssueCloseGate, Advance, store
<1>8. CASE IssueCloseReceipt(c) \/ IssueAlreadyClosed(c)
  <2>1. lane' = lane /\ ThenClear(c)
    BY <1>8 DEF IssueCloseReceipt, IssueAlreadyClosed
  <2>2. \/ held' = None
        \/ held' = [child |-> c, step |-> "clear", lane |-> lane,
                    pm |-> pm'[c], gens |-> Unanswered(c)]
    BY <2>1 DEF ThenClear
  <2>3. QED
    BY <2>1, <2>2, QuietStep
<1>9. CASE ClearGate(c)
  BY <1>9, ClearGateStep
<1>2. CASE IssueStatusFails(c) \/ IssueCloseUnresolved(c)
  BY <1>2, RecordFailureStep DEF IssueStatusFails, IssueCloseUnresolved
<1>3. CASE AuthorizeRetry(c)
  <2>1. lane' = lane
    BY <1>3 DEF AuthorizeRetry
  <2>2. held' = [child |-> c, step |-> "clear", lane |-> lane, pm |-> pm[c],
                 gens |-> {pm[c].fgen}]
    BY <1>3 DEF AuthorizeRetry
  <2>3. QED
    BY <2>1, <2>2, QuietStep
<1>4. CASE CloseIssue(c)
  <2>1. \/ RecordFailure(c)
        \/ lane' = lane /\ (held' = held \/ held' = None)
    BY <1>4 DEF CloseIssue, store
  <2>2. QED
    BY <2>1, RecordFailureStep, QuietStep
<1>5. CASE RetryRefused(c)
  BY <1>5, BlockStep DEF RetryRefused, Blocked
<1>6. CASE AbandonAfterFailure(c)
  <2>1. /\ held # None /\ held.step = "abandon"
        /\ lane' = AbandonOwned(held.lane, c)
        /\ held' = [held EXCEPT !.step = "gate"]
    BY <1>6 DEF AbandonAfterFailure
  <2>2. /\ held = [child |-> held.child, step |-> held.step,
                   lane |-> held.lane, pm |-> held.pm, gens |-> held.gens]
        /\ held.lane = lane /\ Sound(lane)
    BY <2>1 DEF Inv, HeldSound
  <2>3. held' = [child |-> held.child, step |-> "gate",
                 lane |-> lane, pm |-> held.pm, gens |-> held.gens]
    BY <2>1, <2>2
  <2>4. Sound(lane') /\ (lane' = lane \/ lane'.phase = "idle")
    BY <2>1, <2>2, AbandonSound
  <2>5. HeldSound'
    BY <2>2, <2>3 DEF HeldSound
  <2>6. QED
    BY <2>4, <2>5 DEF Inv, HandOver
<1>7. QED
  BY <1>1, <1>2, <1>3, <1>4, <1>5, <1>6, <1>8, <1>9 DEF CloseOut

(* Taking the lane for the push, the one step that makes `held' stale.     *)
LEMMA EnsureLaneStep ==
  ASSUME Inv, NEW c \in Children, EnsureLane(c)
  PROVE  Inv' /\ HandOver
<1>1. Sound(lane) /\ lane.last \in 0..MaxEpoch /\ (lane.phase = "idle" => lane.child = None)
  BY DEF Inv, Sound, IdleLane
<1>2. /\ Sound(lane') /\ lane'.child = c
      /\ lane.child \in {None, c}
  <2>1. CASE EnsureCandidateLane(c, rec[c])
    BY <1>1, <2>1, ReserveSound, BoundsAreNaturals DEF EnsureCandidateLane
  <2>2. CASE lane.child = c /\ lane.phase = "reserved"
             /\ lane' = Start(lane, PrHead(c))
    BY <1>1, <2>2, ActiveSound
  <2>3. CASE lane.child = c /\ lane.phase = "integrating"
             /\ \E push : lane' = Bookkeep(lane, push, pm[c].commit, rec[c])
    BY <1>1, <2>3, ActiveSound
  <2>4. QED
    BY <2>1, <2>2, <2>3 DEF EnsureLane
<1>3. held' = held \/ held' = Held(c)
  BY DEF EnsureLane, KeepHeld
<1>4. HeldSound'
  <2>1. CASE held # None
    <3>1. /\ held.child = c /\ held.step = "run" /\ held' = held
          /\ Sound(held.lane) /\ held.lane.child \in {None, c}
      BY <1>2, <1>3, <2>1 DEF EnsureLane, Running, Held, Inv, HeldSound
    <3>2. QED
      BY <1>2, <2>1, <3>1 DEF Inv, HeldSound
  <2>2. CASE held = None
    <3>1. \/ held' = None
          \/ held' = [child |-> c, step |-> "run", lane |-> lane,
                      pm |-> pm[c], gens |-> {}]
      BY <1>3, <2>2 DEF Held
    <3>2. QED
      BY <1>1, <1>2, <3>1 DEF HeldSound
  <2>3. QED
    BY <2>1, <2>2
<1>5. QED
  BY <1>2, <1>4 DEF Inv, HandOver

(* Changelog, push and rebuild.                                            *)
LEMMA BookkeepingStep ==
  ASSUME Inv, NEW c \in Children, Bookkeeping(c)
  PROVE  Inv' /\ HandOver
<1>1. CASE RequestChangelog(c) \/ CommitChangelog(c) \/ AdoptChangelog(c)
  BY <1>1, QuietStep DEF RequestChangelog, CommitChangelog, AdoptChangelog,
     Advance, store
<1>2. CASE ChangelogFails(c) \/ ChangelogRefused(c)
  <2>1. Running(c) /\ Block(c)
    BY <1>2 DEF ChangelogFails, ChangelogRefused, Blocked, Running
  <2>2. QED
    BY <2>1, BlockStep
<1>3. CASE PushRefused(c) \/ RebaseRefused(c) \/ RebaseConflicts(c)
  <2>1. Running(c) /\ Block(c)
    BY <1>3 DEF PushRefused, RebaseRefused, RebaseConflicts, Blocked, Stale
  <2>2. QED
    BY <2>1, BlockStep
<1>4. CASE Push(c) \/ Rebase(c)
  <2>1. lane' = lane /\ (held' = held \/ held' = None)
    BY <1>4 DEF Push, Rebase, store
  <2>2. QED
    BY <2>1, QuietStep
<1>5. ASSUME LaneReady(c)
      PROVE  Sound(lane) /\ lane.child = c /\ lane.phase = "bookkeeping"
  BY <1>5 DEF LaneReady, Inv
<1>6. CASE RequestPush(c)
  <2>1. /\ held' = None /\ LaneReady(c)
        /\ \E push : lane' = Bookkeep(lane, push, pm[c].commit, rec[c])
    BY <1>6 DEF RequestPush, Advance
  <2>2. Sound(lane') /\ lane'.child = lane.child
    BY <1>5, <2>1, ActiveSound
  <2>3. QED
    BY <2>1, <2>2, LaneStep
<1>7. CASE AdoptPush(c)
  <2>1. held' = None /\ LaneReady(c) /\ lane' = Idled(lane)
    BY <1>7 DEF AdoptPush, Advance
  <2>2. Sound(lane') /\ lane'.phase = "idle"
    BY <1>5, <2>1, IdledSound
  <2>3. QED
    BY <2>1, <2>2, LaneStep
<1>8. CASE AdoptRebuild(c)
  <2>1. PICK base, head :
          /\ held' = None /\ LaneReady(c) /\ lane.epoch < MaxEpoch
          /\ lane' = Start(Reserve(Recover(lane), c, lane.epoch + 1, base),
                           head)
    BY <1>8 DEF AdoptRebuild, Advance, Stale
  <2>2. lane.epoch + 1 \in 1..MaxEpoch /\ lane.child = c
    BY <1>5, <2>1, BoundsAreNaturals DEF Sound
  <2> DEFINE l == Reserve(Recover(lane), c, lane.epoch + 1, base)
  <2>3. Sound(l) /\ l.child = c /\ l.phase # "idle"
    BY <2>2, ReserveSound
  <2> HIDE DEF l
  <2>4. Sound(Start(l, head)) /\ Start(l, head).child = c
    BY <2>3, ActiveSound
  <2>5. QED
    BY <2>1, <2>2, <2>4, LaneStep DEF l
<1>9. CASE EnsureLane(c)
  BY <1>9, EnsureLaneStep
<1>10. QED
  BY <1>1, <1>2, <1>3, <1>4, <1>6, <1>7, <1>8, <1>9 DEF Bookkeeping

(* Every step keeps the invariant and hands the lane over through idle.    *)
LEMMA NextStep ==
  ASSUME Inv, Next
  PROVE  Inv' /\ HandOver
<1>1. ASSUME NEW c \in Children, Pass(c) PROVE Inv' /\ HandOver
  BY <1>1, MergeStep, SyncStep, CloseOutStep, BookkeepingStep DEF Pass
<1>2. ASSUME NEW c \in Children, MergeLands(c) \/ ApproveGate(c) \/ HumanActs(c)
      PROVE  Inv' /\ HandOver
  <2>1. lane' = lane /\ held' = held
    BY <1>2 DEF MergeLands, ApproveGate, HumanActs, store
  <2>2. QED
    BY <2>1, QuietStep
<1>3. ASSUME NEW k \in Keys, ResolveEntry(k) PROVE Inv' /\ HandOver
  BY <1>3, QuietStep DEF ResolveEntry, store
<1>4. CASE Crash \/ ForeignPush
  BY <1>4, QuietStep DEF Crash, ForeignPush, store
<1>5. QED
  BY <1>1, <1>2, <1>3, <1>4 DEF Next

(* The invariant holds throughout.                                         *)
THEOREM LaneInvariant == Spec => []Inv
<1>1. Init => Inv
  BY BoundsAreNaturals DEF Init, Inv, HeldSound, Sound, LaneShape, IdleLane, LanePhases
<1>2. Inv /\ [Next]_vars => Inv'
  <2>1. ASSUME Inv, UNCHANGED vars PROVE Inv'
    BY <2>1, QuietStep DEF vars, store
  <2>2. QED
    BY <2>1, NextStep
<1>3. QED
  BY <1>1, <1>2, PTL DEF Spec

(* Whoever crashes, blocks or writes back an older record, an idle lane    *)
(* has no owner and an owned lane carries the epoch handed out last        *)
(* (LaneOwned; lane_transition.py and its callers in driver.py).           *)
THEOREM LaneIsOwned == Spec => []LaneOwned
<1>1. Inv => LaneOwned
  BY DEF Inv, Sound, LaneOwned
<1>2. QED
  BY <1>1, LaneInvariant, PTL

(* No child takes the lane from another: it becomes idle first             *)
(* (HandOverThroughIdle; _ensure_candidate_lane, the write-backs of        *)
(* _block_post_merge_recovery and _record_issue_close_failure).            *)
THEOREM LaneHandOver == Spec => HandOverThroughIdle
<1>1. Inv /\ [Next]_vars
        => [lane.child # None /\ lane'.child # lane.child
              => lane'.phase = "idle"]_vars
  BY NextStep DEF HandOver
<1>2. QED
  BY <1>1, LaneInvariant, PTL DEF Spec, HandOverThroughIdle
-----------------------------------------------------------------------------
(***************************************************************************)
(* What ParentLane publishes, for any number of children, faults, crashes, *)
(* foreign pushes and human acts: no commit leaves the remote branch, a    *)
(* complete child has its bookkeeping there, and progress is not lost.     *)
(***************************************************************************)

Commits == [op : {"head", "merge", "log", "other"}, who : SUBSET Children]
History == Seq(Commits)

Tries == 0..MaxTries

Evidence ==
  [phase : PostMergePhases, epoch : Nat \cup {Missing}, gen : Tries,
   intent : Tries \cup {Missing}, commit : History \cup {Missing},
   push : Tries \cup {Missing}, base : History \cup {Missing},
   rebuild : BOOLEAN, applied : BOOLEAN, failed : Tries \cup {Missing},
   attempt : Tries, fgen : Tries, fattempt : Tries]

Entry == [st : Entries, base : History \cup {None},
          commit : History \cup {None}]

Types ==
  /\ status \in [Children -> {"approved", "inflight", "unknown", "merged"}]
  /\ pm \in [Children -> Evidence]
  /\ rec \in [Children -> History \cup {None}]
  /\ jr \in [Keys -> Entry]
  /\ issue \in [Children -> {"open", "closed"}]
  /\ dirty \subseteq Children
  /\ local \in History /\ remote \in History

(* A merge that nobody adopted has no post-merge evidence.                 *)
Unmerged == \A c \in Children :
              status[c] # "merged" => pm[c].phase = "not_started"

Pushes    == {"parent_push_pending", "complete"}
Committed == {"changelog_committed"} \cup Pushes
Closed    == {"issue_close_confirmed", "changelog_pending"} \cup Committed
Synced    == {"parent_branch_synced", "issue_close_pending"} \cup Closed

(* There is at most one rebuild.                                           *)
Generation(s) ==
  \/ /\ s.gen = 0 /\ ~ s.rebuild /\ ~ s.applied
     /\ s.phase \in Committed \cup {"changelog_pending"} => s.intent = 0
  \/ s.gen = 1 /\ s.rebuild /\ s.applied /\ s.intent = 1 /\ s.phase \in Committed

(* A commit that both the parent worktree and the remote branch have.      *)
Shared(h) == h \in History /\ IsPrefix(h, local) /\ IsPrefix(h, remote)

(* What the evidence s of a child says about the issue, the changelog and  *)
(* the two branches.                                                       *)
Holds(c, s) ==
  /\ Generation(s)
  /\ s.phase \in Synced => Shared(rec[c])
  /\ s.phase \in Closed => issue[c] = "closed"
  /\ s.phase \in Committed => c \notin dirty /\ s.commit \in History
  /\ s.phase \in Pushes => s.push = PushGen(s)
  /\ s.phase = "parent_push_pending" => s.base = rec[c]
  /\ s.phase = "complete" => IsPrefix(s.commit, remote)

(* No push of a later generation is in the journal; a confirmed one of     *)
(* this generation has published the commit.                               *)
PushesHold(c, s) ==
  /\ \A n \in Tries : n > s.gen \/ (n = s.gen /\ s.phase \notin Pushes)
       => jr[<<c, "push", n>>].st = "none"
  /\ /\ s.phase = "parent_push_pending"
     /\ jr[<<c, "push", s.gen>>].st = "confirmed"
     => IsPrefix(s.commit, remote)

(* What a confirmed entry of the journal says.                             *)
Proves(c, op, e) ==
  /\ op \in {"close", "changelog"} => issue[c] = "closed"
  /\ op = "changelog" => c \notin dirty /\ e.commit \in History
  /\ op = "rebuild" => Shared(e.base) /\ e.commit \in History

JournalHolds ==
  \A c \in Children, op \in Operations, n \in Tries :
    /\ jr[<<c, op, n>>].st = "confirmed" => Proves(c, op, jr[<<c, op, n>>])
    /\ jr[<<c, op, n>>].st = "closed" => issue[c] = "closed"

(* The state a pass has in memory differs from the durable one in the      *)
(* retries of the issue close at most.                                     *)
Same(s, t) ==
  /\ s.phase = t.phase /\ s.gen = t.gen /\ s.intent = t.intent
  /\ s.commit = t.commit /\ s.push = t.push /\ s.base = t.base
  /\ s.rebuild = t.rebuild /\ s.applied = t.applied

HeldSame ==
  held # None => /\ held.child \in Children /\ held.pm \in Evidence
                 /\ Same(held.pm, pm[held.child])

EvidenceHolds == \A c \in Children : Holds(c, pm[c]) /\ PushesHold(c, pm[c])

(* The inductive invariant.                                                *)
PInv == /\ Inv /\ Types /\ Unmerged /\ EvidenceHolds /\ JournalHolds
        /\ HeldSame
-----------------------------------------------------------------------------
(* Histories.                                                              *)
LEMMA PrefixIs ==
  ASSUME NEW h \in History, NEW g \in History
  PROVE  IsPrefix(h, g) <=> /\ Len(h) <= Len(g)
                            /\ \A i \in 1..Len(h) : h[i] = g[i]
BY DEF IsPrefix, History

LEMMA PrefixTrans ==
  ASSUME NEW f \in History, NEW g \in History, NEW h \in History,
         IsPrefix(f, g), IsPrefix(g, h)
  PROVE  IsPrefix(f, h)
<1>1. Len(f) \in Nat /\ Len(g) \in Nat /\ Len(h) \in Nat
  BY DEF History
<1>2. QED
  BY <1>1, PrefixIs

LEMMA PrefixSelf ==
  ASSUME NEW h \in History
  PROVE  IsPrefix(h, h)
<1>1. Len(h) \in Nat
  BY DEF History
<1>2. QED
  BY <1>1, PrefixIs

LEMMA PrefixConcat ==
  ASSUME NEW h \in History, NEW g \in History
  PROVE  h \o g \in History /\ IsPrefix(h, h \o g)
<1> DEFINE m == h \o g
<1>1. /\ Len(h) \in Nat /\ Len(g) \in Nat /\ m \in History
      /\ Len(m) = Len(h) + Len(g)
      /\ \A i \in 1..Len(h) : m[i] = h[i]
  BY DEF History
<1> HIDE DEF m
<1>2. m \in History /\ IsPrefix(h, m)
  BY <1>1, PrefixIs
<1>3. QED
  BY <1>2 DEF m

LEMMA PrefixAppend ==
  ASSUME NEW h \in History, NEW x \in Commits
  PROVE  Append(h, x) \in History /\ IsPrefix(h, Append(h, x))
<1> DEFINE m == Append(h, x)
<1>1. /\ Len(h) \in Nat /\ m \in History /\ Len(m) = Len(h) + 1
      /\ \A i \in 1..Len(h) : m[i] = h[i]
  BY DEF History
<1> HIDE DEF m
<1>2. m \in History /\ IsPrefix(h, m)
  BY <1>1, PrefixIs
<1>3. QED
  BY <1>2 DEF m
-----------------------------------------------------------------------------
(* What the evidence says depends on the fields that Same compares.        *)
LEMMA SameHolds ==
  ASSUME NEW c \in Children, NEW s, NEW t, Same(s, t)
  PROVE  /\ Holds(c, t) => Holds(c, s)
         /\ PushesHold(c, t) => PushesHold(c, s)
<1>1. PushGen(s) = PushGen(t)
  BY DEF Same, PushGen
<1>2. Holds(c, t) => Holds(c, s)
  BY <1>1 DEF Same, Holds, Generation
<1>3. PushesHold(c, t) => PushesHold(c, s)
  BY DEF Same, PushesHold
<1>4. QED
  BY <1>2, <1>3

(* What every step does to the issues and the branches: no issue is        *)
(* opened, no closed one gets an entry, and commits stay.                  *)
World ==
  /\ \A c \in Children : issue[c] = "closed" => issue'[c] = "closed"
  /\ \A c \in Children :
       issue[c] = "closed" /\ c \notin dirty => c \notin dirty'
  /\ IsPrefix(remote, remote')
  /\ \A h \in History : Shared(h) => IsPrefix(h, local')

LEMMA SharedStays ==
  ASSUME Types, Types', World
  PROVE  /\ \A h \in History : IsPrefix(h, remote) => IsPrefix(h, remote')
         /\ \A h : Shared(h) => Shared(h)'
<1>1. remote \in History /\ remote' \in History
  BY DEF Types
<1>2. \A h \in History : IsPrefix(h, remote) => IsPrefix(h, remote')
  BY <1>1, PrefixTrans DEF World
<1>3. \A h : Shared(h) => Shared(h)'
  BY <1>2 DEF World, Shared
<1>4. QED
  BY <1>2, <1>3

LEMMA HoldsStays ==
  ASSUME Types, Types', World, NEW c \in Children
  PROVE  \A s : Holds(c, s) /\ (rec'[c] = rec[c] \/ s.phase = "not_started")
                => Holds(c, s)'
<1>1. ASSUME NEW s, Holds(c, s), rec'[c] = rec[c] \/ s.phase = "not_started"
      PROVE  Holds(c, s)'
  <2>1. Generation(s)' /\ PushGen(s)' = PushGen(s)
    BY <1>1 DEF Holds, Generation, PushGen
  <2>2. (s.phase \in Synced => Shared(rec[c]))'
    BY <1>1, SharedStays DEF Holds, Synced, Closed, Committed, Pushes
  <2>3. (s.phase \in Closed => issue[c] = "closed")'
    BY <1>1 DEF Holds, World
  <2>4. (s.phase \in Committed => c \notin dirty /\ s.commit \in History)'
    BY <1>1 DEF Holds, World, Closed
  <2>5. (s.phase \in Pushes => s.push = PushGen(s))'
    BY <1>1, <2>1 DEF Holds
  <2>6. (s.phase = "parent_push_pending" => s.base = rec[c])'
    BY <1>1 DEF Holds
  <2>7. (s.phase = "complete" => IsPrefix(s.commit, remote))'
    BY <1>1, SharedStays DEF Holds, Committed, Pushes
  <2>8. QED
    BY <2>1, <2>2, <2>3, <2>4, <2>5, <2>6, <2>7 DEF Holds
<1>2. QED
  BY <1>1

(* The phases in their order.                                              *)
Order == {<<"not_started", "remote_merge_adopted">>,
          <<"remote_merge_adopted", "parent_branch_synced">>,
          <<"parent_branch_synced", "issue_close_pending">>,
          <<"issue_close_pending", "issue_close_confirmed">>,
          <<"issue_close_confirmed", "changelog_pending">>,
          <<"changelog_pending", "changelog_committed">>,
          <<"changelog_committed", "parent_push_pending">>,
          <<"parent_push_pending", "complete">>}

(* One step of ProgressKept and of RemoteKeepsHistory.                     *)
Goes(c) == \/ pm'[c].phase = pm[c].phase
           \/ <<pm[c].phase, pm'[c].phase>> \in Order
           \/ pm'[c].gen = pm[c].gen + 1 /\ pm'[c].failed = pm[c].push

Onward == IsPrefix(remote, remote') /\ \A c \in Children : Goes(c)

(* Nothing but the retries of the issue close changes for a child.         *)
Kept(d) == /\ rec'[d] = rec[d] \/ pm[d].phase = "not_started"
           /\ Same(pm'[d], pm[d])

(* The journal forgets nothing, and what it confirms it had confirmed; no  *)
(* push is dispatched, and an issue found closed is closed.                *)
JrKept ==
  \A d \in Children, op \in Operations, n \in Tries :
    /\ jr'[<<d, op, n>>].st = "confirmed" => jr'[<<d, op, n>>] = jr[<<d, op, n>>]
    /\ op = "push" /\ jr[<<d, op, n>>].st = "none"
         => jr'[<<d, op, n>>].st = "none"
    /\ jr'[<<d, op, n>>].st = "closed"
         => jr[<<d, op, n>>].st = "closed" \/ issue[d] = "closed"

PushKept(d) ==
  \A n \in Tries :
    /\ jr'[<<d, "push", n>>].st = "confirmed" => jr[<<d, "push", n>>].st = "confirmed"
    /\ jr[<<d, "push", n>>].st = "none" => jr'[<<d, "push", n>>].st = "none"

LEMMA JrPushKept == ASSUME JrKept PROVE \A d \in Children : PushKept(d)
<1>1. "push" \in Operations
  BY DEF Operations
<1>2. QED
  BY <1>1 DEF JrKept, PushKept

LEMMA PushesStay ==
  ASSUME Types, Types', World, NEW d \in Children, PushKept(d)
  PROVE  \A s \in Evidence : Holds(d, s) /\ PushesHold(d, s) => PushesHold(d, s)'
<1>1. ASSUME NEW s \in Evidence, Holds(d, s), PushesHold(d, s)
      PROVE  PushesHold(d, s)'
  <2>1. s.phase = "parent_push_pending" => s.commit \in History
    BY <1>1 DEF Holds, Committed, Pushes
  <2>2. s.gen \in Tries
    BY DEF Evidence
  <2>3. QED
    BY <1>1, <2>1, <2>2, SharedStays DEF PushesHold, PushKept
<1>2. QED
  BY <1>1

LEMMA KeptHolds ==
  ASSUME PInv, Types', World, NEW d \in Children, Kept(d), PushKept(d)
  PROVE  Holds(d, pm[d])' /\ PushesHold(d, pm[d])'
<1>1. Types /\ Holds(d, pm[d]) /\ PushesHold(d, pm[d]) /\ Same(pm'[d], pm[d])
  BY DEF PInv, EvidenceHolds, Kept
<1>2. pm'[d] \in Evidence
  BY DEF Types
<1>3. Holds(d, pm'[d]) /\ PushesHold(d, pm'[d])
  BY <1>1, SameHolds
<1>4. \A s : Holds(d, s) /\ (rec'[d] = rec[d] \/ s.phase = "not_started")
             => Holds(d, s)'
  BY <1>1, HoldsStays
<1>5. \A s \in Evidence : Holds(d, s) /\ PushesHold(d, s) => PushesHold(d, s)'
  BY <1>1, PushesStay
<1>6. rec'[d] = rec[d] \/ pm'[d].phase = "not_started"
  BY <1>1 DEF Kept, Same
<1>7. QED
  BY <1>2, <1>3, <1>4, <1>5, <1>6

LEMMA JournalKept ==
  ASSUME PInv, Types', World, JrKept
  PROVE  JournalHolds'
<1>1. ASSUME NEW d \in Children, NEW op \in Operations, NEW n \in Tries,
             jr'[<<d, op, n>>].st = "confirmed"
      PROVE  Proves(d, op, jr[<<d, op, n>>])'
  <2>1. jr'[<<d, op, n>>] = jr[<<d, op, n>>]
    BY <1>1 DEF JrKept
  <2>2. Proves(d, op, jr[<<d, op, n>>])
    BY <1>1, <2>1 DEF PInv, JournalHolds
  <2>3. \A e : Proves(d, op, e) => Proves(d, op, e)'
    BY SharedStays DEF Proves, World, PInv
  <2>4. QED
    BY <2>1, <2>2, <2>3
<1>2. ASSUME NEW d \in Children, NEW op \in Operations, NEW n \in Tries,
             jr'[<<d, op, n>>].st = "closed"
      PROVE  issue'[d] = "closed"
  BY <1>2 DEF JrKept, PInv, JournalHolds, World
<1>3. QED
  BY <1>1, <1>2 DEF JournalHolds

(* A step that keeps the evidence of every child.                          *)
LEMMA SteadyStep ==
  ASSUME PInv, Inv', Types', World, JrKept, HeldSame',
         \A d \in Children : /\ Kept(d)
                             /\ status'[d] # "merged" => status[d] # "merged"
  PROVE  PInv' /\ Onward
<1>1. Unmerged'
  BY DEF Unmerged, Kept, Same, PInv
<1>2. EvidenceHolds'
  BY KeptHolds, JrPushKept DEF EvidenceHolds
<1>3. Onward
  BY DEF Onward, Goes, Kept, Same, World
<1>4. QED
  BY <1>1, <1>2, <1>3, JournalKept DEF PInv

(* A step that gives one child new evidence.                               *)
LEMMA AdvanceStep ==
  ASSUME PInv, Inv', Types', World, JrKept, HeldSame',
         NEW c \in Children, Goes(c),
         \A d \in Children \ {c} : Kept(d) /\ status'[d] = status[d],
         status'[c] = "merged", Holds(c, pm[c])', PushesHold(c, pm[c])'
  PROVE  PInv' /\ Onward
<1>1. Unmerged'
  BY DEF Unmerged, Kept, Same, PInv
<1>2. EvidenceHolds'
  <2>1. ASSUME NEW d \in Children PROVE Holds(d, pm[d])' /\ PushesHold(d, pm[d])'
    <3>1. CASE d = c
      BY <3>1
    <3>2. CASE d # c
      BY <3>2, KeptHolds, JrPushKept
    <3>3. QED
      BY <3>1, <3>2
  <2>2. QED
    BY <2>1 DEF EvidenceHolds
<1>3. Onward
  BY DEF Onward, Goes, Kept, Same, World
<1>4. QED
  BY <1>1, <1>2, <1>3, JournalKept DEF PInv
-----------------------------------------------------------------------------
(* The reducer (post_merge.py), event by event.                            *)
LEMMA PhasesAre ==
  PostMergePhases = {"not_started", "remote_merge_adopted",
                     "parent_branch_synced", "issue_close_pending",
                     "issue_close_confirmed", "changelog_pending",
                     "changelog_committed", "parent_push_pending", "complete"}
<1>1. Len(PhaseOrder) = 9
  BY DEF PhaseOrder
<1>2. \A i : i \in 1..9 <=> i \in {1, 2, 3, 4, 5, 6, 7, 8, 9}
  OBVIOUS
<1>3. QED
  BY <1>1, <1>2 DEF PostMergePhases, PhaseOrder

LEMMA FewTries == 0 \in Tries /\ 1 \in Tries /\ Tries \subseteq Nat
BY BoundsAreNaturals DEF Tries

(* Events that only move the phase, as far as Same goes.                   *)
Moved(s, t, phase) ==
  /\ t \in Evidence /\ t.phase = phase
  /\ t.gen = s.gen /\ t.intent = s.intent /\ t.commit = s.commit
  /\ t.push = s.push /\ t.base = s.base
  /\ t.rebuild = s.rebuild /\ t.applied = s.applied

LEMMA StartTyped == NotStarted \in Evidence
BY PhasesAre, BoundsAreNaturals DEF Evidence, NotStarted, Tries

LEMMA MovedTyped ==
  ASSUME NEW s \in Evidence, NEW e \in Nat
  PROVE  /\ Moved(s, MergeAdopted(s, e), "remote_merge_adopted")
         /\ Moved(s, ParentBranchSynced(s), "parent_branch_synced")
         /\ Moved(s, IssueClosePending(s), "issue_close_pending")
         /\ Moved(s, IssueCloseConfirmed(s), "issue_close_confirmed")
         /\ Moved(s, PostMergeComplete(s), "complete")
<1>1. Moved(s, MergeAdopted(s, e), "remote_merge_adopted")
  BY PhasesAre DEF Moved, MergeAdopted, Evidence
<1>2. Moved(s, ParentBranchSynced(s), "parent_branch_synced")
  BY PhasesAre DEF Moved, ParentBranchSynced, Evidence
<1>3. Moved(s, IssueClosePending(s), "issue_close_pending")
  BY PhasesAre, FewTries DEF Moved, IssueClosePending, Evidence
<1>4. Moved(s, IssueCloseConfirmed(s), "issue_close_confirmed")
  BY PhasesAre DEF Moved, IssueCloseConfirmed, Evidence
<1>5. Moved(s, PostMergeComplete(s), "complete")
  BY PhasesAre DEF Moved, PostMergeComplete, Evidence
<1>6. QED
  BY <1>1, <1>2, <1>3, <1>4, <1>5

LEMMA FailedTyped ==
  ASSUME NEW s \in Evidence, IssueCloseFailed(s).fgen <= MaxTries
  PROVE  IssueCloseFailed(s) \in Evidence /\ Same(IssueCloseFailed(s), s)
<1>1. s.fgen + 1 \in Tries /\ s.attempt \in Tries
  BY BoundsAreNaturals DEF IssueCloseFailed, Evidence, Tries
<1>2. QED
  BY <1>1 DEF IssueCloseFailed, Evidence, Same

LEMMA RetryTyped ==
  ASSUME NEW s \in Evidence, s.attempt < MaxTries
  PROVE  /\ IssueCloseRetryAuthorized(s) \in Evidence
         /\ Same(s, IssueCloseRetryAuthorized(s))
         /\ Same(IssueCloseRetryAuthorized(s), s)
<1>1. s.attempt + 1 \in Tries
  BY BoundsAreNaturals DEF Evidence, Tries
<1>2. QED
  BY <1>1 DEF IssueCloseRetryAuthorized, Evidence, Same

LEMMA ChangelogPendingTyped ==
  ASSUME NEW s \in Evidence
  PROVE  /\ ChangelogPending(s) \in Evidence
         /\ ChangelogPending(s).phase = "changelog_pending"
         /\ ChangelogPending(s).gen = 0 /\ ChangelogPending(s).intent = 0
         /\ ChangelogPending(s).rebuild = s.rebuild
         /\ ChangelogPending(s).applied = s.applied
BY PhasesAre, FewTries DEF ChangelogPending, Evidence

LEMMA ChangelogCommittedTyped ==
  ASSUME NEW s \in Evidence, NEW i \in Tries, NEW h \in History
  PROVE  LET t == ChangelogCommitted(s, i, h)
         IN  /\ t \in Evidence /\ t.phase = "changelog_committed"
             /\ t.intent = i /\ t.commit = h /\ t.applied = s.rebuild
             /\ t.gen = s.gen /\ t.rebuild = s.rebuild
BY PhasesAre DEF ChangelogCommitted, Evidence

LEMMA PushPendingTyped ==
  ASSUME NEW s \in Evidence, NEW n \in Tries, NEW h \in History, NEW e \in Nat
  PROVE  LET t == ParentPushPending(s, n, h, e)
         IN  /\ t \in Evidence /\ t.phase = "parent_push_pending"
             /\ t.push = n /\ t.base = h
             /\ t.intent = s.intent /\ t.commit = s.commit
             /\ t.applied = s.applied /\ t.gen = s.gen /\ t.rebuild = s.rebuild
BY PhasesAre DEF ParentPushPending, Evidence

LEMMA RebuildTyped ==
  ASSUME NEW s \in Evidence, NEW n \in Tries, NEW p \in Tries, NEW h \in History
  PROVE  LET t == Rebuild(s, n, p, h)
         IN  /\ t \in Evidence /\ t.phase = "changelog_pending"
             /\ t.gen = n /\ t.base = h /\ t.failed = p
             /\ t.rebuild /\ t.applied = s.applied
             /\ t.intent = s.intent
BY PhasesAre DEF Rebuild, Evidence
-----------------------------------------------------------------------------
(* The journal.                                                            *)
LEMMA KeysAre ==
  /\ \A d \in Children, op \in Operations, n \in Tries : <<d, op, n>> \in Keys
  /\ \A k \in Keys : /\ k[1] \in Children /\ k[2] \in Operations /\ k[3] \in Tries
                     /\ k = <<k[1], k[2], k[3]>>
BY DEF Keys, Tries

LEMMA LogTyped ==
  ASSUME Types, NEW k \in Keys, NEW st \in Entries, Log(k, st)
  PROVE  /\ jr' \in [Keys -> Entry] /\ jr'[k].st = st
         /\ \A j \in Keys : j # k => jr'[j] = jr[j]
BY DEF Types, Log, Entry

LEMMA LogResultTyped ==
  ASSUME Types, NEW k \in Keys, NEW b \in History \cup {None}, NEW h \in History,
         LogResult(k, b, h)
  PROVE  /\ jr' \in [Keys -> Entry]
         /\ jr'[k] = [st |-> "confirmed", base |-> b, commit |-> h]
         /\ \A j \in Keys : j # k => jr'[j] = jr[j]
BY DEF Types, LogResult, Entry, Entries

LEMMA LogKept ==
  ASSUME Types, NEW k \in Keys, NEW st \in Entries \ {"none", "confirmed"},
         k[2] = "push" => jr[k].st # "none", Log(k, st),
         st = "closed" => issue[k[1]] = "closed"
  PROVE  jr' \in [Keys -> Entry] /\ JrKept
<1>1. /\ jr' \in [Keys -> Entry] /\ jr'[k].st = st
      /\ \A j \in Keys : j # k => jr'[j] = jr[j]
  BY LogTyped
<1>2. ASSUME NEW d \in Children, NEW op \in Operations, NEW n \in Tries
      PROVE  LET j == <<d, op, n>>
             IN  /\ jr'[j].st = "confirmed" => jr'[j] = jr[j]
                 /\ op = "push" /\ jr[j].st = "none" => jr'[j].st = "none"
                 /\ jr'[j].st = "closed"
                      => jr[j].st = "closed" \/ issue[d] = "closed"
  <2> DEFINE j == <<d, op, n>>
  <2>1. j \in Keys /\ j[2] = op /\ j[1] = d
    BY KeysAre
  <2> HIDE DEF j
  <2>2. QED
    BY <1>1, <2>1 DEF j
<1>3. QED
  BY <1>1, <1>2 DEF JrKept

LEMMA JrSame == ASSUME jr' = jr PROVE JrKept
BY DEF JrKept

(* Nothing happens to the issues and the branches.                         *)
Still == UNCHANGED <<issue, dirty, local, remote>>

LEMMA StillWorld == ASSUME Types, Still PROVE World
BY PrefixSelf DEF World, Still, Types, Shared

LEMMA SameSelf == \A s : Same(s, s)
BY DEF Same

(* Steps that leave the evidence and the journal alone.                    *)
LEMMA QuietP ==
  ASSUME PInv, Inv', Still, UNCHANGED <<pm, rec, jr>>,
         status' \in [Children -> {"approved", "inflight", "unknown", "merged"}],
         \A d \in Children : status'[d] # "merged" => status[d] # "merged",
         HeldSame'
  PROVE  PInv' /\ Onward
<1>1. Types'
  BY DEF PInv, Types, Still
<1>2. World /\ JrKept
  BY StillWorld, JrSame DEF PInv
<1>3. \A d \in Children : Kept(d)
  BY SameSelf DEF Kept
<1>4. QED
  BY <1>1, <1>2, <1>3, SteadyStep

LEMMA HeldQuiet ==
  ASSUME PInv, pm' = pm, held' = held \/ held' = None
  PROVE  HeldSame'
BY DEF PInv, HeldSame
-----------------------------------------------------------------------------
(* Actions that touch the lane, the gate, the status or the memory only.   *)
LEMMA LaneActions ==
  ASSUME PInv, Inv', NEW c \in Children,
         \/ ReserveLane(c) \/ StartIntegration(c) \/ MergeRefused(c)
         \/ MergeUnknown(c) \/ ApproveGate(c) \/ OpenIssueCloseGate(c) \/ Crash
  PROVE  PInv' /\ Onward
<1>1. Still /\ UNCHANGED <<pm, rec, jr>> /\ (held' = held \/ held' = None)
  BY DEF ReserveLane, StartIntegration, MergeRefused, MergeUnknown,
         ApproveGate, OpenIssueCloseGate, Crash, Still, env, store
<1>2. /\ status' \in [Children -> {"approved", "inflight", "unknown", "merged"}]
      /\ \A d \in Children : status'[d] # "merged" => status[d] # "merged"
  <2>1. status \in [Children -> {"approved", "inflight", "unknown", "merged"}]
    BY DEF PInv, Types
  <2>2. CASE MergeRefused(c)
    BY <2>1, <2>2 DEF MergeRefused
  <2>3. CASE MergeUnknown(c)
    BY <2>1, <2>3 DEF MergeUnknown
  <2>4. CASE ~ MergeRefused(c) /\ ~ MergeUnknown(c)
    <3>1. status' = status
      BY <2>4 DEF ReserveLane, StartIntegration, ApproveGate,
                  OpenIssueCloseGate, Crash, store
    <3>2. QED
      BY <2>1, <3>1
  <2>5. QED
    BY <2>2, <2>3, <2>4
<1>3. HeldSame'
  BY <1>1, HeldQuiet
<1>4. QED
  BY <1>1, <1>2, <1>3, QuietP

LEMMA MemoryActions ==
  ASSUME PInv, Inv', NEW c \in Children,
         EnsureLane(c) \/ AbandonAfterFailure(c) \/ ClearGate(c)
  PROVE  PInv' /\ Onward
<1>1. Still /\ UNCHANGED <<pm, rec, jr, status>>
  BY DEF EnsureLane, AbandonAfterFailure, ClearGate, Still, env
<1>2. HeldSame'
  <2>0. pm[c] \in Evidence
    BY DEF PInv, Types
  <2>1. CASE EnsureLane(c)
    <3>1. held' = held \/ held' = Held(c)
      BY <2>1 DEF EnsureLane, KeepHeld
    <3>2. CASE held' = held
      BY <1>1, <3>2, HeldQuiet
    <3>3. CASE held = None /\ held' = Held(c)
      <4>1. held' = [child |-> c, step |-> "run", lane |-> lane, pm |-> pm[c],
                     gens |-> {}]
        BY <3>3 DEF Held
      <4>2. QED
        BY <1>1, <2>0, <4>1, SameSelf DEF HeldSame
    <3>4. CASE held # None /\ held' = Held(c)
      BY <1>1, <3>4, HeldQuiet DEF Held
    <3>5. QED
      BY <3>1, <3>2, <3>3, <3>4
  <2>2. CASE AbandonAfterFailure(c) \/ ClearGate(c)
    <3>1. /\ held # None
          /\ \/ held' = [held EXCEPT !.step = "gate"]
             \/ \E g : held' = [held EXCEPT !.gens = g]
             \/ held' = [held EXCEPT !.step = "run", !.gens = {}]
             \/ held' = None
      BY <2>2 DEF AbandonAfterFailure, ClearGate
    <3>2. held = [child |-> held.child, step |-> held.step,
                  lane |-> held.lane, pm |-> held.pm, gens |-> held.gens]
      BY <3>1 DEF PInv, Inv, HeldSound
    <3>3. held' = None \/ (held'.child = held.child /\ held'.pm = held.pm)
      BY <3>1, <3>2
    <3>4. QED
      BY <1>1, <3>1, <3>3 DEF PInv, HeldSame
  <2>3. QED
    BY <2>1, <2>2
<1>3. QED
  BY <1>1, <1>2, QuietP DEF PInv, Types

(* Commits that others, or the forge, put on the remote branch.            *)
LEMMA RemoteGrows ==
  ASSUME Types, NEW x \in Commits, remote' = Append(remote, x),
         UNCHANGED <<issue, dirty, local>>
  PROVE  World /\ remote' \in History
<1>1. remote \in History
  BY DEF Types
<1>2. remote' \in History /\ IsPrefix(remote, remote')
  BY <1>1, PrefixAppend
<1>3. QED
  BY <1>2 DEF World, Shared

LEMMA CommitsAre ==
  ASSUME NEW c \in Children
  PROVE  Commit("merge", {c}) \in Commits /\ Commit("other", {}) \in Commits
BY DEF Commit, Commits

LEMMA ForgeActions ==
  ASSUME PInv, Inv', NEW c \in Children,
         BeginMerge(c) \/ MergeLands(c) \/ HumanActs(c)
  PROVE  PInv' /\ Onward
<1>0. Types /\ Unmerged
  BY DEF PInv
<1>1. UNCHANGED <<pm, jr, gate, held, dirty, local>>
  BY DEF BeginMerge, MergeLands, HumanActs, env, store
<1>2. World /\ remote' \in History /\ issue' \in [Children -> {"open", "closed"}]
  <2>1. CASE remote' = remote /\ issue' = issue
    BY <1>0, <1>1, <2>1, StillWorld DEF Still, Types
  <2>2. CASE remote' = Append(remote, Commit("merge", {c})) /\ issue' = issue
    BY <1>0, <1>1, <2>2, RemoteGrows, CommitsAre DEF Types
  <2>3. CASE remote' = remote /\ issue' = [issue EXCEPT ![c] = "closed"]
    <3>1. /\ issue' \in [Children -> {"open", "closed"}]
          /\ \A d \in Children : issue[d] = "closed" => issue'[d] = "closed"
      BY <1>0, <2>3 DEF Types
    <3>2. remote \in History
      BY <1>0 DEF Types
    <3>3. QED
      BY <1>1, <2>3, <3>1, <3>2, PrefixSelf DEF World, Shared
  <2>4. QED
    BY <2>1, <2>2, <2>3 DEF BeginMerge, MergeLands, HumanActs, env
<1>3. /\ status' \in [Children -> {"approved", "inflight", "unknown", "merged"}]
      /\ \A d \in Children : status'[d] # "merged" => status[d] # "merged"
  <2>1. status' = status \/ (status[c] = "approved" /\ status' = [status EXCEPT ![c] = "inflight"])
    BY DEF BeginMerge, MergeLands, HumanActs, store
  <2>2. QED
    BY <1>0, <2>1 DEF Types
<1>4. /\ rec' \in [Children -> History \cup {None}]
      /\ \A d \in Children : rec'[d] = rec[d] \/ pm[d].phase = "not_started"
  <2>1. rec' = rec \/ (status[c] = "approved" /\ rec' = [rec EXCEPT ![c] = remote])
    BY DEF BeginMerge, MergeLands, HumanActs, store
  <2>2. status[c] = "approved" => pm[c].phase = "not_started"
    BY <1>0 DEF Unmerged
  <2>3. QED
    BY <1>0, <2>1, <2>2 DEF Types
<1>5. Types'
  BY <1>0, <1>1, <1>2, <1>3, <1>4 DEF Types
<1>6. \A d \in Children : Kept(d)
  BY <1>1, <1>4, SameSelf DEF Kept
<1>7. QED
  BY <1>1, <1>2, <1>3, <1>5, <1>6, HeldQuiet, JrSame, SteadyStep

LEMMA ForeignAction ==
  ASSUME PInv, Inv', ForeignPush
  PROVE  PInv' /\ Onward
<1>0. Types
  BY DEF PInv
<1>1. UNCHANGED <<status, pm, rec, jr, gate, held, issue, dirty, local>>
  BY DEF ForeignPush, store
<1>2. World /\ remote' \in History
  <2>1. Commit("other", {}) \in Commits
    BY DEF Commit, Commits
  <2>2. QED
    BY <1>0, <1>1, <2>1, RemoteGrows DEF ForeignPush
<1>3. Types'
  BY <1>0, <1>1, <1>2 DEF Types
<1>4. \A d \in Children : Kept(d)
  BY <1>1, SameSelf DEF Kept
<1>5. QED
  BY <1>1, <1>2, <1>3, <1>4, HeldQuiet, JrSame, SteadyStep

LEMMA OperatorAction ==
  ASSUME PInv, Inv', NEW k \in Keys, ResolveEntry(k)
  PROVE  PInv' /\ Onward
<1>0. Types
  BY DEF PInv
<1>1. Still /\ UNCHANGED <<status, pm, rec, gate, held>>
  BY DEF ResolveEntry, store, env, Still
<1>2. jr' \in [Keys -> Entry] /\ JrKept
  <2>1. PICK st \in {"compensated", "rejected"} : Log(k, st)
    BY DEF ResolveEntry
  <2>2. jr[k].st # "none" /\ st # "closed"
    BY <2>1 DEF ResolveEntry
  <2>3. QED
    BY <1>0, <2>1, <2>2, LogKept DEF Entries
<1>3. Types'
  BY <1>0, <1>1, <1>2 DEF Types, Still
<1>4. \A d \in Children : Kept(d)
  BY <1>1, SameSelf DEF Kept
<1>5. QED
  BY <1>0, <1>1, <1>2, <1>3, <1>4, HeldQuiet, StillWorld, SteadyStep

(* The pass for c writes back, or on, evidence that is Same.               *)
LEMMA WriteBack ==
  ASSUME PInv, Inv', Still, NEW c \in Children, NEW s \in Evidence,
         Same(s, pm[c]), pm' = [pm EXCEPT ![c] = s], UNCHANGED <<status, rec>>,
         jr' \in [Keys -> Entry], JrKept, HeldSame'
  PROVE  PInv' /\ Onward
<1>0. Types
  BY DEF PInv
<1>1. Types'
  BY <1>0 DEF Types, Still
<1>2. \A d \in Children : Kept(d)
  BY <1>0, SameSelf DEF Kept, Types
<1>3. QED
  BY <1>0, <1>1, <1>2, StillWorld, SteadyStep

LEMMA HeldPm ==
  ASSUME PInv, NEW c \in Children, Running(c)
  PROVE  Held(c).pm \in Evidence /\ Same(Held(c).pm, pm[c])
<1>1. CASE held = None
  BY <1>1, SameSelf DEF Held, PInv, Types
<1>2. CASE held # None
  BY <1>2 DEF Held, Running, PInv, HeldSame
<1>3. QED
  BY <1>1, <1>2

(* _block_post_merge_recovery.                                             *)
LEMMA BlockP ==
  ASSUME PInv, Inv', NEW c \in Children, Running(c), Block(c), Still,
         UNCHANGED <<status, rec>>, jr' \in [Keys -> Entry], JrKept
  PROVE  PInv' /\ Onward
<1>1. pm' = [pm EXCEPT ![c] = Held(c).pm] /\ held' = None
  BY DEF Block
<1>2. HeldSame'
  BY <1>1 DEF HeldSame
<1>3. QED
  BY <1>1, <1>2, HeldPm, WriteBack

LEMMA OwnKeys ==
  ASSUME PInv, NEW c \in Children
  PROVE  /\ CloseKey(c, pm[c]) \in Keys /\ ChangelogKey(c) \in Keys
         /\ RebuildKey(c) \in Keys
         /\ pm[c].phase = "parent_push_pending"
              => PushKey(c) = <<c, "push", pm[c].gen>> /\ PushKey(c) \in Keys
<1>1. pm[c] \in Evidence /\ pm[c].gen \in Tries /\ pm[c].attempt \in Tries
  BY DEF PInv, Types, Evidence
<1>2. {"close", "changelog", "rebuild", "push"} \subseteq Operations
  BY DEF Operations
<1>3. pm[c].phase = "parent_push_pending" => pm[c].push = pm[c].gen
  BY DEF PInv, EvidenceHolds, Holds, Generation, PushGen, Pushes
<1>4. QED
  BY <1>1, <1>2, <1>3, KeysAre DEF CloseKey, ChangelogKey, RebuildKey, PushKey

LEMMA BlockedActions ==
  ASSUME PInv, Inv', NEW c \in Children,
         \/ ChangelogFails(c) \/ RetryRefused(c) \/ ChangelogRefused(c)
         \/ PushRefused(c) \/ RebaseRefused(c) \/ RebaseConflicts(c)
  PROVE  PInv' /\ Onward
<1>0. Types
  BY DEF PInv
<1>1. Block(c) /\ Running(c) /\ Still /\ UNCHANGED <<status, rec>>
  BY DEF ChangelogFails, RetryRefused, ChangelogRefused, PushRefused, Blocked,
         RebaseRefused, RebaseConflicts, Running, Stale, env, Still
<1>2. jr' \in [Keys -> Entry] /\ JrKept
  <2>1. \/ jr' = jr
        \/ Log(ChangelogKey(c), "unknown")
        \/ Log(RebuildKey(c), "unknown")
    BY DEF ChangelogFails, RetryRefused, ChangelogRefused, PushRefused,
           RebaseRefused, RebaseConflicts
  <2>2. CASE jr' = jr
    BY <1>0, <2>2, JrSame DEF Types
  <2>3. CASE Log(ChangelogKey(c), "unknown")
    <3>1. ChangelogKey(c)[2] # "push" /\ ChangelogKey(c) \in Keys
      BY OwnKeys DEF ChangelogKey
    <3>2. QED
      BY <1>0, <2>3, <3>1, LogKept DEF Entries
  <2>4. CASE Log(RebuildKey(c), "unknown")
    <3>1. RebuildKey(c)[2] # "push" /\ RebuildKey(c) \in Keys
      BY OwnKeys DEF RebuildKey
    <3>2. QED
      BY <1>0, <2>4, <3>1, LogKept DEF Entries
  <2>5. QED
    BY <2>1, <2>2, <2>3, <2>4
<1>3. QED
  BY <1>1, <1>2, BlockP

(* A fast-forward of the parent worktree.                                  *)
LEMMA FastForward ==
  ASSUME Types, local' = remote, UNCHANGED <<issue, dirty, remote>>
  PROVE  World
BY PrefixSelf DEF Types, World, Shared

LEMMA SyncFailsAction ==
  ASSUME PInv, Inv', NEW c \in Children, ParentSyncFails(c)
  PROVE  PInv' /\ Onward
<1>0. Types
  BY DEF PInv
<1>1. jr' = jr /\ Running(c) /\ UNCHANGED <<issue, dirty, remote>>
  BY DEF ParentSyncFails, Running
<1>2. CASE Block(c) /\ UNCHANGED <<status, rec, gate, local>>
  BY <1>0, <1>1, <1>2, BlockP, JrSame DEF Still, Types
<1>3. CASE local' = remote /\ UNCHANGED <<store, held>>
  <2>1. UNCHANGED <<pm, rec, status, gate, held>>
    BY <1>3 DEF store
  <2>2. World
    BY <1>0, <1>1, <1>3, FastForward
  <2>3. Types'
    BY <1>0, <1>1, <1>3, <2>1 DEF Types
  <2>4. \A d \in Children : Kept(d)
    BY <2>1, SameSelf DEF Kept
  <2>5. QED
    BY <1>1, <2>1, <2>2, <2>3, <2>4, HeldQuiet, JrSame, SteadyStep
<1>4. QED
  BY <1>2, <1>3 DEF ParentSyncFails

(* The first write of _record_issue_close_failure.                         *)
LEMMA FailureP ==
  ASSUME PInv, Inv', NEW c \in Children, Running(c), RecordFailure(c),
         jr' \in [Keys -> Entry], JrKept, World,
         issue' \in [Children -> {"open", "closed"}], dirty' \subseteq Children,
         UNCHANGED <<local, remote>>
  PROVE  PInv' /\ Onward
<1> DEFINE s == IssueCloseFailed(Held(c).pm)
<1>0. Types
  BY DEF PInv
<1>1. s \in Evidence /\ Same(s, pm[c])
  <2>1. s.fgen <= MaxTries
    BY DEF RecordFailure
  <2>2. s \in Evidence /\ Same(s, Held(c).pm)
    BY <2>1, HeldPm, FailedTyped
  <2>3. QED
    BY <2>2, HeldPm DEF Same
<1>2. /\ pm' = [pm EXCEPT ![c] = s]
      /\ held' = [child |-> c, step |-> "abandon", lane |-> lane, pm |-> s,
                  gens |-> {}]
      /\ UNCHANGED <<status, rec>>
  BY DEF RecordFailure
<1> HIDE DEF s
<1>3. pm'[c] = s /\ \A d \in Children : Same(pm'[d], pm[d])
  BY <1>0, <1>1, <1>2, SameSelf DEF Types
<1>4. HeldSame'
  BY <1>1, <1>2, <1>3, SameSelf DEF HeldSame
<1>5. Types'
  <2>1. pm' \in [Children -> Evidence]
    BY <1>0, <1>1, <1>2 DEF Types
  <2>2. QED
    BY <1>0, <1>2, <2>1 DEF Types
<1>6. \A d \in Children : Kept(d)
  BY <1>2, <1>3 DEF Kept
<1>7. QED
  BY <1>2, <1>4, <1>5, <1>6, SteadyStep

LEMMA CloseKeyLogged ==
  ASSUME PInv, NEW c \in Children,
         NEW st \in {"unknown", "reconciled", "closed"},
         Log(CloseKey(c, pm[c]), st), st = "closed" => issue[c] = "closed"
  PROVE  jr' \in [Keys -> Entry] /\ JrKept
<1>1. /\ CloseKey(c, pm[c])[2] # "push" /\ CloseKey(c, pm[c]) \in Keys
      /\ CloseKey(c, pm[c])[1] = c
  BY OwnKeys DEF CloseKey
<1>2. QED
  BY <1>1, LogKept DEF PInv, Entries

LEMMA FailureActions ==
  ASSUME PInv, Inv', NEW c \in Children,
         IssueStatusFails(c) \/ IssueCloseUnresolved(c)
  PROVE  PInv' /\ Onward
<1>0. Types
  BY DEF PInv
<1>1. Running(c) /\ RecordFailure(c) /\ Still
  BY DEF IssueStatusFails, IssueCloseUnresolved, Running, Still, env
<1>2. jr' \in [Keys -> Entry] /\ JrKept
  <2>1. jr' = jr
    BY DEF IssueStatusFails, IssueCloseUnresolved
  <2>2. QED
    BY <1>0, <2>1, JrSame DEF Types
<1>3. World
  BY <1>0, <1>1, StillWorld
<1>4. QED
  BY <1>0, <1>1, <1>2, <1>3, FailureP DEF Still, Types

(* What chainlink says of the issue is journalled.                         *)
LEMMA ReconcileAction ==
  ASSUME PInv, Inv', NEW c \in Children, ReconcileClose(c)
  PROVE  PInv' /\ Onward
<1>0. Types
  BY DEF PInv
<1>1. Still /\ UNCHANGED <<status, pm, rec, held>>
  BY DEF ReconcileClose, store, env, Still
<1>2. jr' \in [Keys -> Entry] /\ JrKept
  <2>1. CASE issue[c] = "closed" /\ Log(CloseKey(c, pm[c]), "closed")
    BY <2>1, CloseKeyLogged
  <2>2. CASE Log(CloseKey(c, pm[c]), "reconciled")
    BY <2>2, CloseKeyLogged
  <2>3. QED
    BY <2>1, <2>2 DEF ReconcileClose
<1>3. Types'
  BY <1>0, <1>1, <1>2 DEF Types, Still
<1>4. \A d \in Children : Kept(d)
  BY <1>1, SameSelf DEF Kept
<1>5. QED
  BY <1>0, <1>1, <1>2, <1>3, <1>4, HeldQuiet, StillWorld, SteadyStep

LEMMA RetryAction ==
  ASSUME PInv, Inv', NEW c \in Children, AuthorizeRetry(c)
  PROVE  PInv' /\ Onward
<1> DEFINE s == IssueCloseRetryAuthorized(pm[c])
<1>0. Types /\ pm[c] \in Evidence
  BY DEF PInv, Types
<1>1. s \in Evidence /\ Same(s, pm[c]) /\ Same(pm[c], s)
  BY <1>0, RetryTyped DEF AuthorizeRetry
<1>2. /\ pm' = [pm EXCEPT ![c] = s]
      /\ UNCHANGED <<status, rec>> /\ Still
  BY DEF AuthorizeRetry, Still, env
<1>3. held' = [child |-> c, step |-> "clear", lane |-> lane, pm |-> pm[c],
               gens |-> {pm[c].fgen}]
  BY DEF AuthorizeRetry
<1> HIDE DEF s
<1>4. jr' \in [Keys -> Entry] /\ JrKept
  <2>1. jr' = jr
    BY DEF AuthorizeRetry
  <2>2. QED
    BY <1>0, <2>1, JrSame DEF Types
<1>5. HeldSame'
  BY <1>0, <1>1, <1>2, <1>3 DEF HeldSame, Types
<1>6. QED
  BY <1>1, <1>2, <1>4, <1>5, WriteBack
-----------------------------------------------------------------------------
(* A step that keeps the evidence of every child and enters a confirmed    *)
(* result, or a push, of child c in the journal.                           *)
LEMMA ResultStep ==
  ASSUME PInv, Inv', Types', World, HeldSame', NEW c \in Children,
         NEW op \in Operations, NEW n \in Tries,
         \A j \in Keys : j # <<c, op, n>> => jr'[j] = jr[j],
         jr'[<<c, op, n>>].st = "confirmed" => Proves(c, op, jr[<<c, op, n>>])',
         jr'[<<c, op, n>>].st # "closed",
         op = "push" => PushesHold(c, pm[c])',
         \A d \in Children : Kept(d) /\ status'[d] = status[d]
  PROVE  PInv' /\ Onward
<1>1. Unmerged'
  BY DEF Unmerged, Kept, Same, PInv
<1>2. \A d \in Children, q \in Operations, m \in Tries :
        d # c \/ q # op \/ m # n => jr'[<<d, q, m>>] = jr[<<d, q, m>>]
  BY KeysAre
<1>3. ASSUME NEW d \in Children PROVE Holds(d, pm[d])' /\ PushesHold(d, pm[d])'
  <2>1. CASE d = c /\ op = "push"
    <3>1. Holds(d, pm[d]) /\ Types /\ Same(pm'[d], pm[d])
      BY DEF PInv, EvidenceHolds, Kept
    <3>2. Holds(d, pm'[d]) /\ (rec'[d] = rec[d] \/ pm'[d].phase = "not_started")
      BY <3>1, SameHolds DEF Kept, Same
    <3>3. \A s : Holds(d, s) /\ (rec'[d] = rec[d] \/ s.phase = "not_started")
                 => Holds(d, s)'
      BY <3>1, HoldsStays
    <3>4. Holds(d, pm[d])'
      BY <3>2, <3>3
    <3>5. QED
      BY <2>1, <3>4
  <2>2. CASE ~ (d = c /\ op = "push")
    <3>1. "push" \in Operations
      BY DEF Operations
    <3>2. PushKept(d)
      BY <1>2, <2>2, <3>1 DEF PushKept
    <3>3. QED
      BY <3>2, KeptHolds
  <2>3. QED
    BY <2>1, <2>2
<1>4. ASSUME NEW d \in Children, NEW q \in Operations, NEW m \in Tries,
             jr'[<<d, q, m>>].st = "confirmed"
      PROVE  Proves(d, q, jr[<<d, q, m>>])'
  <2>1. CASE d = c /\ q = op /\ m = n
    BY <1>4, <2>1
  <2>2. CASE d # c \/ q # op \/ m # n
    <3>1. jr'[<<d, q, m>>] = jr[<<d, q, m>>]
      BY <1>2, <2>2
    <3>2. Proves(d, q, jr[<<d, q, m>>])
      BY <1>4, <3>1 DEF PInv, JournalHolds
    <3>3. \A e : Proves(d, q, e) => Proves(d, q, e)'
      BY SharedStays DEF Proves, World, PInv
    <3>4. QED
      BY <3>1, <3>2, <3>3
  <2>3. QED
    BY <2>1, <2>2
<1>8. ASSUME NEW d \in Children, NEW q \in Operations, NEW m \in Tries,
             jr'[<<d, q, m>>].st = "closed"
      PROVE  issue'[d] = "closed"
  <2>1. jr'[<<d, q, m>>] = jr[<<d, q, m>>]
    BY <1>2, <1>8
  <2>2. QED
    BY <1>8, <2>1 DEF PInv, JournalHolds, World
<1>5. JournalHolds' /\ EvidenceHolds'
  BY <1>3, <1>4, <1>8 DEF JournalHolds, EvidenceHolds
<1>6. Onward
  BY DEF Onward, Goes, Kept, Same, World
<1>7. QED
  BY <1>1, <1>5, <1>6 DEF PInv

(* chainlink_issue_close: the issue is closed and its entry written.       *)
LEMMA CloseAction ==
  ASSUME PInv, Inv', NEW c \in Children, CloseIssue(c)
  PROVE  PInv' /\ Onward
<1>0. Types /\ pm[c] \in Evidence /\ pm[c].attempt \in Tries
  BY DEF PInv, Types, Evidence
<1>1. UNCHANGED <<local, remote>> /\ issue[c] = "open" /\ Running(c)
  BY DEF CloseIssue
<1>2. /\ issue' \in [Children -> {"open", "closed"}] /\ dirty' \subseteq Children
      /\ World
  <2>1. \/ UNCHANGED <<issue, dirty>>
        \/ issue' = [issue EXCEPT ![c] = "closed"] /\ dirty' = dirty \cup {c}
    BY DEF CloseIssue
  <2>2. CASE UNCHANGED <<issue, dirty>>
    BY <1>0, <1>1, <2>2, StillWorld DEF Still, Types
  <2>3. CASE issue' = [issue EXCEPT ![c] = "closed"] /\ dirty' = dirty \cup {c}
    <3>1. /\ issue' \in [Children -> {"open", "closed"}] /\ dirty' \subseteq Children
          /\ \A d \in Children : issue[d] = "closed" => issue'[d] = "closed" /\ d # c
      BY <1>0, <1>1, <2>3 DEF Types
    <3>2. remote \in History
      BY <1>0 DEF Types
    <3>3. QED
      BY <1>1, <2>3, <3>1, <3>2, PrefixSelf DEF World, Shared
  <2>4. QED
    BY <2>1, <2>2, <2>3
<1>3. CASE /\ issue' = [issue EXCEPT ![c] = "closed"]
           /\ Log(CloseKey(c, pm[c]), "confirmed") /\ UNCHANGED <<store, held>>
  <2>1. UNCHANGED <<status, pm, rec, gate, held>>
    BY <1>3 DEF store
  <2>2. PICK n \in Tries : n = pm[c].attempt
    BY <1>0
  <2>3. <<c, "close", n>> \in Keys /\ "close" \in Operations
    BY KeysAre DEF Operations
  <2>4. /\ jr' \in [Keys -> Entry] /\ jr'[<<c, "close", n>>].st # "closed"
        /\ \A j \in Keys : j # <<c, "close", n>> => jr'[j] = jr[j]
    BY <1>0, <1>3, <2>2, <2>3, LogTyped DEF CloseKey, Entries
  <2>5. Types'
    BY <1>0, <1>1, <1>2, <2>1, <2>4 DEF Types
  <2>6. Proves(c, "close", jr[<<c, "close", n>>])'
    BY <1>0, <1>3 DEF Proves, Types
  <2>7. \A d \in Children : Kept(d)
    BY <2>1, SameSelf DEF Kept
  <2>8. QED
    BY <1>2, <2>1, <2>3, <2>4, <2>5, <2>6, <2>7, HeldQuiet, ResultStep
<1>4. CASE Log(CloseKey(c, pm[c]), "unknown") /\ RecordFailure(c)
  <2>1. jr' \in [Keys -> Entry] /\ JrKept
    BY <1>4, CloseKeyLogged
  <2>2. QED
    BY <1>1, <1>2, <1>4, <2>1, FailureP
<1>5. CASE Log(CloseKey(c, pm[c]), "unknown") /\ held' = None /\ UNCHANGED store
  <2>1. jr' \in [Keys -> Entry] /\ JrKept
    BY <1>5, CloseKeyLogged
  <2>2. UNCHANGED <<status, pm, rec, gate>>
    BY <1>5 DEF store
  <2>3. Types'
    BY <1>0, <1>1, <1>2, <2>1, <2>2 DEF Types
  <2>4. \A d \in Children : Kept(d)
    BY <2>2, SameSelf DEF Kept
  <2>5. QED
    BY <1>2, <1>5, <2>1, <2>2, <2>3, <2>4, HeldQuiet, SteadyStep
<1>6. QED
  BY <1>3, <1>4, <1>5 DEF CloseIssue

(* The changelog commit: nothing stays uncommitted.                        *)
LEMMA CommitAction ==
  ASSUME PInv, Inv', NEW c \in Children, CommitChangelog(c)
  PROVE  PInv' /\ Onward
<1>0. /\ Types /\ pm[c] \in Evidence /\ pm[c].gen \in Tries
      /\ local \in History /\ remote \in History /\ dirty \subseteq Children
  BY DEF PInv, Types, Evidence
<1>1. /\ UNCHANGED <<store, held, issue, remote>> /\ dirty' = {}
      /\ pm[c].phase = "changelog_pending"
  BY DEF CommitChangelog
<1>2. local' \in History /\ IsPrefix(local, local')
  <2>1. Commit("log", dirty) \in Commits
    BY <1>0 DEF Commit, Commits
  <2>2. local' = local \/ local' = Append(local, Commit("log", dirty))
    BY DEF CommitChangelog
  <2>3. QED
    BY <1>0, <2>1, <2>2, PrefixAppend, PrefixSelf
<1>3. World
  <2>1. \A h \in History : Shared(h) => IsPrefix(h, local')
    BY <1>0, <1>2, PrefixTrans DEF Shared
  <2>2. QED
    BY <1>0, <1>1, <2>1, PrefixSelf DEF World
<1>4. UNCHANGED <<status, pm, rec, gate, held>>
  BY <1>1 DEF store
<1>5. PICK n \in Tries : n = pm[c].gen
  BY <1>0
<1>6. <<c, "changelog", n>> \in Keys /\ "changelog" \in Operations
  BY KeysAre DEF Operations
<1>7. /\ jr' \in [Keys -> Entry] /\ jr'[<<c, "changelog", n>>].st # "closed"
      /\ \A j \in Keys : j # <<c, "changelog", n>> => jr'[j] = jr[j]
      /\ jr'[<<c, "changelog", n>>].st = "confirmed"
           => jr'[<<c, "changelog", n>>].commit \in History
  <2>1. CASE LogResult(ChangelogKey(c), None, local')
    <3>1. PICK h \in History : h = local'
      BY <1>2
    <3>2. LogResult(<<c, "changelog", n>>, None, h)
      BY <1>5, <2>1, <3>1 DEF ChangelogKey, LogResult
    <3>3. /\ jr' \in [Keys -> Entry]
          /\ jr'[<<c, "changelog", n>>] = [st |-> "confirmed", base |-> None, commit |-> h]
          /\ \A j \in Keys : j # <<c, "changelog", n>> => jr'[j] = jr[j]
      BY <1>0, <1>6, <3>2, LogResultTyped
    <3>4. QED
      BY <3>3
  <2>2. CASE Log(ChangelogKey(c), "unknown")
    <3>1. Log(<<c, "changelog", n>>, "unknown")
      BY <1>5, <2>2 DEF ChangelogKey
    <3>2. QED
      BY <1>0, <1>6, <3>1, LogTyped DEF Entries
  <2>3. QED
    BY <2>1, <2>2 DEF CommitChangelog
<1>8. Types'
  BY <1>0, <1>1, <1>2, <1>4, <1>7 DEF Types
<1>9. issue[c] = "closed"
  BY <1>1 DEF PInv, EvidenceHolds, Holds, Closed
<1>10. jr'[<<c, "changelog", n>>].st = "confirmed"
         => Proves(c, "changelog", jr[<<c, "changelog", n>>])'
  BY <1>1, <1>7, <1>9 DEF Proves
<1>11. \A d \in Children : Kept(d)
  BY <1>4, SameSelf DEF Kept
<1>12. QED
  BY <1>3, <1>4, <1>6, <1>7, <1>8, <1>10, <1>11, HeldQuiet, ResultStep

(* git push --force-with-lease: the lease is on a commit that HEAD has, so *)
(* the push only adds to the remote branch.                                *)
LEMMA PushAction ==
  ASSUME PInv, Inv', NEW c \in Children, Push(c)
  PROVE  PInv' /\ Onward
<1>0. /\ Types /\ pm[c] \in Evidence /\ pm[c].gen \in Tries
      /\ local \in History /\ remote \in History
  BY DEF PInv, Types, Evidence
<1>1. /\ UNCHANGED <<store, issue, dirty, local>>
      /\ held' = held \/ held' = None
      /\ pm[c].phase = "parent_push_pending"
  BY DEF Push, Pushing
<1>2. Shared(pm[c].base) /\ pm[c].commit \in History
  BY <1>1 DEF PInv, EvidenceHolds, Holds, Synced, Closed, Committed, Pushes
<1>3. remote' \in History /\ IsPrefix(remote, remote')
  <2>1. remote' = remote \/ (PushAccepted(c) /\ remote' = local)
    BY DEF Push
  <2>2. PushAccepted(c) => IsPrefix(remote, local)
    BY <1>0, <1>2, PrefixSelf DEF PushAccepted, Shared
  <2>3. QED
    BY <1>0, <2>1, <2>2, PrefixSelf
<1>4. World
  BY <1>1, <1>3 DEF World, Shared
<1>5. UNCHANGED <<status, pm, rec, gate>>
  BY <1>1 DEF store
<1>6. PICK n \in Tries : n = pm[c].gen
  BY <1>0
<1>7. /\ <<c, "push", n>> \in Keys /\ "push" \in Operations
      /\ PushKey(c) = <<c, "push", n>>
  BY <1>1, <1>6, KeysAre, OwnKeys DEF Operations
<1>8. /\ jr' \in [Keys -> Entry] /\ jr'[<<c, "push", n>>].st # "closed"
      /\ \A j \in Keys : j # <<c, "push", n>> => jr'[j] = jr[j]
      /\ jr'[<<c, "push", n>>].st = "confirmed" => remote' = pm[c].commit
  <2>1. PICK st \in Entries :
          /\ Log(<<c, "push", n>>, st)
          /\ st = "confirmed" => remote' = pm[c].commit
          /\ st # "closed"
    <3>1. {"confirmed", "rejected", "stale", "unknown"} \subseteq Entries
      BY DEF Entries
    <3>2. QED
      BY <1>7, <3>1 DEF Push
  <2>2. /\ jr' \in [Keys -> Entry] /\ jr'[<<c, "push", n>>].st = st
        /\ \A j \in Keys : j # <<c, "push", n>> => jr'[j] = jr[j]
    BY <1>0, <1>7, <2>1, LogTyped
  <2>3. QED
    BY <2>1, <2>2
<1>9. Types'
  BY <1>0, <1>1, <1>3, <1>5, <1>8 DEF Types
<1>10. PushesHold(c, pm[c])'
  <2>1. \A m \in Tries : m > n => jr'[<<c, "push", m>>].st = "none"
    <3>1. \A m \in Tries : m > n => jr[<<c, "push", m>>].st = "none"
      BY <1>6 DEF PInv, EvidenceHolds, PushesHold
    <3>2. \A m \in Tries : m > n => <<c, "push", m>> \in Keys /\ <<c, "push", m>> # <<c, "push", n>>
      BY <1>7, KeysAre, FewTries
    <3>3. QED
      BY <1>8, <3>1, <3>2
  <2>2. jr'[<<c, "push", n>>].st = "confirmed" => IsPrefix(pm[c].commit, remote')
    BY <1>2, <1>8, PrefixSelf
  <2>3. QED
    BY <1>1, <1>5, <1>6, <2>1, <2>2 DEF PushesHold, Pushes
<1>11. Proves(c, "push", jr[<<c, "push", n>>])'
  BY DEF Proves
<1>12. \A d \in Children : Kept(d)
  BY <1>5, SameSelf DEF Kept
<1>13. QED
  BY <1>1, <1>4, <1>5, <1>7, <1>8, <1>9, <1>10, <1>11, <1>12, HeldQuiet, ResultStep

(* git rebase --onto: HEAD then extends the remote branch.                 *)
LEMMA RebasedHistory ==
  ASSUME Types, NEW c \in Children, Rebase(c)
  PROVE  local' \in History /\ IsPrefix(remote, local')
<1> DEFINE mine == SubSeq(local, Len(pm[c].base) + 1, Len(local))
           new  == {i \in 1..Len(mine) : mine[i] \notin ToSet(remote)}
<1>1. PICK pick \in [1..Cardinality(new) -> new] :
        local' = remote \o [i \in DOMAIN pick |-> mine[pick[i]]]
  BY DEF Rebase
<1>2. local \in History /\ remote \in History /\ IsPrefix(pm[c].base, local)
      /\ Len(pm[c].base) <= Len(local)
  BY DEF Types, Rebase, CanRebase, IsPrefix
<1>3. mine \in History /\ Len(mine) \in Nat
  <2>1. local \in Seq(Commits)
    BY <1>2 DEF History
  <2>2. QED
    BY <2>1 DEF History
<1> HIDE DEF mine
<1>4. IsFiniteSet(new) /\ Cardinality(new) \in Nat
  <2>1. IsFiniteSet(1..Len(mine))
    BY <1>3, FS_Interval
  <2>2. IsFiniteSet(new)
    BY <2>1, FS_Subset
  <2>3. QED
    BY <2>2, FS_CardinalityType
<1> DEFINE t == [i \in DOMAIN pick |-> mine[pick[i]]]
<1>5. t \in History
  <2>1. DOMAIN pick = 1..Cardinality(new)
    OBVIOUS
  <2>2. \A i \in 1..Cardinality(new) : mine[pick[i]] \in Commits
    BY <1>3 DEF History
  <2> HIDE DEF new
  <2>3. t \in [1..Cardinality(new) -> Commits]
    BY <2>1, <2>2
  <2>4. QED
    BY <1>4, <2>3 DEF History
<1> HIDE DEF t
<1>6. QED
  BY <1>1, <1>2, <1>5, PrefixConcat DEF t

LEMMA RebaseAction ==
  ASSUME PInv, Inv', NEW c \in Children, Rebase(c)
  PROVE  PInv' /\ Onward
<1>0. /\ Types /\ pm[c] \in Evidence /\ pm[c].gen \in Tries
      /\ local \in History /\ remote \in History
  BY DEF PInv, Types, Evidence
<1>1. /\ UNCHANGED <<store, issue, dirty, remote>>
      /\ held' = held \/ held' = None
  BY DEF Rebase
<1>2. local' \in History /\ IsPrefix(remote, local')
  BY <1>0, RebasedHistory
<1>3. World
  <2>1. \A h \in History : Shared(h) => IsPrefix(h, local')
    BY <1>0, <1>2, PrefixTrans DEF Shared
  <2>2. QED
    BY <1>0, <1>1, <2>1, PrefixSelf DEF World
<1>4. UNCHANGED <<status, pm, rec, gate>>
  BY <1>1 DEF store
<1>5. PICK n \in Tries : n = pm[c].gen
  BY <1>0
<1>6. <<c, "rebuild", n>> \in Keys /\ "rebuild" \in Operations
  BY KeysAre DEF Operations
<1>7. /\ jr' \in [Keys -> Entry] /\ jr'[<<c, "rebuild", n>>].st # "closed"
      /\ \A j \in Keys : j # <<c, "rebuild", n>> => jr'[j] = jr[j]
      /\ jr'[<<c, "rebuild", n>>].st = "confirmed"
           => /\ jr'[<<c, "rebuild", n>>].base = remote
              /\ jr'[<<c, "rebuild", n>>].commit \in History
  <2>1. CASE LogResult(RebuildKey(c), remote, local')
    <3>1. PICK h \in History, b \in History : h = local' /\ b = remote
      BY <1>0, <1>2
    <3>2. LogResult(<<c, "rebuild", n>>, b, h)
      BY <1>5, <2>1, <3>1 DEF RebuildKey, LogResult
    <3>3. /\ jr' \in [Keys -> Entry]
          /\ jr'[<<c, "rebuild", n>>] = [st |-> "confirmed", base |-> b, commit |-> h]
          /\ \A j \in Keys : j # <<c, "rebuild", n>> => jr'[j] = jr[j]
      BY <1>0, <1>6, <3>2, LogResultTyped
    <3>4. QED
      BY <3>1, <3>3
  <2>2. CASE Log(RebuildKey(c), "unknown")
    <3>1. Log(<<c, "rebuild", n>>, "unknown")
      BY <1>5, <2>2 DEF RebuildKey
    <3>2. QED
      BY <1>0, <1>6, <3>1, LogTyped DEF Entries
  <2>3. QED
    BY <2>1, <2>2 DEF Rebase
<1>8. Types'
  BY <1>0, <1>1, <1>2, <1>4, <1>7 DEF Types
<1>9. jr'[<<c, "rebuild", n>>].st = "confirmed"
        => Proves(c, "rebuild", jr[<<c, "rebuild", n>>])'
  BY <1>0, <1>1, <1>2, <1>7, PrefixSelf DEF Proves, Shared
<1>10. \A d \in Children : Kept(d)
  BY <1>4, SameSelf DEF Kept
<1>11. QED
  BY <1>1, <1>3, <1>4, <1>6, <1>7, <1>8, <1>9, <1>10, HeldQuiet, ResultStep
-----------------------------------------------------------------------------
(* Events of the reducer, one phase on.                                    *)

(* Before its push a child has no push in the journal, and only a rebuild  *)
(* makes a generation other than 0.                                        *)
LEMMA Early ==
  ASSUME PInv, NEW c \in Children, pm[c].phase \notin Committed
  PROVE  pm[c].gen = 0 /\ ~ pm[c].rebuild /\ ~ pm[c].applied
BY DEF PInv, EvidenceHolds, Holds, Generation

LEMMA NoPushYet ==
  ASSUME PInv, JrKept, NEW c \in Children,
         pm[c].phase \notin Pushes, pm'[c].phase # "parent_push_pending",
         pm'[c].gen = pm[c].gen
  PROVE  PushesHold(c, pm[c])'
<1>1. \A n \in Tries : n > pm[c].gen \/ n = pm[c].gen => jr[<<c, "push", n>>].st = "none"
  BY DEF PInv, EvidenceHolds, PushesHold
<1>2. PushKept(c)
  BY JrPushKept
<1>3. QED
  BY <1>1, <1>2 DEF PushesHold, PushKept

(* The world stands still and one child moves.                             *)
LEMMA MoveStep ==
  ASSUME PInv, Inv', Still, JrKept, jr' \in [Keys -> Entry], HeldSame',
         NEW c \in Children, NEW t \in Evidence, pm' = [pm EXCEPT ![c] = t],
         UNCHANGED <<status, rec>>, pm[c].phase # "not_started",
         <<pm[c].phase, t.phase>> \in Order,
         Holds(c, t), PushesHold(c, pm[c])'
  PROVE  PInv' /\ Onward
<1>0. Types /\ pm[c] \in Evidence
  BY DEF PInv, Types
<1>1. Types'
  BY <1>0 DEF Types, Still
<1>2. World
  BY <1>0, StillWorld
<1>3. pm'[c] = t /\ \A d \in Children \ {c} : pm'[d] = pm[d]
  BY <1>0 DEF Types
<1>4. \A d \in Children \ {c} : Kept(d) /\ status'[d] = status[d]
  BY <1>3, SameSelf DEF Kept
<1>5. Goes(c)
  BY <1>3 DEF Goes
<1>6. status'[c] = "merged"
  BY DEF PInv, Unmerged
<1>7. Holds(c, pm[c])'
  <2>1. \A s : Holds(c, s) /\ (rec'[c] = rec[c] \/ s.phase = "not_started")
               => Holds(c, s)'
    BY <1>0, <1>1, <1>2, HoldsStays
  <2>2. QED
    BY <1>3, <2>1
<1>8. QED
  BY <1>1, <1>2, <1>4, <1>5, <1>6, <1>7, AdvanceStep

LEMMA NothingHeld == ASSUME held' = None PROVE HeldSame'
BY DEF HeldSame

LEMMA RequestCloseAction ==
  ASSUME PInv, Inv', NEW c \in Children, RequestIssueClose(c)
  PROVE  PInv' /\ Onward
<1>1. /\ pm[c].phase = "parent_branch_synced" /\ held' = None /\ Still
      /\ pm' = [pm EXCEPT ![c] = IssueClosePending(pm[c])]
      /\ UNCHANGED <<status, rec, gate, jr>>
  BY DEF RequestIssueClose, Advance, Still, env
<1>2. Types /\ pm[c] \in Evidence
  BY DEF PInv, Types
<1>3. PICK t : t = IssueClosePending(pm[c])
  OBVIOUS
<1>4. Moved(pm[c], t, "issue_close_pending")
  BY <1>2, <1>3, MovedTyped, FewTries
<1>5. pm' = [pm EXCEPT ![c] = t] /\ pm'[c] = t
  BY <1>1, <1>2, <1>3 DEF Types
<1>6. Holds(c, t)
  <2>1. pm[c].gen = 0 /\ ~ pm[c].rebuild /\ ~ pm[c].applied
    BY <1>1, Early DEF Committed, Pushes
  <2>2. Shared(rec[c])
    BY <1>1 DEF PInv, EvidenceHolds, Holds, Synced
  <2>3. QED
    BY <1>4, <2>1, <2>2 DEF Moved, Holds, Generation, Closed, Committed, Pushes
<1>7. JrKept /\ jr' \in [Keys -> Entry]
  BY <1>1, <1>2, JrSame DEF Types
<1>9. PushesHold(c, pm[c])'
  BY <1>1, <1>4, <1>5, <1>7, NoPushYet DEF Moved, Pushes
<1>10. QED
  BY <1>1, <1>4, <1>5, <1>6, <1>7, <1>9, NothingHeld, MoveStep DEF Moved, Order

LEMMA ConfirmActions ==
  ASSUME PInv, Inv', NEW c \in Children,
         IssueCloseReceipt(c) \/ IssueAlreadyClosed(c) \/ IssueFoundClosed(c)
  PROVE  PInv' /\ Onward
<1>1. /\ pm[c].phase = "issue_close_pending" /\ Still
      /\ pm' = [pm EXCEPT ![c] = IssueCloseConfirmed(pm[c])]
      /\ held' = None \/ ThenClear(c)
      /\ UNCHANGED <<status, rec, jr>>
  BY DEF IssueCloseReceipt, IssueAlreadyClosed, IssueFoundClosed, Closing,
         Advance, Still, env
<1>2. Types /\ pm[c] \in Evidence
  BY DEF PInv, Types
<1>3. PICK t : t = IssueCloseConfirmed(pm[c])
  OBVIOUS
<1>4. Moved(pm[c], t, "issue_close_confirmed")
  BY <1>2, <1>3, MovedTyped, FewTries
<1>5. pm' = [pm EXCEPT ![c] = t] /\ pm'[c] = t
  BY <1>1, <1>2, <1>3 DEF Types
<1>6. issue[c] = "closed"
  <2>1. CASE IssueCloseReceipt(c)
    <3>1. /\ jr[<<c, "close", pm[c].attempt>>].st = "confirmed"
          /\ pm[c].attempt \in Tries /\ "close" \in Operations
      BY <1>2, <2>1 DEF IssueCloseReceipt, CloseKey, Evidence, Operations
    <3>2. QED
      BY <3>1 DEF PInv, JournalHolds, Proves
  <2>2. CASE IssueAlreadyClosed(c)
    BY <2>2 DEF IssueAlreadyClosed
  <2>3. CASE IssueFoundClosed(c)
    <3>1. /\ jr[<<c, "close", pm[c].attempt>>].st = "closed"
          /\ pm[c].attempt \in Tries /\ "close" \in Operations
      BY <1>2, <2>3 DEF IssueFoundClosed, CloseKey, Evidence, Operations
    <3>2. QED
      BY <3>1 DEF PInv, JournalHolds
  <2>4. QED
    BY <2>1, <2>2, <2>3
<1>7. Holds(c, t)
  <2>1. pm[c].gen = 0 /\ ~ pm[c].rebuild /\ ~ pm[c].applied
    BY <1>1, Early DEF Committed, Pushes
  <2>2. Shared(rec[c])
    BY <1>1 DEF PInv, EvidenceHolds, Holds, Synced
  <2>3. QED
    BY <1>4, <1>6, <2>1, <2>2 DEF Moved, Holds, Generation, Committed, Pushes
<1>8. JrKept /\ jr' \in [Keys -> Entry]
  BY <1>1, <1>2, JrSame DEF Types
<1>9. HeldSame'
  <2>1. \/ held' = None
        \/ held' = [child |-> c, step |-> "clear", lane |-> lane,
                    pm |-> t, gens |-> Unanswered(c)]
    BY <1>1, <1>5 DEF ThenClear
  <2>2. QED
    BY <1>4, <1>5, <2>1, SameSelf DEF HeldSame, Moved
<1>10. PushesHold(c, pm[c])'
  BY <1>1, <1>4, <1>5, <1>8, NoPushYet DEF Moved, Pushes
<1>11. QED
  BY <1>1, <1>4, <1>5, <1>7, <1>8, <1>9, <1>10, MoveStep DEF Moved, Order

LEMMA RequestChangelogAction ==
  ASSUME PInv, Inv', NEW c \in Children, RequestChangelog(c)
  PROVE  PInv' /\ Onward
<1>1. /\ pm[c].phase = "issue_close_confirmed" /\ held' = None /\ Still
      /\ pm' = [pm EXCEPT ![c] = ChangelogPending(pm[c])]
      /\ UNCHANGED <<status, rec, gate, jr>>
  BY DEF RequestChangelog, Advance, Still, env
<1>2. Types /\ pm[c] \in Evidence
  BY DEF PInv, Types
<1>3. PICK t : t = ChangelogPending(pm[c])
  OBVIOUS
<1>4. /\ t \in Evidence /\ t.phase = "changelog_pending" /\ t.gen = 0
      /\ t.intent = 0 /\ t.rebuild = pm[c].rebuild /\ t.applied = pm[c].applied
  BY <1>2, <1>3, ChangelogPendingTyped
<1>5. pm' = [pm EXCEPT ![c] = t] /\ pm'[c] = t
  BY <1>1, <1>2, <1>3 DEF Types
<1>6. pm[c].gen = 0 /\ ~ pm[c].rebuild /\ ~ pm[c].applied
  BY <1>1, Early DEF Committed, Pushes
<1>7. Holds(c, t)
  <2>1. Shared(rec[c]) /\ issue[c] = "closed"
    BY <1>1 DEF PInv, EvidenceHolds, Holds, Synced, Closed
  <2>2. QED
    BY <1>4, <1>6, <2>1 DEF Holds, Generation, Committed, Pushes
<1>8. JrKept /\ jr' \in [Keys -> Entry]
  BY <1>1, <1>2, JrSame DEF Types
<1>10. PushesHold(c, pm[c])'
  BY <1>1, <1>4, <1>5, <1>6, <1>8, NoPushYet DEF Pushes
<1>11. QED
  BY <1>1, <1>4, <1>5, <1>7, <1>8, <1>10, NothingHeld, MoveStep DEF Order

LEMMA AdoptChangelogAction ==
  ASSUME PInv, Inv', NEW c \in Children, AdoptChangelog(c)
  PROVE  PInv' /\ Onward
<1> DEFINE e == jr[<<c, "changelog", 0>>]
<1>1. /\ pm[c].phase = "changelog_pending" /\ held' = None /\ Still
      /\ UNCHANGED <<status, rec, gate, jr>>
  BY DEF AdoptChangelog, Advance, Still, env
<1>2. Types /\ pm[c] \in Evidence
  BY DEF PInv, Types
<1>3. /\ pm[c].gen = 0 /\ ~ pm[c].rebuild /\ ~ pm[c].applied /\ pm[c].intent = 0
      /\ Shared(rec[c]) /\ issue[c] = "closed"
  BY <1>1 DEF PInv, EvidenceHolds, Holds, Generation, Synced, Closed, Committed, Pushes
<1>4. e.st = "confirmed" /\ pm' = [pm EXCEPT ![c] = ChangelogCommitted(pm[c], 0, e.commit)]
  BY <1>3 DEF AdoptChangelog, ChangelogKey, Advance
<1>5. c \notin dirty /\ e.commit \in History
  <2>1. "changelog" \in Operations /\ 0 \in Tries
    BY FewTries DEF Operations
  <2>2. QED
    BY <1>4, <2>1 DEF PInv, JournalHolds, Proves
<1> HIDE DEF e
<1>6. PICK t : t = ChangelogCommitted(pm[c], 0, e.commit)
  OBVIOUS
<1>7. /\ t \in Evidence /\ t.phase = "changelog_committed" /\ t.gen = 0
      /\ t.intent = 0 /\ ~ t.rebuild /\ ~ t.applied /\ t.commit = e.commit
  BY <1>2, <1>3, <1>5, <1>6, ChangelogCommittedTyped, FewTries
<1>8. pm' = [pm EXCEPT ![c] = t] /\ pm'[c] = t
  BY <1>2, <1>4, <1>6 DEF Types
<1>9. Holds(c, t)
  BY <1>3, <1>5, <1>7 DEF Holds, Generation, Pushes
<1>10. JrKept /\ jr' \in [Keys -> Entry]
  BY <1>1, <1>2, JrSame DEF Types
<1>12. PushesHold(c, pm[c])'
  BY <1>1, <1>3, <1>7, <1>8, <1>10, NoPushYet DEF Pushes
<1>13. QED
  BY <1>1, <1>7, <1>8, <1>9, <1>10, <1>12, NothingHeld, MoveStep DEF Order

LEMMA ReadyEpoch ==
  ASSUME PInv, NEW c \in Children, LaneReady(c)
  PROVE  lane.epoch \in Nat
BY BoundsAreNaturals DEF PInv, Inv, Sound, LaneReady

LEMMA RequestPushAction ==
  ASSUME PInv, Inv', NEW c \in Children, RequestPush(c)
  PROVE  PInv' /\ Onward
<1>1. /\ pm[c].phase = "changelog_committed" /\ held' = None /\ Still
      /\ UNCHANGED <<status, rec, gate, jr>>
      /\ pm' = [pm EXCEPT ![c] = ParentPushPending(pm[c], PushGen(pm[c]), rec[c], lane.epoch)]
  BY DEF RequestPush, Advance, Still, env
<1>2. Types /\ pm[c] \in Evidence
  BY DEF PInv, Types
<1>3. /\ Generation(pm[c]) /\ Shared(rec[c]) /\ issue[c] = "closed"
      /\ c \notin dirty /\ pm[c].commit \in History
  BY <1>1 DEF PInv, EvidenceHolds, Holds, Synced, Closed, Committed
<1>4. PushGen(pm[c]) = pm[c].gen /\ pm[c].gen \in Tries
  BY <1>2, <1>3 DEF Generation, PushGen, Evidence
<1>5. PICK t : t = ParentPushPending(pm[c], PushGen(pm[c]), rec[c], lane.epoch)
  OBVIOUS
<1>6. /\ t \in Evidence /\ t.phase = "parent_push_pending" /\ t.push = pm[c].gen
      /\ t.base = rec[c] /\ t.intent = pm[c].intent /\ t.commit = pm[c].commit
      /\ t.applied = pm[c].applied /\ t.gen = pm[c].gen /\ t.rebuild = pm[c].rebuild
  <2>1. lane.epoch \in Nat /\ rec[c] \in History
    BY <1>3, ReadyEpoch DEF RequestPush, Shared
  <2>2. QED
    BY <1>2, <1>4, <1>5, <2>1, PushPendingTyped
<1>7. pm' = [pm EXCEPT ![c] = t] /\ pm'[c] = t
  BY <1>1, <1>2, <1>5 DEF Types
<1>8. Holds(c, t)
  <2>1. Generation(t) /\ PushGen(t) = t.push
    BY <1>1, <1>3, <1>4, <1>6 DEF Generation, PushGen, Committed, Pushes
  <2>2. QED
    BY <1>3, <1>6, <2>1 DEF Holds
<1>9. JrKept /\ jr' \in [Keys -> Entry]
  BY <1>1, <1>2, JrSame DEF Types
<1>11. PushesHold(c, pm[c])'
  <2>1. \A n \in Tries : n > pm[c].gen \/ n = pm[c].gen => jr[<<c, "push", n>>].st = "none"
    BY <1>1 DEF PInv, EvidenceHolds, PushesHold, Pushes
  <2>2. QED
    BY <1>1, <1>4, <1>6, <1>7, <2>1 DEF PushesHold, Pushes
<1>12. QED
  BY <1>1, <1>6, <1>7, <1>8, <1>9, <1>11, NothingHeld, MoveStep DEF Order

LEMMA AdoptPushAction ==
  ASSUME PInv, Inv', NEW c \in Children, AdoptPush(c)
  PROVE  PInv' /\ Onward
<1>1. /\ pm[c].phase = "parent_push_pending" /\ held' = None /\ Still
      /\ UNCHANGED <<status, rec, gate, jr>>
      /\ pm' = [pm EXCEPT ![c] = PostMergeComplete(pm[c])]
      /\ jr[PushKey(c)].st = "confirmed"
  BY DEF AdoptPush, Pushing, Advance, Still, env
<1>2. Types /\ pm[c] \in Evidence
  BY DEF PInv, Types
<1>3. Holds(c, pm[c]) /\ PushesHold(c, pm[c])
  BY DEF PInv, EvidenceHolds
<1>4. IsPrefix(pm[c].commit, remote)
  BY <1>1, <1>3, OwnKeys DEF PushesHold
<1>5. PICK t : t = PostMergeComplete(pm[c])
  OBVIOUS
<1>6. Moved(pm[c], t, "complete")
  BY <1>2, <1>5, MovedTyped, FewTries
<1>7. pm' = [pm EXCEPT ![c] = t] /\ pm'[c] = t
  BY <1>1, <1>2, <1>5 DEF Types
<1>8. Holds(c, t)
  <2>1. Generation(t) /\ PushGen(t) = PushGen(pm[c])
    BY <1>1, <1>3, <1>6 DEF Holds, Generation, PushGen, Moved, Committed, Pushes
  <2>2. QED
    BY <1>1, <1>3, <1>4, <1>6, <2>1 DEF Holds, Moved, Synced, Closed, Committed, Pushes
<1>9. JrKept /\ jr' \in [Keys -> Entry]
  BY <1>1, <1>2, JrSame DEF Types
<1>11. PushesHold(c, pm[c])'
  BY <1>1, <1>3, <1>6, <1>7 DEF PushesHold, Moved, Pushes
<1>12. QED
  BY <1>1, <1>6, <1>7, <1>8, <1>9, <1>11, NothingHeld, MoveStep DEF Moved, Order

(* The adoption of a merge: the evidence begins.                           *)
LEMMA AdoptAction ==
  ASSUME PInv, Inv', NEW c \in Children, Adopt(c)
  PROVE  PInv' /\ Onward
<1>1. /\ held' = None /\ Still /\ UNCHANGED <<rec, gate, jr>>
      /\ status[c] # "merged" /\ status' = [status EXCEPT ![c] = "merged"]
      /\ pm' = [pm EXCEPT ![c] = MergeAdopted(pm[c], AdoptionEpoch)]
  BY DEF Adopt, Still, env
<1>2. Types /\ pm[c] \in Evidence /\ pm[c].phase = "not_started"
  BY <1>1 DEF PInv, Types, Unmerged
<1>3. AdoptionEpoch \in Nat
  <2>1. Sound(lane) /\ AdoptionEpoch # None
    BY DEF PInv, Inv, Adopt
  <2>2. CASE lane.last = 0
    BY <2>2 DEF AdoptionEpoch
  <2>3. CASE lane.last # 0 /\ lane.phase = "idle"
    BY <2>1, <2>3 DEF AdoptionEpoch, Sound, IdleLane
  <2>4. CASE lane.last # 0 /\ lane.phase # "idle"
    BY <2>1, <2>4, BoundsAreNaturals DEF AdoptionEpoch, Sound
  <2>5. QED
    BY <2>2, <2>3, <2>4
<1>4. PICK t : t = MergeAdopted(pm[c], AdoptionEpoch)
  OBVIOUS
<1>5. Moved(pm[c], t, "remote_merge_adopted")
  BY <1>2, <1>3, <1>4, MovedTyped
<1>6. /\ pm' = [pm EXCEPT ![c] = t] /\ pm'[c] = t
      /\ \A d \in Children \ {c} : pm'[d] = pm[d] /\ status'[d] = status[d]
      /\ status'[c] = "merged"
  BY <1>1, <1>2, <1>4 DEF Types
<1>7. Types'
  BY <1>1, <1>2, <1>5, <1>6 DEF Types, Still, Moved
<1>8. World /\ JrKept
  BY <1>1, <1>2, StillWorld, JrSame
<1>9. pm[c].gen = 0 /\ ~ pm[c].rebuild /\ ~ pm[c].applied
  BY <1>2, Early DEF Committed, Pushes
<1>10. Holds(c, pm[c])'
  BY <1>5, <1>6, <1>9 DEF Moved, Holds, Generation, Synced, Closed, Committed, Pushes
<1>11. PushesHold(c, pm[c])'
  BY <1>2, <1>5, <1>6, <1>8, NoPushYet DEF Moved, Pushes
<1>12. Goes(c)
  BY <1>2, <1>5, <1>6 DEF Goes, Moved, Order
<1>13. \A d \in Children \ {c} : Kept(d)
  BY <1>1, <1>6, SameSelf DEF Kept
<1>14. QED
  BY <1>1, <1>6, <1>7, <1>8, <1>10, <1>11, <1>12, <1>13, NothingHeld, AdvanceStep

(* The parent sync: worktree, remote and record agree.                     *)
LEMMA SyncAction ==
  ASSUME PInv, Inv', NEW c \in Children, ParentSync(c)
  PROVE  PInv' /\ Onward
<1>1. /\ held' = None /\ UNCHANGED <<status, gate, jr, issue, dirty, remote>>
      /\ pm[c].phase = "remote_merge_adopted"
      /\ local' = remote /\ rec' = [rec EXCEPT ![c] = remote]
      /\ pm' = [pm EXCEPT ![c] = ParentBranchSynced(pm[c])]
  BY DEF ParentSync, Advance
<1>2. Types /\ pm[c] \in Evidence /\ remote \in History
  BY DEF PInv, Types
<1>3. PICK t : t = ParentBranchSynced(pm[c])
  OBVIOUS
<1>4. Moved(pm[c], t, "parent_branch_synced")
  BY <1>2, <1>3, MovedTyped, FewTries
<1>5. /\ pm' = [pm EXCEPT ![c] = t] /\ pm'[c] = t /\ rec'[c] = remote
      /\ \A d \in Children \ {c} : pm'[d] = pm[d] /\ rec'[d] = rec[d]
  BY <1>1, <1>2, <1>3 DEF Types
<1>6. Types'
  BY <1>1, <1>2, <1>4, <1>5 DEF Types, Moved
<1>7. World /\ JrKept
  BY <1>1, <1>2, FastForward, JrSame
<1>8. pm[c].gen = 0 /\ ~ pm[c].rebuild /\ ~ pm[c].applied
  BY <1>1, Early DEF Committed, Pushes
<1>9. Holds(c, pm[c])'
  <2>1. Shared(rec[c])'
    BY <1>1, <1>2, <1>5, PrefixSelf DEF Shared
  <2>2. QED
    BY <1>4, <1>5, <1>8, <2>1 DEF Moved, Holds, Generation, Closed, Committed, Pushes
<1>10. PushesHold(c, pm[c])'
  BY <1>1, <1>4, <1>5, <1>7, NoPushYet DEF Moved, Pushes
<1>11. Goes(c)
  BY <1>1, <1>4, <1>5 DEF Goes, Moved, Order
<1>12. \A d \in Children \ {c} : Kept(d)
  BY <1>5, SameSelf DEF Kept
<1>13. status'[c] = "merged"
  BY <1>1 DEF PInv, Unmerged
<1>14. QED
  BY <1>1, <1>6, <1>7, <1>9, <1>10, <1>11, <1>12, <1>13, NothingHeld, AdvanceStep

(* The rebuild: the reducer lets it happen once.                           *)
LEMMA AdoptRebuildAction ==
  ASSUME PInv, Inv', NEW c \in Children, AdoptRebuild(c)
  PROVE  PInv' /\ Onward
<1> DEFINE e == jr[RebuildKey(c)]
           r == Rebuilt(c, e.base)
           s == ChangelogCommitted(r, pm[c].gen + 1, e.commit)
<1>0. /\ Types /\ pm[c] \in Evidence /\ Holds(c, pm[c]) /\ PushesHold(c, pm[c])
  BY DEF PInv, Types, EvidenceHolds
<1>1. /\ held' = None /\ Still /\ UNCHANGED <<status, gate, jr>>
      /\ pm[c].phase = "parent_push_pending" /\ LaneReady(c)
      /\ pm' = [pm EXCEPT ![c] = [s EXCEPT !.epoch = lane.epoch + 1]]
      /\ rec' = [rec EXCEPT ![c] = e.base] /\ e.st = "confirmed"
      /\ RebuildAccepted(c)
  BY DEF AdoptRebuild, Advance, Stale, Pushing, Still, env
<1>2. /\ pm[c].gen = 0 /\ ~ pm[c].rebuild /\ ~ pm[c].applied /\ pm[c].push = 0
      /\ issue[c] = "closed" /\ c \notin dirty
  <2>1. Generation(pm[c]) /\ pm[c].push = PushGen(pm[c]) /\ issue[c] = "closed" /\ c \notin dirty
    BY <1>0, <1>1 DEF Holds, Closed, Committed, Pushes
  <2>2. pm[c].gen # 1
    <3>1. SUFFICES ASSUME pm[c].gen = 1 PROVE FALSE
      OBVIOUS
    <3>2. pm[c].applied /\ pm[c].intent = 1
      BY <2>1, <3>1 DEF Generation
    <3>3. Rebuilt(c, remote).intent = 2
      <4>1. LET q == Rebuilt(c, remote)
            IN  q.rebuild /\ q.applied = pm[c].applied /\ q.intent = pm[c].intent
        BY <1>0 DEF Rebuilt, Rebuild, Evidence
      <4>2. QED
        BY <1>1, <3>1, <3>2, <4>1 DEF RebuildAccepted, CanChangelogCommitted
    <3>4. Rebuilt(c, remote).intent = pm[c].intent
      BY <1>0 DEF Rebuilt, Rebuild, Evidence
    <3>5. QED
      BY <3>2, <3>3, <3>4
  <2>3. QED
    BY <2>1, <2>2 DEF Generation, PushGen
<1>3. Shared(e.base) /\ e.commit \in History
  <2>1. RebuildKey(c) = <<c, "rebuild", 0>> /\ "rebuild" \in Operations /\ 0 \in Tries
    BY <1>2, FewTries DEF RebuildKey, Operations
  <2>2. QED
    BY <1>1, <2>1 DEF PInv, JournalHolds, Proves
<1> HIDE DEF e
<1>4. /\ r \in Evidence /\ r.gen = 1 /\ r.failed = 0 /\ r.rebuild
  <2>0. PICK b \in History : b = e.base
    BY <1>3 DEF Shared
  <2>1. PICK q : q = Rebuild(pm[c], 1, 0, b)
    OBVIOUS
  <2>2. 1 \in Tries /\ 0 \in Tries
    BY FewTries
  <2>3. /\ q \in Evidence /\ q.gen = 1 /\ q.failed = 0 /\ q.rebuild
    BY <1>0, <2>1, <2>2, RebuildTyped
  <2>4. r = q
    BY <1>2, <2>0, <2>1 DEF Rebuilt
  <2>5. QED
    BY <2>3, <2>4
<1> HIDE DEF r
<1>5. /\ s \in Evidence /\ s.phase = "changelog_committed" /\ s.intent = 1
      /\ s.commit = e.commit /\ s.applied /\ s.gen = 1 /\ s.rebuild
      /\ s.failed = 0
  <2>1. s = ChangelogCommitted(r, 1, e.commit)
    BY <1>2
  <2>2. s.failed = 0
    BY <1>4, <2>1 DEF ChangelogCommitted, Evidence
  <2>3. QED
    BY <1>3, <1>4, <2>1, <2>2, ChangelogCommittedTyped, FewTries
<1> HIDE DEF s
<1>6. PICK t : t = [s EXCEPT !.epoch = lane.epoch + 1]
  OBVIOUS
<1>7. /\ t \in Evidence /\ t.phase = "changelog_committed" /\ t.intent = 1
      /\ t.commit = e.commit /\ t.applied /\ t.gen = 1 /\ t.rebuild
      /\ t.failed = 0
  <2>1. lane.epoch + 1 \in Nat
    BY <1>1, ReadyEpoch
  <2>2. QED
    BY <1>5, <1>6, <2>1 DEF Evidence
<1>8. /\ pm' = [pm EXCEPT ![c] = t] /\ pm'[c] = t /\ rec'[c] = e.base
      /\ \A d \in Children \ {c} : pm'[d] = pm[d] /\ rec'[d] = rec[d]
  BY <1>0, <1>1, <1>6 DEF Types
<1>9. Types'
  BY <1>0, <1>1, <1>3, <1>7, <1>8 DEF Types, Still, Shared
<1>10. World /\ JrKept
  BY <1>0, <1>1, StillWorld, JrSame
<1>11. Holds(c, pm[c])'
  <2>1. Shared(rec[c])'
    BY <1>1, <1>3, <1>8 DEF Shared, Still
  <2>2. issue'[c] = "closed" /\ c \notin dirty'
    BY <1>1, <1>2 DEF Still
  <2>3. QED
    BY <1>3, <1>7, <1>8, <2>1, <2>2 DEF Holds, Generation, Committed, Pushes
<1>12. PushesHold(c, pm[c])'
  <2>1. \A n \in Tries : n > 0 => jr[<<c, "push", n>>].st = "none"
    BY <1>0, <1>2 DEF PushesHold
  <2>2. \A n \in Tries : n > 1 \/ n = 1 => jr'[<<c, "push", n>>].st = "none"
    BY <1>1, <2>1, FewTries
  <2>3. QED
    BY <1>7, <1>8, <2>2 DEF PushesHold
<1>13. Goes(c)
  BY <1>2, <1>7, <1>8 DEF Goes
<1>14. \A d \in Children \ {c} : Kept(d)
  BY <1>8, SameSelf DEF Kept
<1>15. status'[c] = "merged"
  BY <1>1 DEF PInv, Unmerged
<1>16. QED
  BY <1>1, <1>9, <1>10, <1>11, <1>12, <1>13, <1>14, <1>15, NothingHeld, AdvanceStep
-----------------------------------------------------------------------------
LEMMA NextP ==
  ASSUME PInv, [Next]_vars
  PROVE  PInv' /\ Onward
<1>1. CASE UNCHANGED vars
  <2>1. Still /\ UNCHANGED <<lane, status, pm, rec, gate, jr, held>>
    BY <1>1 DEF vars, store, env, Still
  <2>2. Inv'
    BY <2>1, QuietStep DEF PInv
  <2>3. QED
    BY <2>1, <2>2, HeldQuiet, QuietP DEF PInv, Types
<1>2. CASE Next
  <2>1. Inv'
    BY <1>2, NextStep DEF PInv
  <2>2. ASSUME NEW c \in Children, Merge(c) PROVE PInv' /\ Onward
    BY <2>1, <2>2, LaneActions, ForgeActions, AdoptAction DEF Merge
  <2>3. ASSUME NEW c \in Children, CloseOut(c) PROVE PInv' /\ Onward
    BY <2>1, <2>3, RequestCloseAction, ConfirmActions, FailureActions,
       ReconcileAction, RetryAction, CloseAction, BlockedActions, MemoryActions, LaneActions
       DEF CloseOut
  <2>4. ASSUME NEW c \in Children, Bookkeeping(c) PROVE PInv' /\ Onward
    BY <2>1, <2>4, RequestChangelogAction, CommitAction, BlockedActions,
       AdoptChangelogAction, MemoryActions, RequestPushAction, PushAction,
       AdoptPushAction, RebaseAction, AdoptRebuildAction DEF Bookkeeping
  <2>5. ASSUME NEW c \in Children, Pass(c) PROVE PInv' /\ Onward
    BY <2>1, <2>2, <2>3, <2>4, <2>5, SyncAction, SyncFailsAction DEF Pass
  <2>6. ASSUME NEW c \in Children, MergeLands(c) \/ ApproveGate(c) \/ HumanActs(c)
        PROVE  PInv' /\ Onward
    BY <2>1, <2>6, ForgeActions, LaneActions
  <2>7. CASE Crash
    <3>1. Still /\ UNCHANGED <<pm, rec, jr, status, gate>> /\ held' = None
      BY <2>7 DEF Crash, store, env, Still
    <3>2. QED
      BY <2>1, <3>1, HeldQuiet, QuietP DEF PInv, Types
  <2>8. QED
    BY <1>2, <2>1, <2>5, <2>6, <2>7, OperatorAction, ForeignAction DEF Next
<1>3. QED
  BY <1>1, <1>2

LEMMA InitP == Init => PInv
<1> SUFFICES ASSUME Init PROVE PInv
  OBVIOUS
<1>1. Inv
  BY BoundsAreNaturals DEF Init, Inv, HeldSound, Sound, LaneShape, IdleLane, LanePhases
<1>2. Types
  <2>1. <<>> \in History
    BY DEF History
  <2>2. NoEntry \in Entry
    BY DEF NoEntry, Entry, Entries
  <2>3. QED
    BY <2>1, <2>2, StartTyped DEF Init, Types
<1>3. \A c \in Children : pm[c] = NotStarted /\ pm[c].phase = "not_started"
  BY DEF Init, NotStarted
<1>4. \A k \in Keys : jr[k].st = "none"
  BY DEF Init, NoEntry
<1>5. Unmerged
  BY <1>3 DEF Unmerged
<1>6. \A c \in Children, op \in Operations, n \in Tries : jr[<<c, op, n>>].st = "none"
  BY <1>4, KeysAre
<1>7. "push" \in Operations
  BY DEF Operations
<1>8. EvidenceHolds
  <2>1. ASSUME NEW c \in Children PROVE Holds(c, pm[c])
    BY <1>3 DEF Holds, Generation, NotStarted, Synced, Closed, Committed, Pushes
  <2>2. ASSUME NEW c \in Children PROVE PushesHold(c, pm[c])
    BY <1>3, <1>6, <1>7 DEF PushesHold
  <2>3. QED
    BY <2>1, <2>2 DEF EvidenceHolds
<1>9. JournalHolds
  BY <1>6 DEF JournalHolds
<1>10. HeldSame
  BY DEF Init, HeldSame
<1>11. QED
  BY <1>1, <1>2, <1>5, <1>8, <1>9, <1>10 DEF PInv

(* The evidence of every child is true of the issues and the branches, in  *)
(* run.json, in the memory of the pass and in the journal, at all times    *)
(* (driver.py and post_merge.py together).                                 *)
THEOREM EvidenceTrue == Spec => []PInv
<1>1. PInv /\ [Next]_vars => PInv'
  BY NextP
<1>2. QED
  BY <1>1, InitP, PTL DEF Spec

(* Gates are opened, answered and cleared one at a time.                   *)
GateSet == {"none", "pending", "approved"}

LEMMA GateWrites ==
  ASSUME [Next]_vars
  PROVE  \/ gate' = gate
         \/ \E c \in Children, v \in GateSet :
              \E g : gate' = [gate EXCEPT ![c][g] = v]
<1>1. ASSUME NEW c \in Children, Merge(c) \/ ParentSync(c) \/ ParentSyncFails(c)
      PROVE  gate' = gate
  BY <1>1 DEF Merge, ReserveLane, StartIntegration, BeginMerge, MergeRefused,
              MergeUnknown, Adopt, ParentSync, ParentSyncFails, store
<1>2. ASSUME NEW c \in Children, CloseOut(c), ~ ClearGate(c), ~ OpenIssueCloseGate(c)
      PROVE  gate' = gate
  BY <1>2 DEF CloseOut, RequestIssueClose, IssueCloseReceipt, ReconcileClose,
              IssueAlreadyClosed, IssueFoundClosed, IssueStatusFails,
              IssueCloseUnresolved, AuthorizeRetry, CloseIssue, RecordFailure,
              RetryRefused, Blocked, AbandonAfterFailure, store
<1>3. ASSUME NEW c \in Children, Bookkeeping(c) PROVE gate' = gate
  BY <1>3 DEF Bookkeeping, RequestChangelog, CommitChangelog, ChangelogFails,
              AdoptChangelog, ChangelogRefused, EnsureLane, RequestPush, Push,
              AdoptPush, PushRefused, Rebase, RebaseConflicts, RebaseRefused,
              AdoptRebuild, Blocked, store
<1>4. ASSUME NEW c \in Children,
             ClearGate(c) \/ OpenIssueCloseGate(c) \/ ApproveGate(c)
      PROVE  \E v \in GateSet : \E g : gate' = [gate EXCEPT ![c][g] = v]
  BY <1>4 DEF ClearGate, OpenIssueCloseGate, ApproveGate, GateSet
<1>5. ASSUME NEW c \in Children, MergeLands(c) \/ HumanActs(c) PROVE gate' = gate
  BY <1>5 DEF MergeLands, HumanActs, store
<1>6. CASE UNCHANGED vars \/ Crash \/ ForeignPush \/ \E k \in Keys : ResolveEntry(k)
  BY <1>6 DEF vars, store, Crash, ForeignPush, ResolveEntry
<1>7. QED
  BY <1>1, <1>2, <1>3, <1>4, <1>5, <1>6 DEF Next, Pass

(* A rebase detaches HEAD, and nothing attaches it.                        *)
LEMMA HeadWrites ==
  ASSUME [Next]_vars
  PROVE  attached' = attached \/ attached' = FALSE
<1>1. ASSUME NEW c \in Children, Merge(c) \/ ParentSync(c) \/ ParentSyncFails(c)
      PROVE  attached' = attached
  BY <1>1 DEF Merge, ReserveLane, StartIntegration, BeginMerge, MergeRefused,
              MergeUnknown, Adopt, ParentSync, ParentSyncFails, env
<1>2. ASSUME NEW c \in Children, CloseOut(c) PROVE attached' = attached
  BY <1>2 DEF CloseOut, RequestIssueClose, IssueCloseReceipt, ReconcileClose,
              IssueAlreadyClosed, IssueFoundClosed, IssueStatusFails,
              IssueCloseUnresolved, AuthorizeRetry, ClearGate, CloseIssue,
              RetryRefused, Blocked, AbandonAfterFailure, OpenIssueCloseGate, env
<1>3. ASSUME NEW c \in Children, Bookkeeping(c)
      PROVE  attached' = attached \/ attached' = FALSE
  BY <1>3 DEF Bookkeeping, RequestChangelog, CommitChangelog, ChangelogFails,
              AdoptChangelog, ChangelogRefused, EnsureLane, RequestPush, Push,
              AdoptPush, PushRefused, Rebase, RebaseConflicts, RebaseRefused,
              AdoptRebuild, Blocked, env
<1>4. ASSUME NEW c \in Children, MergeLands(c) \/ HumanActs(c) \/ ApproveGate(c)
      PROVE  attached' = attached
  BY <1>4 DEF MergeLands, HumanActs, ApproveGate, env
<1>5. CASE UNCHANGED vars \/ Crash \/ ForeignPush \/ \E k \in Keys : ResolveEntry(k)
  BY <1>5 DEF vars, env, Crash, ForeignPush, ResolveEntry
<1>6. QED
  BY <1>1, <1>2, <1>3, <1>4, <1>5 DEF Next, Pass

GatesTyped == gate \in [Children -> [Tries -> GateSet]] /\ attached \in BOOLEAN

LEMMA GatesAreTyped == Spec => []GatesTyped
<1>1. Init => GatesTyped
  BY DEF Init, GatesTyped, GateSet, Tries
<1>2. GatesTyped /\ [Next]_vars => GatesTyped'
  <2> SUFFICES ASSUME GatesTyped, [Next]_vars PROVE GatesTyped'
    OBVIOUS
  <2>1. attached' \in BOOLEAN
    BY HeadWrites DEF GatesTyped
  <2>2. ASSUME NEW c \in Children, NEW v \in GateSet, NEW g,
               gate' = [gate EXCEPT ![c][g] = v]
        PROVE  gate' \in [Children -> [Tries -> GateSet]]
    <3>1. [gate[c] EXCEPT ![g] = v] \in [Tries -> GateSet]
      BY DEF GatesTyped
    <3>2. QED
      BY <2>2, <3>1 DEF GatesTyped
  <2>3. gate' \in [Children -> [Tries -> GateSet]]
    BY <2>2, GateWrites DEF GatesTyped
  <2>4. QED
    BY <2>1, <2>3 DEF GatesTyped
<1>3. QED
  BY <1>1, <1>2, PTL DEF Spec

(* Type correctness of the lane record, the slices, the gates and the      *)
(* journal, with at most one rebuild per child (generation 1).             *)
THEOREM ParentLaneTyped == Spec => []TypeOK
<1>1. PInv /\ GatesTyped => TypeOK
  <2> SUFFICES ASSUME PInv, GatesTyped PROVE TypeOK
    OBVIOUS
  <2>1. lane.phase \in LanePhases /\ lane.last \in 0..MaxEpoch
    BY DEF PInv, Inv, Sound
  <2>2. \A c \in Children :
          /\ pm[c].phase \in PostMergePhases /\ pm[c].fgen \in 0..MaxTries
          /\ pm[c].attempt \in 0..MaxTries /\ pm[c].gen \in 0..MaxTries
    BY DEF PInv, Types, Evidence, Tries
  <2>3. \A k \in Keys : jr[k].st \in Entries
    BY DEF PInv, Types, Entry
  <2>4. QED
    BY <2>1, <2>2, <2>3 DEF PInv, Types, TypeOK, GatesTyped, GateSet, Tries
<1>2. QED
  BY <1>1, EvidenceTrue, GatesAreTyped, PTL

(* A complete child has its issue closed, no entry left uncommitted and    *)
(* its bookkeeping commit on the remote branch, whatever failed, was       *)
(* retried or rebuilt on the way (_run_parent_push, complete_post_merge).  *)
THEOREM Published == Spec => []CompleteIsPublished
<1>1. PInv => CompleteIsPublished
  BY DEF PInv, EvidenceHolds, Holds, CompleteIsPublished, Closed, Committed, Pushes
<1>2. QED
  BY <1>1, EvidenceTrue, PTL

(* No step drops a commit from the remote branch: the lease of a push is   *)
(* on a commit that the parent worktree has (postMergePushCore).           *)
THEOREM HistoryKept == Spec => RemoteKeepsHistory
<1>1. PInv /\ [Next]_vars => [IsPrefix(remote, remote')]_vars
  BY NextP DEF Onward
<1>2. QED
  BY <1>1, EvidenceTrue, PTL DEF Spec, RemoteKeepsHistory

(* The rank of a phase is its place in the order.                          *)
LEMMA RankOf ==
  /\ Rank("not_started") = 1 /\ Rank("remote_merge_adopted") = 2
  /\ Rank("parent_branch_synced") = 3 /\ Rank("issue_close_pending") = 4
  /\ Rank("issue_close_confirmed") = 5 /\ Rank("changelog_pending") = 6
  /\ Rank("changelog_committed") = 7 /\ Rank("parent_push_pending") = 8
  /\ Rank("complete") = 9
<1>1. /\ PhaseOrder[1] = "not_started" /\ PhaseOrder[2] = "remote_merge_adopted"
      /\ PhaseOrder[3] = "parent_branch_synced" /\ PhaseOrder[4] = "issue_close_pending"
      /\ PhaseOrder[5] = "issue_close_confirmed" /\ PhaseOrder[6] = "changelog_pending"
      /\ PhaseOrder[7] = "changelog_committed" /\ PhaseOrder[8] = "parent_push_pending"
      /\ PhaseOrder[9] = "complete" /\ Len(PhaseOrder) = 9
  BY DEF PhaseOrder
<1>2. \A i \in 1..9 : i \in {1, 2, 3, 4, 5, 6, 7, 8, 9}
  OBVIOUS
<1>3. ASSUME NEW p, NEW i \in 1..9, PhaseOrder[i] = p,
             \A j \in 1..9 : PhaseOrder[j] = p => j = i
      PROVE  Rank(p) = i
  BY <1>1, <1>3 DEF Rank
<1>4. QED
  BY <1>1, <1>2, <1>3

(* Post-merge progress is taken back only by a rebuild into the next       *)
(* generation; the write-backs of a blocked or failed pass leave the phase *)
(* alone (_block_post_merge_recovery, _record_issue_close_failure).        *)
THEOREM ProgressIsKept == Spec => ProgressKept
<1>1. PInv /\ [Next]_vars
        => [\A c \in Children :
              Rank(pm'[c].phase) < Rank(pm[c].phase)
                => pm'[c].gen = pm[c].gen + 1 /\ pm'[c].failed = pm[c].push]_vars
  <2> SUFFICES ASSUME PInv, [Next]_vars, NEW c \in Children,
                      Rank(pm'[c].phase) < Rank(pm[c].phase)
               PROVE  pm'[c].gen = pm[c].gen + 1 /\ pm'[c].failed = pm[c].push
    OBVIOUS
  <2>1. Goes(c) /\ pm[c].phase \in PostMergePhases
    BY NextP DEF Onward, PInv, Types, Evidence
  <2>2. pm'[c].phase # pm[c].phase
    <3>1. Rank(pm[c].phase) \in Nat
      BY <2>1, PhasesAre, RankOf
    <3>2. QED
      BY <3>1
  <2>3. <<pm[c].phase, pm'[c].phase>> \notin Order
    <3>1. ASSUME NEW p, NEW q, <<p, q>> \in Order PROVE Rank(q) > Rank(p)
      BY <3>1, RankOf DEF Order
    <3>2. ASSUME NEW p, NEW q, <<p, q>> \in Order
          PROVE  Rank(q) \in Nat /\ Rank(p) \in Nat
      BY <3>2, RankOf DEF Order
    <3>3. QED
      BY <3>1, <3>2
  <2>4. QED
    BY <2>1, <2>2, <2>3 DEF Goes
<1>2. QED
  BY <1>1, EvidenceTrue, PTL DEF Spec, ProgressKept

-----------------------------------------------------------------------------
(***************************************************************************)
(* The changelog entries: what a close wrote is never lost, and a complete *)
(* child has every entry of its own on the remote branch.                  *)
(***************************************************************************)

(* x is a changelog commit with the entry of child c.                      *)
Names(x, c) == x.op = "log" /\ c \in x.who

(* The history h has every entry of c that the parent worktree has.        *)
Carries(c, h) == \A x \in ToSet(local) : Names(x, c) => x \in ToSet(h)

(* The operations whose journal entry carries a commit.                    *)
Results == {"changelog", "rebuild"}

(* No entry reaches the remote branch past the parent worktree; the commit *)
(* of the evidence, and the one in the journal, has the entries of its     *)
(* child, of which none is left or to come.                                *)
EntriesHold ==
  /\ \A x \in ToSet(remote) : x.op = "log" => x \in ToSet(local)
  /\ \A c \in Children : pm[c].phase \in Committed => Carries(c, pm[c].commit)
  /\ \A c \in Children, op \in Results, n \in Tries :
       jr[<<c, op, n>>].st = "confirmed" =>
         /\ issue[c] = "closed" /\ c \notin dirty
         /\ Carries(c, jr[<<c, op, n>>].commit)

(* One step of the branches and of the entries not yet committed.          *)
EntriesKept ==
  /\ ToSet(local) \subseteq ToSet(local')
  /\ \A c \in dirty : c \in dirty' \/ \E x \in ToSet(local') : Names(x, c)

Traced ==
  /\ \A x \in ToSet(local') :
       x \in ToSet(local) \cup ToSet(remote) \/ (x.op = "log" /\ x.who = dirty)
  /\ \A x \in ToSet(remote') :
       x \in ToSet(local) \cup ToSet(remote) \/ x.op # "log"

(* Where the commit of the evidence and that of the journal come from.     *)
CommitFrom(c) ==
  pm'[c].phase \in Committed =>
    \/ pm[c].phase \in Committed /\ pm'[c].commit = pm[c].commit
    \/ \E op \in Results, n \in Tries :
         jr[<<c, op, n>>].st = "confirmed" /\ pm'[c].commit = jr[<<c, op, n>>].commit

ResultFrom ==
  \A c \in Children, op \in Results, n \in Tries :
    jr'[<<c, op, n>>].st = "confirmed" =>
      \/ jr'[<<c, op, n>>] = jr[<<c, op, n>>]
      \/ /\ issue'[c] = "closed" /\ c \notin dirty'
         /\ jr'[<<c, op, n>>].commit = local'

(* The commits of a history.                                               *)
LEMMA CommitsOf ==
  ASSUME NEW h \in History
  PROVE  \A x : x \in ToSet(h) <=> \E i \in 1..Len(h) : x = h[i]
BY DEF ToSet, History

LEMMA PrefixCommits ==
  ASSUME NEW h \in History, NEW g \in History, IsPrefix(h, g)
  PROVE  ToSet(h) \subseteq ToSet(g)
<1>1. Len(h) \in Nat /\ Len(g) \in Nat /\ Len(h) <= Len(g) /\ \A i \in 1..Len(h) : h[i] = g[i]
  BY PrefixIs DEF History
<1>2. \A i \in 1..Len(h) : i \in 1..Len(g)
  BY <1>1
<1>3. QED
  BY <1>1, <1>2, CommitsOf

LEMMA AppendCommits ==
  ASSUME NEW h \in History, NEW y \in Commits
  PROVE  ToSet(Append(h, y)) = ToSet(h) \cup {y}
<1> DEFINE m == Append(h, y)
<1>1. /\ m \in History /\ Len(h) \in Nat /\ Len(m) = Len(h) + 1
      /\ m[Len(h) + 1] = y /\ \A i \in 1..Len(h) : m[i] = h[i]
  BY DEF History
<1> HIDE DEF m
<1>2. \A i : i \in 1..(Len(h) + 1) <=> i \in 1..Len(h) \/ i = Len(h) + 1
  BY <1>1
<1>3. ToSet(m) = ToSet(h) \cup {y}
  BY <1>1, <1>2, CommitsOf
<1>4. QED
  BY <1>3 DEF m

LEMMA ConcatCommits ==
  ASSUME NEW h \in History, NEW g \in History
  PROVE  ToSet(h \o g) = ToSet(h) \cup ToSet(g)
<1> DEFINE m == h \o g
<1>1. /\ m \in History /\ Len(h) \in Nat /\ Len(g) \in Nat /\ Len(m) = Len(h) + Len(g)
      /\ \A i \in 1..Len(h) : m[i] = h[i]
      /\ \A i \in 1..Len(g) : m[Len(h) + i] = g[i]
  BY DEF History
<1> HIDE DEF m
<1>2. \A i \in 1..Len(h) : i \in 1..Len(m)
  BY <1>1
<1>3. \A i \in 1..Len(g) : Len(h) + i \in 1..Len(m)
  BY <1>1
<1>4. \A i \in 1..Len(m) : i \in 1..Len(h) \/ \E j \in 1..Len(g) : i = Len(h) + j
  <2>1. ASSUME NEW i \in 1..Len(m), i \notin 1..Len(h) PROVE i - Len(h) \in 1..Len(g) /\ i = Len(h) + (i - Len(h))
    BY <1>1, <2>1
  <2>2. QED
    BY <2>1
<1>5. ToSet(m) = ToSet(h) \cup ToSet(g)
  <2>1. ASSUME NEW x, x \in ToSet(m) PROVE x \in ToSet(h) \cup ToSet(g)
    <3>1. PICK i \in 1..Len(m) : x = m[i]
      BY <1>1, <2>1, CommitsOf
    <3>2. CASE i \in 1..Len(h)
      BY <1>1, <3>1, <3>2, CommitsOf
    <3>3. CASE i \notin 1..Len(h)
      <4>1. PICK j \in 1..Len(g) : i = Len(h) + j
        BY <1>4, <3>3
      <4>2. x = g[j]
        BY <1>1, <3>1, <4>1
      <4>3. QED
        BY <4>2, CommitsOf
    <3>4. QED
      BY <3>2, <3>3
  <2>2. ASSUME NEW x, x \in ToSet(h) PROVE x \in ToSet(m)
    BY <1>1, <1>2, <2>2, CommitsOf
  <2>3. ASSUME NEW x, x \in ToSet(g) PROVE x \in ToSet(m)
    <3>1. PICK i \in 1..Len(g) : x = g[i]
      BY <2>3, CommitsOf
    <3>2. QED
      BY <1>1, <1>3, <3>1, CommitsOf
  <2>4. QED
    BY <2>1, <2>2, <2>3
<1>6. QED
  BY <1>5 DEF m

(* git rebase --onto drops a commit only when the remote branch has it:    *)
(* the strictly increasing pick of as many commits as are new takes all of *)
(* them.                                                                   *)
LEMMA RebasedCommits ==
  ASSUME Types, NEW c \in Children, Rebase(c), Shared(pm[c].base)
  PROVE  ToSet(local') = ToSet(local) \cup ToSet(remote)
<1> DEFINE base == pm[c].base
           mine == SubSeq(local, Len(base) + 1, Len(local))
           new  == {i \in 1..Len(mine) : mine[i] \notin ToSet(remote)}
<1>1. PICK pick \in [1..Cardinality(new) -> new] :
        /\ \A i, j \in DOMAIN pick : i < j => pick[i] < pick[j]
        /\ local' = remote \o [i \in DOMAIN pick |-> mine[pick[i]]]
  BY DEF Rebase
<1>2. local \in History /\ remote \in History /\ base \in History
      /\ IsPrefix(base, local) /\ IsPrefix(base, remote)
  BY DEF Types, Shared
<1> HIDE DEF base
<1>3. Len(base) \in Nat /\ Len(local) \in Nat /\ Len(base) <= Len(local)
      /\ \A i \in 1..Len(base) : base[i] = local[i]
  BY <1>2, PrefixIs DEF History
<1>4. /\ mine \in History /\ Len(mine) = Len(local) - Len(base)
      /\ \A i \in 1..Len(mine) : mine[i] = local[Len(base) + i]
  <2>1. local \in Seq(Commits)
    BY <1>2 DEF History
  <2>2. QED
    BY <1>3, <2>1 DEF History
<1> HIDE DEF mine
<1>5. IsFiniteSet(new) /\ Cardinality(new) \in Nat /\ new \subseteq 1..Len(mine) /\ Len(mine) \in Nat
  <2>0. Len(mine) \in Nat
    BY <1>4 DEF History
  <2>1. IsFiniteSet(1..Len(mine))
    BY <2>0, FS_Interval
  <2>2. IsFiniteSet(new) /\ new \subseteq 1..Len(mine)
    BY <2>1, FS_Subset
  <2>3. QED
    BY <2>0, <2>2, FS_CardinalityType
<1>6. \A i \in 1..Len(mine) : i \in new <=> mine[i] \notin ToSet(remote)
  OBVIOUS
<1> HIDE DEF new
<1> DEFINE n == Cardinality(new)
<1>7. n \in Nat /\ pick \in [1..n -> new] /\ n = Cardinality(new)
  BY <1>5
<1> HIDE DEF n
<1>8. /\ DOMAIN pick = 1..n
       /\ \A i \in 1..n : i \in Nat /\ pick[i] \in new /\ pick[i] \in 1..Len(mine) /\ pick[i] \in Nat
  <2>1. \A i \in 1..n : pick[i] \in new
    BY <1>7
  <2>2. \A k \in new : k \in 1..Len(mine) /\ k \in Nat
    BY <1>5
  <2>3. QED
    BY <1>7, <2>1, <2>2
<1>9. \A k \in new : \E i \in 1..n : pick[i] = k
  <2>1. pick \in Injection(1..n, new)
    <3>1. ASSUME NEW i \in 1..n, NEW j \in 1..n, pick[i] = pick[j] PROVE i = j
      <4>1. ~ (i < j) /\ ~ (j < i)
        BY <1>1, <1>8, <3>1
      <4>2. QED
        BY <1>8, <4>1
    <3>2. QED
      BY <1>7, <3>1 DEF Injection, IsInjective
  <2>2. Cardinality(1..n) = n
    BY <1>7, FS_Interval
  <2>3. pick \in Surjection(1..n, new)
    BY <1>5, <1>7, <2>1, <2>2, FS_Injection
  <2>4. QED
    BY <2>3 DEF Surjection
<1> DEFINE t == [i \in DOMAIN pick |-> mine[pick[i]]]
<1>10. /\ t \in History /\ Len(t) = n
      /\ \A i \in 1..n : t[i] = mine[pick[i]]
  <2>1. \A i \in 1..n : mine[pick[i]] \in Commits
    BY <1>4, <1>8 DEF History
  <2>2. t = [i \in 1..n |-> mine[pick[i]]]
    BY <1>8
  <2> HIDE DEF t
  <2>3. t \in [1..n -> Commits]
    BY <2>1, <2>2
  <2>4. QED
    BY <1>7, <2>2, <2>3 DEF History
<1> HIDE DEF t
<1>11. ToSet(local') = ToSet(remote) \cup ToSet(t)
  BY <1>1, <1>2, <1>10, ConcatCommits DEF t
<1>12. ASSUME NEW x, x \in ToSet(t) PROVE x \in ToSet(local)
  <2>1. PICK i \in 1..n : x = mine[pick[i]] /\ pick[i] \in 1..Len(mine)
    BY <1>10, <1>8, <1>12, CommitsOf
  <2>2. x = local[Len(base) + pick[i]] /\ Len(base) + pick[i] \in 1..Len(local)
    BY <1>3, <1>4, <2>1
  <2>3. QED
    BY <1>2, <2>2, CommitsOf
<1>13. ASSUME NEW x, x \in ToSet(local), x \notin ToSet(remote) PROVE x \in ToSet(t)
  <2>1. PICK j \in 1..Len(local) : x = local[j]
    BY <1>2, <1>13, CommitsOf
  <2>2. j \notin 1..Len(base)
    <3>1. ToSet(base) \subseteq ToSet(remote)
      BY <1>2, PrefixCommits
    <3>2. QED
      BY <1>2, <1>3, <1>13, <2>1, <3>1, CommitsOf
  <2>3. j - Len(base) \in 1..Len(mine) /\ mine[j - Len(base)] = x
    <3>1. j - Len(base) \in 1..Len(mine) /\ Len(base) + (j - Len(base)) = j
      BY <1>3, <1>4, <2>2
    <3>2. QED
      BY <1>4, <2>1, <3>1
  <2>4. j - Len(base) \in new
    BY <1>6, <1>13, <2>3
  <2>5. PICK i \in 1..n : pick[i] = j - Len(base)
    BY <1>9, <2>4
  <2>6. x = t[i]
    BY <1>10, <2>3, <2>5
  <2>7. QED
    BY <1>10, <2>6, CommitsOf
<1>14. QED
  BY <1>11, <1>12, <1>13

(* Which steps of a child touch the branches or the entries.               *)
LEMMA QuietBranches ==
  ASSUME NEW c \in Children, Pass(c) \/ MergeLands(c) \/ ApproveGate(c) \/ HumanActs(c)
  PROVE  \/ UNCHANGED <<local, remote, dirty>>
         \/ ParentSync(c) \/ ParentSyncFails(c) \/ CloseIssue(c) \/ CommitChangelog(c)
         \/ Push(c) \/ Rebase(c) \/ MergeLands(c) \/ HumanActs(c)
<1>1. CASE Merge(c) \/ ApproveGate(c)
  BY <1>1 DEF Merge, ReserveLane, StartIntegration, BeginMerge, MergeRefused, MergeUnknown, Adopt, ApproveGate, env
<1>2. CASE CloseOut(c)
  BY <1>2 DEF CloseOut, RequestIssueClose, IssueCloseReceipt, IssueAlreadyClosed, IssueFoundClosed,
              ReconcileClose, ClearGate, IssueStatusFails, IssueCloseUnresolved,
              AuthorizeRetry, RetryRefused, Blocked, AbandonAfterFailure, OpenIssueCloseGate, env
<1>3. CASE Bookkeeping(c)
  BY <1>3 DEF Bookkeeping, RequestChangelog, ChangelogFails, AdoptChangelog, ChangelogRefused, EnsureLane, RequestPush,
              AdoptPush, PushRefused, RebaseRefused, AdoptRebuild, RebaseConflicts, Blocked, env
<1>4. QED
  BY <1>1, <1>2, <1>3 DEF Pass

(* A commit that others, or the forge, append.                             *)
LEMMA AppendedTraced ==
  ASSUME Types, NEW x \in Commits, x.op # "log", remote' = Append(remote, x), UNCHANGED <<local, dirty>>
  PROVE  EntriesKept /\ Traced
<1>1. ToSet(remote') = ToSet(remote) \cup {x}
  BY AppendCommits DEF Types
<1>2. QED
  BY <1>1 DEF EntriesKept, Traced

(* No step loses an entry or a commit of the parent worktree, and none     *)
(* makes an entry other than the uncommitted ones.                         *)
LEMMA ChildTraced ==
  ASSUME PInv, NEW c \in Children, Pass(c) \/ MergeLands(c) \/ ApproveGate(c) \/ HumanActs(c)
  PROVE  EntriesKept /\ Traced
<1>0. Types /\ local \in History /\ remote \in History /\ dirty \subseteq Children
  BY DEF PInv, Types
<1>1. CASE UNCHANGED <<local, remote, dirty>>
  BY <1>1 DEF EntriesKept, Traced
<1>2. CASE ParentSync(c) \/ ParentSyncFails(c)
  <2>1. /\ UNCHANGED <<remote, dirty>>
        /\ local' = local \/ (local' = remote /\ IsPrefix(local, remote))
    BY <1>2 DEF ParentSync, ParentSyncFails, CanSync
  <2>2. ToSet(local) \subseteq ToSet(local')
    BY <1>0, <2>1, PrefixCommits
  <2>3. QED
    BY <2>1, <2>2 DEF EntriesKept, Traced
<1>3. CASE CloseIssue(c)
  <2>1. UNCHANGED <<local, remote>> /\ dirty \subseteq dirty'
    BY <1>3 DEF CloseIssue
  <2>2. QED
    BY <2>1 DEF EntriesKept, Traced
<1>4. CASE CommitChangelog(c)
  <2> DEFINE x == Commit("log", dirty)
  <2>1. remote' = remote /\ local' = IF dirty = {} THEN local ELSE Append(local, x)
    BY <1>4 DEF CommitChangelog
  <2>2. x \in Commits /\ x.op = "log" /\ x.who = dirty
    BY <1>0 DEF Commit, Commits
  <2>3. CASE dirty = {}
    BY <2>1, <2>3 DEF EntriesKept, Traced
  <2>4. CASE dirty # {}
    <3>1. ToSet(local') = ToSet(local) \cup {x}
      BY <1>0, <2>1, <2>2, <2>4, AppendCommits
    <3>2. \A d \in dirty : Names(x, d)
      BY <2>2 DEF Names
    <3> HIDE DEF x
    <3>3. QED
      BY <2>1, <2>2, <3>1, <3>2 DEF EntriesKept, Traced
  <2>5. QED
    BY <2>3, <2>4
<1>5. CASE Push(c)
  <2>1. UNCHANGED <<local, dirty>> /\ (remote' = remote \/ remote' = local)
    BY <1>5 DEF Push
  <2>2. QED
    BY <2>1 DEF EntriesKept, Traced
<1>6. CASE Rebase(c)
  <2>1. UNCHANGED <<remote, dirty>> /\ pm[c].phase = "parent_push_pending"
    BY <1>6 DEF Rebase, Stale, Pushing
  <2>2. Shared(pm[c].base)
    BY <2>1 DEF PInv, EvidenceHolds, Holds, Synced, Closed, Committed, Pushes
  <2>3. ToSet(local') = ToSet(local) \cup ToSet(remote)
    BY <1>0, <1>6, <2>2, RebasedCommits
  <2>4. QED
    BY <2>1, <2>3 DEF EntriesKept, Traced
<1>7. CASE MergeLands(c) \/ HumanActs(c)
  <2> DEFINE x == Commit("merge", {c})
  <2>1. x \in Commits /\ x.op # "log"
    BY DEF Commit, Commits
  <2>2. UNCHANGED <<local, dirty>> /\ (remote' = remote \/ remote' = Append(remote, x))
    BY <1>7 DEF MergeLands, HumanActs
  <2> HIDE DEF x
  <2>3. CASE remote' = remote
    BY <2>2, <2>3 DEF EntriesKept, Traced
  <2>4. QED
    BY <1>0, <2>1, <2>2, <2>3, AppendedTraced
<1>8. QED
  BY <1>1, <1>2, <1>3, <1>4, <1>5, <1>6, <1>7, QuietBranches

LEMMA NextTraced ==
  ASSUME PInv, [Next]_vars
  PROVE  EntriesKept /\ Traced
<1>1. CASE ForeignPush
  <2> DEFINE x == Commit("other", {})
  <2>1. x \in Commits /\ x.op # "log"
    BY DEF Commit, Commits
  <2>2. UNCHANGED <<local, dirty>> /\ remote' = Append(remote, x)
    BY <1>1 DEF ForeignPush
  <2> HIDE DEF x
  <2>3. QED
    BY <2>1, <2>2, AppendedTraced DEF PInv
<1>2. CASE UNCHANGED vars \/ Crash \/ \E k \in Keys : ResolveEntry(k)
  <2>1. UNCHANGED <<local, remote, dirty>>
    BY <1>2 DEF vars, env, Crash, ResolveEntry
  <2>2. QED
    BY <2>1 DEF EntriesKept, Traced
<1>3. QED
  BY <1>1, <1>2, ChildTraced DEF Next


(* A journal entry of another kind, or without success, is written.        *)
LEMMA LogOther ==
  ASSUME Types, NEW k \in Keys, NEW st \in Entries, Log(k, st),
         st = "confirmed" => k[2] \notin Results
  PROVE  ResultFrom
<1>1. jr'[k].st = st /\ \A j \in Keys : j # k => jr'[j] = jr[j]
  BY LogTyped
<1>2. ASSUME NEW c \in Children, NEW op \in Results, NEW n \in Tries, jr'[<<c, op, n>>].st = "confirmed"
      PROVE  jr'[<<c, op, n>>] = jr[<<c, op, n>>]
  <2> DEFINE j == <<c, op, n>>
  <2>1. j \in Keys /\ j[2] = op
    BY KeysAre DEF Results, Operations
  <2> HIDE DEF j
  <2>2. j # k
    BY <1>1, <1>2, <2>1 DEF j
  <2>3. QED
    BY <1>1, <2>1, <2>2 DEF j
<1>3. QED
  BY <1>2 DEF ResultFrom

LEMMA SameResults == ASSUME jr' = jr PROVE ResultFrom
BY DEF ResultFrom

(* The entry of an operation of this pass that carries the new HEAD.       *)
LEMMA LogHead ==
  ASSUME Types, NEW c \in Children, NEW op \in Results, NEW n \in Tries,
         NEW b \in History \cup {None}, NEW h \in History, LogResult(<<c, op, n>>, b, h),
         local' = h, issue'[c] = "closed", c \notin dirty'
  PROVE  ResultFrom
<1> DEFINE k == <<c, op, n>>
<1>1. k \in Keys /\ k[1] = c
  BY KeysAre DEF Results, Operations
<1>2. /\ jr'[k] = [st |-> "confirmed", base |-> b, commit |-> h]
      /\ \A j \in Keys : j # k => jr'[j] = jr[j]
  BY <1>1, LogResultTyped
<1>3. jr'[k].commit = h
  BY <1>2
<1> HIDE DEF k
<1>4. ASSUME NEW d \in Children, NEW o \in Results, NEW m \in Tries, jr'[<<d, o, m>>].st = "confirmed"
      PROVE  \/ jr'[<<d, o, m>>] = jr[<<d, o, m>>]
             \/ issue'[d] = "closed" /\ d \notin dirty' /\ jr'[<<d, o, m>>].commit = local'
  <2> DEFINE j == <<d, o, m>>
  <2>1. j \in Keys /\ j[1] = d
    BY KeysAre DEF Results, Operations
  <2> HIDE DEF j
  <2>2. CASE j = k
    BY <1>1, <1>3, <2>1, <2>2 DEF j
  <2>3. CASE j # k
    BY <1>2, <2>1, <2>3 DEF j
  <2>4. QED
    BY <2>2, <2>3
<1>5. QED
  BY <1>4 DEF ResultFrom

(* What the tools report in the journal is the HEAD they leave.            *)
LEMMA NextResults ==
  ASSUME PInv, [Next]_vars
  PROVE  ResultFrom
<1>0. Types /\ local \in History /\ remote \in History /\ dirty \subseteq Children
  BY DEF PInv, Types
<1>1. ASSUME NEW c \in Children, Merge(c) \/ ParentSync(c) \/ ParentSyncFails(c) \/ MergeLands(c) \/ ApproveGate(c) \/ HumanActs(c)
      PROVE  ResultFrom
  <2>1. jr' = jr
    BY <1>1 DEF Merge, ReserveLane, StartIntegration, BeginMerge, MergeRefused, MergeUnknown, Adopt, ParentSync,
                ParentSyncFails, MergeLands, ApproveGate, HumanActs
  <2>2. QED
    BY <2>1, SameResults
<1>2. ASSUME NEW c \in Children, CloseOut(c) PROVE ResultFrom
  <2>1. \/ jr' = jr \/ \E st \in {"confirmed", "unknown", "reconciled", "closed"} : Log(CloseKey(c, pm[c]), st)
    BY <1>2 DEF CloseOut, RequestIssueClose, IssueCloseReceipt, IssueAlreadyClosed, IssueFoundClosed,
              ReconcileClose, ClearGate, IssueStatusFails,
                IssueCloseUnresolved, AuthorizeRetry, CloseIssue, RetryRefused, AbandonAfterFailure, OpenIssueCloseGate
  <2>2. CloseKey(c, pm[c]) \in Keys /\ CloseKey(c, pm[c])[2] = "close"
    BY OwnKeys DEF CloseKey
  <2>3. {"confirmed", "unknown", "reconciled", "closed"} \subseteq Entries /\ "close" \notin Results
    BY DEF Entries, Results
  <2>4. QED
    BY <1>0, <2>1, <2>2, <2>3, SameResults, LogOther
<1>3. ASSUME NEW c \in Children, CommitChangelog(c) PROVE ResultFrom
  <2>1. /\ dirty' = {} /\ issue' = issue /\ pm[c].phase = "changelog_pending"
        /\ LogResult(ChangelogKey(c), None, local') \/ Log(ChangelogKey(c), "unknown")
    BY <1>3 DEF CommitChangelog
  <2>2. CASE Log(ChangelogKey(c), "unknown")
    BY <1>0, <2>2, OwnKeys, LogOther DEF Entries
  <2>3. CASE LogResult(ChangelogKey(c), None, local')
    <3>1. pm[c].gen \in Tries /\ issue[c] = "closed"
      BY <1>0, <2>1 DEF Types, Evidence, PInv, EvidenceHolds, Holds, Closed
    <3>2. local' \in History
      BY <1>3, NextP DEF PInv, Types, Next, Pass, Bookkeeping
    <3>3. PICK h \in History, n \in Tries : h = local' /\ n = pm[c].gen
      BY <3>1, <3>2
    <3>4. LogResult(<<c, "changelog", n>>, None, h)
      BY <2>3, <3>3 DEF ChangelogKey, LogResult
    <3>5. QED
      BY <1>0, <2>1, <3>1, <3>3, <3>4, LogHead DEF Results
  <2>4. QED
    BY <2>1, <2>2, <2>3
<1>4. ASSUME NEW c \in Children, Rebase(c) PROVE ResultFrom
  <2>1. /\ UNCHANGED <<dirty, issue>> /\ pm[c].phase = "parent_push_pending"
        /\ LogResult(RebuildKey(c), remote, local') \/ Log(RebuildKey(c), "unknown")
    BY <1>4 DEF Rebase, Stale, Pushing
  <2>2. CASE Log(RebuildKey(c), "unknown")
    BY <1>0, <2>2, OwnKeys, LogOther DEF Entries
  <2>3. CASE LogResult(RebuildKey(c), remote, local')
    <3>1. pm[c].gen \in Tries /\ issue[c] = "closed" /\ c \notin dirty
      BY <1>0, <2>1 DEF Types, Evidence, PInv, EvidenceHolds, Holds, Closed, Committed, Pushes
    <3>2. local' \in History
      BY <1>0, <1>4, RebasedHistory
    <3>3. PICK h \in History, b \in History, n \in Tries : h = local' /\ b = remote /\ n = pm[c].gen
      BY <1>0, <3>1, <3>2
    <3>4. LogResult(<<c, "rebuild", n>>, b, h)
      BY <2>3, <3>3 DEF RebuildKey, LogResult
    <3>5. QED
      BY <1>0, <2>1, <3>1, <3>3, <3>4, LogHead DEF Results
  <2>4. QED
    BY <2>1, <2>2, <2>3
<1>5. ASSUME NEW c \in Children, Push(c) PROVE ResultFrom
  <2>1. pm[c].phase = "parent_push_pending"
    BY <1>5 DEF Push, Pushing
  <2>2. PushKey(c) \in Keys /\ PushKey(c)[2] = "push"
    BY <2>1, OwnKeys DEF PushKey
  <2>3. {"confirmed", "unknown", "rejected", "stale"} \subseteq Entries /\ "push" \notin Results
    BY DEF Entries, Results
  <2>4. \E st \in {"confirmed", "unknown", "rejected", "stale"} : Log(PushKey(c), st)
    BY <1>5 DEF Push
  <2>5. QED
    BY <1>0, <2>2, <2>3, <2>4, LogOther
<1>6. ASSUME NEW c \in Children, Bookkeeping(c), ~ CommitChangelog(c), ~ Rebase(c), ~ Push(c) PROVE ResultFrom
  <2>1. \/ jr' = jr \/ Log(ChangelogKey(c), "unknown") \/ Log(RebuildKey(c), "unknown")
    BY <1>6 DEF Bookkeeping, RequestChangelog, ChangelogFails, AdoptChangelog, ChangelogRefused, EnsureLane,
                RequestPush, AdoptPush, PushRefused, RebaseRefused, AdoptRebuild, RebaseConflicts
  <2>2. "unknown" \in Entries
    BY DEF Entries
  <2>3. QED
    BY <1>0, <2>1, <2>2, OwnKeys, SameResults, LogOther
<1>7. ASSUME NEW k \in Keys, ResolveEntry(k) PROVE ResultFrom
  <2>1. \E st \in {"compensated", "rejected"} : Log(k, st)
    BY <1>7 DEF ResolveEntry
  <2>2. QED
    BY <1>0, <2>1, LogOther DEF Entries
<1>8. CASE UNCHANGED vars \/ Crash \/ ForeignPush
  <2>1. jr' = jr
    BY <1>8 DEF vars, Crash, ForeignPush
  <2>2. QED
    BY <2>1, SameResults
<1>9. QED
  BY <1>1, <1>2, <1>3, <1>4, <1>5, <1>6, <1>7, <1>8 DEF Next, Pass

(* The commit of the evidence stays, or is one that the journal proves.    *)
LEMMA PassCommits ==
  ASSUME PInv, NEW c \in Children, CloseOut(c) \/ Bookkeeping(c)
  PROVE  \A d \in Children : CommitFrom(d)
<1>0. Types /\ pm \in [Children -> Evidence] /\ pm[c] \in Evidence
  BY DEF PInv, Types
<1>1. ASSUME NEW s, pm' = [pm EXCEPT ![c] = s],
             s.phase \in Committed =>
               \/ pm[c].phase \in Committed /\ s.commit = pm[c].commit
               \/ \E op \in Results, n \in Tries :
                    jr[<<c, op, n>>].st = "confirmed" /\ s.commit = jr[<<c, op, n>>].commit
      PROVE  \A d \in Children : CommitFrom(d)
  <2>1. pm'[c] = s /\ \A d \in Children : d # c => pm'[d] = pm[d]
    BY <1>0, <1>1
  <2>2. QED
    BY <1>1, <2>1 DEF CommitFrom
<1>2. CASE pm' = pm
  BY <1>2 DEF CommitFrom
<1>3. ASSUME NEW s, pm' = [pm EXCEPT ![c] = s], Same(s, pm[c])
      PROVE  \A d \in Children : CommitFrom(d)
  BY <1>1, <1>3 DEF Same
<1>4. CASE \/ RequestIssueClose(c) \/ IssueCloseReceipt(c)
           \/ IssueAlreadyClosed(c) \/ IssueFoundClosed(c)
  <2>1. PICK s : pm' = [pm EXCEPT ![c] = s] /\ (s = IssueClosePending(pm[c]) \/ s = IssueCloseConfirmed(pm[c]))
    BY <1>4 DEF RequestIssueClose, IssueCloseReceipt, IssueAlreadyClosed, IssueFoundClosed, Advance
  <2>2. s.phase \notin Committed
    BY <1>0, <2>1 DEF IssueClosePending, IssueCloseConfirmed, Evidence, Committed, Pushes
  <2>3. QED
    BY <1>1, <2>1, <2>2
<1>5. CASE RequestChangelog(c)
  <2>1. PICK s : pm' = [pm EXCEPT ![c] = s] /\ s = ChangelogPending(pm[c])
    BY <1>5 DEF RequestChangelog, Advance
  <2>2. s.phase \notin Committed
    BY <1>0, <2>1 DEF ChangelogPending, Evidence, Committed, Pushes
  <2>3. QED
    BY <1>1, <2>1, <2>2
<1>6. ASSUME Running(c), RecordFailure(c) PROVE \A d \in Children : CommitFrom(d)
  <2>1. PICK s : s = IssueCloseFailed(Held(c).pm)
    OBVIOUS
  <2>2. s.fgen <= MaxTries /\ pm' = [pm EXCEPT ![c] = s]
    BY <1>6, <2>1 DEF RecordFailure
  <2>3. Same(s, Held(c).pm) /\ Same(Held(c).pm, pm[c])
    BY <1>6, <2>1, <2>2, HeldPm, FailedTyped
  <2>4. Same(s, pm[c])
    BY <2>3 DEF Same
  <2>5. QED
    BY <1>3, <2>2, <2>4
<1>7. ASSUME Running(c), Block(c) PROVE \A d \in Children : CommitFrom(d)
  <2>1. pm' = [pm EXCEPT ![c] = Held(c).pm]
    BY <1>7 DEF Block
  <2>2. QED
    BY <1>3, <1>7, <2>1, HeldPm
<1>8. CASE AuthorizeRetry(c)
  <2>1. Same(IssueCloseRetryAuthorized(pm[c]), pm[c])
    BY <1>0, <1>8, RetryTyped DEF AuthorizeRetry
  <2>2. pm' = [pm EXCEPT ![c] = IssueCloseRetryAuthorized(pm[c])]
    BY <1>8 DEF AuthorizeRetry
  <2>3. QED
    BY <1>3, <2>1, <2>2
<1>9. CASE AdoptChangelog(c)
  <2>1. PICK s : /\ s = ChangelogCommitted(pm[c], pm[c].intent, jr[ChangelogKey(c)].commit)
                 /\ pm' = [pm EXCEPT ![c] = s]
    BY <1>9 DEF AdoptChangelog, Advance
  <2>2. s.commit = jr[ChangelogKey(c)].commit /\ jr[ChangelogKey(c)].st = "confirmed"
    BY <1>0, <1>9, <2>1 DEF ChangelogCommitted, Evidence, AdoptChangelog
  <2>3. ChangelogKey(c) = <<c, "changelog", pm[c].gen>> /\ pm[c].gen \in Tries /\ "changelog" \in Results
    BY <1>0 DEF ChangelogKey, Evidence, Results
  <2>4. QED
    BY <1>1, <2>1, <2>2, <2>3
<1>10. CASE RequestPush(c)
  <2>1. PICK s : /\ s = ParentPushPending(pm[c], PushGen(pm[c]), rec[c], lane.epoch)
                 /\ pm' = [pm EXCEPT ![c] = s]
    BY <1>10 DEF RequestPush, Advance
  <2>2. s.commit = pm[c].commit /\ pm[c].phase \in Committed
    BY <1>0, <1>10, <2>1 DEF ParentPushPending, Evidence, RequestPush, Committed
  <2>3. QED
    BY <1>1, <2>1, <2>2
<1>11. CASE AdoptPush(c)
  <2>1. PICK s : s = PostMergeComplete(pm[c]) /\ pm' = [pm EXCEPT ![c] = s]
    BY <1>11 DEF AdoptPush, Advance
  <2>2. s.commit = pm[c].commit /\ pm[c].phase \in Committed
    BY <1>0, <1>11, <2>1 DEF PostMergeComplete, Evidence, AdoptPush, Pushing, Committed, Pushes
  <2>3. QED
    BY <1>1, <2>1, <2>2
<1>12. CASE AdoptRebuild(c)
  <2> DEFINE e == jr[RebuildKey(c)]
             r == Rebuilt(c, e.base)
             q == ChangelogCommitted(r, pm[c].gen + 1, e.commit)
             s == [q EXCEPT !.epoch = lane.epoch + 1]
  <2>1. pm' = [pm EXCEPT ![c] = s] /\ e.st = "confirmed"
    BY <1>12 DEF AdoptRebuild, Advance
  <2> HIDE DEF e
  <2>2. DOMAIN r = DOMAIN pm[c] /\ "commit" \in DOMAIN pm[c] /\ "phase" \in DOMAIN pm[c]
    BY <1>0 DEF Rebuilt, Rebuild, Evidence
  <2> HIDE DEF r
  <2>3. q.commit = e.commit /\ "commit" \in DOMAIN q
    BY <2>2 DEF ChangelogCommitted
  <2> HIDE DEF q
  <2>4. s.commit = e.commit
    BY <2>3
  <2> HIDE DEF s
  <2>5. RebuildKey(c) = <<c, "rebuild", pm[c].gen>> /\ pm[c].gen \in Tries /\ "rebuild" \in Results
    BY <1>0 DEF RebuildKey, Evidence, Results
  <2>6. QED
    BY <1>1, <2>1, <2>4, <2>5 DEF e
<1>13. CASE CloseOut(c)
  <2>1. CASE CloseIssue(c)
    <3>1. Running(c) /\ (RecordFailure(c) \/ pm' = pm)
      BY <2>1 DEF CloseIssue, store
    <3>2. QED
      BY <1>2, <1>6, <3>1
  <2>2. CASE IssueStatusFails(c) \/ IssueCloseUnresolved(c)
    <3>1. Running(c) /\ RecordFailure(c)
      BY <2>2 DEF IssueStatusFails, IssueCloseUnresolved, Running
    <3>2. QED
      BY <1>6, <3>1
  <2>3. CASE RetryRefused(c)
    BY <1>7, <2>3 DEF RetryRefused, Blocked
  <2>4. CASE \/ AbandonAfterFailure(c) \/ OpenIssueCloseGate(c)
             \/ ReconcileClose(c) \/ ClearGate(c)
    BY <1>2, <2>4 DEF AbandonAfterFailure, OpenIssueCloseGate, ReconcileClose, ClearGate, store
  <2>5. QED
    BY <1>4, <1>8, <1>13, <2>1, <2>2, <2>3, <2>4 DEF CloseOut
<1>14. CASE Bookkeeping(c)
  <2>1. CASE ChangelogFails(c) \/ ChangelogRefused(c) \/ PushRefused(c) \/ RebaseRefused(c) \/ RebaseConflicts(c)
    <3>1. Running(c) /\ Block(c)
      BY <2>1 DEF ChangelogFails, ChangelogRefused, PushRefused, RebaseRefused, RebaseConflicts, Blocked, Running, Stale
    <3>2. QED
      BY <1>7, <3>1
  <2>2. CASE CommitChangelog(c) \/ EnsureLane(c) \/ Push(c) \/ Rebase(c)
    BY <1>2, <2>2 DEF CommitChangelog, EnsureLane, Push, Rebase, store
  <2>3. QED
    BY <1>5, <1>9, <1>10, <1>11, <1>12, <1>14, <2>1, <2>2 DEF Bookkeeping
<1>15. QED
  BY <1>13, <1>14

LEMMA NextCommits ==
  ASSUME PInv, [Next]_vars
  PROVE  \A d \in Children : CommitFrom(d)
<1>0. Types /\ pm \in [Children -> Evidence]
  BY DEF PInv, Types
<1>1. CASE pm' = pm
  BY <1>1 DEF CommitFrom
<1>2. ASSUME NEW c \in Children, Adopt(c) \/ ParentSync(c) PROVE \A d \in Children : CommitFrom(d)
  <2>1. PICK s : /\ pm' = [pm EXCEPT ![c] = s]
                 /\ s = ParentBranchSynced(pm[c]) \/ s = MergeAdopted(pm[c], AdoptionEpoch)
    BY <1>2 DEF Adopt, ParentSync, Advance
  <2>2. s.phase \notin Committed
    BY <1>0, <2>1 DEF ParentBranchSynced, MergeAdopted, Evidence, Committed, Pushes
  <2>3. pm'[c] = s /\ \A d \in Children : d # c => pm'[d] = pm[d]
    BY <1>0, <2>1
  <2>4. QED
    BY <2>2, <2>3 DEF CommitFrom
<1>3. ASSUME NEW c \in Children, ParentSyncFails(c) PROVE \A d \in Children : CommitFrom(d)
  <2>1. pm' = pm \/ (Running(c) /\ pm' = [pm EXCEPT ![c] = Held(c).pm])
    BY <1>3 DEF ParentSyncFails, Block, Running, store
  <2>2. CASE Running(c) /\ pm' = [pm EXCEPT ![c] = Held(c).pm]
    <3>1. pm'[c] = Held(c).pm /\ \A d \in Children : d # c => pm'[d] = pm[d]
      BY <1>0, <2>2
    <3>2. Same(Held(c).pm, pm[c])
      BY <2>2, HeldPm
    <3>3. QED
      BY <3>1, <3>2 DEF CommitFrom, Same
  <2>3. QED
    BY <1>1, <2>1, <2>2
<1>4. ASSUME NEW c \in Children, Merge(c), ~ Adopt(c) PROVE pm' = pm
  BY <1>4 DEF Merge, ReserveLane, StartIntegration, BeginMerge, MergeRefused, MergeUnknown
<1>5. ASSUME NEW c \in Children, MergeLands(c) \/ ApproveGate(c) \/ HumanActs(c) PROVE pm' = pm
  BY <1>5 DEF MergeLands, ApproveGate, HumanActs, store
<1>6. CASE UNCHANGED vars \/ Crash \/ ForeignPush \/ \E k \in Keys : ResolveEntry(k)
  BY <1>1, <1>6 DEF vars, store, Crash, ForeignPush, ResolveEntry
<1>7. QED
  BY <1>1, <1>2, <1>3, <1>4, <1>5, <1>6, PassCommits DEF Next, Pass

(* A closed issue stays closed, and its entry is written once.             *)
LEMMA SettledStays ==
  ASSUME PInv, [Next]_vars, NEW c \in Children, issue[c] = "closed", c \notin dirty
  PROVE  issue'[c] = "closed" /\ c \notin dirty'
<1>0. issue \in [Children -> {"open", "closed"}]
  BY DEF PInv, Types
<1>1. ASSUME NEW d \in Children, CloseIssue(d) PROVE issue'[c] = "closed" /\ c \notin dirty'
  <2>1. issue[d] = "open"
    BY <1>1 DEF CloseIssue
  <2>2. \/ issue' = [issue EXCEPT ![d] = "closed"] /\ dirty' = dirty \cup {d}
        \/ UNCHANGED <<issue, dirty>>
    BY <1>1 DEF CloseIssue
  <2>3. QED
    BY <1>0, <2>1, <2>2
<1>2. ASSUME NEW d \in Children, HumanActs(d) PROVE issue'[c] = "closed" /\ c \notin dirty'
  BY <1>0, <1>2 DEF HumanActs
<1>3. ASSUME NEW d \in Children, CommitChangelog(d) PROVE issue'[c] = "closed" /\ c \notin dirty'
  BY <1>3 DEF CommitChangelog
<1>4. ASSUME NEW d \in Children, Merge(d) \/ ParentSync(d) \/ ParentSyncFails(d) \/ MergeLands(d) \/ ApproveGate(d)
      PROVE  UNCHANGED <<issue, dirty>>
  BY <1>4 DEF Merge, ReserveLane, StartIntegration, BeginMerge, MergeRefused, MergeUnknown, Adopt, ParentSync,
              ParentSyncFails, MergeLands, ApproveGate, env
<1>5. ASSUME NEW d \in Children, CloseOut(d), ~ CloseIssue(d) PROVE UNCHANGED <<issue, dirty>>
  BY <1>5 DEF CloseOut, RequestIssueClose, IssueCloseReceipt, IssueAlreadyClosed, IssueFoundClosed,
              ReconcileClose, ClearGate, IssueStatusFails, IssueCloseUnresolved,
              AuthorizeRetry, RetryRefused, Blocked, AbandonAfterFailure, OpenIssueCloseGate, env
<1>6. ASSUME NEW d \in Children, Bookkeeping(d), ~ CommitChangelog(d) PROVE UNCHANGED <<issue, dirty>>
  BY <1>6 DEF Bookkeeping, RequestChangelog, ChangelogFails, AdoptChangelog, ChangelogRefused, EnsureLane, RequestPush,
              Push, AdoptPush, PushRefused, Rebase, RebaseRefused, AdoptRebuild, RebaseConflicts, Blocked, env
<1>7. CASE UNCHANGED vars \/ Crash \/ ForeignPush \/ \E k \in Keys : ResolveEntry(k)
  <2>1. UNCHANGED <<issue, dirty>>
    BY <1>7 DEF vars, env, Crash, ForeignPush, ResolveEntry
  <2>2. QED
    BY <2>1
<1>8. QED
  BY <1>1, <1>2, <1>3, <1>4, <1>5, <1>6, <1>7 DEF Next, Pass

(* A child without an uncommitted entry gets no new one, so what carries   *)
(* its entries goes on carrying them.                                      *)
LEMMA CarriesStays ==
  ASSUME EntriesHold, Traced, NEW c \in Children, c \notin dirty
  PROVE  \A h : Carries(c, h) => Carries(c, h)'
<1> SUFFICES ASSUME NEW h, Carries(c, h), NEW x \in ToSet(local'), Names(x, c)
             PROVE  x \in ToSet(h)
  BY DEF Carries
<1>1. x.op = "log" /\ x.who # dirty
  BY DEF Names
<1>2. x \in ToSet(local)
  BY <1>1 DEF Traced, EntriesHold
<1>3. QED
  BY <1>2 DEF Carries

LEMMA NextEntries ==
  ASSUME PInv, EntriesHold, [Next]_vars
  PROVE  EntriesHold'
<1>1. PInv' /\ EntriesKept /\ Traced /\ ResultFrom /\ \A c \in Children : CommitFrom(c)
  BY NextP, NextTraced, NextResults, NextCommits
<1>2. ASSUME NEW x \in ToSet(remote'), x.op = "log" PROVE x \in ToSet(local')
  BY <1>1, <1>2 DEF Traced, EntriesHold, EntriesKept
<1>3. ASSUME NEW c \in Children, pm'[c].phase \in Committed PROVE Carries(c, pm[c].commit)'
  <2>1. PICK h : h = pm'[c].commit
    OBVIOUS
  <2>2. c \notin dirty /\ Carries(c, h)
    <3>1. CASE pm[c].phase \in Committed /\ pm'[c].commit = pm[c].commit
      BY <2>1, <3>1 DEF PInv, EvidenceHolds, Holds, EntriesHold
    <3>2. CASE \E op \in Results, n \in Tries :
                 jr[<<c, op, n>>].st = "confirmed" /\ pm'[c].commit = jr[<<c, op, n>>].commit
      BY <2>1, <3>2 DEF EntriesHold
    <3>3. QED
      BY <1>1, <1>3, <3>1, <3>2 DEF CommitFrom
  <2>3. Carries(c, h)'
    BY <1>1, <2>2, CarriesStays
  <2>4. QED
    BY <2>1, <2>3 DEF Carries
<1>4. ASSUME NEW c \in Children, NEW op \in Results, NEW n \in Tries, jr'[<<c, op, n>>].st = "confirmed"
      PROVE  /\ issue'[c] = "closed" /\ c \notin dirty'
             /\ Carries(c, jr[<<c, op, n>>].commit)'
  <2>1. PICK h : h = jr'[<<c, op, n>>].commit
    OBVIOUS
  <2>2. CASE jr'[<<c, op, n>>] = jr[<<c, op, n>>]
    <3>1. issue[c] = "closed" /\ c \notin dirty /\ Carries(c, h)
      BY <1>4, <2>1, <2>2 DEF EntriesHold
    <3>2. issue'[c] = "closed" /\ c \notin dirty'
      BY <3>1, SettledStays
    <3>3. Carries(c, h)'
      BY <1>1, <3>1, CarriesStays
    <3>4. QED
      BY <2>1, <3>2, <3>3 DEF Carries
  <2>3. CASE issue'[c] = "closed" /\ c \notin dirty' /\ jr'[<<c, op, n>>].commit = local'
    BY <2>3 DEF Carries
  <2>4. QED
    BY <1>1, <1>4, <2>2, <2>3 DEF ResultFrom
<1>5. QED
  BY <1>2, <1>3, <1>4 DEF EntriesHold

LEMMA InitEntries == Init => EntriesHold
<1> SUFFICES ASSUME Init PROVE EntriesHold
  OBVIOUS
<1>1. remote = <<>> /\ \A x : x \notin ToSet(remote)
  BY CommitsOf DEF Init, ToSet
<1>2. \A c \in Children : pm[c].phase \notin Committed
  BY DEF Init, NotStarted, Committed, Pushes
<1>3. \A c \in Children, op \in Results, n \in Tries : jr[<<c, op, n>>].st # "confirmed"
  <2>1. ASSUME NEW c \in Children, NEW op \in Results, NEW n \in Tries PROVE <<c, op, n>> \in Keys
    BY KeysAre DEF Results, Operations
  <2>2. QED
    BY <2>1 DEF Init, NoEntry
<1>4. QED
  BY <1>1, <1>2, <1>3 DEF EntriesHold

(* A complete child has no entry left to commit, and every changelog       *)
(* commit with an entry of its own is on the remote branch.                *)
CompleteIsEntered ==
  \A c \in Children :
    pm[c].phase = "complete" => c \notin dirty /\ Carries(c, remote)

(* What chainlink wrote for a child is published by the time the child is  *)
(* complete, even when another child's changelog run committed the entry   *)
(* or a rebase moved the commit (postMergeChangelogCore commits CHANGELOG  *)
(* as it is; postMergeRemoteReconcileCore rebases).                        *)
THEOREM EntriesPublished == Spec => []CompleteIsEntered
<1>1. PInv /\ EntriesHold => CompleteIsEntered
  <2> SUFFICES ASSUME PInv, EntriesHold, NEW c \in Children, pm[c].phase = "complete"
               PROVE  c \notin dirty /\ Carries(c, remote)
    BY DEF CompleteIsEntered
  <2>1. c \notin dirty /\ pm[c].commit \in History /\ IsPrefix(pm[c].commit, remote) /\ remote \in History
    BY DEF PInv, Types, EvidenceHolds, Holds, Committed, Pushes
  <2>2. Carries(c, pm[c].commit)
    BY DEF EntriesHold, Committed, Pushes
  <2>3. ToSet(pm[c].commit) \subseteq ToSet(remote)
    BY <2>1, PrefixCommits
  <2>4. QED
    BY <2>1, <2>2, <2>3 DEF Carries
<1>2. PInv /\ EntriesHold /\ [Next]_vars => EntriesHold'
  BY NextEntries
<1>3. QED
  BY <1>1, <1>2, InitEntries, EvidenceTrue, PTL DEF Spec

(* No step loses a commit of the parent worktree or an entry written there *)
(* and not yet committed: sync fast-forwards, a changelog commit takes all *)
(* of the entries, and the rebase of a stale push drops a commit only when *)
(* the remote branch has it (_run_parent_sync, postMergeChangelogCore,     *)
(* postMergeRemoteReconcileCore).                                          *)
THEOREM WorktreeKept == Spec => [][EntriesKept]_vars
<1>1. PInv /\ [Next]_vars => [EntriesKept]_vars
  BY NextTraced
<1>2. QED
  BY <1>1, EvidenceTrue, PTL DEF Spec

-----------------------------------------------------------------------------
(***************************************************************************)
(* After a rebuild.  The rebase of a stale push detaches HEAD, every later *)
(* push is refused, and so a rebuilt child is never complete.              *)
(***************************************************************************)

(* A child with a rebuilt commit is not complete, and HEAD is detached.    *)
RebuiltIsStranded ==
  \A c \in Children : pm[c].rebuild => ~ attached /\ pm[c].phase # "complete"

StrandInv ==
  /\ RebuiltIsStranded
  /\ \A c \in Children, n \in Tries :
       /\ jr[<<c, "rebuild", n>>].st = "confirmed" => ~ attached
       /\ jr[<<c, "push", n>>].st = "confirmed" => n = 0

(* Which step confirms a rebuild or a push.                                *)
LEMMA Confirms ==
  ASSUME PInv, [Next]_vars, NEW c \in Children, NEW n \in Tries
  PROVE  /\ jr'[<<c, "rebuild", n>>].st = "confirmed" =>
              jr[<<c, "rebuild", n>>].st = "confirmed" \/ attached' = FALSE
         /\ jr'[<<c, "push", n>>].st = "confirmed" =>
              \/ jr[<<c, "push", n>>].st = "confirmed"
              \/ attached /\ Pushing(c) /\ n = pm[c].push
<1> DEFINE r == <<c, "rebuild", n>>
           p == <<c, "push", n>>
           Quiet == /\ jr'[r].st = "confirmed" => jr[r].st = "confirmed"
                    /\ jr'[p].st = "confirmed" => jr[p].st = "confirmed"
<1>1. jr \in [Keys -> Entry] /\ r \in Keys /\ p \in Keys
  BY KeysAre DEF PInv, Types, Operations
<1>2. ASSUME NEW k, NEW st, Log(k, st),
             st # "confirmed" \/ k[2] \in {"close", "changelog"}
      PROVE  Quiet
  <2>1. k # r \/ st # "confirmed"
    BY <1>2
  <2>2. k # p \/ st # "confirmed"
    BY <1>2
  <2>3. \A x \in Keys : jr'[x].st = jr[x].st \/ (x = k /\ jr'[x].st = st)
    BY <1>1, <1>2 DEF Log, Entry
  <2>4. QED
    BY <1>1, <2>1, <2>2, <2>3
<1>3. ASSUME NEW k, NEW b, NEW h, LogResult(k, b, h), k[2] = "changelog"
      PROVE  Quiet
  <2>1. k # r /\ k # p
    BY <1>3
  <2>2. jr'[r] = jr[r] /\ jr'[p] = jr[p]
    BY <1>1, <1>3, <2>1 DEF LogResult
  <2>3. QED
    BY <2>2
<1>4. ASSUME UNCHANGED jr PROVE Quiet
  BY <1>4
<1>5. ASSUME NEW d \in Children,
             Merge(d) \/ ParentSync(d) \/ ParentSyncFails(d) \/ MergeLands(d)
             \/ ApproveGate(d) \/ HumanActs(d)
      PROVE  UNCHANGED jr
  BY <1>5 DEF Merge, ReserveLane, StartIntegration, BeginMerge, MergeRefused,
              MergeUnknown, Adopt, ParentSync, ParentSyncFails, MergeLands,
              ApproveGate, HumanActs
<1>6. ASSUME NEW d \in Children, CloseOut(d) PROVE Quiet
  <2>1. CASE CloseIssue(d) \/ ReconcileClose(d)
    <3>1. PICK st : Log(CloseKey(d, pm[d]), st)
      BY <2>1 DEF CloseIssue, ReconcileClose
    <3>2. CloseKey(d, pm[d])[2] = "close"
      BY DEF CloseKey
    <3>3. QED
      BY <1>2, <3>1, <3>2
  <2>2. CASE ~ (CloseIssue(d) \/ ReconcileClose(d))
    <3>1. UNCHANGED jr
      BY <1>6, <2>2
         DEF CloseOut, RequestIssueClose, IssueCloseReceipt,
             IssueAlreadyClosed, IssueFoundClosed, IssueStatusFails,
             IssueCloseUnresolved, AuthorizeRetry, ClearGate, RetryRefused,
             AbandonAfterFailure, OpenIssueCloseGate
    <3>2. QED
      BY <1>4, <3>1
  <2>3. QED
    BY <2>1, <2>2
<1>7. ASSUME NEW d \in Children, CommitChangelog(d) \/ ChangelogFails(d)
      PROVE  Quiet
  <2>1. \/ \E st : Log(ChangelogKey(d), st)
        \/ \E b, h : LogResult(ChangelogKey(d), b, h)
    BY <1>7 DEF CommitChangelog, ChangelogFails
  <2>2. ChangelogKey(d)[2] = "changelog"
    BY DEF ChangelogKey
  <2>3. QED
    BY <1>2, <1>3, <2>1, <2>2
<1>8. ASSUME NEW d \in Children, Push(d)
      PROVE  Quiet \/ (attached /\ Pushing(c) /\ n = pm[c].push /\ jr'[r] = jr[r])
  <2>1. CASE attached /\ Log(PushKey(d), "confirmed")
    <3>1. PushKey(d) # r /\ (PushKey(d) = p => d = c /\ n = pm[c].push)
      BY DEF PushKey
    <3>2. jr'[r] = jr[r] /\ (PushKey(d) # p => jr'[p] = jr[p])
      BY <1>1, <2>1, <3>1 DEF Log
    <3>3. Pushing(d)
      BY <1>8 DEF Push
    <3>4. QED
      BY <2>1, <3>1, <3>2, <3>3
  <2>2. CASE \E st \in {"rejected", "stale", "unknown"} : Log(PushKey(d), st)
    BY <1>2, <2>2
  <2>3. QED
    BY <1>8, <2>1, <2>2 DEF Push
<1>9. ASSUME NEW d \in Children, Rebase(d) \/ RebaseConflicts(d)
      PROVE  attached' = FALSE /\ (jr'[p].st = "confirmed" => jr[p].st = "confirmed")
  <2>1. attached' = FALSE
    BY <1>9 DEF Rebase, RebaseConflicts
  <2>2. RebuildKey(d) # p
    BY DEF RebuildKey
  <2>3. \/ \E st : Log(RebuildKey(d), st)
        \/ \E b, h : LogResult(RebuildKey(d), b, h)
    BY <1>9 DEF Rebase, RebaseConflicts
  <2>4. jr'[p] = jr[p]
    BY <1>1, <2>2, <2>3 DEF Log, LogResult
  <2>5. QED
    BY <2>1, <2>4
<1>10. ASSUME NEW d \in Children, RebaseRefused(d) PROVE Quiet
  <2>1. Log(RebuildKey(d), "unknown") \/ UNCHANGED jr
    BY <1>10 DEF RebaseRefused
  <2>2. QED
    BY <1>2, <1>4, <2>1
<1>11. ASSUME NEW d \in Children,
              RequestChangelog(d) \/ AdoptChangelog(d) \/ ChangelogRefused(d)
              \/ EnsureLane(d) \/ RequestPush(d) \/ AdoptPush(d)
              \/ PushRefused(d) \/ AdoptRebuild(d)
       PROVE  UNCHANGED jr
  BY <1>11 DEF RequestChangelog, AdoptChangelog, ChangelogRefused, EnsureLane,
               RequestPush, AdoptPush, PushRefused, AdoptRebuild
<1>12. ASSUME NEW k \in Keys, ResolveEntry(k) PROVE Quiet
  <2>1. \E st \in {"compensated", "rejected"} : Log(k, st)
    BY <1>12 DEF ResolveEntry
  <2>2. QED
    BY <1>2, <2>1
<1>13. CASE UNCHANGED vars \/ Crash \/ ForeignPush
  BY <1>4, <1>13 DEF vars, Crash, ForeignPush
<1>14. QED
  BY <1>4, <1>5, <1>6, <1>7, <1>8, <1>9, <1>10, <1>11, <1>12, <1>13
     DEF Next, Pass, Bookkeeping

(* What it takes to be rebuilt, and to be complete.                        *)
Takes(c) ==
  /\ pm'[c].rebuild =>
       pm[c].rebuild \/ jr[RebuildKey(c)].st = "confirmed"
  /\ pm'[c].phase = "complete" =>
       /\ pm'[c].rebuild = pm[c].rebuild
       /\ \/ pm[c].phase = "complete"
          \/ Pushing(c) /\ jr[PushKey(c)].st = "confirmed"

LEMMA TakesIt ==
  ASSUME PInv, [Next]_vars, NEW c \in Children
  PROVE  Takes(c)
<1>0. pm \in [Children -> Evidence]
  BY DEF PInv, Types
<1>1. ASSUME NEW d \in Children, NEW s, pm' = [pm EXCEPT ![d] = s],
             s.rebuild = pm[d].rebuild, s.phase \notin {"complete"} \ {pm[d].phase}
      PROVE  Takes(c)
  BY <1>0, <1>1 DEF Takes
<1>2. ASSUME UNCHANGED pm PROVE Takes(c)
  BY <1>2 DEF Takes
<1>3. ASSUME NEW d \in Children, Running(d), Block(d) PROVE Takes(c)
  <2>1. PICK s : s = Held(d).pm
    OBVIOUS
  <2>2. s.phase = pm[d].phase /\ s.rebuild = pm[d].rebuild
    BY <1>3, <2>1, HeldPm DEF Same
  <2>3. pm' = [pm EXCEPT ![d] = s]
    BY <1>3, <2>1 DEF Block
  <2>4. QED
    BY <1>1, <2>2, <2>3
<1>4. ASSUME NEW d \in Children, Merge(d) \/ ParentSync(d) \/ ParentSyncFails(d)
      PROVE  Takes(c)
  <2>1. \/ UNCHANGED pm
        \/ \E s \in {MergeAdopted(pm[d], AdoptionEpoch), ParentBranchSynced(pm[d])} :
             pm' = [pm EXCEPT ![d] = s]
        \/ Running(d) /\ Block(d)
    BY <1>4 DEF Merge, ReserveLane, StartIntegration, BeginMerge, MergeRefused,
                MergeUnknown, Adopt, ParentSync, ParentSyncFails, Advance,
                Running, store
  <2>2. \A s \in {MergeAdopted(pm[d], AdoptionEpoch), ParentBranchSynced(pm[d])} :
          s.rebuild = pm[d].rebuild /\ s.phase # "complete"
    BY <1>0 DEF MergeAdopted, ParentBranchSynced, Evidence
  <2>3. QED
    BY <1>1, <1>2, <1>3, <2>1, <2>2
<1>5. ASSUME NEW d \in Children, CloseOut(d) PROVE Takes(c)
  <2>1. ASSUME Running(d), Closing(d), RecordFailure(d) PROVE Takes(c)
    <3>1. PICK h : h = Held(d).pm
      OBVIOUS
    <3>2. h \in Evidence /\ h.phase = pm[d].phase /\ h.rebuild = pm[d].rebuild
      BY <2>1, <3>1, HeldPm DEF Same
    <3>3. PICK s : s = IssueCloseFailed(h)
      OBVIOUS
    <3>4. s.phase = h.phase /\ s.rebuild = h.rebuild
      BY <3>2, <3>3 DEF IssueCloseFailed, Evidence
    <3>5. pm' = [pm EXCEPT ![d] = s]
      BY <2>1, <3>1, <3>3 DEF RecordFailure
    <3>6. QED
      BY <1>1, <3>2, <3>4, <3>5
  <2> DEFINE S == {IssueClosePending(pm[d]), IssueCloseConfirmed(pm[d]),
                   IssueCloseRetryAuthorized(pm[d])}
  <2>2. \A s \in S : s.rebuild = pm[d].rebuild /\ s.phase \notin {"complete"} \ {pm[d].phase}
    BY <1>0 DEF IssueClosePending, IssueCloseConfirmed,
                IssueCloseRetryAuthorized, Evidence
  <2>3. CASE CloseIssue(d) \/ IssueStatusFails(d) \/ IssueCloseUnresolved(d)
    <3>1. UNCHANGED pm \/ (Running(d) /\ Closing(d) /\ RecordFailure(d))
      BY <2>3 DEF CloseIssue, IssueStatusFails, IssueCloseUnresolved, Running,
                  store
    <3>2. QED
      BY <1>2, <2>1, <3>1
  <2>4. CASE RetryRefused(d)
    BY <1>3, <2>4 DEF RetryRefused, Blocked
  <2>5. CASE ReconcileClose(d) \/ ClearGate(d) \/ AbandonAfterFailure(d)
             \/ OpenIssueCloseGate(d)
    BY <1>2, <2>5 DEF ReconcileClose, ClearGate, AbandonAfterFailure,
                      OpenIssueCloseGate, store
  <2>6. CASE RequestIssueClose(d) \/ IssueCloseReceipt(d)
             \/ IssueAlreadyClosed(d) \/ IssueFoundClosed(d) \/ AuthorizeRetry(d)
    <3>1. \E s \in S : pm' = [pm EXCEPT ![d] = s]
      BY <2>6 DEF RequestIssueClose, IssueCloseReceipt, IssueAlreadyClosed,
                  IssueFoundClosed, AuthorizeRetry, Advance
    <3> HIDE DEF S
    <3>2. QED
      BY <1>1, <2>2, <3>1
  <2>7. QED
    BY <1>5, <2>3, <2>4, <2>5, <2>6 DEF CloseOut
<1>6. ASSUME NEW d \in Children, Bookkeeping(d) PROVE Takes(c)
  <2>1. CASE CommitChangelog(d) \/ Push(d) \/ Rebase(d) \/ EnsureLane(d)
    BY <1>2, <2>1 DEF CommitChangelog, Push, Rebase, EnsureLane, store
  <2>2. CASE ChangelogFails(d) \/ ChangelogRefused(d) \/ PushRefused(d)
             \/ RebaseRefused(d) \/ RebaseConflicts(d)
    BY <1>3, <2>2 DEF ChangelogFails, ChangelogRefused, PushRefused,
                      RebaseRefused, RebaseConflicts, Stale, Blocked, Running
  <2>3. CASE RequestChangelog(d) \/ AdoptChangelog(d) \/ RequestPush(d)
    <3> DEFINE S == {ChangelogPending(pm[d]),
                     ChangelogCommitted(pm[d], pm[d].intent, jr[ChangelogKey(d)].commit),
                     ParentPushPending(pm[d], PushGen(pm[d]), rec[d], lane.epoch)}
    <3>1. \A s \in S : s.rebuild = pm[d].rebuild /\ s.phase # "complete"
      BY <1>0 DEF ChangelogPending, ChangelogCommitted, ParentPushPending,
                  Evidence
    <3>2. \E s \in S : pm' = [pm EXCEPT ![d] = s]
      BY <2>3 DEF RequestChangelog, AdoptChangelog, RequestPush, Advance
    <3> HIDE DEF S
    <3>3. QED
      BY <1>1, <3>1, <3>2
  <2>4. CASE AdoptPush(d)
    <3>1. PICK s : s = PostMergeComplete(pm[d])
      OBVIOUS
    <3>2. /\ pm' = [pm EXCEPT ![d] = s] /\ Pushing(d)
          /\ jr[PushKey(d)].st = "confirmed"
      BY <2>4, <3>1 DEF AdoptPush, Advance
    <3>3. s.rebuild = pm[d].rebuild
      BY <1>0, <3>1 DEF PostMergeComplete, Evidence
    <3>4. pm'[d] = s /\ (d # c => pm'[c] = pm[c])
      BY <1>0, <3>2
    <3>5. QED
      BY <3>2, <3>3, <3>4 DEF Takes
  <2>5. CASE AdoptRebuild(d)
    <3> DEFINE e == jr[RebuildKey(d)]
               q == ChangelogCommitted(Rebuilt(d, e.base), pm[d].gen + 1, e.commit)
               s == [q EXCEPT !.epoch = lane.epoch + 1]
    <3>1. pm' = [pm EXCEPT ![d] = s] /\ e.st = "confirmed"
      BY <2>5 DEF AdoptRebuild, Advance
    <3> HIDE DEF e
    <3>2. q.phase = "changelog_committed"
      BY <1>0 DEF ChangelogCommitted, Rebuilt, Rebuild, Evidence
    <3> HIDE DEF q
    <3>3. s.phase # "complete"
      BY <3>2
    <3> HIDE DEF s
    <3>4. pm'[d] = s /\ (d # c => pm'[c] = pm[c])
      BY <1>0, <3>1
    <3>5. QED
      BY <3>1, <3>3, <3>4 DEF Takes, e
  <2>6. QED
    BY <1>6, <2>1, <2>2, <2>3, <2>4, <2>5 DEF Bookkeeping
<1>7. ASSUME NEW d \in Children, MergeLands(d) \/ ApproveGate(d) \/ HumanActs(d)
      PROVE  UNCHANGED pm
  BY <1>7 DEF MergeLands, ApproveGate, HumanActs, store
<1>8. CASE UNCHANGED vars \/ Crash \/ ForeignPush
           \/ \E k \in Keys : ResolveEntry(k)
  BY <1>2, <1>8 DEF vars, store, Crash, ForeignPush, ResolveEntry
<1>9. QED
  BY <1>2, <1>4, <1>5, <1>6, <1>7, <1>8 DEF Next, Pass

LEMMA NextStrand ==
  ASSUME PInv, StrandInv, [Next]_vars
  PROVE  StrandInv'
<1>1. ~ attached => ~ attached'
  BY HeadWrites
<1>2. ASSUME NEW c \in Children
      PROVE  /\ pm[c].gen \in Tries
             /\ pm[c].rebuild /\ Pushing(c) => pm[c].push # 0 /\ pm[c].push \in Tries
             /\ attached /\ Pushing(c) => pm[c].push = 0
  <2>1. pm[c] \in Evidence /\ Holds(c, pm[c])
    BY DEF PInv, Types, EvidenceHolds
  <2>2. Pushing(c) => pm[c].push = PushGen(pm[c])
    BY <2>1 DEF Holds, Pushing, Pushes
  <2>3. pm[c].rebuild => pm[c].gen = 1
    BY <2>1 DEF Holds, Generation
  <2>4. QED
    BY <2>1, <2>2, <2>3 DEF PushGen, Evidence, StrandInv, RebuiltIsStranded
<1>3. ASSUME NEW c \in Children
      PROVE  pm'[c].rebuild => ~ attached' /\ pm'[c].phase # "complete"
  <2> SUFFICES ASSUME pm'[c].rebuild
               PROVE  ~ attached' /\ pm'[c].phase # "complete"
    OBVIOUS
  <2>1. Takes(c)
    BY TakesIt
  <2>2. ~ attached
    BY <1>2, <2>1 DEF Takes, StrandInv, RebuiltIsStranded, RebuildKey
  <2>3. ASSUME pm'[c].phase = "complete" PROVE FALSE
    <3>1. pm[c].rebuild /\ Pushing(c) /\ jr[PushKey(c)].st = "confirmed"
      BY <2>1, <2>3 DEF Takes, StrandInv, RebuiltIsStranded
    <3>2. QED
      BY <1>2, <3>1 DEF StrandInv, PushKey
  <2>4. QED
    BY <1>1, <2>2, <2>3
<1>4. ASSUME NEW c \in Children, NEW n \in Tries
      PROVE  /\ jr'[<<c, "rebuild", n>>].st = "confirmed" => ~ attached'
             /\ jr'[<<c, "push", n>>].st = "confirmed" => n = 0
  BY <1>1, <1>2, Confirms DEF StrandInv
<1>5. QED
  BY <1>3, <1>4 DEF StrandInv, RebuiltIsStranded

LEMMA InitStrand == Init => StrandInv
<1> SUFFICES ASSUME Init PROVE StrandInv
  OBVIOUS
<1>1. \A c \in Children : ~ pm[c].rebuild
  BY DEF Init, NotStarted
<1>2. \A k \in Keys : jr[k].st = "none"
  BY DEF Init, NoEntry
<1>3. \A c \in Children, op \in {"rebuild", "push"}, n \in Tries : <<c, op, n>> \in Keys
  BY KeysAre DEF Operations
<1>4. QED
  BY <1>1, <1>2, <1>3 DEF StrandInv, RebuiltIsStranded

(* A child whose bookkeeping was rebuilt on an advanced remote branch is   *)
(* never completed by the controller: the rebase ran on a detached HEAD,   *)
(* and postMergePushCore refuses every push from there.  (The reducers     *)
(* would go on; the test of the recovery replaces the git tools by fakes.) *)
THEOREM RebuildNeverBooked == Spec => []RebuiltIsStranded
<1>1. PInv /\ StrandInv /\ [Next]_vars => StrandInv'
  BY NextStrand
<1>2. StrandInv => RebuiltIsStranded
  BY DEF StrandInv
<1>3. QED
  BY <1>1, <1>2, InitStrand, EvidenceTrue, PTL DEF Spec
-----------------------------------------------------------------------------
(* A slice that run.json calls merged, and so all post-merge evidence,     *)
(* belongs to a merge that the remote branch has.                          *)
MergedIsMerged ==
  \A c \in Children :
    /\ status[c] = "merged" => Merged(c)
    /\ pm[c].phase # "not_started" => Merged(c)

LEMMA MergedStays ==
  ASSUME PInv, [Next]_vars, NEW c \in Children, Merged(c)
  PROVE  Merged(c)'
<1>1. remote \in History /\ remote' \in History /\ IsPrefix(remote, remote')
  BY NextP DEF PInv, Types, Onward
<1>2. ToSet(remote) \subseteq ToSet(remote')
  BY <1>1, PrefixCommits
<1>3. QED
  BY <1>2 DEF Merged

(* Only an adoption makes a slice merged.                                  *)
LEMMA AdoptedIsMerged ==
  ASSUME PInv, [Next]_vars, NEW c \in Children, status'[c] = "merged", status[c] # "merged"
  PROVE  Merged(c)
<1>0. status \in [Children -> {"approved", "inflight", "unknown", "merged"}]
  BY DEF PInv, Types
<1>1. ASSUME NEW d \in Children, Adopt(d) PROVE Merged(c)
  BY <1>0, <1>1 DEF Adopt
<1>2. ASSUME NEW d \in Children, Merge(d), ~ Adopt(d) PROVE FALSE
  BY <1>0, <1>2 DEF Merge, ReserveLane, StartIntegration, BeginMerge, MergeRefused, MergeUnknown
<1>3. ASSUME NEW d \in Children, ParentSync(d) \/ ParentSyncFails(d) \/ MergeLands(d) \/ ApproveGate(d) \/ HumanActs(d)
      PROVE  status' = status
  BY <1>3 DEF ParentSync, ParentSyncFails, MergeLands, ApproveGate, HumanActs, store
<1>4. ASSUME NEW d \in Children, CloseOut(d) PROVE status' = status
  BY <1>4 DEF CloseOut, RequestIssueClose, IssueCloseReceipt, IssueAlreadyClosed, IssueFoundClosed,
              ReconcileClose, ClearGate, IssueStatusFails, IssueCloseUnresolved,
              AuthorizeRetry, CloseIssue, RecordFailure, RetryRefused, Blocked, AbandonAfterFailure, OpenIssueCloseGate, store
<1>5. ASSUME NEW d \in Children, Bookkeeping(d) PROVE status' = status
  BY <1>5 DEF Bookkeeping, RequestChangelog, CommitChangelog, ChangelogFails, AdoptChangelog, ChangelogRefused, EnsureLane,
              RequestPush, Push, AdoptPush, PushRefused, Rebase, RebaseRefused, AdoptRebuild, RebaseConflicts, Blocked, store
<1>6. CASE UNCHANGED vars \/ Crash \/ ForeignPush \/ \E k \in Keys : ResolveEntry(k)
  BY <1>6 DEF vars, store, Crash, ForeignPush, ResolveEntry
<1>7. QED
  BY <1>1, <1>2, <1>3, <1>4, <1>5, <1>6 DEF Next, Pass

(* The controller never keeps the books of a merge that did not happen:    *)
(* an answer that was lost, a refusal that came late and a merge by hand   *)
(* leave a slice merged only when its merge is on the remote branch, and   *)
(* no later push takes it away (_reconcile_merged_slice,                   *)
(* _adopt_post_merge_slice).                                               *)
THEOREM BooksFollowMerges == Spec => []MergedIsMerged
<1> DEFINE M == \A c \in Children : status[c] = "merged" => Merged(c)
<1>1. Init => M
  BY DEF Init
<1>2. PInv /\ M /\ [Next]_vars => M'
  <2> SUFFICES ASSUME PInv, M, [Next]_vars, NEW c \in Children, status'[c] = "merged"
               PROVE  Merged(c)'
    OBVIOUS
  <2>1. Merged(c)
    BY AdoptedIsMerged
  <2>2. QED
    BY <2>1, MergedStays
<1>3. PInv /\ M => MergedIsMerged
  BY DEF PInv, Unmerged, MergedIsMerged
<1>4. QED
  BY <1>1, <1>2, <1>3, EvidenceTrue, PTL DEF Spec
-----------------------------------------------------------------------------
(***************************************************************************)
(* Nothing is done twice to the branches: no merge and no changelog entry  *)
(* of a child is there a second time, through every retry, replay, sync    *)
(* and rebase.                                                             *)
(***************************************************************************)

(* Two commits that merge, or enter in the changelog, the same child.      *)
Alike(x, y) == x.op = y.op /\ \E c \in Children : c \in x.who /\ c \in y.who

Distinct(h) == \A i, j \in 1..Len(h) : Alike(h[i], h[j]) => i = j

(* An issue that is still open has no entry yet, and an entry waits for    *)
(* its commit or has it; merges are made on the forge.                     *)
EntryFresh ==
  /\ \A c \in Children : issue[c] = "open" =>
       c \notin dirty /\ \A x \in ToSet(local) : ~ Names(x, c)
  /\ \A c \in dirty, x \in ToSet(local) : ~ Names(x, c)

MergeFresh ==
  /\ \A x \in ToSet(local) : x.op = "merge" => x \in ToSet(remote)
  /\ \A x \in ToSet(remote), c \in Children :
       x.op = "merge" /\ c \in x.who => x = Commit("merge", {c})
  /\ \A x \in ToSet(local) \cup ToSet(remote), c \in Children :
       c \in x.who => x.op \in {"merge", "log"}

OnceInv == Distinct(local) /\ Distinct(remote) /\ EntryFresh /\ MergeFresh

(* What a step does to the branches.                                       *)
LEMMA NextBranches ==
  ASSUME PInv, [Next]_vars
  PROVE  \/ UNCHANGED <<local, remote>>
         \/ local' = remote /\ UNCHANGED remote
         \/ remote' = local /\ UNCHANGED local
         \/ UNCHANGED local /\ remote' = Append(remote, Commit("other", {}))
         \/ /\ UNCHANGED local
            /\ \E c \in Children : ~ Merged(c) /\ remote' = Append(remote, Commit("merge", {c}))
         \/ UNCHANGED remote /\ dirty' = {} /\ local' = Append(local, Commit("log", dirty))
         \/ \E c \in Children : Rebase(c)
<1>1. ASSUME NEW c \in Children, ParentSync(c) \/ ParentSyncFails(c)
      PROVE  UNCHANGED remote /\ (local' = local \/ local' = remote)
  BY <1>1 DEF ParentSync, ParentSyncFails
<1>2. ASSUME NEW c \in Children, CloseIssue(c) PROVE UNCHANGED <<local, remote>>
  BY <1>2 DEF CloseIssue
<1>3. ASSUME NEW c \in Children, CommitChangelog(c)
      PROVE  UNCHANGED remote /\ dirty' = {} /\ (local' = local \/ local' = Append(local, Commit("log", dirty)))
  BY <1>3 DEF CommitChangelog
<1>4. ASSUME NEW c \in Children, Push(c) PROVE UNCHANGED local /\ (remote' = remote \/ remote' = local)
  BY <1>4 DEF Push
<1>5. ASSUME NEW c \in Children, MergeLands(c) \/ HumanActs(c)
      PROVE  UNCHANGED local /\ (remote' = remote \/ (~ Merged(c) /\ remote' = Append(remote, Commit("merge", {c}))))
  BY <1>5 DEF MergeLands, HumanActs
<1>6. CASE ForeignPush
  BY <1>6 DEF ForeignPush
<1>7. CASE UNCHANGED vars \/ Crash \/ \E k \in Keys : ResolveEntry(k)
  BY <1>7 DEF vars, env, Crash, ResolveEntry
<1>8. QED
  BY <1>1, <1>2, <1>3, <1>4, <1>5, <1>6, <1>7, QuietBranches DEF Next

LEMMA DistinctAppend ==
  ASSUME NEW h \in History, NEW x \in Commits, Distinct(h), \A y \in ToSet(h) : ~ Alike(y, x)
  PROVE  Distinct(Append(h, x))
<1> DEFINE m == Append(h, x)
<1>1. /\ Len(h) \in Nat /\ Len(m) = Len(h) + 1
      /\ m[Len(h) + 1] = x /\ \A i \in 1..Len(h) : m[i] = h[i]
  BY DEF History
<1> HIDE DEF m
<1>2. \A i \in 1..Len(m) : i \in 1..Len(h) \/ i = Len(h) + 1
  BY <1>1
<1>3. \A i \in 1..Len(h) : ~ Alike(m[i], x) /\ ~ Alike(x, m[i])
  BY <1>1, CommitsOf DEF Alike
<1>4. ASSUME NEW i \in 1..Len(m), NEW j \in 1..Len(m), Alike(m[i], m[j]) PROVE i = j
  <2>1. CASE i \in 1..Len(h) /\ j \in 1..Len(h)
    <3>1. Alike(h[i], h[j])
      BY <1>1, <1>4, <2>1
    <3>2. QED
      BY <2>1, <3>1 DEF Distinct
  <2>2. CASE i = Len(h) + 1 \/ j = Len(h) + 1
    BY <1>1, <1>2, <1>3, <1>4, <2>2
  <2>3. QED
    BY <1>2, <2>1, <2>2
<1>5. QED
  BY <1>4 DEF Distinct, m

LEMMA DistinctConcat ==
  ASSUME NEW h \in History, NEW g \in History, Distinct(h), Distinct(g),
         \A y \in ToSet(h), z \in ToSet(g) : ~ Alike(y, z)
  PROVE  Distinct(h \o g)
<1> DEFINE m == h \o g
<1>1. /\ Len(h) \in Nat /\ Len(g) \in Nat /\ Len(m) = Len(h) + Len(g)
      /\ \A i \in 1..Len(h) : m[i] = h[i]
      /\ \A i \in 1..Len(g) : m[Len(h) + i] = g[i]
  BY DEF History
<1> HIDE DEF m
<1>2. \A i \in 1..Len(m) : i \in 1..Len(h) \/ \E k \in 1..Len(g) : i = Len(h) + k
  <2>1. ASSUME NEW i \in 1..Len(m), i \notin 1..Len(h) PROVE i - Len(h) \in 1..Len(g) /\ i = Len(h) + (i - Len(h))
    BY <1>1, <2>1
  <2>2. QED
    BY <2>1
<1>3. \A i \in 1..Len(h), k \in 1..Len(g) : ~ Alike(h[i], g[k]) /\ ~ Alike(g[k], h[i])
  BY CommitsOf DEF Alike
<1>4. ASSUME NEW i \in 1..Len(m), NEW j \in 1..Len(m), Alike(m[i], m[j]) PROVE i = j
  <2>1. CASE i \in 1..Len(h) /\ j \in 1..Len(h)
    <3>1. Alike(h[i], h[j])
      BY <1>1, <1>4, <2>1
    <3>2. QED
      BY <2>1, <3>1 DEF Distinct
  <2>2. CASE i \in 1..Len(h) /\ j \notin 1..Len(h)
    <3>1. PICK k \in 1..Len(g) : j = Len(h) + k
      BY <1>2, <2>2
    <3>2. QED
      BY <1>1, <1>3, <1>4, <2>2, <3>1
  <2>3. CASE i \notin 1..Len(h) /\ j \in 1..Len(h)
    <3>1. PICK k \in 1..Len(g) : i = Len(h) + k
      BY <1>2, <2>3
    <3>2. QED
      BY <1>1, <1>3, <1>4, <2>3, <3>1
  <2>4. CASE i \notin 1..Len(h) /\ j \notin 1..Len(h)
    <3>1. PICK k \in 1..Len(g), l \in 1..Len(g) : i = Len(h) + k /\ j = Len(h) + l
      BY <1>2, <2>4
    <3>2. Alike(g[k], g[l])
      BY <1>1, <1>4, <3>1
    <3>3. QED
      BY <3>1, <3>2 DEF Distinct
  <2>5. QED
    BY <2>1, <2>2, <2>3, <2>4
<1>5. QED
  BY <1>4 DEF Distinct, m

(* What a rebase puts on top of the remote branch: commits of the worktree *)
(* that the remote branch lacks, each once.                                *)
LEMMA RebasedPicks ==
  ASSUME Types, NEW c \in Children, Rebase(c), Shared(pm[c].base), Distinct(local)
  PROVE  \E t \in History :
           /\ local' = remote \o t /\ Distinct(t)
           /\ \A x \in ToSet(t) : x \in ToSet(local) /\ x \notin ToSet(remote)
<1> DEFINE base == pm[c].base
           mine == SubSeq(local, Len(base) + 1, Len(local))
           new  == {i \in 1..Len(mine) : mine[i] \notin ToSet(remote)}
<1>1. PICK pick \in [1..Cardinality(new) -> new] :
        /\ \A i, j \in DOMAIN pick : i < j => pick[i] < pick[j]
        /\ local' = remote \o [i \in DOMAIN pick |-> mine[pick[i]]]
  BY DEF Rebase
<1>2. local \in History /\ base \in History /\ IsPrefix(base, local)
  BY DEF Types, Shared
<1> HIDE DEF base
<1>3. Len(base) \in Nat /\ Len(local) \in Nat /\ Len(base) <= Len(local)
  BY <1>2, PrefixIs DEF History
<1>4. /\ mine \in History /\ Len(mine) = Len(local) - Len(base) /\ Len(mine) \in Nat
      /\ \A i \in 1..Len(mine) : mine[i] = local[Len(base) + i]
  <2>1. local \in Seq(Commits)
    BY <1>2 DEF History
  <2>2. QED
    BY <1>3, <2>1 DEF History
<1> HIDE DEF mine
<1>5. Cardinality(new) \in Nat /\ \A k \in new : k \in 1..Len(mine) /\ mine[k] \notin ToSet(remote)
  <2>0. Len(mine) \in Nat
    BY <1>4
  <2>1. IsFiniteSet(1..Len(mine))
    BY <2>0, FS_Interval
  <2>2. IsFiniteSet(new)
    BY <2>1, FS_Subset
  <2>3. QED
    BY <2>2, FS_CardinalityType
<1> HIDE DEF new
<1> DEFINE n == Cardinality(new)
<1>6. n \in Nat /\ pick \in [1..n -> new]
  BY <1>5
<1> HIDE DEF n
<1>7. /\ DOMAIN pick = 1..n
      /\ \A i \in 1..n : i \in Nat /\ pick[i] \in new /\ pick[i] \in 1..Len(mine) /\ pick[i] \in Nat
  <2>1. \A i \in 1..n : pick[i] \in new
    BY <1>6
  <2>2. \A k \in new : k \in 1..Len(mine) /\ k \in Nat
    BY <1>4, <1>5
  <2>3. QED
    BY <1>6, <2>1, <2>2
<1> DEFINE t == [i \in DOMAIN pick |-> mine[pick[i]]]
<1>8. /\ t \in History /\ Len(t) = n
      /\ \A i \in 1..n : t[i] = mine[pick[i]]
  <2>1. \A i \in 1..n : mine[pick[i]] \in Commits
    BY <1>4, <1>7 DEF History
  <2>2. t = [i \in 1..n |-> mine[pick[i]]]
    BY <1>7
  <2> HIDE DEF t
  <2>3. t \in [1..n -> Commits]
    BY <2>1, <2>2
  <2>4. QED
    BY <1>6, <2>2, <2>3 DEF History
<1>9. local' = remote \o t
  BY <1>1
<1> HIDE DEF t
<1>10. \A i \in 1..n : /\ Len(base) + pick[i] \in 1..Len(local)
                       /\ t[i] = local[Len(base) + pick[i]]
  BY <1>3, <1>4, <1>7, <1>8
<1>11. Distinct(t)
  <2> SUFFICES ASSUME NEW i \in 1..n, NEW j \in 1..n, Alike(t[i], t[j]) PROVE i = j
    BY <1>8 DEF Distinct
  <2>1. Len(base) + pick[i] = Len(base) + pick[j]
    BY <1>10 DEF Distinct
  <2>2. pick[i] = pick[j]
    BY <1>3, <1>7, <2>1
  <2>3. ~ (i < j) /\ ~ (j < i)
    BY <1>1, <1>7, <2>2
  <2>4. QED
    BY <1>7, <2>3
<1>12. \A x \in ToSet(t) : x \in ToSet(local) /\ x \notin ToSet(remote)
  <2> SUFFICES ASSUME NEW x \in ToSet(t) PROVE x \in ToSet(local) /\ x \notin ToSet(remote)
    OBVIOUS
  <2>1. PICK i \in 1..n : x = t[i]
    BY <1>8, CommitsOf
  <2>2. x \notin ToSet(remote)
    BY <1>5, <1>7, <1>8, <2>1
  <2>3. QED
    BY <1>2, <1>10, <2>1, <2>2, CommitsOf
<1>13. QED
  BY <1>8, <1>9, <1>11, <1>12

(* What a step does to the issues and the entries not yet committed.       *)
LEMMA NextIssues ==
  ASSUME PInv, [Next]_vars
  PROVE  \/ UNCHANGED <<issue, dirty>>
         \/ UNCHANGED <<dirty, local>> /\ \A c \in Children : issue[c] = "closed" => issue'[c] = "closed"
         \/ /\ UNCHANGED local
            /\ \E c \in Children : issue[c] = "open" /\ issue' = [issue EXCEPT ![c] = "closed"] /\ dirty' = dirty \cup {c}
         \/ UNCHANGED issue /\ dirty' = {}
<1>0. issue \in [Children -> {"open", "closed"}]
  BY DEF PInv, Types
<1>1. ASSUME NEW d \in Children, CloseIssue(d)
      PROVE  UNCHANGED local /\ issue[d] = "open" /\ (\/ issue' = [issue EXCEPT ![d] = "closed"] /\ dirty' = dirty \cup {d}
                                   \/ UNCHANGED <<issue, dirty>>)
  BY <1>1 DEF CloseIssue
<1>2. ASSUME NEW d \in Children, HumanActs(d)
      PROVE  UNCHANGED <<dirty, local>> /\ \A c \in Children : issue[c] = "closed" => issue'[c] = "closed"
  BY <1>0, <1>2 DEF HumanActs
<1>3. ASSUME NEW d \in Children, CommitChangelog(d) PROVE UNCHANGED issue /\ dirty' = {}
  BY <1>3 DEF CommitChangelog
<1>4. ASSUME NEW d \in Children, Merge(d) \/ ParentSync(d) \/ ParentSyncFails(d) \/ MergeLands(d) \/ ApproveGate(d)
      PROVE  UNCHANGED <<issue, dirty>>
  BY <1>4 DEF Merge, ReserveLane, StartIntegration, BeginMerge, MergeRefused, MergeUnknown, Adopt, ParentSync,
              ParentSyncFails, MergeLands, ApproveGate, env
<1>5. ASSUME NEW d \in Children, CloseOut(d), ~ CloseIssue(d) PROVE UNCHANGED <<issue, dirty>>
  BY <1>5 DEF CloseOut, RequestIssueClose, IssueCloseReceipt, IssueAlreadyClosed, IssueFoundClosed,
              ReconcileClose, ClearGate, IssueStatusFails, IssueCloseUnresolved,
              AuthorizeRetry, RetryRefused, Blocked, AbandonAfterFailure, OpenIssueCloseGate, env
<1>6. ASSUME NEW d \in Children, Bookkeeping(d), ~ CommitChangelog(d) PROVE UNCHANGED <<issue, dirty>>
  BY <1>6 DEF Bookkeeping, RequestChangelog, ChangelogFails, AdoptChangelog, ChangelogRefused, EnsureLane, RequestPush,
              Push, AdoptPush, PushRefused, Rebase, RebaseRefused, AdoptRebuild, RebaseConflicts, Blocked, env
<1>7. CASE UNCHANGED vars \/ Crash \/ ForeignPush \/ \E k \in Keys : ResolveEntry(k)
  BY <1>7 DEF vars, env, Crash, ForeignPush, ResolveEntry
<1>8. QED
  BY <1>1, <1>2, <1>3, <1>4, <1>5, <1>6, <1>7 DEF Next, Pass

(* The entries stay fresh.                                                 *)
LEMMA NextEntryFresh ==
  ASSUME PInv, EntriesHold, OnceInv, [Next]_vars
  PROVE  EntryFresh'
<1>0. Traced /\ issue \in [Children -> {"open", "closed"}] /\ issue' \in [Children -> {"open", "closed"}]
  BY NextP, NextTraced DEF PInv, Types
<1>1. \A x \in ToSet(local'), c \in Children : Names(x, c) /\ c \notin dirty => x \in ToSet(local)
  BY <1>0 DEF Traced, EntriesHold, Names
<1>2. CASE dirty' = {} /\ UNCHANGED issue
  BY <1>1, <1>2 DEF OnceInv, EntryFresh
<1>3. ASSUME dirty' # {} \/ issue' # issue, NEW x \in ToSet(local'), x.op = "log" PROVE x \in ToSet(local)
  <2>1. local' = local \/ (UNCHANGED <<issue, dirty>> /\ dirty # {})
    BY <1>3, NextIssues
  <2>2. CASE local' = local
    BY <1>3, <2>2
  <2>3. CASE dirty' # {} /\ local' # local
    <3>1. local' = remote \/ \E c \in Children : Rebase(c)
      BY <2>3, NextBranches
    <3>2. ASSUME NEW c \in Children, Rebase(c) PROVE x \in ToSet(local)
      <4>1. pm[c].phase = "parent_push_pending"
        BY <3>2 DEF Rebase, Stale, Pushing
      <4>2. Types /\ Shared(pm[c].base)
        BY <4>1 DEF PInv, EvidenceHolds, Holds, Synced, Closed, Committed, Pushes
      <4>3. ToSet(local') = ToSet(local) \cup ToSet(remote)
        BY <3>2, <4>2, RebasedCommits
      <4>4. QED
        BY <1>3, <4>3 DEF EntriesHold
    <3>3. QED
      BY <1>3, <3>1, <3>2 DEF EntriesHold
  <2>4. QED
    BY <2>1, <2>2, <2>3
<1>4. CASE dirty' # {} \/ issue' # issue
  <2>1. \A x \in ToSet(local'), c \in Children : Names(x, c) => x \in ToSet(local)
    BY <1>3, <1>4 DEF Names
  <2>2. CASE UNCHANGED dirty /\ \A c \in Children : issue[c] = "closed" => issue'[c] = "closed"
    BY <1>0, <2>1, <2>2 DEF OnceInv, EntryFresh, PInv, Types
  <2>3. ASSUME NEW c \in Children, issue[c] = "open", issue' = [issue EXCEPT ![c] = "closed"], dirty' = dirty \cup {c}
        PROVE  EntryFresh'
    <3>1. issue'[c] = "closed" /\ \A d \in Children : d # c => issue'[d] = issue[d]
      BY <1>0, <2>3
    <3>2. QED
      BY <1>0, <2>1, <2>3, <3>1 DEF OnceInv, EntryFresh, PInv, Types
  <2>4. QED
    BY <1>2, <2>2, <2>3, NextIssues
<1>5. QED
  BY <1>2, <1>4

(* The merges stay those of the forge.                                     *)
LEMMA NextMergeFresh ==
  ASSUME PInv, EntriesHold, OnceInv, [Next]_vars
  PROVE  MergeFresh'
<1>0. /\ Types /\ local \in History /\ remote \in History /\ remote' \in History
      /\ Traced /\ MergeFresh /\ ToSet(remote) \subseteq ToSet(remote')
  <2>1. Types /\ Types' /\ IsPrefix(remote, remote')
    BY NextP DEF PInv, Onward
  <2>2. QED
    BY <2>1, NextTraced, PrefixCommits DEF Types, OnceInv
<1>1. ASSUME NEW x \in ToSet(local'), x.op = "merge" PROVE x \in ToSet(remote')
  BY <1>0, <1>1 DEF Traced, MergeFresh
<1>2. ASSUME NEW x \in ToSet(remote'), x \notin ToSet(local) \cup ToSet(remote)
      PROVE  x = Commit("other", {}) \/ \E d \in Children : x = Commit("merge", {d})
  <2>1. \/ remote' = Append(remote, Commit("other", {}))
        \/ \E d \in Children : remote' = Append(remote, Commit("merge", {d}))
    BY <1>2, NextBranches DEF Rebase
  <2>2. Commit("other", {}) \in Commits /\ \A d \in Children : Commit("merge", {d}) \in Commits
    BY DEF Commit, Commits
  <2>3. \A y \in Commits : ToSet(Append(remote, y)) = ToSet(remote) \cup {y}
    BY <1>0, AppendCommits
  <2>4. QED
    BY <1>2, <2>1, <2>2, <2>3
<1>3. ASSUME NEW x \in ToSet(remote'), NEW c \in Children, x.op = "merge", c \in x.who
      PROVE  x = Commit("merge", {c})
  BY <1>0, <1>2, <1>3 DEF MergeFresh, Commit
<1>4. ASSUME NEW x \in ToSet(local') \cup ToSet(remote'), NEW c \in Children, c \in x.who
      PROVE  x.op \in {"merge", "log"}
  <2>1. CASE x \in ToSet(local) \cup ToSet(remote)
    BY <1>0, <1>4, <2>1 DEF MergeFresh
  <2>2. CASE x \notin ToSet(local) \cup ToSet(remote) /\ x \in ToSet(remote')
    BY <1>2, <1>4, <2>2 DEF Commit
  <2>3. CASE x \notin ToSet(local) \cup ToSet(remote) /\ x \in ToSet(local')
    BY <1>0, <2>3 DEF Traced
  <2>4. QED
    BY <2>1, <2>2, <2>3
<1>5. QED
  BY <1>1, <1>3, <1>4 DEF MergeFresh

(* No step repeats a merge or an entry on either branch.                   *)
LEMMA NextDistinct ==
  ASSUME PInv, EntriesHold, OnceInv, [Next]_vars
  PROVE  Distinct(local)' /\ Distinct(remote)'
<1>0. /\ Types /\ local \in History /\ remote \in History /\ dirty \subseteq Children
      /\ Distinct(local) /\ Distinct(remote) /\ EntryFresh /\ MergeFresh
  BY DEF PInv, Types, OnceInv
<1>1. CASE local' \in {local, remote} /\ remote' \in {local, remote}
  BY <1>0, <1>1 DEF Distinct
<1>2. CASE UNCHANGED local /\ remote' = Append(remote, Commit("other", {}))
  <2> DEFINE x == Commit("other", {})
  <2>1. x \in Commits /\ \A y : ~ Alike(y, x)
    BY DEF Commit, Commits, Alike
  <2> HIDE DEF x
  <2>2. Distinct(Append(remote, x))
    BY <1>0, <2>1, DistinctAppend
  <2>3. QED
    BY <1>0, <1>2, <2>2 DEF x, Distinct
<1>3. ASSUME UNCHANGED local, NEW c \in Children, ~ Merged(c), remote' = Append(remote, Commit("merge", {c}))
      PROVE  Distinct(local)' /\ Distinct(remote)'
  <2> DEFINE x == Commit("merge", {c})
  <2>1. x \in Commits /\ x.op = "merge" /\ x.who = {c}
    BY DEF Commit, Commits
  <2>2. \A y \in ToSet(remote) : ~ Alike(y, x)
    BY <1>0, <1>3, <2>1 DEF Alike, MergeFresh, Merged
  <2> HIDE DEF x
  <2>3. Distinct(Append(remote, x))
    BY <1>0, <2>1, <2>2, DistinctAppend
  <2>4. QED
    BY <1>0, <1>3, <2>3 DEF x, Distinct
<1>4. CASE UNCHANGED remote /\ local' = Append(local, Commit("log", dirty))
  <2> DEFINE x == Commit("log", dirty)
  <2>1. x \in Commits /\ x.op = "log" /\ x.who = dirty
    BY <1>0 DEF Commit, Commits
  <2> HIDE DEF x
  <2>2. \A y \in ToSet(local) : ~ Alike(y, x)
    BY <1>0, <2>1 DEF Alike, EntryFresh, Names
  <2>3. Distinct(Append(local, x))
    BY <1>0, <2>1, <2>2, DistinctAppend
  <2>4. QED
    BY <1>0, <1>4, <2>3 DEF x, Distinct
<1>5. ASSUME NEW c \in Children, Rebase(c) PROVE Distinct(local)' /\ Distinct(remote)'
  <2>1. UNCHANGED remote /\ pm[c].phase = "parent_push_pending"
    BY <1>5 DEF Rebase, Stale, Pushing
  <2>2. Shared(pm[c].base)
    BY <2>1 DEF PInv, EvidenceHolds, Holds, Synced, Closed, Committed, Pushes
  <2>3. PICK t \in History : /\ local' = remote \o t /\ Distinct(t)
                             /\ \A x \in ToSet(t) : x \in ToSet(local) /\ x \notin ToSet(remote)
    BY <1>0, <1>5, <2>2, RebasedPicks
  <2>4. ASSUME NEW y \in ToSet(remote), NEW z \in ToSet(t), Alike(y, z) PROVE FALSE
    <3>1. y.op \in {"head", "merge", "log", "other"} /\ z.op = y.op /\ z \in ToSet(local) /\ z \notin ToSet(remote)
      <4>1. y \in Commits
        BY <1>0, CommitsOf DEF History
      <4>2. QED
        BY <2>3, <2>4, <4>1 DEF Commits, Alike
    <3>2. CASE y.op = "log"
      <4>1. y \in ToSet(local)
        BY <3>2 DEF EntriesHold
      <4>2. PICK i \in 1..Len(local), j \in 1..Len(local) : y = local[i] /\ z = local[j]
        BY <1>0, <3>1, <4>1, CommitsOf
      <4>3. i = j
        BY <1>0, <2>4, <4>2 DEF Distinct
      <4>4. QED
        BY <3>1, <4>2, <4>3
    <3>3. CASE y.op # "log"
      <4>1. y.op = "merge"
        BY <1>0, <2>4, <3>3 DEF Alike, MergeFresh
      <4>2. QED
        BY <1>0, <3>1, <4>1 DEF MergeFresh
    <3>4. QED
      BY <3>2, <3>3
  <2>5. Distinct(remote \o t)
    BY <1>0, <2>3, <2>4, DistinctConcat
  <2>6. QED
    BY <1>0, <2>1, <2>3, <2>5 DEF Distinct
<1>6. QED
  BY <1>1, <1>2, <1>3, <1>4, <1>5, NextBranches

LEMMA InitOnce == Init => OnceInv
<1> SUFFICES ASSUME Init PROVE OnceInv
  OBVIOUS
<1>1. /\ Len(local) = 0 /\ Len(remote) = 0
      /\ \A x : x \notin ToSet(local) /\ x \notin ToSet(remote)
  BY DEF Init, ToSet
<1>2. dirty = {}
  BY DEF Init
<1>3. QED
  BY <1>1, <1>2 DEF OnceInv, Distinct, EntryFresh, MergeFresh

(* Each child is merged at most once and entered in the changelog at most  *)
(* once, in the parent worktree and on the remote branch.                  *)
DoneOnce == Distinct(local) /\ Distinct(remote)

(* A request that is sent again after its answer was lost, a push that is  *)
(* replayed, a sync or a rebase that finds its own commits on the remote   *)
(* branch, and a person who merges or closes first: none of them merges a  *)
(* child or enters it in the changelog a second time                       *)
(* (_execute_direct_merge_intent, _run_issue_close, postMergeChangelogCore *)
(* and postMergeRemoteReconcileCore).                                      *)
THEOREM NothingTwice == Spec => []DoneOnce
<1>1. PInv /\ EntriesHold /\ OnceInv /\ [Next]_vars => OnceInv'
  BY NextEntryFresh, NextMergeFresh, NextDistinct DEF OnceInv
<1>2. PInv /\ EntriesHold /\ [Next]_vars => EntriesHold'
  BY NextEntries
<1>3. OnceInv => DoneOnce
  BY DEF OnceInv, DoneOnce
<1>4. QED
  BY <1>1, <1>2, <1>3, InitEntries, InitOnce, EvidenceTrue, PTL DEF Spec
-----------------------------------------------------------------------------
(***************************************************************************)
(* The operator gates of a failed issue close.  A gate is opened, answered *)
(* and removed by writes of their own, next to the checkpoints that record *)
(* failures and retries; an approved gate may stay behind for good.  An    *)
(* answer is still only good for the failure it was asked for.             *)
(***************************************************************************)

(* Every gate belongs to a failure on record, and the operator is asked    *)
(* about the failure in force only while its attempt is the current one.   *)
GateFits ==
  \A c \in Children :
    /\ \A g \in Tries : gate[c][g] # "none" => g \in 1..pm[c].fgen
    /\ gate[c][pm[c].fgen] = "pending" => FailedAttempt(pm[c])

(* Nothing has been tried before the close is requested.                   *)
BeforeClose == {"not_started", "remote_merge_adopted", "parent_branch_synced"}
FirstFresh ==
  \A c \in Children :
    pm[c].phase \in BeforeClose =>
      pm[c].attempt = 0 /\ pm[c].fgen = 0 /\ pm[c].fattempt = 0

SameTries(s, t) ==
  s.attempt = t.attempt /\ s.fgen = t.fgen /\ s.fattempt = t.fattempt

(* What a pass holds in memory is the state on disk, or the state before   *)
(* the retry it authorized; before it goes on, the approval is removed.    *)
HeldFits ==
  held # None =>
    LET c == held.child
        s == held.pm
    IN  /\ \/ SameTries(s, pm[c])
           \/ /\ FailedAttempt(s) /\ pm[c].attempt = s.attempt + 1
              /\ pm[c].fgen = s.fgen /\ pm[c].fattempt = s.fattempt
              /\ \/ held.step = "clear" /\ held.gens = {s.fgen}
                 \/ held.step = "run" /\ gate[c][s.fgen] = "none"
        /\ held.step \in {"abandon", "gate"} =>
             SameTries(s, pm[c]) /\ FailedAttempt(s) /\ s.fgen > 0

GateInv == GateFits /\ FirstFresh /\ HeldFits

(* A new attempt is the first, or answers the approval of the failure in   *)
(* force and puts that failure out of force; and a failure that comes into *)
(* force, for the first time or again, comes without an answer.            *)
Approved ==
  \A c \in Children :
    LET s == pm[c]
        t == pm'[c]
    IN  /\ t.attempt > s.attempt =>
             \/ s.phase = "parent_branch_synced"
             \/ /\ FailedAttempt(s) /\ gate[c][s.fgen] = "approved"
                /\ t.attempt = s.attempt + 1 /\ ~ FailedAttempt(t)
        /\ FailedAttempt(t) /\ (FailedAttempt(s) => t.fgen # s.fgen) =>
             gate'[c][t.fgen] = "none"

LEMMA GateTypes ==
  ASSUME PInv, GatesTyped
  PROVE  /\ pm \in [Children -> Evidence]
         /\ gate \in [Children -> [Tries -> GateSet]]
         /\ \A c \in Children : /\ pm[c] \in Evidence
                                /\ pm[c].attempt \in Nat
                                /\ pm[c].fgen \in Tries
                                /\ pm[c].fgen \in Nat
         /\ held # None => /\ held.child \in Children
                           /\ held.pm.attempt \in Nat /\ held.pm.fgen \in Nat
                           /\ held.pm.phase = pm[held.child].phase
BY FewTries DEF PInv, Types, Evidence, HeldSame, Same, GatesTyped

(* A step without news for the gates.                                      *)
LEMMA GateQuiet ==
  ASSUME PInv, GatesTyped, GateInv, UNCHANGED <<pm, gate>>,
         held' = held \/ held' = None
  PROVE  GateInv' /\ Approved
<1>1. Approved
  BY GateTypes DEF Approved, FailedAttempt
<1>2. GateFits' /\ FirstFresh'
  BY DEF GateInv, GateFits, FirstFresh, FailedAttempt
<1>3. HeldFits'
  BY DEF GateInv, HeldFits, SameTries, FailedAttempt
<1>4. QED
  BY <1>1, <1>2, <1>3 DEF GateInv

(* A checkpoint of c that leaves the failures and attempts alone.          *)
LEMMA GateMove ==
  ASSUME PInv, GatesTyped, GateInv, NEW c \in Children, NEW s,
         pm' = [pm EXCEPT ![c] = s], gate' = gate, SameTries(s, pm[c]),
         s.phase \in BeforeClose => pm[c].phase \in BeforeClose,
         \/ held' = None
         \/ /\ held'.child = c /\ held'.pm = s
            /\ held'.step \in {"run", "clear"}
  PROVE  GateInv' /\ Approved
<1>1. pm'[c] = s /\ \A d \in Children : d # c => pm'[d] = pm[d]
  BY GateTypes
<1>2. \A d \in Children : SameTries(pm'[d], pm[d])
  BY <1>1 DEF SameTries
<1>3. Approved
  BY <1>2, GateTypes DEF Approved, SameTries, FailedAttempt
<1>4. GateFits'
  BY <1>2 DEF GateInv, GateFits, SameTries, FailedAttempt
<1>5. FirstFresh'
  BY <1>1, <1>2 DEF GateInv, FirstFresh, SameTries
<1>6. HeldFits'
  BY <1>1 DEF HeldFits, SameTries
<1>7. QED
  BY <1>3, <1>4, <1>5, <1>6 DEF GateInv

(* _block_post_merge_recovery takes back a retry it authorized.            *)
LEMMA GateBlock ==
  ASSUME PInv, GatesTyped, GateInv, NEW c \in Children, Running(c), Block(c),
         gate' = gate
  PROVE  GateInv' /\ Approved
<1>1. PICK s : s = Held(c).pm
  OBVIOUS
<1>2. pm' = [pm EXCEPT ![c] = s] /\ held' = None
  BY <1>1 DEF Block
<1>3. CASE held = None
  <2>1. s = pm[c] /\ SameTries(s, pm[c])
    BY <1>1, <1>3 DEF Held, SameTries
  <2>2. QED
    BY <1>2, <2>1, GateMove
<1>4. CASE held # None
  <2>1. /\ held.child = c /\ held.step = "run" /\ s = held.pm
        /\ s.phase = pm[c].phase
    BY <1>1, <1>4, GateTypes DEF Held, Running
  <2>2. CASE SameTries(s, pm[c])
    BY <1>2, <2>1, <2>2, GateMove
  <2>3. CASE ~ SameTries(s, pm[c])
    <3>1. /\ FailedAttempt(s) /\ pm[c].attempt = s.attempt + 1
          /\ pm[c].fgen = s.fgen /\ pm[c].fattempt = s.fattempt
          /\ gate[c][s.fgen] = "none" /\ s.attempt \in Nat
      BY <1>4, <2>1, <2>3, GateTypes DEF GateInv, HeldFits
    <3>2. pm'[c] = s /\ \A d \in Children : d # c => pm'[d] = pm[d]
      BY <1>2, GateTypes
    <3>3. Approved
      BY <3>1, <3>2, GateTypes DEF Approved, FailedAttempt
    <3>4. GateFits'
      BY <3>1, <3>2 DEF GateInv, GateFits, FailedAttempt
    <3>5. pm[c].phase \notin BeforeClose
      BY <3>1, GateTypes DEF GateInv, FirstFresh
    <3>6. FirstFresh'
      BY <2>1, <3>2, <3>5 DEF GateInv, FirstFresh
    <3>7. HeldFits'
      BY <1>2 DEF HeldFits
    <3>8. QED
      BY <3>3, <3>4, <3>6, <3>7 DEF GateInv
  <2>4. QED
    BY <2>2, <2>3
<1>5. QED
  BY <1>3, <1>4

(* The write of a new failure (_record_issue_close_failure): its gate is   *)
(* opened two writes later.                                                *)
LEMMA GateFails ==
  ASSUME PInv, GatesTyped, GateInv, NEW c \in Children, Running(c),
         Closing(c), RecordFailure(c)
  PROVE  GateInv' /\ Approved
<1>1. PICK s : s = IssueCloseFailed(Held(c).pm)
  OBVIOUS
<1>2. /\ pm' = [pm EXCEPT ![c] = s] /\ gate' = gate /\ s.fgen <= MaxTries
      /\ held' = [child |-> c, step |-> "abandon", lane |-> lane, pm |-> s,
                  gens |-> {}]
  BY <1>1 DEF RecordFailure
<1>3. PICK h : h = Held(c).pm
  OBVIOUS
<1>4. h \in Evidence /\ h.phase = pm[c].phase
  BY <1>3, HeldPm DEF Same
<1>5. h.attempt \in Nat /\ h.fgen \in Nat
  BY <1>4, FewTries DEF Evidence
<1>6. h.fgen = pm[c].fgen /\ h.attempt <= pm[c].attempt
  <2>1. CASE held = None
    BY <1>3, <1>5, <2>1 DEF Held
  <2>2. CASE held # None
    BY <1>3, <1>5, <2>2, GateTypes DEF Held, Running, GateInv, HeldFits, SameTries
  <2>3. QED
    BY <2>1, <2>2
<1>7. /\ s.fgen = pm[c].fgen + 1 /\ FailedAttempt(s)
      /\ s.attempt <= pm[c].attempt /\ s.attempt \in Nat
      /\ s.phase = "issue_close_pending"
  <2>1. s = [h EXCEPT !.fgen = @ + 1, !.fattempt = h.attempt]
    BY <1>1, <1>3 DEF IssueCloseFailed
  <2>2. /\ s.fgen = h.fgen + 1 /\ s.fattempt = h.attempt
        /\ s.attempt = h.attempt /\ s.phase = h.phase
    BY <1>4, <2>1 DEF Evidence
  <2>3. QED
    BY <1>4, <1>5, <1>6, <2>2 DEF FailedAttempt, Closing
<1>8. pm'[c] = s /\ \A d \in Children : d # c => pm'[d] = pm[d]
  BY <1>2, GateTypes
<1>9. gate[c][s.fgen] = "none"
  <2>1. s.fgen \in Tries /\ s.fgen \notin 1..pm[c].fgen
    BY <1>2, <1>7, GateTypes, BoundsAreNaturals DEF Tries
  <2>2. QED
    BY <2>1 DEF GateInv, GateFits
<1>10. GateFits'
  <2>1. \A g : g \in 1..pm[c].fgen => g \in 1..s.fgen
    BY <1>7, GateTypes
  <2>2. QED
    BY <1>2, <1>7, <1>8, <2>1 DEF GateInv, GateFits, FailedAttempt
<1>11. FirstFresh'
  BY <1>7, <1>8 DEF GateInv, FirstFresh, BeforeClose
<1>12. HeldFits'
  <2>1. /\ held'.child = c /\ held'.pm = s /\ held'.step = "abandon"
        /\ s.fgen > 0
    BY <1>2, <1>7, GateTypes
  <2>2. QED
    BY <1>7, <1>8, <2>1 DEF HeldFits, SameTries
<1>13. Approved
  BY <1>2, <1>7, <1>8, <1>9, GateTypes DEF Approved, FailedAttempt
<1>14. QED
  BY <1>10, <1>11, <1>12, <1>13 DEF GateInv

(* A retry puts the failure out of force before its gate is removed.       *)
LEMMA GateRetry ==
  ASSUME PInv, GatesTyped, GateInv, NEW c \in Children, AuthorizeRetry(c)
  PROVE  GateInv' /\ Approved
<1>1. PICK s : s = IssueCloseRetryAuthorized(pm[c])
  OBVIOUS
<1>2. /\ pm' = [pm EXCEPT ![c] = s] /\ gate' = gate
      /\ gate[c][pm[c].fgen] = "approved"
      /\ held' = [child |-> c, step |-> "clear", lane |-> lane, pm |-> pm[c],
                  gens |-> {pm[c].fgen}]
      /\ FailedAttempt(pm[c]) /\ Closing(c)
  BY <1>1 DEF AuthorizeRetry
<1>3. /\ s.attempt = pm[c].attempt + 1 /\ s.fgen = pm[c].fgen
      /\ s.fattempt = pm[c].fattempt /\ s.phase = pm[c].phase
  BY <1>1, GateTypes DEF IssueCloseRetryAuthorized, Evidence
<1>4. pm'[c] = s /\ \A d \in Children : d # c => pm'[d] = pm[d]
  BY <1>2, GateTypes
<1>5. ~ FailedAttempt(s)
  BY <1>2, <1>3, GateTypes DEF FailedAttempt
<1>6. GateFits'
  BY <1>2, <1>3, <1>4 DEF GateInv, GateFits, FailedAttempt
<1>7. FirstFresh'
  BY <1>2, <1>3, <1>4 DEF GateInv, FirstFresh, BeforeClose, Closing
<1>8. HeldFits'
  <2>1. /\ held'.child = c /\ held'.pm = pm[c] /\ held'.step = "clear"
        /\ held'.gens = {pm[c].fgen}
    BY <1>2
  <2>2. QED
    BY <1>2, <1>3, <1>4, <2>1 DEF HeldFits, SameTries, FailedAttempt
<1>9. Approved
  BY <1>2, <1>3, <1>4, <1>5, GateTypes DEF Approved, FailedAttempt
<1>10. QED
  BY <1>6, <1>7, <1>8, <1>9 DEF GateInv

(* The removal of one gate.                                                *)
LEMMA GateCleared ==
  ASSUME PInv, GatesTyped, GateInv, NEW c \in Children, ClearGate(c)
  PROVE  GateInv' /\ Approved
<1>1. PICK g \in held.gens :
        /\ gate' = [gate EXCEPT ![c][g] = "none"]
        /\ held' = IF held.gens # {g} THEN [held EXCEPT !.gens = @ \ {g}]
                   ELSE IF Closing(c) THEN [held EXCEPT !.step = "run",
                                                        !.gens = {}]
                   ELSE None
  BY DEF ClearGate
<1>2. /\ held # None /\ held.child = c /\ held.step = "clear" /\ pm' = pm
      /\ held = [child |-> held.child, step |-> held.step,
                 lane |-> held.lane, pm |-> held.pm, gens |-> held.gens]
  BY DEF ClearGate, PInv, Inv, HeldSound
<1>3. \A d \in Children, n \in Tries :
        gate'[d][n] = gate[d][n] \/ gate'[d][n] = "none"
  <2>1. \A d \in Children : d # c => gate'[d] = gate[d]
    BY <1>1, GateTypes
  <2>2. gate'[c] = [gate[c] EXCEPT ![g] = "none"] /\ gate[c] \in [Tries -> GateSet]
    BY <1>1, GateTypes
  <2>3. \A n \in Tries : gate'[c][n] = gate[c][n] \/ gate'[c][n] = "none"
    BY <2>2
  <2>4. QED
    BY <2>1, <2>3
<1>4. g \in Tries => gate'[c][g] = "none"
  BY <1>1, GateTypes
<1>5. GateFits' /\ FirstFresh'
  BY <1>2, <1>3, GateTypes DEF GateInv, GateFits, FirstFresh, FailedAttempt
<1>6. Approved
  BY <1>2, GateTypes DEF Approved, FailedAttempt
<1>7. HeldFits'
  <2>1. CASE SameTries(held.pm, pm[c])
    <3>1. held' = None \/ (held'.child = c /\ held'.pm = held.pm
                           /\ held'.step \in {"run", "clear"})
      BY <1>1, <1>2
    <3>2. QED
      BY <1>2, <2>1, <3>1 DEF HeldFits, SameTries
  <2>2. CASE ~ SameTries(held.pm, pm[c])
    <3>1. /\ FailedAttempt(held.pm) /\ pm[c].attempt = held.pm.attempt + 1
          /\ pm[c].fgen = held.pm.fgen /\ pm[c].fattempt = held.pm.fattempt
          /\ held.gens = {held.pm.fgen}
      BY <1>2, <2>2 DEF GateInv, HeldFits
    <3>2. g = held.pm.fgen /\ held.gens = {g} /\ g \in Tries
      BY <1>2, <3>1, GateTypes
    <3>3. held' = None \/ (held'.child = c /\ held'.pm = held.pm
                           /\ held'.step = "run")
      BY <1>1, <1>2, <3>2
    <3>4. QED
      BY <1>2, <1>4, <3>1, <3>2, <3>3 DEF HeldFits, SameTries, FailedAttempt
  <2>3. QED
    BY <2>1, <2>2
<1>8. QED
  BY <1>5, <1>6, <1>7 DEF GateInv

LEMMA GateCloseOut ==
  ASSUME PInv, GatesTyped, GateInv, NEW c \in Children, CloseOut(c)
  PROVE  GateInv' /\ Approved
<1>0. pm[c] \in Evidence
  BY GateTypes
<1>1. CASE RequestIssueClose(c)
  <2>1. PICK s : s = IssueClosePending(pm[c])
    OBVIOUS
  <2>2. /\ pm' = [pm EXCEPT ![c] = s] /\ held' = None /\ gate' = gate
        /\ pm[c].phase = "parent_branch_synced"
    BY <1>1, <2>1 DEF RequestIssueClose, Advance
  <2>3. /\ s.attempt = 1 /\ s.fgen = pm[c].fgen /\ s.fattempt = pm[c].fattempt
        /\ s.phase = "issue_close_pending"
    BY <1>0, <2>1 DEF IssueClosePending, Evidence
  <2>4. pm[c].attempt = 0 /\ pm[c].fgen = 0 /\ pm[c].fattempt = 0
    BY <2>2 DEF GateInv, FirstFresh, BeforeClose
  <2>5. pm'[c] = s /\ \A d \in Children : d # c => pm'[d] = pm[d]
    BY <2>2, GateTypes
  <2>6. gate[c][0] = "none"
    <3>1. 0 \in Tries /\ 0 \notin 1..0
      BY FewTries
    <3>2. QED
      BY <2>4, <3>1 DEF GateInv, GateFits
  <2>7. GateFits' /\ FirstFresh'
    BY <2>2, <2>3, <2>4, <2>5, <2>6
       DEF GateInv, GateFits, FirstFresh, BeforeClose, FailedAttempt
  <2>8. HeldFits'
    BY <2>2 DEF HeldFits
  <2>9. Approved
    BY <2>2, <2>3, <2>4, <2>5, GateTypes DEF Approved, FailedAttempt
  <2>10. QED
    BY <2>7, <2>8, <2>9 DEF GateInv
<1>2. CASE IssueCloseReceipt(c) \/ IssueAlreadyClosed(c) \/ IssueFoundClosed(c)
  <2>1. PICK s : s = IssueCloseConfirmed(pm[c])
    OBVIOUS
  <2>2. pm' = [pm EXCEPT ![c] = s] /\ gate' = gate
    BY <1>2, <2>1
       DEF IssueCloseReceipt, IssueAlreadyClosed, IssueFoundClosed, Advance
  <2>3. SameTries(s, pm[c]) /\ s.phase = "issue_close_confirmed"
    BY <1>0, <2>1 DEF IssueCloseConfirmed, Evidence, SameTries
  <2>4. pm'[c] = s
    BY <2>2, GateTypes
  <2>5. \/ held' = None
        \/ held'.child = c /\ held'.pm = s /\ held'.step = "clear"
    BY <1>2, <2>4
       DEF IssueCloseReceipt, IssueAlreadyClosed, IssueFoundClosed, Advance,
           ThenClear
  <2>6. QED
    BY <2>2, <2>3, <2>5, GateMove DEF BeforeClose
<1>3. CASE IssueStatusFails(c) \/ IssueCloseUnresolved(c)
  BY <1>3, GateFails DEF IssueStatusFails, IssueCloseUnresolved, Running
<1>4. CASE CloseIssue(c) \/ ReconcileClose(c)
  <2>1. \/ Running(c) /\ Closing(c) /\ RecordFailure(c)
        \/ UNCHANGED <<pm, gate>> /\ (held' = held \/ held' = None)
    BY <1>4 DEF CloseIssue, ReconcileClose, store
  <2>2. QED
    BY <2>1, GateFails, GateQuiet
<1>5. CASE AuthorizeRetry(c) \/ ClearGate(c)
  BY <1>5, GateRetry, GateCleared
<1>6. CASE RetryRefused(c)
  BY <1>6, GateBlock DEF RetryRefused, Blocked
<1>7. CASE AbandonAfterFailure(c)
  <2>1. /\ held # None /\ held.step = "abandon" /\ UNCHANGED <<pm, gate>>
        /\ held' = [held EXCEPT !.step = "gate"]
    BY <1>7 DEF AbandonAfterFailure
  <2>2. held = [child |-> held.child, step |-> held.step,
                lane |-> held.lane, pm |-> held.pm, gens |-> held.gens]
    BY <2>1 DEF PInv, Inv, HeldSound
  <2>3. held'.child = held.child /\ held'.pm = held.pm /\ held'.step = "gate"
    BY <2>1, <2>2
  <2>4. HeldFits'
    BY <2>1, <2>3 DEF GateInv, HeldFits, SameTries, FailedAttempt
  <2>5. QED
    BY <2>1, <2>4, GateTypes
       DEF GateInv, GateFits, FirstFresh, FailedAttempt, Approved
<1>8. CASE OpenIssueCloseGate(c)
  <2>1. /\ held # None /\ held.child = c /\ held.step = "gate" /\ pm' = pm
        /\ gate' = [gate EXCEPT ![c][held.pm.fgen] = "pending"]
        /\ held' = None
    BY <1>8 DEF OpenIssueCloseGate
  <2>2. /\ held.pm.fgen = pm[c].fgen /\ pm[c].fgen > 0
        /\ FailedAttempt(pm[c])
    BY <2>1 DEF GateInv, HeldFits, SameTries, FailedAttempt
  <2>3. /\ \A d \in Children : d # c => gate'[d] = gate[d]
        /\ gate'[c] = [gate[c] EXCEPT ![pm[c].fgen] = "pending"]
    BY <2>1, <2>2, GateTypes
  <2>4. \A n \in Tries : gate'[c][n] # gate[c][n] => n = pm[c].fgen
    BY <2>3, GateTypes
  <2>5. \A n \in Tries : gate'[c][n] # "none" => n \in 1..pm[c].fgen
    BY <2>2, <2>4, GateTypes DEF GateInv, GateFits
  <2>6. GateFits' /\ FirstFresh' /\ HeldFits'
    BY <2>1, <2>2, <2>3, <2>5
       DEF GateInv, GateFits, FirstFresh, HeldFits, FailedAttempt
  <2>7. QED
    BY <2>1, <2>6, GateTypes DEF GateInv, Approved, FailedAttempt
<1>9. QED
  BY <1>1, <1>2, <1>3, <1>4, <1>5, <1>6, <1>7, <1>8 DEF CloseOut

LEMMA GateBookkeeping ==
  ASSUME PInv, GatesTyped, GateInv, NEW c \in Children, Bookkeeping(c)
  PROVE  GateInv' /\ Approved
<1>0. pm[c] \in Evidence
  BY GateTypes
<1>1. CASE CommitChangelog(c) \/ Push(c) \/ Rebase(c)
  BY <1>1, GateQuiet DEF CommitChangelog, Push, Rebase, store
<1>2. ASSUME NEW s, pm' = [pm EXCEPT ![c] = s], held' = None, gate' = gate,
             SameTries(s, pm[c]), s.phase \notin BeforeClose
      PROVE  GateInv' /\ Approved
  BY <1>2, GateMove
<1>3. CASE RequestChangelog(c)
  <2>1. PICK s : /\ s = ChangelogPending(pm[c]) /\ held' = None
                 /\ pm' = [pm EXCEPT ![c] = s] /\ gate' = gate
    BY <1>3 DEF RequestChangelog, Advance
  <2>2. SameTries(s, pm[c]) /\ s.phase \notin BeforeClose
    BY <1>0, <2>1 DEF ChangelogPending, Evidence, SameTries, BeforeClose
  <2>3. QED
    BY <1>2, <2>1, <2>2
<1>4. CASE AdoptChangelog(c)
  <2>1. PICK s : /\ s = ChangelogCommitted(pm[c], pm[c].intent,
                                           jr[ChangelogKey(c)].commit)
                 /\ pm' = [pm EXCEPT ![c] = s] /\ gate' = gate
                 /\ held' = None
    BY <1>4 DEF AdoptChangelog, Advance
  <2>2. SameTries(s, pm[c]) /\ s.phase \notin BeforeClose
    BY <1>0, <2>1 DEF ChangelogCommitted, Evidence, SameTries, BeforeClose
  <2>3. QED
    BY <1>2, <2>1, <2>2
<1>5. CASE RequestPush(c)
  <2>1. PICK s : /\ s = ParentPushPending(pm[c], PushGen(pm[c]), rec[c],
                                          lane.epoch)
                 /\ pm' = [pm EXCEPT ![c] = s] /\ gate' = gate
                 /\ held' = None
    BY <1>5 DEF RequestPush, Advance
  <2>2. SameTries(s, pm[c]) /\ s.phase \notin BeforeClose
    BY <1>0, <2>1 DEF ParentPushPending, Evidence, SameTries, BeforeClose
  <2>3. QED
    BY <1>2, <2>1, <2>2
<1>6. CASE AdoptPush(c)
  <2>1. PICK s : /\ s = PostMergeComplete(pm[c]) /\ held' = None
                 /\ pm' = [pm EXCEPT ![c] = s] /\ gate' = gate
    BY <1>6 DEF AdoptPush, Advance
  <2>2. SameTries(s, pm[c]) /\ s.phase \notin BeforeClose
    BY <1>0, <2>1 DEF PostMergeComplete, Evidence, SameTries, BeforeClose
  <2>3. QED
    BY <1>2, <2>1, <2>2
<1>7. CASE AdoptRebuild(c)
  <2> DEFINE e == jr[RebuildKey(c)]
             r == Rebuilt(c, e.base)
             q == ChangelogCommitted(r, pm[c].gen + 1, e.commit)
             s == [q EXCEPT !.epoch = lane.epoch + 1]
             F == {"attempt", "fgen", "fattempt", "phase"}
  <2>1. pm' = [pm EXCEPT ![c] = s] /\ held' = None /\ gate' = gate
    BY <1>7 DEF AdoptRebuild, Advance
  <2> HIDE DEF e
  <2>2. SameTries(r, pm[c]) /\ F \subseteq DOMAIN r
    BY <1>0 DEF Rebuilt, Rebuild, Evidence, SameTries
  <2> HIDE DEF r
  <2>3. SameTries(q, r) /\ F \subseteq DOMAIN q /\ q.phase = "changelog_committed"
    BY <2>2 DEF ChangelogCommitted, SameTries
  <2> HIDE DEF q
  <2>4. SameTries(s, q) /\ s.phase = q.phase
    BY <2>3 DEF SameTries
  <2> HIDE DEF s
  <2>5. SameTries(s, pm[c]) /\ s.phase \notin BeforeClose
    BY <2>2, <2>3, <2>4 DEF SameTries, BeforeClose
  <2>6. QED
    BY <1>2, <2>1, <2>5
<1>8. CASE ChangelogFails(c) \/ ChangelogRefused(c) \/ PushRefused(c)
           \/ RebaseRefused(c) \/ RebaseConflicts(c)
  BY <1>8, GateBlock DEF ChangelogFails, ChangelogRefused, PushRefused,
                         RebaseRefused, RebaseConflicts, Stale, Blocked, Running
<1>9. CASE EnsureLane(c)
  <2>1. /\ UNCHANGED <<pm, gate>> /\ Running(c)
        /\ held' = IF Pushing(c) THEN Held(c) ELSE held
    BY <1>9 DEF EnsureLane, KeepHeld
  <2>2. CASE held' = held
    BY <2>1, <2>2, GateQuiet
  <2>3. CASE held = None /\ held' = Held(c)
    <3>1. held'.child = c /\ held'.step = "run" /\ held'.pm = pm[c]
      BY <2>3 DEF Held
    <3>2. pm' = [pm EXCEPT ![c] = pm[c]] /\ SameTries(pm[c], pm[c])
      BY <2>1, GateTypes DEF SameTries
    <3>3. QED
      BY <2>1, <3>1, <3>2, GateMove
  <2>4. QED
    BY <2>1, <2>2, <2>3 DEF Held
<1>10. QED
  BY <1>1, <1>3, <1>4, <1>5, <1>6, <1>7, <1>8, <1>9 DEF Bookkeeping

LEMMA NextGate ==
  ASSUME PInv, GatesTyped, GateInv, [Next]_vars
  PROVE  GateInv' /\ Approved
<1>1. ASSUME NEW c \in Children, Merge(c), ~ Adopt(c)
      PROVE  UNCHANGED <<pm, gate, held>>
  BY <1>1 DEF Merge, ReserveLane, StartIntegration, BeginMerge, MergeRefused,
              MergeUnknown
<1>2. ASSUME NEW c \in Children, MergeLands(c) \/ HumanActs(c)
      PROVE  UNCHANGED <<pm, gate, held>>
  BY <1>2 DEF MergeLands, HumanActs, store
<1>3. ASSUME NEW c \in Children, Adopt(c) PROVE GateInv' /\ Approved
  <2>1. PICK s : /\ s = MergeAdopted(pm[c], AdoptionEpoch) /\ held' = None
                 /\ pm' = [pm EXCEPT ![c] = s] /\ gate' = gate
                 /\ status[c] # "merged"
    BY <1>3 DEF Adopt
  <2>2. SameTries(s, pm[c])
    BY <2>1, GateTypes DEF MergeAdopted, Evidence, SameTries
  <2>3. pm[c].phase \in BeforeClose
    BY <2>1 DEF PInv, Unmerged, BeforeClose
  <2>4. QED
    BY <2>1, <2>2, <2>3, GateMove
<1>4. ASSUME NEW c \in Children, ParentSync(c) PROVE GateInv' /\ Approved
  <2>1. PICK s : /\ s = ParentBranchSynced(pm[c]) /\ held' = None
                 /\ pm' = [pm EXCEPT ![c] = s] /\ gate' = gate
                 /\ pm[c].phase = "remote_merge_adopted"
    BY <1>4 DEF ParentSync, Advance
  <2>2. SameTries(s, pm[c]) /\ pm[c].phase \in BeforeClose
    BY <2>1, GateTypes DEF ParentBranchSynced, Evidence, SameTries, BeforeClose
  <2>3. QED
    BY <2>1, <2>2, GateMove
<1>5. ASSUME NEW c \in Children, ParentSyncFails(c) PROVE GateInv' /\ Approved
  <2>1. \/ UNCHANGED <<pm, gate, held>>
        \/ Running(c) /\ Block(c) /\ gate' = gate
    BY <1>5 DEF ParentSyncFails, Running, store
  <2>2. QED
    BY <2>1, GateQuiet, GateBlock
<1>6. ASSUME NEW c \in Children, ApproveGate(c) PROVE GateInv' /\ Approved
  <2>1. PICK g \in Unanswered(c) : gate' = [gate EXCEPT ![c][g] = "approved"]
    BY <1>6 DEF ApproveGate
  <2>2. g \in Tries /\ gate[c][g] = "pending" /\ UNCHANGED <<pm, held>>
    BY <1>6, <2>1 DEF ApproveGate, Unanswered, Tries
  <2>3. /\ \A d \in Children : d # c => gate'[d] = gate[d]
        /\ gate'[c] = [gate[c] EXCEPT ![g] = "approved"]
    BY <2>1, GateTypes
  <2>4. \A d \in Children, n \in Tries :
          \/ gate'[d][n] = gate[d][n]
          \/ d = c /\ n = g /\ gate'[d][n] = "approved"
    BY <2>3, GateTypes
  <2>5. GateFits' /\ FirstFresh'
    BY <2>2, <2>4, GateTypes
       DEF GateInv, GateFits, FirstFresh, FailedAttempt
  <2>6. \A d \in Children, n \in Tries :
          gate[d][n] = "none" => gate'[d][n] = "none"
    BY <2>2, <2>4
  <2>7. HeldFits'
    BY <2>2, <2>6, GateTypes DEF GateInv, HeldFits, SameTries, FailedAttempt
  <2>8. QED
    BY <2>2, <2>5, <2>7, GateTypes DEF GateInv, Approved, FailedAttempt
<1>7. CASE UNCHANGED vars \/ Crash \/ ForeignPush
           \/ \E k \in Keys : ResolveEntry(k)
  <2>1. UNCHANGED <<pm, gate>> /\ (held' = held \/ held' = None)
    BY <1>7 DEF vars, store, Crash, ForeignPush, ResolveEntry
  <2>2. QED
    BY <2>1, GateQuiet
<1>8. QED
  BY <1>1, <1>2, <1>3, <1>4, <1>5, <1>6, <1>7, GateQuiet, GateCloseOut,
     GateBookkeeping DEF Next, Pass

LEMMA InitGate == Init => GateInv
<1>1. Init => GateFits /\ FirstFresh
  BY DEF Init, GateFits, FirstFresh, NotStarted, Tries, FailedAttempt
<1>2. QED
  BY <1>1 DEF Init, GateInv, HeldFits

(* No question without its failure: every issue-close gate belongs to a    *)
(* failure on record, and the one about the failure in force is open only  *)
(* while no retry has superseded it, although failures, gates and retries  *)
(* are separate writes with crashes and write-backs of older states in     *)
(* between (_record_issue_close_failure, store.clear_gate,                 *)
(* _block_post_merge_recovery).                                            *)
THEOREM GateOfItsFailure == Spec => []GateFits
<1>1. PInv /\ GatesTyped /\ GateInv /\ [Next]_vars => GateInv'
  BY NextGate
<1>2. GateInv => GateFits
  BY DEF GateInv
<1>3. QED
  BY <1>1, <1>2, InitGate, EvidenceTrue, GatesAreTyped, PTL DEF Spec

(* The controller never retries an issue close by itself, and one approval *)
(* serves one retry: the retry puts its failure out of force before the    *)
(* approved gate is removed, a gate that a crash leaves behind serves      *)
(* nobody, and a failure that a blocked pass brings back has no answer     *)
(* (_run_issue_close, driver.py:11340-11367).                              *)
THEOREM RetryIsApproved == Spec => [][Approved]_vars
<1>1. PInv /\ GatesTyped /\ GateInv /\ [Next]_vars => GateInv' /\ [Approved]_vars
  BY NextGate
<1>2. QED
  BY <1>1, InitGate, EvidenceTrue, GatesAreTyped, PTL DEF Spec
-----------------------------------------------------------------------------
(***************************************************************************)
(* Lane epochs.  They are meant to grow with every reservation; the state  *)
(* that a blocked pass writes back may be older than its reservation.      *)
(***************************************************************************)

(* The epoch handed out last is taken back only by the pass that handed it *)
(* out to its own child, which leaves the lane idle.                       *)
EpochsKept ==
  \/ lane'.last >= lane.last
  \/ /\ held # None /\ held.step = "run" /\ held.child = lane.child
     /\ lane'.phase = "idle" /\ lane'.last = held.lane.last

(* Every event of the reducer but a reservation keeps the last epoch.      *)
LEMMA LastKept ==
  ASSUME NEW l, Sound(l), NEW head, NEW push, NEW commit, NEW base
  PROVE  /\ Start(l, head).last = l.last
         /\ Recover(l).last = l.last /\ Resolve(l).last = l.last
         /\ Bookkeep(l, push, commit, base).last = l.last
         /\ Idled(l).last = l.last
<1>1. LaneShape(l)
  BY DEF Sound
<1>2. "last" \in DOMAIN l
  BY <1>1, FieldsShape DEF LaneFields
<1>3. QED
  BY <1>2 DEF Start, Recover, Resolve, Bookkeep, Idled, IdleLane

LEMMA AbandonKeepsLast ==
  ASSUME NEW l, Sound(l), NEW c
  PROVE  AbandonOwned(l, c).last = l.last
BY LastKept DEF AbandonOwned

LEMMA ReserveLast ==
  ASSUME NEW l, NEW c, NEW e, NEW base
  PROVE  Reserve(l, c, e, base).last = e
BY DEF Reserve, IdleLane

(* A blocked child.                                                        *)
LEMMA BlockEpoch ==
  ASSUME Inv, NEW c \in Children, Running(c), Block(c)
  PROVE  EpochsKept
<1>0. lane.last \in Nat
  BY BoundsAreNaturals DEF Inv, Sound
<1>1. CASE Held(c).lane = lane
  <2>1. lane'.last = lane.last
    BY <1>1, AbandonKeepsLast DEF Block, Inv
  <2>2. QED
    BY <1>0, <2>1 DEF EpochsKept
<1>2. CASE Held(c).lane # lane
  <2>1. /\ held # None /\ held.child = c /\ held.step = "run" /\ Held(c) = held
        /\ Sound(held.lane) /\ lane.child = c /\ held.lane.child \in {None, c}
    BY <1>2 DEF Held, Running, Inv, HeldSound
  <2>2. PICK l : l = held.lane
    OBVIOUS
  <2>3. lane' = AbandonOwned(l, c) /\ Sound(l) /\ l.child \in {None, c}
    BY <2>1, <2>2 DEF Block
  <2>4. lane'.last = l.last
    BY <2>3, AbandonKeepsLast
  <2>5. lane'.phase = "idle"
    <3>1. CASE l.child = c
      BY <2>3, <3>1, AbandonSound
    <3>2. CASE l.child = None
      BY <2>3, <3>2, AbandonSound, NoneIsNoChild DEF Sound
    <3>3. QED
      BY <2>3, <3>1, <3>2
  <2>6. QED
    BY <2>1, <2>2, <2>4, <2>5 DEF EpochsKept
<1>3. QED
  BY <1>1, <1>2

LEMMA NextEpoch ==
  ASSUME Inv, [Next]_vars
  PROVE  EpochsKept
<1>0. Sound(lane) /\ lane.last \in Nat /\ lane.last + 1 >= lane.last
  BY BoundsAreNaturals DEF Inv, Sound
<1>1. CASE lane'.last = lane.last \/ lane'.last = lane.last + 1
  BY <1>0, <1>1 DEF EpochsKept
<1>2. ASSUME NEW c \in Children, Merge(c) PROVE EpochsKept
  <2>1. \/ \E base : lane' = Reserve(lane, c, lane.last + 1, base)
        \/ lane' = lane \/ lane' = Start(lane, PrHead(c)) \/ lane' = AbandonOwned(lane, c)
        \/ lane' = Recover(lane) \/ lane' = Resolve(lane)
    BY <1>2 DEF Merge, ReserveLane, EnsureCandidateLane, StartIntegration, BeginMerge, MergeRefused, MergeUnknown, Adopt
  <2>2. QED
    BY <1>0, <1>1, <2>1, LastKept, AbandonKeepsLast, ReserveLast
<1>3. ASSUME NEW c \in Children, CloseOut(c) PROVE EpochsKept
  <2>1. CASE RetryRefused(c)
    BY <2>1, BlockEpoch DEF RetryRefused, Blocked
  <2>2. CASE AbandonAfterFailure(c)
    <3>1. lane' = AbandonOwned(lane, c)
      BY <2>2 DEF AbandonAfterFailure, Inv, HeldSound
    <3>2. QED
      BY <1>0, <1>1, <3>1, AbandonKeepsLast
  <2>3. CASE ~ RetryRefused(c) /\ ~ AbandonAfterFailure(c)
    <3>1. lane' = lane
      BY <1>3, <2>3 DEF CloseOut, RequestIssueClose, IssueCloseReceipt, IssueAlreadyClosed, IssueStatusFails,
                        IssueFoundClosed, ReconcileClose, ClearGate,
                        IssueCloseUnresolved, AuthorizeRetry, CloseIssue, RecordFailure, OpenIssueCloseGate, store
    <3>2. QED
      BY <1>1, <3>1
  <2>4. QED
    BY <2>1, <2>2, <2>3
<1>4. ASSUME NEW c \in Children, ParentSync(c) \/ ParentSyncFails(c) PROVE EpochsKept
  <2>1. lane' = lane \/ (Running(c) /\ Block(c))
    BY <1>4 DEF ParentSync, ParentSyncFails, Running, store
  <2>2. QED
    BY <1>1, <2>1, BlockEpoch
<1>5. ASSUME NEW c \in Children, Bookkeeping(c) PROVE EpochsKept
  <2>1. CASE ChangelogFails(c) \/ ChangelogRefused(c) \/ PushRefused(c) \/ RebaseRefused(c) \/ RebaseConflicts(c)
    <3>1. Running(c) /\ Block(c)
      BY <2>1 DEF ChangelogFails, ChangelogRefused, PushRefused, RebaseRefused, RebaseConflicts, Blocked, Running, Stale
    <3>2. QED
      BY <3>1, BlockEpoch
  <2>2. CASE RequestChangelog(c) \/ CommitChangelog(c) \/ AdoptChangelog(c) \/ Push(c) \/ Rebase(c)
    <3>1. lane' = lane
      BY <2>2 DEF RequestChangelog, CommitChangelog, AdoptChangelog, Push, Rebase, store
    <3>2. QED
      BY <1>1, <3>1
  <2>3. CASE EnsureLane(c) \/ RequestPush(c) \/ AdoptPush(c)
    <3>1. \/ \E base : lane' = Reserve(lane, c, lane.last + 1, base)
          \/ lane' = Start(lane, PrHead(c)) \/ lane' = Idled(lane)
          \/ \E push, commit, base : lane' = Bookkeep(lane, push, commit, base)
      BY <2>3 DEF EnsureLane, EnsureCandidateLane, RequestPush, AdoptPush
    <3>2. QED
      BY <1>0, <1>1, <3>1, LastKept, ReserveLast
  <2>4. CASE AdoptRebuild(c)
    <3>1. PICK base, head :
            /\ LaneReady(c) /\ lane.epoch < MaxEpoch
            /\ lane' = Start(Reserve(Recover(lane), c, lane.epoch + 1, base), head)
      BY <2>4 DEF AdoptRebuild, Stale
    <3>2. lane.epoch = lane.last /\ lane.epoch + 1 \in 1..MaxEpoch
      BY <1>0, <3>1, BoundsAreNaturals DEF LaneReady, Sound
    <3> DEFINE l == Reserve(Recover(lane), c, lane.epoch + 1, base)
    <3>3. Sound(l) /\ l.last = lane.last + 1
      BY <3>2, ReserveSound, ReserveLast
    <3> HIDE DEF l
    <3>4. lane'.last = l.last
      BY <3>1, <3>3, LastKept DEF l
    <3>5. QED
      BY <1>1, <3>3, <3>4
  <2>5. QED
    BY <1>5, <2>1, <2>2, <2>3, <2>4 DEF Bookkeeping
<1>6. ASSUME NEW c \in Children, MergeLands(c) \/ ApproveGate(c) \/ HumanActs(c) PROVE lane' = lane
  BY <1>6 DEF MergeLands, ApproveGate, HumanActs, store
<1>7. CASE UNCHANGED vars \/ Crash \/ ForeignPush \/ \E k \in Keys : ResolveEntry(k)
  BY <1>1, <1>7 DEF vars, store, Crash, ForeignPush, ResolveEntry
<1>8. QED
  BY <1>1, <1>2, <1>3, <1>4, <1>5, <1>6, <1>7 DEF Next, Pass

(* Lane epochs grow, with one exception: a pass that reserved the lane for *)
(* a pending push and then blocks writes the lane back as it was before,   *)
(* and the same epoch is handed out again (_ensure_bookkeeping_lane and    *)
(* _block_post_merge_recovery).  No epoch of another child is ever taken   *)
(* back, and nobody owns the lane when one is.                             *)
THEOREM EpochsTakenBack == Spec => [][EpochsKept]_vars
<1>1. Inv /\ [Next]_vars => [EpochsKept]_vars
  BY NextEpoch
<1>2. QED
  BY <1>1, LaneInvariant, PTL DEF Spec
=============================================================================
