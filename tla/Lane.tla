-------------------------------- MODULE Lane --------------------------------
(***************************************************************************)
(* The repository lane of the team-lead loop: the reducer of               *)
(* tl_loop/fsm/lane_transition.py.  A lane serialises the merges and the   *)
(* bookkeeping pushes of one parent branch; it has at most one owner.      *)
(*                                                                         *)
(* An event that the reducer refuses (ValueError) is a false CanX; X is    *)
(* the lane after an event it accepts.  A commit sha is a value of the     *)
(* module that uses the lane.  The push intent and the push journal id are *)
(* both hashes of child and bookkeeping generation: one field, push, holds *)
(* the generation.  The merge journal id is a hash of the child's merge    *)
(* and stands or falls with child.  Parked lanes are written by no code of *)
(* this version (only read back from old checkpoints) and left out.        *)
(***************************************************************************)
EXTENDS Integers

CONSTANTS Children,     \* slice ids
          None          \* Python's None

ASSUME NoneIsNoChild == None \notin Children

ActivePhases == {"reserved", "integrating", "bookkeeping"}
LanePhases   == {"idle", "recovery"} \cup ActivePhases

(* LaneState(repository, parent_branch): what an absent record stands for. *)
IdleLane ==
  [phase |-> "idle", child |-> None, epoch |-> None, base |-> None,
   head |-> None, push |-> None, commit |-> None, last |-> 0]

(* _reserve_lane                                                           *)
CanReserve(l, c, e) ==
  /\ l.phase \in {"idle", "recovery"}
  /\ l.phase = "recovery" => l.child \in {None, c}
  /\ e > l.last

Reserve(l, c, e, base) ==
  [IdleLane EXCEPT !.phase = "reserved", !.child = c, !.epoch = e,
                   !.base = base, !.last = e]

(* _start_integration, _reenter_integration: re-entry needs the same head. *)
CanStart(l, c, head) ==
  /\ l.child = c
  /\ \/ l.phase = "reserved"
     \/ l.phase = "integrating" /\ l.head = head

Start(l, head) == [l EXCEPT !.phase = "integrating", !.head = head]

(* _start_bookkeeping: once in bookkeeping the base is pinned.             *)
CanBookkeep(l, c, base) ==
  /\ l.child = c
  /\ \/ l.phase = "integrating"
     \/ l.phase = "bookkeeping" /\ l.base = base

Bookkeep(l, push, commit, base) ==
  [l EXCEPT !.phase = "bookkeeping", !.push = push, !.commit = commit,
            !.base = base]

(* _release_lane: a receipt correlated with every coordinate of the lane.  *)
CanRelease(l, receipt) ==
  /\ l.phase = "bookkeeping"
  /\ receipt = [child |-> l.child, epoch |-> l.epoch, push |-> l.push,
                base |-> l.base, commit |-> l.commit]

(* Mutant: the release keeps its owner.                                    *)
Idled_KeepsChild(l) == [l EXCEPT !.phase = "idle", !.epoch = None]

(* Mutant: the lane is parked, as earlier versions did.                    *)
Idled_Parked(l) == [l EXCEPT !.phase = "parked"]

(* _abandon_lane and _release_lane clear every coordinate; the epoch that  *)
(* was handed out last is kept.                                            *)
Idled(l) == [IdleLane EXCEPT !.last = l.last]

(* LaneRecoveryRequested                                                   *)
Recover(l) == [l EXCEPT !.phase = "recovery"]

(* _resolve_recovery: the merge that was found must be the one started.    *)
CanResolve(l, c, head) == l.phase = "recovery" /\ l.child = c /\ l.head = head

Resolve(l) == [l EXCEPT !.phase = "integrating"]
=============================================================================
