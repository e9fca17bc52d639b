---------------------------- MODULE MCParentLane ----------------------------
(* Instances of ParentLane for TLC.                                        *)
EXTENDS ParentLane, TLC

Perms == Permutations(Children)

(* The loop keeps running passes and an operator keeps answering gates;    *)
(* the forge answers a merge request.                                      *)
FairSpec ==
  /\ Spec
  /\ \A c \in Children : /\ WF_vars(Pass(c)) /\ WF_vars(MergeLands(c))
                         /\ WF_vars(ApproveGate(c))

=============================================================================
