---------------------------- MODULE MCPlanRevision ----------------------------
EXTENDS PlanRevision

CONSTANTS p1, p2, p3, root, child

(* The root manifest holds the digests of all others and changes with      *)
(* every plan; p3 is the one that changes the child.                       *)
MCManifest ==
  [p \in Plans |-> [s \in Scopes |-> IF s = root \/ p = p3 THEN p ELSE p1]]

MCPlace == [s \in Scopes |-> IF s = root THEN 1 ELSE 0]
=============================================================================
