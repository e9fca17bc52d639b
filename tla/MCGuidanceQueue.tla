--------------------------- MODULE MCGuidanceQueue ---------------------------
(* Instances of GuidanceQueue for TLC.                                     *)
EXTENDS GuidanceQueue, TLC

(* No operation tells batches, agents or consumers apart by name.          *)
Perms == Permutations(Batches) \cup Permutations(Agents)
         \cup Permutations(Consumers)
=============================================================================
