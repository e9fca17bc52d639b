--------------------------- MODULE MCReviewWatcher ---------------------------
(* Instances of ReviewWatcher for TLC.                                     *)
EXTENDS ReviewWatcher
=============================================================================
