-------------------------------- MODULE Mailbox --------------------------------
(***************************************************************************)
(* What a teams inbox promises its senders: a message whose write has      *)
(* returned Ok stays in the mailbox until the recipient has seen it.  The  *)
(* promise is waived from the moment a lock is taken from a live process.  *)
(***************************************************************************)
EXTENDS FiniteSets

CONSTANT Messages

VARIABLES box,     \* the messages in the mailbox
          seen,    \* those the recipient has ever marked as read
          acked,   \* those whose sender was told Ok
          waived

vars == <<box, seen, acked, waived>>

Init == box = {} /\ seen = {} /\ acked = {} /\ waived = FALSE

Post(m) ==
  /\ m \notin box \cup acked
  /\ box' = box \cup {m}
  /\ UNCHANGED <<seen, acked, waived>>

Ack(m) ==
  /\ m \in box \cup seen
  /\ acked' = acked \cup {m}
  /\ UNCHANGED <<box, seen, waived>>

See(m) ==
  /\ m \in box
  /\ seen' = seen \cup {m}
  /\ UNCHANGED <<box, acked, waived>>

(* Compaction forgets messages that were seen.                             *)
Forget ==
  /\ box' \subseteq box
  /\ box \ box' \subseteq seen
  /\ UNCHANGED <<seen, acked, waived>>

Waived == waived' = TRUE

Next == (\E m \in Messages : Post(m) \/ Ack(m) \/ See(m)) \/ Forget \/ Waived

Spec == Init /\ [][Next]_vars
=============================================================================
