---------------------------- MODULE GuidanceQueue ----------------------------
(***************************************************************************)
(* The durable guidance queue of exomonad-core                             *)
(* (rust/exomonad-core/src/services/guidance_queue.rs): one SQLite table   *)
(* of batches, leased to consumers at an agent's turn boundaries.          *)
(*                                                                         *)
(* Every public operation runs in one IMMEDIATE transaction, so it is one  *)
(* action.  A call that the code answers with an error or with Rejected    *)
(* changes no row and is a stuttering step; calls that commit a partial    *)
(* effect (a claim that finds nothing but recovers expired leases) are     *)
(* actions.                                                                *)
(*                                                                         *)
(* Time is relative.  The code compares the absolute columns available_at  *)
(* and lease_expires_at with now; a row here keeps the distances           *)
(*     wait = max(0, available_at - now),                                  *)
(*     left = max(0, lease_expires_at - now)                               *)
(* and Tick lets a second pass.  The comparisons `available_at <= now' and *)
(* `lease_expires_at <= now' become wait = 0 and left = 0.                 *)
(***************************************************************************)
EXTENDS Integers, FiniteSets

CONSTANTS Batches,      \* the batch_id's (UUIDs) that may be drawn
          Agents,       \* target agents
          Consumers,    \* consumer ids
          Keys,         \* idempotency keys
          Invocations,  \* the (invocation_id, generation) pairs of a runtime
          None,         \* SQL NULL / Option::None
          MaxRetryAttempts,   \* MAX_RETRY_ATTEMPTS
          MaxRetryBackoff,    \* MAX_RETRY_BACKOFF_SECONDS
          MaxLease            \* MAX_LEASE_SECONDS

ASSUME NoneAssumption ==
  None \notin Agents \cup Consumers \cup Keys \cup Invocations

ASSUME BoundsAssumption ==
  /\ MaxRetryAttempts \in Nat \ {0}
  /\ MaxRetryBackoff \in Nat \ {0}
  /\ MaxLease \in Nat \ {0}

VARIABLE row   \* guidance_batches: batch_id -> columns

vars == <<row>>
-----------------------------------------------------------------------------
(* QueueClass and GuidanceState.  An id that has not been drawn yet has    *)
(* state "absent".                                                         *)
Classes  == {"steering", "follow_up"}
Active   == {"leased", "submitted"}
Terminal == {"accepted", "abandoned", "cancelled"}
States   == {"absent", "pending"} \cup Active \cup Terminal

Row == [state : States, agent : Agents \cup {None}, class : Classes,
        seq : Nat, key : Keys \cup {None},
        invocation : Invocations \cup {None},
        wait : Nat, owner : Consumers \cup {None}, left : Nat,
        attempts : Nat]

AbsentRow == [state |-> "absent", agent |-> None, class |-> "steering",
              seq |-> 0, key |-> None, invocation |-> None,
              wait |-> 0, owner |-> None, left |-> 0, attempts |-> 0]

Stored     == {b \in Batches : row[b].state # "absent"}
RowsOf(a)  == {b \in Stored : row[b].agent = a}
-----------------------------------------------------------------------------
(* retry_backoff_seconds: 1 << clamp(attempts, 0, 8), at most the maximum. *)
Shl == <<1, 2, 4, 8, 16, 32, 64, 128, 256>>

retry_backoff_seconds(attempts) ==
  LET shifted == Shl[(IF attempts > 8 THEN 8 ELSE attempts) + 1]
  IN  IF shifted > MaxRetryBackoff THEN MaxRetryBackoff ELSE shifted

(* Mutant: the budget is compared with > instead of >=.                    *)
Requeued_OverBudget(r, delay) ==
  [r EXCEPT !.state = IF r.attempts > MaxRetryAttempts
                      THEN "abandoned" ELSE "pending",
            !.wait  = delay, !.owner = None, !.left = 0]

(* Mutant: a batch that is offered again starts its budget afresh.         *)
Requeued_Resets(r, delay) ==
  [r EXCEPT !.state = IF r.attempts >= MaxRetryAttempts
                      THEN "abandoned" ELSE "pending",
            !.wait  = delay, !.owner = None, !.left = 0, !.attempts = 0]

(* The row an abandoned-or-requeued batch becomes: recover_expired_in_tx   *)
(* and release_for_retry clear the lease in both cases.                    *)
Requeued(r, delay) ==
  [r EXCEPT !.state = IF r.attempts >= MaxRetryAttempts
                      THEN "abandoned" ELSE "pending",
            !.wait  = delay, !.owner = None, !.left = 0]

(* Mutant: recovery forgets the submitted batches.                         *)
Expired_LeasedOnly(r) == r.state = "leased" /\ r.left = 0

Expired(r) == r.state \in Active /\ r.left = 0

(* recover_expired_in_tx: every expired lease, of every agent.             *)
Recovered ==
  [b \in Batches |->
     IF Expired(row[b])
     THEN Requeued(row[b], IF row[b].attempts >= MaxRetryAttempts THEN 0
                           ELSE retry_backoff_seconds(row[b].attempts))
     ELSE row[b]]

-----------------------------------------------------------------------------
Init == row = [b \in Batches |-> AbsentRow]

(* Mutant: the sequence number counts the live batches of the agent.       *)
next_queue_seq_CountLive(a, n) ==
  n = Cardinality({b \in RowsOf(a) : row[b].state \notin Terminal})

(* The next queue_seq of an agent: COALESCE(MAX(queue_seq), -1) + 1.       *)
next_queue_seq(a, n) ==
  /\ \A b \in RowsOf(a) : row[b].seq < n
  /\ n = 0 \/ \E b \in RowsOf(a) : row[b].seq = n - 1

(* enqueue_batch: a fresh batch unless the agent already has one with the  *)
(* idempotency key (then the call returns that row, or fails when the      *)
(* class differs; both leave the table alone).                             *)
enqueue_batch(b, a, class, key, invocation) ==
  /\ row[b].state = "absent"
  /\ key # None => \A o \in RowsOf(a) : row[o].key # key
  /\ \E n \in 0..Cardinality(Batches) :
       /\ next_queue_seq(a, n)
       /\ row' = [row EXCEPT ![b] =
            [state |-> "pending", agent |-> a, class |-> class, seq |-> n,
             key |-> key, invocation |-> invocation, wait |-> 0,
             owner |-> None, left |-> 0, attempts |-> 0]]

(* The batches a boundary phase may offer, after recovery has produced rw. *)
Offered(rw, a, phase) ==
  {b \in Batches : /\ rw[b].state = "pending"
                   /\ rw[b].agent = a
                   /\ rw[b].wait = 0
                   /\ phase = "turn_finished" => rw[b].class = "steering"}

(* Mutant: a submitted batch no longer counts as out with a consumer.      *)
HasActiveLease_LeasedOnly(rw, a) ==
  \E b \in Batches : /\ rw[b].agent = a
                     /\ rw[b].state = "leased"
                     /\ rw[b].left > 0

HasActiveLease(rw, a) ==
  \E b \in Batches : /\ rw[b].agent = a
                     /\ rw[b].state \in Active
                     /\ rw[b].left > 0

(* Mutant: follow-ups are not held back.                                   *)
SteeringBlocked_Never(rw, a, phase) == FALSE

(* At would_stop a steering batch that is still backing off blocks the     *)
(* follow-ups behind it.                                                   *)
SteeringBlocked(rw, a, phase) ==
  LET steering == {b \in Batches : /\ rw[b].agent = a
                                   /\ rw[b].class = "steering"
                                   /\ rw[b].state = "pending"}
  IN  /\ phase = "would_stop"
      /\ steering # {}
      /\ \A b \in steering : rw[b].wait > 0

(* ORDER BY class (steering first), queue_seq LIMIT 1.                     *)
Precedes(rw, b, o) ==
  \/ rw[b].class = "steering" /\ rw[o].class = "follow_up"
  \/ rw[b].class = rw[o].class /\ rw[b].seq <= rw[o].seq

(* What claim_next leases, in the rows rw that recovery has produced.      *)
Claimable(rw, a, phase) ==
  {b \in Offered(rw, a, phase) :
     /\ ~ HasActiveLease(rw, a)
     /\ ~ SteeringBlocked(rw, a, phase)
     /\ \A o \in Offered(rw, a, phase) : Precedes(rw, b, o)}

(* The row of a claimed batch; COALESCE keeps the invocation that the      *)
(* sender wrote when the consumer names none.                              *)
Leased(r, c, invocation, lease) ==
  [r EXCEPT !.state = "leased", !.owner = c, !.left = lease,
            !.invocation = IF invocation = None THEN r.invocation
                           ELSE invocation]

(* claim_next at a phase that can offer work; other phases return before   *)
(* the transaction.  lease is clamped to 1..MAX_LEASE_SECONDS.             *)
claim_next(a, phase, c, invocation, lease) ==
  LET found == Claimable(Recovered, a, phase)
  IN  row' = [b \in Batches |->
                IF b \in found THEN Leased(Recovered[b], c, invocation, lease)
                ELSE Recovered[b]]

(* record_transport_attempt: the lease owner's submission, which renews    *)
(* the lease.  Neither the deadline nor the invocation is looked at.       *)
record_transport_attempt(b, c) ==
  /\ row[b].state = "leased"
  /\ row[b].owner = c
  /\ row' = [row EXCEPT ![b].state = "submitted",
                        ![b].attempts = @ + 1,
                        ![b].left = MaxRetryBackoff]

(* evidence_matches_batch, for evidence that names the batch's own agent,  *)
(* class and items.                                                        *)
evidence_matches_batch(r, c, invocation) ==
  /\ r.owner = None \/ r.owner = c
  /\ r.invocation = invocation

(* acknowledge_runtime, the accepting path: exact evidence that matches a  *)
(* leased or submitted batch.                                              *)
acknowledge_runtime(b, c, invocation, confidence) ==
  /\ row[b].state \in Active
  /\ evidence_matches_batch(row[b], c, invocation)
  /\ confidence = "exact"
  /\ row[b].owner = c
  /\ row' = [row EXCEPT ![b].state = "accepted",
                        ![b].owner = None, ![b].left = 0]

(* Mutant: next_attempt_at is not raised to now.                           *)
release_for_retry_Past(b, c, next) ==
  /\ row[b].state \in Active
  /\ row[b].owner = c
  /\ row' = [row EXCEPT ![b] = Requeued(row[b], next)]

(* release_for_retry: the owner gives the batch back, to be offered at     *)
(* max(next_attempt_at, now); next is relative to now.                     *)
release_for_retry(b, c, next) ==
  /\ row[b].state \in Active
  /\ row[b].owner = c
  /\ row' = [row EXCEPT ![b] = Requeued(row[b], IF next > 0 THEN next ELSE 0)]

(* Mutant: an accepted batch can still be cancelled.                       *)
cancel_batch_Accepted(b) ==
  /\ row[b].state \in {"pending", "accepted"} \cup Active
  /\ row' = [row EXCEPT ![b].state = "cancelled",
                        ![b].owner = None, ![b].left = 0]

(* cancel_batch: terminal batches are left alone.                          *)
cancel_batch(b) ==
  /\ row[b].state \in {"pending"} \cup Active
  /\ row' = [row EXCEPT ![b].state = "cancelled",
                        ![b].owner = None, ![b].left = 0]

(* recover_expired_leases, at process start (delivery.rs, agent_inbox.rs). *)
recover_expired_leases ==
  /\ \E b \in Batches : Expired(row[b])
  /\ row' = Recovered

(* A second of wall-clock time.                                            *)
Tick ==
  /\ \E b \in Batches : row[b].wait > 0 \/ row[b].left > 0
  /\ row' = [b \in Batches |->
       [row[b] EXCEPT !.wait = IF @ > 0 THEN @ - 1 ELSE 0,
                      !.left = IF @ > 0 THEN @ - 1 ELSE 0]]
-----------------------------------------------------------------------------
Boundaries   == {"turn_finished", "would_stop"}
Confidences  == {"exact", "inferred", "unknown"}
OrNone(S)    == S \cup {None}

Enqueue == \E b \in Batches, a \in Agents, class \in Classes,
              k \in OrNone(Keys), i \in OrNone(Invocations) :
             enqueue_batch(b, a, class, k, i)
Claim   == \E a \in Agents, phase \in Boundaries, c \in Consumers,
              i \in OrNone(Invocations), lease \in 1..MaxLease :
             claim_next(a, phase, c, i, lease)
Submit  == \E b \in Batches, c \in Consumers : record_transport_attempt(b, c)
Ack     == \E b \in Batches, c \in Consumers, i \in OrNone(Invocations),
              conf \in Confidences : acknowledge_runtime(b, c, i, conf)
Release == \E b \in Batches, c \in Consumers, d \in (-1)..MaxRetryBackoff :
             release_for_retry(b, c, d)
Cancel  == \E b \in Batches : cancel_batch(b)

Next == Enqueue \/ Claim \/ Submit \/ Ack \/ Release \/ Cancel
        \/ recover_expired_leases \/ Tick

Spec == Init /\ [][Next]_vars
-----------------------------------------------------------------------------
(* Type invariant: the schema of guidance_batches.                         *)
TypeOK == row \in [Batches -> Row]

(* A lease has an owner, a batch without a lease has neither owner nor     *)
(* deadline: every path that leaves leased/submitted clears both columns.  *)
LeaseConsistent ==
  \A b \in Batches :
    IF row[b].state \in Active THEN row[b].owner \in Consumers
                               ELSE row[b].owner = None /\ row[b].left = 0

(* At most one batch of an agent is out with a consumer, whatever mixture  *)
(* of expiry, restart, retry and competing consumers led here: claim_next  *)
(* recovers before it looks for a live lease.                              *)
OneLeasePerAgent ==
  \A b, o \in Batches :
    /\ row[b].state \in Active /\ row[o].state \in Active
    /\ row[b].agent = row[o].agent
    => b = o

(* The retry budget bounds transport submissions: a batch at its budget is *)
(* never offered again, so it is never submitted once more.                *)
BudgetRespected ==
  \A b \in Batches :
    /\ row[b].attempts <= MaxRetryAttempts
    /\ row[b].state \in {"pending", "leased"}
         => row[b].attempts < MaxRetryAttempts

(* UNIQUE (agent_id, queue_seq) and UNIQUE (agent_id, idempotency_key)     *)
(* never make an enqueue fail: the allocation keeps both by itself.        *)
QueueIdentity ==
  \A b, o \in Stored :
    b # o /\ row[b].agent = row[o].agent
      => /\ row[b].seq # row[o].seq
         /\ row[b].key = None \/ row[b].key # row[o].key

KeepsTerminalRows ==
  \A b \in Batches :
    row[b].state \in Terminal =>
      [row'[b] EXCEPT !.wait = 0] = [row[b] EXCEPT !.wait = 0]

(* accepted, abandoned and cancelled rows are never changed again, by late *)
(* acknowledgements, retries or recovery ("Accepted batches are stable").  *)
(* Only the clock still runs on an abandoned row's available_at.           *)
TerminalStable == [][KeepsTerminalRows]_vars

LeasesFollowUpLast ==
  \A b, o \in Batches :
    /\ row[b].state # "leased" /\ row'[b].state = "leased"
    /\ row'[b].class = "follow_up"
    /\ row'[o].agent = row'[b].agent /\ row'[o].class = "steering"
    => row'[o].state # "pending"

(* A follow-up is leased only when no steering batch of the agent waits,   *)
(* not even one that is backing off or that this very claim recovered.     *)
NoLeapfrogOfSteering == [][LeasesFollowUpLast]_vars

(* The constants of a drawn batch: what no operation but enqueue sets.     *)
SameIdentity(r, s) ==
  /\ s.agent = r.agent /\ s.class = r.class
  /\ s.seq = r.seq /\ s.key = r.key

LeaseHonoured ==
  \A b \in Batches :
    row[b].state \in Active =>
      /\ row'[b].state \in Active =>
           row'[b].owner = row[b].owner /\ row'[b].invocation = row[b].invocation
      /\ Claim \/ recover_expired_leases =>
           IF row[b].left > 0 THEN row'[b] = row[b]
                              ELSE row'[b].state \notin Active

(* A batch that is out does not pass from one consumer, or invocation, to  *)
(* another in one step.  Claims and recoveries, whosever they are, leave a *)
(* lease with time left alone and put back or abandon every expired one:   *)
(* a consumer that died is not left holding its batch (claim_next,         *)
(* recover_expired_in_tx).                                                 *)
LeasesKept == [][LeaseHonoured]_vars

AttemptsCounted ==
  \A b \in Stored :
    /\ row'[b].state # "absent" /\ SameIdentity(row[b], row'[b])
    /\ row'[b].attempts =
         IF row[b].state = "leased" /\ row'[b].state = "submitted"
         THEN row[b].attempts + 1 ELSE row[b].attempts

(* A stored row keeps its identity, and its attempts count its transport   *)
(* submissions over its whole life: no claim, release, recovery or restart *)
(* resets them or counts twice (record_transport_attempt,                  *)
(* release_for_retry, recover_expired_in_tx).                              *)
SubmissionsCounted == [][AttemptsCounted]_vars
=============================================================================
