------------------------- MODULE GuidanceQueueProofs -------------------------
(***************************************************************************)
(* Proofs about the durable guidance queue, for any number of batches,     *)
(* agents and consumers and any retry and lease bounds.                    *)
(***************************************************************************)
EXTENDS GuidanceQueue, TLAPS

(* The inductive invariant.  OneLeasePerAgent needs QueueIdentity (the     *)
(* batch that claim_next selects is unique because sequence numbers are)   *)
(* and LeaseConsistent; BudgetRespected stands by itself.                  *)
Inv == /\ TypeOK
       /\ LeaseConsistent
       /\ BudgetRespected
       /\ QueueIdentity
       /\ OneLeasePerAgent

(* LeaseConsistent and BudgetRespected for one row.                        *)
RowLocal(r) ==
  /\ IF r.state \in Active THEN r.owner \in Consumers
                           ELSE r.owner = None /\ r.left = 0
  /\ r.attempts <= MaxRetryAttempts
  /\ r.state \in {"pending", "leased"} => r.attempts < MaxRetryAttempts

(* The backoff of retry_backoff_seconds is a number of seconds.            *)
LEMMA BackoffIsNat ==
  ASSUME NEW n \in Nat
  PROVE  retry_backoff_seconds(n) \in Nat
<1>1. BoundsAssumption
  BY BoundsAssumption
<1> DEFINE m == IF n > 8 THEN 8 ELSE n
<1>2. m \in 0..8
  OBVIOUS
<1>3. Shl[m + 1] \in Nat
  <2>1. \/ m = 0 \/ m = 1 \/ m = 2 \/ m = 3 \/ m = 4 \/ m = 5 \/ m = 6
        \/ m = 7 \/ m = 8
    BY <1>2
  <2>2. QED
    BY <2>1 DEF Shl
<1>4. QED
  BY <1>1, <1>3 DEF retry_backoff_seconds, BoundsAssumption

(* What recovery does to one row.                                          *)
LEMMA RecoveredRow ==
  ASSUME TypeOK, LeaseConsistent, BudgetRespected, NEW b \in Batches
  PROVE  /\ Recovered[b] \in Row
         /\ SameIdentity(row[b], Recovered[b])
         /\ Recovered[b].attempts = row[b].attempts
         /\ \/ Recovered[b] = row[b] /\ ~ Expired(row[b])
            \/ /\ Recovered[b].state \in {"pending", "abandoned"}
               /\ Recovered[b].owner = None
               /\ Recovered[b].left = 0
               /\ Recovered[b].state = "pending"
                    => Recovered[b].attempts < MaxRetryAttempts
               /\ row[b].state \in Active
<1> DEFINE d == IF row[b].attempts >= MaxRetryAttempts THEN 0
                ELSE retry_backoff_seconds(row[b].attempts)
<1>1. row[b] \in Row
  BY DEF TypeOK
<1>2. d \in Nat
  BY <1>1, BackoffIsNat DEF Row
<1>3. CASE Expired(row[b])
  <2>1. Recovered[b] = Requeued(row[b], d)
    BY <1>3 DEF Recovered
  <2>2. Requeued(row[b], d) \in Row
    BY <1>1, <1>2 DEF Requeued, Row, States, Terminal, Active
  <2>3. QED
    BY <1>1, <1>3, <2>1, <2>2, BoundsAssumption
       DEF Requeued, Row, SameIdentity, Expired, BoundsAssumption
<1>4. CASE ~ Expired(row[b])
  BY <1>1, <1>4 DEF Recovered, SameIdentity
<1>5. QED
  BY <1>3, <1>4

(* A step that leases nothing new, draws no batch and keeps each row well  *)
(* formed preserves the invariant: every operation but enqueue and claim.  *)
LEMMA QuietStep ==
  ASSUME Inv, row' \in [Batches -> Row],
         \A b \in Batches :
           /\ SameIdentity(row[b], row'[b])
           /\ row'[b].state = "absent" <=> row[b].state = "absent"
           /\ row'[b].state \in Active => row[b].state \in Active
           /\ RowLocal(row'[b])
  PROVE  Inv'
<1>1. TypeOK' /\ LeaseConsistent' /\ BudgetRespected'
  BY DEF TypeOK, LeaseConsistent, BudgetRespected, RowLocal
<1>2. QueueIdentity'
  BY DEF Inv, QueueIdentity, Stored, SameIdentity
<1>3. OneLeasePerAgent'
  BY DEF Inv, OneLeasePerAgent, SameIdentity
<1>4. QED
  BY <1>1, <1>2, <1>3 DEF Inv

(* Each row of a state that satisfies the invariant is well formed.        *)
LEMMA InvRow ==
  ASSUME Inv, NEW b \in Batches
  PROVE  row[b] \in Row /\ RowLocal(row[b])
BY DEF Inv, TypeOK, LeaseConsistent, BudgetRespected, RowLocal

(* Recovery keeps the invariant (recover_expired_leases, and the first     *)
(* half of claim_next).                                                    *)
LEMMA RecoveryStep ==
  ASSUME Inv, row' = Recovered
  PROVE  Inv'
<1>1. ASSUME NEW b \in Batches
      PROVE  /\ row'[b] \in Row
             /\ SameIdentity(row[b], row'[b])
             /\ row'[b].state = "absent" <=> row[b].state = "absent"
             /\ row'[b].state \in Active => row[b].state \in Active
             /\ RowLocal(row'[b])
  BY <1>1, RecoveredRow, InvRow DEF Inv, RowLocal, Active, Row
<1>2. row' \in [Batches -> Row]
  BY <1>1 DEF Recovered
<1>3. QED
  BY <1>1, <1>2, QuietStep

(* No batch is expired any more once recovery has run.                     *)
LEMMA RecoveredNotExpired ==
  ASSUME Inv, NEW b \in Batches
  PROVE  Recovered[b].state \in Active
           => Recovered[b] = row[b] /\ row[b].left > 0
<1>1. row[b] \in Row
  BY InvRow
<1>2. QED
  BY <1>1, RecoveredRow DEF Inv, Expired, Active, Row

(* The batch a claim selects is unique: two selected batches precede each  *)
(* other, so they have one class and one sequence number.                  *)
LEMMA ClaimableUnique ==
  ASSUME Inv, NEW a \in Agents, NEW phase \in Boundaries,
         NEW b \in Claimable(Recovered, a, phase),
         NEW o \in Claimable(Recovered, a, phase)
  PROVE  b = o
<1>1. /\ b \in Batches /\ o \in Batches
      /\ Recovered[b].agent = a /\ Recovered[o].agent = a
      /\ Recovered[b].state = "pending" /\ Recovered[o].state = "pending"
      /\ Precedes(Recovered, b, o) /\ Precedes(Recovered, o, b)
  BY DEF Claimable, Offered
<1>2. Recovered[b].seq = Recovered[o].seq
  BY <1>1, RecoveredRow DEF Precedes, Inv, Row
<1>3. b \in Stored /\ o \in Stored
  BY <1>1, RecoveredRow DEF Inv, Stored, Active
<1>4. row[b].seq = row[o].seq /\ row[b].agent = row[o].agent
  BY <1>1, <1>2, RecoveredRow DEF Inv, SameIdentity
<1>5. QED
  BY <1>3, <1>4 DEF Inv, QueueIdentity

(* enqueue_batch draws a new identity, above every sequence number and     *)
(* apart from every key of the agent.                                      *)
LEMMA EnqueueStep ==
  ASSUME Inv, NEW b \in Batches, NEW a \in Agents, NEW class \in Classes,
         NEW k \in OrNone(Keys), NEW i \in OrNone(Invocations),
         enqueue_batch(b, a, class, k, i)
  PROVE  Inv'
<1>1. PICK n \in 0..Cardinality(Batches) :
        /\ next_queue_seq(a, n)
        /\ row' = [row EXCEPT ![b] =
             [state |-> "pending", agent |-> a, class |-> class, seq |-> n,
              key |-> k, invocation |-> i, wait |-> 0,
              owner |-> None, left |-> 0, attempts |-> 0]]
  BY DEF enqueue_batch
<1>2. /\ row'[b] = [state |-> "pending", agent |-> a, class |-> class,
                    seq |-> n, key |-> k, invocation |-> i, wait |-> 0,
                    owner |-> None, left |-> 0, attempts |-> 0]
      /\ \A o \in Batches \ {b} : row'[o] = row[o]
      /\ row[b].state = "absent"
  BY <1>1 DEF Inv, TypeOK, enqueue_batch
<1>3. row'[b] \in Row
  BY <1>2 DEF Row, States, OrNone
<1>4. TypeOK'
  BY <1>1, <1>3 DEF Inv, TypeOK
<1>5. LeaseConsistent' /\ BudgetRespected'
  BY <1>2, BoundsAssumption
     DEF Inv, LeaseConsistent, BudgetRespected, Active, BoundsAssumption
<1>6. QueueIdentity'
  <2> SUFFICES ASSUME NEW p \in Stored', NEW q \in Stored', p # q,
                      row'[p].agent = row'[q].agent
               PROVE  /\ row'[p].seq # row'[q].seq
                      /\ row'[p].key = None \/ row'[p].key # row'[q].key
    BY DEF QueueIdentity
  <2>1. \A o \in Batches \ {b} :
          o \in Stored' /\ row'[o].agent = a
            => row[o].seq < n /\ (k # None => row[o].key # k)
    BY <1>1, <1>2 DEF next_queue_seq, RowsOf, Stored, enqueue_batch
  <2>2. CASE p # b /\ q # b
    BY <2>2, <1>2 DEF Inv, QueueIdentity, Stored
  <2>3. CASE p = b
    <3>1. q \in Batches /\ q # b /\ row[q] \in Row
      BY <2>3, InvRow DEF Stored
    <3>2. QED
      BY <1>2, <2>1, <2>3, <3>1 DEF Row
  <2>4. CASE q = b
    <3>1. p \in Batches /\ p # b /\ row[p] \in Row
      BY <2>4, InvRow DEF Stored
    <3>2. QED
      BY <1>2, <2>1, <2>4, <3>1 DEF Row
  <2>5. QED
    BY <2>2, <2>3, <2>4
<1>7. OneLeasePerAgent'
  BY <1>2 DEF Inv, OneLeasePerAgent, Active
<1>8. QED
  BY <1>4, <1>5, <1>6, <1>7 DEF Inv

(* A claimed row keeps its identity and its attempt count.                 *)
LEMMA LeasedRow ==
  ASSUME NEW r \in Row, NEW c \in Consumers, NEW i \in OrNone(Invocations),
         NEW lease \in 1..MaxLease
  PROVE  LET l == Leased(r, c, i, lease)
         IN  /\ l \in Row
             /\ SameIdentity(r, l)
             /\ l.state = "leased" /\ l.owner = c
             /\ l.attempts = r.attempts
<1> DEFINE inv == IF i = None THEN r.invocation ELSE i
<1>1. inv \in Invocations \cup {None}
  BY DEF Row, OrNone
<1>2. lease \in Nat
  OBVIOUS
<1>3. Leased(r, c, i, lease)
        = [r EXCEPT !.state = "leased", !.owner = c, !.left = lease,
                    !.invocation = inv]
  BY DEF Leased
<1> HIDE DEF inv
<1>4. QED
  BY <1>1, <1>2, <1>3 DEF Row, States, Active, SameIdentity

(* claim_next: recovery first, then at most one new lease, and none while  *)
(* the agent has a live one.                                               *)
LEMMA ClaimStep ==
  ASSUME Inv, NEW a \in Agents, NEW phase \in Boundaries,
         NEW c \in Consumers, NEW i \in OrNone(Invocations),
         NEW lease \in 1..MaxLease, claim_next(a, phase, c, i, lease)
  PROVE  Inv'
<1> DEFINE found == Claimable(Recovered, a, phase)
           leased(b) == Leased(Recovered[b], c, i, lease)
<1>1. /\ row' = [b \in Batches |-> IF b \in found THEN leased(b)
                                   ELSE Recovered[b]]
      /\ found \subseteq Batches
  BY DEF claim_next, Claimable, Offered
<1>2. ASSUME NEW b \in found
      PROVE  /\ leased(b) \in Row
             /\ SameIdentity(row[b], leased(b))
             /\ leased(b).state = "leased" /\ leased(b).owner = c
             /\ leased(b).attempts < MaxRetryAttempts
             /\ row[b].agent = a /\ row[b].state # "absent"
  <2>1. /\ b \in Batches /\ Recovered[b].state = "pending"
        /\ Recovered[b].agent = a
    BY <1>1 DEF Claimable, Offered
  <2>2. Recovered[b] \in Row /\ SameIdentity(row[b], Recovered[b])
    BY <2>1, RecoveredRow DEF Inv
  <2>3. Recovered[b].attempts < MaxRetryAttempts
    BY <2>1, RecoveredRow, InvRow DEF Inv, RowLocal
  <2>4. row[b].agent = a /\ row[b].state # "absent"
    BY <2>1, <2>2, RecoveredRow DEF Inv, SameIdentity, Active
  <2>5. QED
    BY <2>2, <2>3, <2>4, LeasedRow DEF SameIdentity
<1>3. ASSUME NEW b \in Batches
      PROVE  /\ row'[b] \in Row
             /\ SameIdentity(row[b], row'[b])
             /\ row'[b].state = "absent" <=> row[b].state = "absent"
             /\ RowLocal(row'[b])
             /\ b \notin found /\ row'[b].state \in Active
                  => row[b].state \in Active /\ row[b].left > 0
                     /\ row'[b] = row[b] /\ row[b] = Recovered[b]
  <2>1. CASE b \in found
    <3>1. row'[b] = leased(b)
      BY <1>1, <2>1
    <3> HIDE DEF leased
    <3>2. QED
      BY <1>2, <2>1, <3>1, BoundsAssumption
         DEF RowLocal, Row, Active, BoundsAssumption
  <2>2. CASE b \notin found
    <3>1. row'[b] = Recovered[b]
      BY <1>1, <2>2
    <3>2. QED
      BY <3>1, <2>2, RecoveredRow, RecoveredNotExpired, InvRow
         DEF Inv, RowLocal, Active, Row
  <2>3. QED
    BY <2>1, <2>2
<1>4. TypeOK' /\ LeaseConsistent' /\ BudgetRespected'
  BY <1>1, <1>3 DEF TypeOK, LeaseConsistent, BudgetRespected, RowLocal
<1>5. QueueIdentity'
  BY <1>3 DEF Inv, QueueIdentity, Stored, SameIdentity
<1>6. OneLeasePerAgent'
  <2> SUFFICES ASSUME NEW p \in Batches, NEW q \in Batches,
                      row'[p].state \in Active, row'[q].state \in Active,
                      row'[p].agent = row'[q].agent
               PROVE  p = q
    BY DEF OneLeasePerAgent
  <2>1. row[p].agent = row[q].agent
    BY <1>3 DEF SameIdentity
  <2>2. ASSUME NEW x \in found, NEW y \in Batches \ found,
               row'[y].state \in Active, row[x].agent = row[y].agent
        PROVE  FALSE
    <3>1. Recovered[y].agent = a /\ Recovered[y].state \in Active
          /\ Recovered[y].left > 0
      BY <1>2, <1>3, <2>2
    <3>2. HasActiveLease(Recovered, a)
      BY <3>1 DEF HasActiveLease
    <3>3. QED
      BY <3>2, <2>2 DEF Claimable
  <2>3. CASE p \in found /\ q \in found
    BY <2>3, ClaimableUnique
  <2>4. CASE p \notin found /\ q \notin found
    BY <1>3, <2>1, <2>4 DEF Inv, OneLeasePerAgent
  <2>5. QED
    BY <2>1, <2>2, <2>3, <2>4
<1>7. QED
  BY <1>4, <1>5, <1>6 DEF Inv

(* The remaining operations of a consumer, the sender and the clock.       *)
LEMMA OwnerStep ==
  ASSUME Inv, NEW b \in Batches,
         \/ \E c \in Consumers : record_transport_attempt(b, c)
         \/ \E c \in Consumers, i \in OrNone(Invocations),
               conf \in Confidences : acknowledge_runtime(b, c, i, conf)
         \/ \E c \in Consumers, d \in (-1)..MaxRetryBackoff :
               release_for_retry(b, c, d)
         \/ cancel_batch(b)
  PROVE  /\ \A o \in Batches \ {b} : row'[o] = row[o]
         /\ row' \in [Batches -> Row]
         /\ SameIdentity(row[b], row'[b])
         /\ row'[b].state # "absent"
         /\ row[b].state \in {"pending"} \cup Active
         /\ row'[b].state \in Active => row[b].state = "leased"
         /\ RowLocal(row'[b])
<1>1. row \in [Batches -> Row] /\ row[b] \in Row /\ RowLocal(row[b])
  BY InvRow DEF Inv, TypeOK
<1>2. MaxRetryAttempts \in Nat /\ MaxRetryBackoff \in Nat
  BY BoundsAssumption DEF BoundsAssumption
<1>3. ASSUME NEW c \in Consumers, record_transport_attempt(b, c)
      PROVE  row' \in [Batches -> Row]
  BY <1>1, <1>2, <1>3 DEF record_transport_attempt, Row, States, Active
<1>4. CASE \E c \in Consumers : record_transport_attempt(b, c)
  BY <1>1, <1>2, <1>3, <1>4
     DEF record_transport_attempt, Row, RowLocal, SameIdentity, Active
<1>5. CASE \E c \in Consumers, i \in OrNone(Invocations),
             conf \in Confidences : acknowledge_runtime(b, c, i, conf)
  <2>1. row' = [row EXCEPT ![b].state = "accepted",
                           ![b].owner = None, ![b].left = 0]
        /\ row[b].state \in Active
    BY <1>5 DEF acknowledge_runtime
  <2>2. row' \in [Batches -> Row]
    BY <1>1, <2>1 DEF Row, States, Terminal
  <2>3. QED
    BY <1>1, <2>1, <2>2 DEF Row, RowLocal, SameIdentity, Active
<1>6. CASE \E c \in Consumers, d \in (-1)..MaxRetryBackoff :
             release_for_retry(b, c, d)
  <2>0. PICK c \in Consumers, n \in (-1)..MaxRetryBackoff :
          release_for_retry(b, c, n)
    BY <1>6
  <2> DEFINE d == IF n > 0 THEN n ELSE 0
  <2>d. d \in Nat
    BY <1>2
  <2>1. /\ row' = [row EXCEPT ![b] = Requeued(row[b], d)]
        /\ row[b].state \in Active
    BY <2>0 DEF release_for_retry
  <2> HIDE DEF d
  <2>2. Requeued(row[b], d) \in Row
    BY <1>1, <2>d DEF Requeued, Row, States, Terminal, Active
  <2>3. row' \in [Batches -> Row] /\ row'[b] = Requeued(row[b], d)
    BY <1>1, <2>1, <2>2
  <2>4. SameIdentity(row[b], row'[b]) /\ RowLocal(row'[b])
        /\ row'[b].state \in {"pending", "abandoned"}
    BY <1>1, <1>2, <2>3 DEF Requeued, Row, RowLocal, SameIdentity, Active
  <2>5. QED
    BY <1>1, <2>1, <2>3, <2>4 DEF Active
<1>7. CASE cancel_batch(b)
  <2>1. row' \in [Batches -> Row]
    BY <1>1, <1>7 DEF cancel_batch, Row, States, Terminal
  <2>2. QED
    BY <1>1, <1>7, <2>1 DEF cancel_batch, Row, RowLocal, SameIdentity, Active
<1>8. QED
  BY <1>4, <1>5, <1>6, <1>7

LEMMA TickStep ==
  ASSUME Inv, Tick
  PROVE  /\ row' \in [Batches -> Row]
         /\ \A b \in Batches :
              /\ SameIdentity(row[b], row'[b])
              /\ row'[b].state = row[b].state
              /\ row'[b].owner = row[b].owner
              /\ row'[b].attempts = row[b].attempts
              /\ row'[b].invocation = row[b].invocation
              /\ row[b].left = 0 => row'[b].left = 0
<1>1. ASSUME NEW b \in Batches
      PROVE  /\ row'[b] \in Row
             /\ SameIdentity(row[b], row'[b])
             /\ row'[b].state = row[b].state
             /\ row'[b].owner = row[b].owner
             /\ row'[b].attempts = row[b].attempts
             /\ row'[b].invocation = row[b].invocation
             /\ row[b].left = 0 => row'[b].left = 0
  <2>1. row[b] \in Row
    BY InvRow
  <2> DEFINE w == IF row[b].wait > 0 THEN row[b].wait - 1 ELSE 0
             l == IF row[b].left > 0 THEN row[b].left - 1 ELSE 0
  <2>2. w \in Nat /\ l \in Nat /\ (row[b].left = 0 => l = 0)
    BY <2>1 DEF Row
  <2>3. row'[b] = [row[b] EXCEPT !.wait = w, !.left = l]
    BY DEF Tick
  <2> HIDE DEF w, l
  <2>4. QED
    BY <2>1, <2>2, <2>3 DEF Row, SameIdentity
<1>2. QED
  BY <1>1 DEF Tick

(* Every step preserves the inductive invariant.                           *)
LEMMA InvNext ==
  ASSUME Inv, [Next]_vars
  PROVE  Inv'
<1>1. CASE UNCHANGED vars
  BY <1>1 DEF vars, Inv, TypeOK, LeaseConsistent, BudgetRespected,
              QueueIdentity, Stored, OneLeasePerAgent
<1>2. CASE Enqueue
  BY <1>2, EnqueueStep DEF Enqueue
<1>3. CASE Claim
  BY <1>3, ClaimStep DEF Claim
<1>4. CASE Submit \/ Ack \/ Release \/ Cancel
  <2>1. PICK b \in Batches :
          \/ \E c \in Consumers : record_transport_attempt(b, c)
          \/ \E c \in Consumers, i \in OrNone(Invocations),
                conf \in Confidences : acknowledge_runtime(b, c, i, conf)
          \/ \E c \in Consumers, d \in (-1)..MaxRetryBackoff :
                release_for_retry(b, c, d)
          \/ cancel_batch(b)
    BY <1>4 DEF Submit, Ack, Release, Cancel
  <2>2. /\ \A o \in Batches \ {b} : row'[o] = row[o]
        /\ row' \in [Batches -> Row]
        /\ SameIdentity(row[b], row'[b])
        /\ row'[b].state # "absent" /\ row[b].state # "absent"
        /\ row'[b].state \in Active => row[b].state \in Active
        /\ RowLocal(row'[b])
    BY <2>1, OwnerStep DEF Active
  <2>3. \A o \in Batches : SameIdentity(row[o], row[o]) /\ RowLocal(row[o])
    BY InvRow DEF SameIdentity
  <2>4. QED
    BY <2>2, <2>3, QuietStep
<1>5. CASE recover_expired_leases
  BY <1>5, RecoveryStep DEF recover_expired_leases
<1>6. CASE Tick
  <2>1. \A b \in Batches : RowLocal(row'[b])
    BY <1>6, TickStep, InvRow DEF RowLocal
  <2>2. QED
    BY <1>6, <2>1, TickStep, QuietStep
<1>7. QED
  BY <1>1, <1>2, <1>3, <1>4, <1>5, <1>6 DEF Next

LEMMA InvInit == Init => Inv
<1> SUFFICES ASSUME Init PROVE Inv
  OBVIOUS
<1>1. \A b \in Batches : row[b] = AbsentRow
  BY DEF Init
<1>2. AbsentRow \in Row
  BY DEF AbsentRow, Row, States, Classes
<1>3. TypeOK
  BY <1>2 DEF Init, TypeOK
<1>4. LeaseConsistent /\ BudgetRespected
  BY <1>1, BoundsAssumption
     DEF LeaseConsistent, BudgetRespected, AbsentRow, Active, BoundsAssumption
<1>5. QueueIdentity /\ OneLeasePerAgent
  BY <1>1 DEF QueueIdentity, Stored, OneLeasePerAgent, AbsentRow, Active
<1>6. QED
  BY <1>3, <1>4, <1>5 DEF Inv

LEMMA InvAlways == Spec => []Inv
<1>1. Inv /\ [Next]_vars => Inv'
  BY InvNext
<1>2. QED
  BY InvInit, <1>1, PTL DEF Spec

(* The rows keep the types of the guidance_batches schema.                 *)
THEOREM QueueTyped == Spec => []TypeOK
<1>1. Inv => TypeOK
  BY DEF Inv
<1>2. QED
  BY InvAlways, <1>1, PTL

(* The lease columns agree with the state: whoever leaves leased or        *)
(* submitted clears owner and deadline, on every path.                     *)
THEOREM LeaseColumns == Spec => []LeaseConsistent
<1>1. Inv => LeaseConsistent
  BY DEF Inv
<1>2. QED
  BY InvAlways, <1>1, PTL

(* At most one batch of an agent is leased or submitted, for any number of *)
(* consumers claiming, expiring, retrying and restarting.                  *)
THEOREM OneLease == Spec => []OneLeasePerAgent
<1>1. Inv => OneLeasePerAgent
  BY DEF Inv
<1>2. QED
  BY InvAlways, <1>1, PTL

(* No batch is submitted more often than MAX_RETRY_ATTEMPTS times.         *)
THEOREM Budget == Spec => []BudgetRespected
<1>1. Inv => BudgetRespected
  BY DEF Inv
<1>2. QED
  BY InvAlways, <1>1, PTL

(* The unique constraints of guidance_batches hold by the allocation.      *)
THEOREM Identity == Spec => []QueueIdentity
<1>1. Inv => QueueIdentity
  BY DEF Inv
<1>2. QED
  BY InvAlways, <1>1, PTL

(* Recovery does not touch a terminal row.                                 *)
LEMMA RecoveredTerminal ==
  ASSUME Inv, NEW b \in Batches, row[b].state \in Terminal
  PROVE  Recovered[b] = row[b] /\ Recovered[b].state # "pending"
BY RecoveredRow DEF Inv, Terminal, Active

(* A terminal row is left alone by every step.                             *)
THEOREM TerminalRowsStable == Spec => TerminalStable
<1>1. ASSUME Inv, [Next]_vars
      PROVE  [KeepsTerminalRows]_vars
  <2> SUFFICES ASSUME Next, NEW b \in Batches, row[b].state \in Terminal
               PROVE  [row'[b] EXCEPT !.wait = 0] = [row[b] EXCEPT !.wait = 0]
    BY <1>1 DEF KeepsTerminalRows
  <2> USE <1>1
  <2>1. CASE Enqueue
    BY <2>1 DEF Enqueue, enqueue_batch, Terminal, Inv, TypeOK
  <2>2. CASE Claim
    <3>1. PICK a \in Agents, phase \in Boundaries, c \in Consumers,
               i \in OrNone(Invocations), lease \in 1..MaxLease :
            claim_next(a, phase, c, i, lease)
      BY <2>2 DEF Claim
    <3>2. b \notin Claimable(Recovered, a, phase)
      BY RecoveredTerminal DEF Claimable, Offered
    <3>3. QED
      BY <3>1, <3>2, RecoveredTerminal DEF claim_next
  <2>3. CASE Submit
    BY <2>3 DEF Submit, record_transport_attempt, Terminal, Inv, TypeOK
  <2>4. CASE Ack
    BY <2>4 DEF Ack, acknowledge_runtime, Terminal, Active, Inv, TypeOK
  <2>5. CASE Release
    BY <2>5 DEF Release, release_for_retry, Terminal, Active, Inv, TypeOK
  <2>6. CASE Cancel
    BY <2>6 DEF Cancel, cancel_batch, Terminal, Active, Inv, TypeOK
  <2>7. CASE recover_expired_leases
    BY <2>7, RecoveredTerminal DEF recover_expired_leases
  <2>8. CASE Tick
    <3>1. row[b] \in Row /\ row'[b] \in Row /\ row[b].left = 0
      BY <2>8, TickStep, InvRow DEF RowLocal, Terminal, Active
    <3>2. QED
      BY <2>8, <3>1, TickStep DEF Row, SameIdentity
  <2>9. QED
    BY <2>1, <2>2, <2>3, <2>4, <2>5, <2>6, <2>7, <2>8 DEF Next
<1>2. QED
  BY InvAlways, <1>1, PTL DEF Spec, TerminalStable

(* Only claim_next hands out a lease.                                      *)
LEMMA OnlyClaimLeases ==
  ASSUME Inv, Next, NEW b \in Batches, row[b].state # "leased", row'[b].state = "leased"
  PROVE  Claim
<1>1. CASE Enqueue
  BY <1>1 DEF Enqueue, enqueue_batch, Inv, TypeOK
<1>2. CASE Submit \/ Ack \/ Release \/ Cancel
  <2>1. PICK x \in Batches :
          /\ \A y \in Batches \ {x} : row'[y] = row[y]
          /\ row'[x].state \in Active => row[x].state = "leased"
    BY <1>2, OwnerStep DEF Submit, Ack, Release, Cancel
  <2>2. QED
    BY <2>1 DEF Active
<1>3. CASE recover_expired_leases
  BY <1>3, RecoveredRow DEF recover_expired_leases, Inv
<1>4. CASE Tick
  BY <1>4, TickStep
<1>5. QED
  BY <1>1, <1>2, <1>3, <1>4 DEF Next

(* A follow-up never passes a steering batch that waits.                   *)
THEOREM SteeringPrecedence == Spec => NoLeapfrogOfSteering
<1>1. ASSUME Inv, [Next]_vars
      PROVE  [LeasesFollowUpLast]_vars
  <2> SUFFICES ASSUME Next, NEW b \in Batches, NEW o \in Batches,
                      row[b].state # "leased", row'[b].state = "leased",
                      row'[b].class = "follow_up",
                      row'[o].agent = row'[b].agent,
                      row'[o].class = "steering"
               PROVE  row'[o].state # "pending"
    BY <1>1 DEF LeasesFollowUpLast
  <2> USE <1>1
  <2>1. Claim
    BY OnlyClaimLeases
  <2>2. PICK a \in Agents, phase \in Boundaries, c \in Consumers,
             i \in OrNone(Invocations), lease \in 1..MaxLease :
          claim_next(a, phase, c, i, lease)
    BY <2>1 DEF Claim
  <2> DEFINE found == Claimable(Recovered, a, phase)
  <2>3. b \in found
    <3>1. b \notin found => row'[b] = Recovered[b]
      BY <2>2 DEF claim_next
    <3>2. QED
      BY <3>1, RecoveredRow DEF Inv
  <2>4. /\ Recovered[b] \in Row /\ Recovered[o] \in Row
        /\ row'[b] = Leased(Recovered[b], c, i, lease)
    BY <2>2, <2>3, RecoveredRow DEF claim_next, Inv
  <2>5. /\ Recovered[b].class = "follow_up" /\ Recovered[b].agent = a
        /\ phase = "would_stop"
    BY <2>3, <2>4, LeasedRow DEF SameIdentity, Claimable, Offered, Boundaries
  <2>6. row'[b].agent = a
    BY <2>4, <2>5, LeasedRow DEF SameIdentity
  <2>7. CASE o \in found
    BY <2>2, <2>4, <2>7, LeasedRow DEF claim_next
  <2>8. CASE o \notin found
    <3>1. row'[o] = Recovered[o]
      BY <2>2, <2>8 DEF claim_next
    <3> SUFFICES ASSUME Recovered[o].state = "pending" PROVE FALSE
      BY <3>1
    <3>2. PICK x \in Batches :
            /\ Recovered[x].agent = a /\ Recovered[x].class = "steering"
            /\ Recovered[x].state = "pending"
            /\ ~ (Recovered[x].wait > 0)
      BY <2>3, <2>5, <2>6, <3>1 DEF Claimable, SteeringBlocked
    <3>3. Recovered[x].wait = 0
      BY <3>2, RecoveredRow DEF Inv, Row
    <3>4. x \in Offered(Recovered, a, phase)
      BY <3>2, <3>3 DEF Offered
    <3>5. QED
      BY <2>3, <2>5, <3>2, <3>4 DEF Claimable, Precedes
  <2>9. QED
    BY <2>7, <2>8
<1>2. QED
  BY InvAlways, <1>1, PTL DEF Spec, NoLeapfrogOfSteering

(* One step: no older batch of the class and the agent was left behind     *)
(* that could have been leased.                                            *)
LeasesOldest ==
  \A b, o \in Batches :
    /\ row[b].state # "leased" /\ row'[b].state = "leased"
    /\ row'[o].state = "pending" /\ row'[o].wait = 0
    /\ row'[o].agent = row'[b].agent /\ row'[o].class = row'[b].class
    => row'[b].seq < row'[o].seq

(* Within a class an agent gets its batches in the order they were queued, *)
(* except for those backing off: the claim leases the oldest, also among   *)
(* the batches that its own recovery has just put back (claim_next).       *)
THEOREM OldestFirst == Spec => [][LeasesOldest]_vars
<1>1. ASSUME Inv, [Next]_vars
      PROVE  [LeasesOldest]_vars
  <2> SUFFICES ASSUME Next, NEW b \in Batches, NEW o \in Batches,
                      row[b].state # "leased", row'[b].state = "leased",
                      row'[o].state = "pending", row'[o].wait = 0,
                      row'[o].agent = row'[b].agent, row'[o].class = row'[b].class
               PROVE  row'[b].seq < row'[o].seq
    BY <1>1 DEF LeasesOldest
  <2> USE <1>1
  <2>1. Claim
    BY OnlyClaimLeases
  <2>2. PICK a \in Agents, phase \in Boundaries, c \in Consumers,
             i \in OrNone(Invocations), lease \in 1..MaxLease :
          claim_next(a, phase, c, i, lease)
    BY <2>1 DEF Claim
  <2> DEFINE found == Claimable(Recovered, a, phase)
  <2>3. b \in found
    <3>1. b \notin found => row'[b] = Recovered[b]
      BY <2>2 DEF claim_next
    <3>2. QED
      BY <3>1, RecoveredRow DEF Inv
  <2>4. /\ Recovered[b] \in Row /\ Recovered[o] \in Row
        /\ row'[b] = Leased(Recovered[b], c, i, lease)
    BY <2>2, <2>3, RecoveredRow DEF claim_next, Inv
  <2>5. /\ Recovered[b].agent = a /\ row'[b].agent = a
        /\ row'[b].class = Recovered[b].class /\ row'[b].seq = Recovered[b].seq
    BY <2>3, <2>4, LeasedRow DEF SameIdentity, Claimable, Offered
  <2>6. o \notin found /\ row'[o] = Recovered[o]
    <3>1. o \in found => row'[o].state = "leased"
      BY <2>2, <2>4, LeasedRow DEF claim_next
    <3>2. QED
      BY <2>2, <3>1 DEF claim_next
  <2>7. o \in Offered(Recovered, a, phase)
    BY <2>3, <2>5, <2>6 DEF Claimable, Offered
  <2>8. Recovered[b].seq <= Recovered[o].seq
    BY <2>3, <2>5, <2>6, <2>7 DEF Claimable, Precedes
  <2>9. Recovered[b].seq # Recovered[o].seq
    <3>1. b \in Stored /\ o \in Stored /\ row[b].agent = row[o].agent /\ b # o
      <4>1. Recovered[b].state = "pending" /\ Recovered[o].state = "pending"
        BY <2>3, <2>6 DEF Claimable, Offered
      <4>2. row[b].state # "absent" /\ row[o].state # "absent"
        BY <4>1, RecoveredRow DEF Inv, Active
      <4>3. row[b].agent = Recovered[b].agent /\ row[o].agent = Recovered[o].agent
        BY RecoveredRow DEF Inv, SameIdentity
      <4>4. QED
        BY <2>3, <2>5, <2>6, <4>2, <4>3 DEF Stored
    <3>2. row[b].seq = Recovered[b].seq /\ row[o].seq = Recovered[o].seq
      BY RecoveredRow DEF Inv, SameIdentity
    <3>3. QED
      BY <3>1, <3>2 DEF Inv, QueueIdentity
  <2>10. QED
    BY <2>4, <2>5, <2>6, <2>8, <2>9 DEF Row
<1>2. QED
  BY InvAlways, <1>1, PTL DEF Spec

-----------------------------------------------------------------------------
(* The backoff is never zero.                                              *)
LEMMA BackoffPositive ==
  ASSUME NEW n \in Nat
  PROVE  retry_backoff_seconds(n) > 0
<1> DEFINE m == IF n > 8 THEN 8 ELSE n
<1>1. \/ m = 0 \/ m = 1 \/ m = 2 \/ m = 3 \/ m = 4 \/ m = 5 \/ m = 6
      \/ m = 7 \/ m = 8
  OBVIOUS
<1>2. Shl[m + 1] \in Nat \ {0}
  BY <1>1 DEF Shl
<1>3. QED
  BY <1>2, BoundsAssumption DEF retry_backoff_seconds, BoundsAssumption

(* So what recovery puts back cannot be claimed at once.                   *)
LEMMA RecoveredWaits ==
  ASSUME Inv, NEW b \in Batches, row[b].state \in Active
  PROVE  ~ (Recovered[b].state = "pending" /\ Recovered[b].wait = 0)
<1>1. row[b] \in Row /\ row[b].attempts \in Nat
  BY InvRow DEF Row
<1>2. CASE Expired(row[b]) /\ row[b].attempts < MaxRetryAttempts
  <2>1. Recovered[b] = Requeued(row[b], retry_backoff_seconds(row[b].attempts))
    BY <1>1, <1>2, BoundsAssumption DEF Recovered, BoundsAssumption
  <2>2. Recovered[b].wait = retry_backoff_seconds(row[b].attempts)
    BY <1>1, <2>1 DEF Requeued, Row
  <2>3. QED
    BY <1>1, <2>2, BackoffPositive
<1>3. CASE Expired(row[b]) /\ ~ (row[b].attempts < MaxRetryAttempts)
  <2>1. Recovered[b] = Requeued(row[b], 0)
    BY <1>1, <1>3, BoundsAssumption DEF Recovered, BoundsAssumption
  <2>2. Recovered[b].state = "abandoned"
    BY <1>1, <1>3, <2>1, BoundsAssumption DEF Requeued, Row, BoundsAssumption
  <2>3. QED
    BY <2>2
<1>4. CASE ~ Expired(row[b])
  BY <1>4 DEF Recovered, Active
<1>5. QED
  BY <1>2, <1>3, <1>4

(* A claim leaves every batch that is out as its recovery leaves it.       *)
LEMMA ClaimLeavesLeases ==
  ASSUME Inv, NEW b \in Batches, row[b].state \in Active, Claim \/ recover_expired_leases
  PROVE  row'[b] = Recovered[b]
<1>1. CASE recover_expired_leases
  BY <1>1 DEF recover_expired_leases
<1>2. CASE Claim
  <2>1. PICK a \in Agents, phase \in Boundaries, c \in Consumers,
             i \in OrNone(Invocations), lease \in 1..MaxLease :
          claim_next(a, phase, c, i, lease)
    BY <1>2 DEF Claim
  <2>2. b \notin Claimable(Recovered, a, phase)
    BY RecoveredWaits DEF Claimable, Offered
  <2>3. QED
    BY <2>1, <2>2 DEF claim_next
<1>3. QED
  BY <1>1, <1>2

(* A batch never passes from one consumer to the next in one step: between *)
(* two owners it is pending, or over, and the claim that recovers an       *)
(* expired lease does not lease the batch again itself, because the        *)
(* backoff is at least a second.  A lease with time left is touched by no  *)
(* claim and no recovery of others, and an expired one survives neither    *)
(* (claim_next, recover_expired_in_tx).                                    *)
THEOREM LeasesHonoured == Spec => LeasesKept
<1>1. ASSUME Inv, [Next]_vars
      PROVE  [LeaseHonoured]_vars
  <2> SUFFICES ASSUME Next, NEW b \in Batches, row[b].state \in Active
               PROVE  /\ row'[b].state \in Active =>
                           /\ row'[b].owner = row[b].owner
                           /\ row'[b].invocation = row[b].invocation
                      /\ Claim \/ recover_expired_leases =>
                           IF row[b].left > 0 THEN row'[b] = row[b]
                           ELSE row'[b].state \notin Active
    BY <1>1 DEF LeaseHonoured
  <2> USE <1>1
  <2>0. row[b] \in Row
    BY InvRow
  <2>1. CASE Claim \/ recover_expired_leases
    <3>1. row'[b] = Recovered[b]
      BY <2>1, ClaimLeavesLeases
    <3>2. Recovered[b] = row[b] \/ Recovered[b].state \in {"pending", "abandoned"}
      BY RecoveredRow DEF Inv
    <3>3. row[b].left > 0 => ~ Expired(row[b])
      BY <2>0 DEF Expired, Row
    <3>4. ~ Expired(row[b]) => Recovered[b] = row[b]
      BY DEF Recovered
    <3>5. ~ (row[b].left > 0) => Recovered[b].state \notin Active
      <4>1. ~ (row[b].left > 0) => Expired(row[b])
        BY <2>0 DEF Expired, Row
      <4>2. Expired(row[b]) => \E d : Recovered[b] = Requeued(row[b], d)
        BY DEF Recovered
      <4>3. QED
        BY <2>0, <4>1, <4>2 DEF Requeued, Row, Active
    <3>6. QED
      BY <3>1, <3>2, <3>3, <3>4, <3>5 DEF Active
  <2>2. ASSUME ~ (Claim \/ recover_expired_leases), row'[b].state \in Active
        PROVE  /\ row'[b].owner = row[b].owner
               /\ row'[b].invocation = row[b].invocation
    <3>1. CASE Enqueue
      BY <2>0, <3>1 DEF Enqueue, enqueue_batch, Active, Inv, TypeOK
    <3>2. CASE Submit
      BY <2>0, <3>2 DEF Submit, record_transport_attempt, Inv, TypeOK, Row
    <3>3. CASE Ack \/ Release \/ Cancel
      <4>1. PICK x \in Batches :
              /\ \A y \in Batches \ {x} : row'[y] = row[y]
              /\ row'[x].state \notin Active
        <5>1. ASSUME NEW x \in Batches,
                     \/ \E c \in Consumers, i \in OrNone(Invocations), conf \in Confidences :
                          acknowledge_runtime(x, c, i, conf)
                     \/ \E c \in Consumers, d \in (-1)..MaxRetryBackoff : release_for_retry(x, c, d)
                     \/ cancel_batch(x)
              PROVE  /\ \A y \in Batches \ {x} : row'[y] = row[y]
                     /\ row'[x].state \notin Active
          <6>1. \A y \in Batches \ {x} : row'[y] = row[y]
            BY <5>1, OwnerStep
          <6>2. row[x] \in Row
            BY InvRow
          <6>3. row'[x].state \notin Active
            <7>1. CASE \/ cancel_batch(x)
                       \/ \E c \in Consumers, i \in OrNone(Invocations), conf \in Confidences :
                            acknowledge_runtime(x, c, i, conf)
              BY <6>2, <7>1 DEF acknowledge_runtime, cancel_batch, Active, Row, Inv, TypeOK
            <7>2. CASE \E c \in Consumers, d \in (-1)..MaxRetryBackoff : release_for_retry(x, c, d)
              <8>1. PICK d : row' = [row EXCEPT ![x] = Requeued(row[x], d)]
                BY <7>2 DEF release_for_retry
              <8>2. row'[x] = Requeued(row[x], d)
                BY <8>1 DEF Inv, TypeOK
              <8>3. QED
                BY <6>2, <8>2 DEF Requeued, Row, Active
            <7>3. QED
              BY <5>1, <7>1, <7>2
          <6>4. QED
            BY <6>1, <6>3
        <5>2. QED
          BY <3>3, <5>1 DEF Ack, Release, Cancel
      <4>2. QED
        BY <2>2, <4>1
    <3>4. CASE Tick
      BY <3>4, TickStep
    <3>5. QED
      BY <2>2, <3>1, <3>2, <3>3, <3>4 DEF Next
  <2>3. QED
    BY <2>1, <2>2
<1>2. QED
  BY InvAlways, <1>1, PTL DEF Spec, LeasesKept

(* attempts counts exactly the transport submissions of a batch over its   *)
(* whole life: no claim, release, recovery, acknowledgement or restart     *)
(* resets it or counts twice, and no row is dropped or renamed.  With      *)
(* BudgetRespected, a batch is submitted at most MAX_RETRY_ATTEMPTS times  *)
(* (record_transport_attempt, release_for_retry, recover_expired_in_tx).   *)
THEOREM AttemptsAreSubmissions == Spec => SubmissionsCounted
<1>1. ASSUME Inv, [Next]_vars
      PROVE  [AttemptsCounted]_vars
  <2> DEFINE Counted(b) ==
        /\ row'[b].state # "absent" /\ SameIdentity(row[b], row'[b])
        /\ row'[b].attempts =
             IF row[b].state = "leased" /\ row'[b].state = "submitted"
             THEN row[b].attempts + 1 ELSE row[b].attempts
  <2> SUFFICES ASSUME Next, NEW b \in Batches, row[b].state # "absent"
               PROVE  Counted(b)
    BY <1>1 DEF AttemptsCounted, Stored
  <2> USE <1>1
  <2>0. row[b] \in Row
    BY InvRow
  <2>1. CASE row'[b] = row[b]
    BY <2>0, <2>1 DEF SameIdentity
  <2>2. CASE Enqueue
    <3>1. row'[b] = row[b]
      BY <2>2 DEF Enqueue, enqueue_batch, Inv, TypeOK
    <3>2. QED
      BY <2>1, <3>1
  <2>3. CASE Claim \/ recover_expired_leases
    <3>1. /\ Recovered[b] \in Row /\ SameIdentity(row[b], Recovered[b])
          /\ Recovered[b].attempts = row[b].attempts
          /\ Recovered[b] = row[b] \/ Recovered[b].state \in {"pending", "abandoned"}
      BY RecoveredRow DEF Inv
    <3>2. CASE row'[b] = Recovered[b]
      BY <3>1, <3>2
    <3>3. CASE row'[b] # Recovered[b]
      <4>1. PICK a \in Agents, phase \in Boundaries, c \in Consumers,
                 i \in OrNone(Invocations), lease \in 1..MaxLease :
              claim_next(a, phase, c, i, lease)
        BY <2>3, <3>3 DEF Claim, recover_expired_leases
      <4>2. row'[b] = Leased(Recovered[b], c, i, lease)
        BY <3>3, <4>1 DEF claim_next
      <4>3. QED
        BY <3>1, <4>2, LeasedRow DEF SameIdentity
    <3>4. QED
      BY <3>2, <3>3
  <2>4. CASE Submit \/ Ack \/ Release \/ Cancel
    <3>1. PICK x \in Batches :
            \/ \E c \in Consumers : record_transport_attempt(x, c)
            \/ \E c \in Consumers, i \in OrNone(Invocations),
                  conf \in Confidences : acknowledge_runtime(x, c, i, conf)
            \/ \E c \in Consumers, d \in (-1)..MaxRetryBackoff : release_for_retry(x, c, d)
            \/ cancel_batch(x)
      BY <2>4 DEF Submit, Ack, Release, Cancel
    <3>2. CASE b # x
      BY <2>1, <3>1, <3>2, OwnerStep
    <3>3. CASE b = x
      <4>1. row'[b].state # "absent" /\ SameIdentity(row[b], row'[b])
        BY <3>1, <3>3, OwnerStep
      <4>2. CASE \E c \in Consumers : record_transport_attempt(b, c)
        BY <2>0, <4>1, <4>2 DEF record_transport_attempt, Inv, TypeOK, Row
      <4>3. CASE \E c \in Consumers, i \in OrNone(Invocations),
                    conf \in Confidences : acknowledge_runtime(b, c, i, conf)
        BY <2>0, <4>1, <4>3 DEF acknowledge_runtime, Inv, TypeOK, Row
      <4>4. CASE \E c \in Consumers, d \in (-1)..MaxRetryBackoff : release_for_retry(b, c, d)
        <5>1. PICK d : row' = [row EXCEPT ![b] = Requeued(row[b], d)]
          BY <4>4 DEF release_for_retry
        <5>2. row'[b] = Requeued(row[b], d)
          BY <5>1 DEF Inv, TypeOK
        <5>3. row'[b].attempts = row[b].attempts /\ row'[b].state # "submitted"
          BY <2>0, <5>2 DEF Requeued, Row
        <5>4. QED
          BY <4>1, <5>3
      <4>5. CASE cancel_batch(b)
        BY <2>0, <4>1, <4>5 DEF cancel_batch, Inv, TypeOK, Row
      <4>6. QED
        BY <3>1, <3>3, <4>2, <4>3, <4>4, <4>5
    <3>4. QED
      BY <3>2, <3>3
  <2>5. CASE Tick
    BY <2>5, TickStep
  <2>6. QED
    BY <2>2, <2>3, <2>4, <2>5 DEF Next
<1>2. QED
  BY InvAlways, <1>1, PTL DEF Spec, SubmissionsCounted
=============================================================================
