---------------------------- MODULE MutexRegistry ----------------------------
(***************************************************************************)
(* The in-memory mutexes that agents take through the effect               *)
(* coordination.acquire_mutex                                              *)
(* (rust/exomonad-core/src/services/mutex_registry.rs).                    *)
(*                                                                         *)
(* The registry has two tokio mutexes, one around the table of locks and   *)
(* one around the queues of waiters.  A critical section over the table    *)
(* never waits, so it is one action.  grant_next_waiter keeps the guard of *)
(* the queues while it waits for the table once per waiter, so others run  *)
(* between its iterations: the guard is the variable `guard'.              *)
(*                                                                         *)
(* A lock_id is drawn at most once per acquire call (a fresh UUID) and is  *)
(* named after that call.  Intents and log lines are left out.             *)
(***************************************************************************)
EXTENDS Naturals, Sequences

CONSTANTS Calls,        \* acquire calls
          Agents,
          Resources,
          Expiry,       \* the task of spawn_expiry_task
          None,
          MaxReleases   \* bound on the releases sent with one response

ASSUME MutexAssumption ==
  /\ None \notin Calls \cup Agents \cup Resources
  /\ Expiry \notin Calls \cup {None}
  /\ MaxReleases \in Nat

VARIABLES
  locks,      \* resource -> the lock held, or None
  queue,      \* resource -> calls registered as waiters, oldest first
  guard,      \* who holds the mutex of the queues, or None
  pc,         \* call -> where it is
  req,        \* call -> its agent and resource
  resp,       \* call -> the lock_id it was answered, None if not acquired
  releasing,  \* releaser -> the resource it is about to grant, or None
  sent,       \* call -> releases sent with its lock_id
  elapsed,    \* the lock_ids whose expires_at has passed
  sweep       \* expired_resources of the expiry task

vars == <<locks, queue, guard, pc, req, resp, releasing, sent, elapsed, sweep>>

Places    == {"new", "registering", "waiting", "expiring", "done"}
Releasers == Calls \cup {Expiry}
Request   == [agent : Agents, res : Resources]
Lock      == [id : Calls, agent : Agents]

Init ==
  /\ locks = [r \in Resources |-> None]
  /\ queue = [r \in Resources |-> <<>>]
  /\ guard = None
  /\ pc = [c \in Calls |-> "new"]
  /\ req = [c \in Calls |-> None]
  /\ resp = [c \in Calls |-> None]
  /\ releasing = [p \in Releasers |-> None]
  /\ sent = [c \in Calls |-> 0]
  /\ elapsed = {}
  /\ sweep = {}
-----------------------------------------------------------------------------
(* acquire: the fast path, one critical section over the table.            *)
Answer(c, id) ==
  /\ pc' = [pc EXCEPT ![c] = "done"]
  /\ resp' = [resp EXCEPT ![c] = id]

Acquire(c, a, r) ==
  /\ pc[c] = "new"
  /\ req' = [req EXCEPT ![c] = [agent |-> a, res |-> r]]
  /\ \/ /\ locks[r] = None
        /\ locks' = [locks EXCEPT ![r] = [id |-> c, agent |-> a]]
        /\ Answer(c, c)
     \/ /\ locks[r] # None /\ locks[r].agent = a
        /\ Answer(c, locks[r].id)
        /\ UNCHANGED locks
     \/ /\ locks[r] # None /\ locks[r].agent # a
        /\ pc' = [pc EXCEPT ![c] = "registering"]
        /\ UNCHANGED <<locks, resp>>
  /\ UNCHANGED <<queue, guard, releasing, sent, elapsed, sweep>>

(* The slow path: push_back under the guard of the queues, a second        *)
(* critical section that does not look at the table again.                 *)
Register(c) ==
  /\ pc[c] = "registering" /\ guard = None
  /\ queue' = [queue EXCEPT ![req[c].res] = Append(@, c)]
  /\ pc' = [pc EXCEPT ![c] = "waiting"]
  /\ UNCHANGED <<locks, guard, req, resp, releasing, sent, elapsed, sweep>>

(* Mutant: the wait has no timeout.                                        *)
Timer_Never(c) == FALSE /\ UNCHANGED vars

(* tokio::time::timeout polls the channel, finds no answer, and then finds *)
(* that the time is up.  The receiver is still there.                      *)
Timer(c) ==
  /\ pc[c] = "waiting"
  /\ pc' = [pc EXCEPT ![c] = "expiring"]
  /\ UNCHANGED <<locks, queue, guard, req, resp, releasing, sent, elapsed,
                 sweep>>

(* Only now is the receiver dropped and the call refused, whatever was     *)
(* sent in between.  The entry of the call may stay in the queue.          *)
Timeout(c) ==
  /\ pc[c] = "expiring"
  /\ pc' = [pc EXCEPT ![c] = "done"]
  /\ UNCHANGED <<locks, queue, guard, req, resp, releasing, sent, elapsed,
                 sweep>>
-----------------------------------------------------------------------------
(* Mutant: the lock_id of the request is not compared.                     *)
OwnedBy_Any(r, id) == locks[r] # None

(* release: remove the lock if its id matches, then grant the next waiter. *)
OwnedBy(r, id) == locks[r] # None /\ locks[r].id = id

(* Mutant: lock_id is passed for the resource; both are Strings.           *)
Free_Swapped(p, r, id) ==
  IF OwnedBy(r, id)
  THEN /\ locks' = [locks EXCEPT ![r] = None]
       /\ releasing' = [releasing EXCEPT ![p] = id]
  ELSE UNCHANGED <<locks, releasing>>

Free(p, r, id) ==
  IF OwnedBy(r, id)
  THEN /\ locks' = [locks EXCEPT ![r] = None]
       /\ releasing' = [releasing EXCEPT ![p] = r]
  ELSE UNCHANGED <<locks, releasing>>

(* Any call that was answered a lock_id may send releases with it, late    *)
(* ones and repeated ones included.                                        *)
Release(c) ==
  /\ resp[c] # None /\ releasing[c] = None /\ sent[c] < MaxReleases
  /\ sent' = [sent EXCEPT ![c] = @ + 1]
  /\ Free(c, req[c].res, resp[c])
  /\ UNCHANGED <<queue, guard, pc, req, resp, elapsed, sweep>>

(* grant_next_waiter: take the guard of the queues ...                     *)
TakeGuard(p) ==
  /\ releasing[p] # None /\ guard = None
  /\ guard' = p
  /\ UNCHANGED <<locks, queue, pc, req, resp, releasing, sent, elapsed, sweep>>

LeaveGrant(p) ==
  /\ guard' = None
  /\ releasing' = [releasing EXCEPT ![p] = None]

NoWaiter(p, r) ==
  /\ queue[r] = <<>>
  /\ LeaveGrant(p)
  /\ UNCHANGED <<locks, queue, pc, resp>>

Pop(r) == queue' = [queue EXCEPT ![r] = Tail(@)]

Granted(w, r) ==
  locks' = [locks EXCEPT ![r] = [id |-> w, agent |-> req[w].agent]]

(* Mutant: the result of tx.send is ignored.                               *)
GrantWaiter_Unsent(p, r) ==
  LET w == Head(queue[r])
  IN  /\ queue[r] # <<>> /\ locks[r] = None
      /\ Pop(r)
      /\ Granted(w, r) /\ LeaveGrant(p)
      /\ IF pc[w] = "waiting" THEN Answer(w, w) ELSE UNCHANGED <<pc, resp>>

(* The head gets the lock and tx.send says whether its receiver is there:  *)
(* it is while the call waits, and also after its timer has fired, when    *)
(* nobody will look at the answer any more.  If it is gone, the lock is    *)
(* removed again and the loop goes on.                                     *)
GrantWaiter(p, r) ==
  LET w == Head(queue[r])
  IN  /\ queue[r] # <<>> /\ locks[r] = None
      /\ Pop(r)
      /\ \/ pc[w] = "waiting" /\ Granted(w, r) /\ Answer(w, w) /\ LeaveGrant(p)
         \/ /\ pc[w] = "expiring" /\ Granted(w, r) /\ LeaveGrant(p)
            /\ UNCHANGED <<pc, resp>>
         \/ pc[w] = "done" /\ UNCHANGED <<locks, pc, resp, guard, releasing>>

(* The resource was taken in the meantime: the head is dropped, its        *)
(* channel closes and its call is refused; the loop goes on.               *)
DropWaiter(p, r) ==
  LET w == Head(queue[r])
  IN  /\ queue[r] # <<>> /\ locks[r] # None
      /\ Pop(r)
      /\ IF pc[w] = "waiting" THEN Answer(w, None) ELSE UNCHANGED <<pc, resp>>
      /\ UNCHANGED <<locks, guard, releasing>>

(* ... and one iteration of its loop.                                      *)
GrantNext(p) ==
  /\ guard = p /\ releasing[p] # None
  /\ \/ NoWaiter(p, releasing[p])
     \/ GrantWaiter(p, releasing[p])
     \/ DropWaiter(p, releasing[p])
  /\ UNCHANGED <<req, sent, elapsed, sweep>>
-----------------------------------------------------------------------------
(* spawn_expiry_task.                                                      *)
Elapse(r) ==
  /\ locks[r] # None /\ locks[r].id \notin elapsed
  /\ elapsed' = elapsed \cup {locks[r].id}
  /\ UNCHANGED <<locks, queue, guard, pc, req, resp, releasing, sent, sweep>>

Due == {r \in Resources : locks[r] # None /\ locks[r].id \in elapsed}

Scan ==
  /\ sweep = {} /\ releasing[Expiry] = None /\ Due # {}
  /\ sweep' = {[res |-> r, id |-> locks[r].id] : r \in Due}
  /\ UNCHANGED <<locks, queue, guard, pc, req, resp, releasing, sent, elapsed>>

(* Mutant: an entry leaves the list only when its lock was still there.    *)
ExpireNext_Retry(e) ==
  /\ e \in sweep /\ releasing[Expiry] = None
  /\ Free(Expiry, e.res, e.id)
  /\ sweep' = IF OwnedBy(e.res, e.id) THEN sweep \ {e} ELSE sweep
  /\ UNCHANGED <<queue, guard, pc, req, resp, sent, elapsed>>

(* One release per entry, in the order of a hash map.                      *)
ExpireNext(e) ==
  /\ e \in sweep /\ releasing[Expiry] = None
  /\ Free(Expiry, e.res, e.id)
  /\ sweep' = sweep \ {e}
  /\ UNCHANGED <<queue, guard, pc, req, resp, sent, elapsed>>

Next ==
  \/ \E c \in Calls :
       \/ \E a \in Agents, r \in Resources : Acquire(c, a, r)
       \/ Register(c)
       \/ Timer(c) \/ Timeout(c)
       \/ Release(c)
  \/ \E p \in Releasers : TakeGuard(p) \/ GrantNext(p)
  \/ \E r \in Resources : Elapse(r)
  \/ Scan
  \/ \E e \in sweep : ExpireNext(e)

Spec == Init /\ [][Next]_vars
-----------------------------------------------------------------------------
(* Type invariant: the table, the queues, the calls and the sweep.         *)
TypeOK ==
  /\ locks \in [Resources -> Lock \cup {None}]
  /\ queue \in [Resources -> Seq(Calls)]
  /\ guard \in Releasers \cup {None}
  /\ pc \in [Calls -> Places]
  /\ req \in [Calls -> Request \cup {None}]
  /\ resp \in [Calls -> Calls \cup {None}]
  /\ releasing \in [Releasers -> Resources \cup {None}]
  /\ sent \in [Calls -> Nat]
  /\ elapsed \subseteq Calls
  /\ sweep \subseteq [res : Resources, id : Calls]

(* The lock of r goes, by its TTL or by a release sent with its lock_id.   *)
GivenUp(r) ==
  /\ locks'[r] = None
  /\ \/ locks[r].id \in elapsed
     \/ \E c \in Calls : resp[c] = locks[r].id /\ sent'[c] # sent[c]

(* An agent loses a lock only because its TTL has passed or because it     *)
(* sent a release with the lock_id: a late or repeated release, or a stale *)
(* entry of the expiry sweep, never frees the lock of the next holder.     *)
LockKept ==
  [][\A r \in Resources :
       locks[r] # None /\ locks'[r] # locks[r] => GivenUp(r)]_vars

(* The calls that are over, and what a call was told.                      *)
Over == {c \in Calls : pc[c] = "done"}

Told(c) ==
  [call |-> c, agent |-> req[c].agent, res |-> req[c].res, id |-> resp[c]]

(* The queues, the guard and the snapshot of the sweep are hidden.         *)
LS == INSTANCE LockService WITH holder <- locks,
                                answers <- {Told(c) : c \in Over},
                                expired <- elapsed

(* The registry is a lock service in which every call is answered once and *)
(* takes effect in one step of the table, unless its timer fired while the *)
(* grant was on its way (acquire, release, grant_next_waiter).             *)
ImplementsLockService == LS!Spec
=============================================================================
