------------------------- MODULE MutexRegistryProofs -------------------------
(***************************************************************************)
(* Proofs about the mutex registry, for any number of calls, agents and    *)
(* resources.                                                              *)
(***************************************************************************)
EXTENDS MutexRegistry, TLAPS

(* A call has a request once it is made, and a lock_id once it is done.    *)
CallsConsistent ==
  \A c \in Calls : /\ pc[c] # "new" => req[c] \in Request
                   /\ pc[c] # "done" => resp[c] = None

(* The waiters of a resource are calls for that resource.                  *)
QueuesConsistent ==
  \A r \in Resources : \A i \in 1..Len(queue[r]) :
    /\ pc[queue[r][i]] # "new"
    /\ req[queue[r][i]].res = r

(* A lock in the table was drawn by a call of its agent for its resource.  *)
(* The call was told so, or its timer had fired before it was granted.     *)
LockHasCaller ==
  \A r \in Resources :
    locks[r] # None =>
      LET c == locks[r].id
      IN  /\ req[c] = [agent |-> locks[r].agent, res |-> r]
          /\ \/ resp[c] = c
             \/ pc[c] \in {"expiring", "done"} /\ resp[c] = None

(* The expiry task only carries lock_ids whose time has passed.            *)
SweepElapsed == \A e \in sweep : e.id \in elapsed

(* The inductive invariant.  LockHasCaller needs that a call without an    *)
(* answer has no lock_id (else answering it could overwrite the lock_id of *)
(* a lock in the table) and that a waiter waits for the resource in whose  *)
(* queue it is; LockKept needs SweepElapsed.                               *)
Inv == /\ TypeOK
       /\ CallsConsistent
       /\ QueuesConsistent
       /\ SweepElapsed
       /\ LockHasCaller

(* The initial state satisfies the invariant.                              *)
LEMMA InitInv == Init => Inv
<1> SUFFICES ASSUME Init PROVE Inv
  OBVIOUS
<1> USE MutexAssumption DEF MutexAssumption, Init
<1>1. TypeOK
  BY DEF TypeOK, Places, Releasers
<1>2. CallsConsistent /\ QueuesConsistent /\ SweepElapsed
  BY DEF CallsConsistent, QueuesConsistent, SweepElapsed
<1>3. LockHasCaller
  BY DEF LockHasCaller
<1>4. QED
  BY <1>1, <1>2, <1>3 DEF Inv

(* The head of a nonempty queue is a call for that resource, and dropping  *)
(* it leaves a queue of such calls.                                        *)
LEMMA HeadWaits ==
  ASSUME Inv, NEW r \in Resources, queue[r] # <<>>
  PROVE  /\ Head(queue[r]) \in Calls
         /\ pc[Head(queue[r])] # "new"
         /\ req[Head(queue[r])] \in Request
         /\ req[Head(queue[r])].res = r
         /\ Tail(queue[r]) \in Seq(Calls)
         /\ \A i \in 1..Len(Tail(queue[r])) :
              /\ Tail(queue[r])[i] = queue[r][i + 1]
              /\ i + 1 \in 1..Len(queue[r])
<1>1. queue[r] \in Seq(Calls)
  BY DEF Inv, TypeOK
<1>2. /\ Head(queue[r]) \in Calls /\ Head(queue[r]) = queue[r][1]
      /\ 1 \in 1..Len(queue[r])
  BY <1>1
<1>3. /\ pc[Head(queue[r])] # "new"
      /\ req[Head(queue[r])].res = r
  BY <1>2 DEF Inv, QueuesConsistent
<1>4. req[Head(queue[r])] \in Request
  BY <1>2, <1>3 DEF Inv, CallsConsistent
<1>5. /\ Tail(queue[r]) \in Seq(Calls)
      /\ \A i \in 1..Len(Tail(queue[r])) :
           /\ Tail(queue[r])[i] = queue[r][i + 1]
           /\ i + 1 \in 1..Len(queue[r])
  BY <1>1
<1>6. QED
  BY <1>2, <1>3, <1>4, <1>5

(* The fast path keeps the invariant.                                      *)
LEMMA AcquireInv ==
  ASSUME Inv, NEW c \in Calls, NEW a \in Agents, NEW r \in Resources,
         Acquire(c, a, r)
  PROVE  Inv'
<1> USE MutexAssumption DEF MutexAssumption
<1>0. TypeOK /\ resp[c] = None /\ pc[c] = "new"
  BY DEF Inv, CallsConsistent, Acquire
<1>1. TypeOK'
  <2>1. [agent |-> a, res |-> r] \in Request /\ [id |-> c, agent |-> a] \in Lock
    BY DEF Request, Lock
  <2>2. locks[r] # None => locks[r].id \in Calls
    BY <1>0 DEF TypeOK, Lock
  <2>3. req' \in [Calls -> Request \cup {None}]
    BY <1>0, <2>1 DEF TypeOK, Acquire
  <2>4. locks' \in [Resources -> Lock \cup {None}]
    BY <1>0, <2>1 DEF TypeOK, Acquire
  <2>5. /\ pc' \in [Calls -> Places]
        /\ resp' \in [Calls -> Calls \cup {None}]
    <3>1. \/ /\ pc' = [pc EXCEPT ![c] = "done"]
             /\ \E v \in Calls : resp' = [resp EXCEPT ![c] = v]
          \/ pc' = [pc EXCEPT ![c] = "registering"] /\ resp' = resp
      BY <2>2 DEF Acquire, Answer
    <3>2. /\ pc \in [Calls -> Places]
          /\ resp \in [Calls -> Calls \cup {None}]
      BY <1>0 DEF TypeOK
    <3>3. QED
      BY <3>1, <3>2 DEF Places
  <2>6. QED
    BY <1>0, <2>3, <2>4, <2>5 DEF TypeOK, Acquire
<1>2. CallsConsistent'
  BY <1>0 DEF Inv, CallsConsistent, Acquire, Answer, TypeOK, Request
<1>3. QueuesConsistent'
  <2>1. ASSUME NEW s \in Resources, NEW i \in 1..Len(queue[s])
        PROVE  pc'[queue[s][i]] # "new" /\ req'[queue[s][i]].res = s
    <3>1. queue[s][i] \in Calls
      BY <1>0 DEF TypeOK
    <3>2. pc[queue[s][i]] # "new" /\ req[queue[s][i]].res = s
      BY DEF Inv, QueuesConsistent
    <3>3. QED
      BY <1>0, <3>1, <3>2 DEF Acquire, Answer, TypeOK
  <2>2. QED
    BY <2>1 DEF QueuesConsistent, Acquire
<1>4. SweepElapsed'
  BY DEF Inv, SweepElapsed, Acquire
<1>5. LockHasCaller'
  <2>1. ASSUME NEW s \in Resources, locks[s] # None
        PROVE  LET d == locks[s].id
               IN  /\ req'[d] = [agent |-> locks[s].agent, res |-> s]
                   /\ \/ resp'[d] = d
                      \/ pc'[d] \in {"expiring", "done"} /\ resp'[d] = None
    <3>1. LET d == locks[s].id
          IN  /\ d \in Calls /\ req[d] = [agent |-> locks[s].agent, res |-> s]
              /\ \/ resp[d] = d
                 \/ pc[d] \in {"expiring", "done"} /\ resp[d] = None
      BY <1>0, <2>1 DEF TypeOK, Lock, Inv, LockHasCaller
    <3>2. locks[s].id # c
      BY <1>0, <3>1
    <3>3. QED
      BY <1>0, <3>1, <3>2 DEF Acquire, Answer, TypeOK
  <2>2. CASE locks' = locks
    BY <2>1, <2>2 DEF LockHasCaller
  <2>3. CASE /\ locks' = [locks EXCEPT ![r] = [id |-> c, agent |-> a]]
             /\ Answer(c, c)
    <3>1. /\ locks'[r] = [id |-> c, agent |-> a] /\ resp'[c] = c
          /\ req'[c] = [agent |-> a, res |-> r]
      BY <1>0, <2>3 DEF TypeOK, Acquire, Answer
    <3>2. \A s \in Resources : s # r => locks'[s] = locks[s]
      BY <1>0, <2>3 DEF TypeOK
    <3>3. QED
      BY <2>1, <3>1, <3>2 DEF LockHasCaller
  <2>4. QED
    BY <2>2, <2>3 DEF Acquire
<1>6. QED
  BY <1>1, <1>2, <1>3, <1>4, <1>5 DEF Inv

(* Registering keeps the invariant.                                        *)
LEMMA RegisterInv ==
  ASSUME Inv, NEW c \in Calls, Register(c)
  PROVE  Inv'
<1> DEFINE r == req[c].res
<1>0. TypeOK /\ pc[c] = "registering" /\ req[c] \in Request /\ r \in Resources
  BY DEF Inv, CallsConsistent, Register, Request
<1>1. /\ queue[r] \in Seq(Calls)
      /\ queue'[r] = Append(queue[r], c)
      /\ \A s \in Resources : s # r => queue'[s] = queue[s]
  BY <1>0 DEF TypeOK, Register
<1>2. TypeOK'
  <2>1. Append(queue[r], c) \in Seq(Calls)
    BY <1>1
  <2>2. queue' \in [Resources -> Seq(Calls)]
    BY <1>0, <2>1 DEF TypeOK, Register
  <2>3. QED
    BY <1>0, <2>2 DEF TypeOK, Places, Register
<1>3. CallsConsistent'
  BY <1>0 DEF Inv, CallsConsistent, Register, TypeOK
<1>4. QueuesConsistent'
  <2>1. SUFFICES ASSUME NEW s \in Resources, NEW i \in 1..Len(queue'[s])
                 PROVE  pc'[queue'[s][i]] # "new" /\ req'[queue'[s][i]].res = s
    BY DEF QueuesConsistent
  <2>2. CASE s # r \/ i \in 1..Len(queue[r])
    <3>1. queue'[s][i] = queue[s][i] /\ i \in 1..Len(queue[s])
      BY <1>1, <2>2
    <3>2. queue[s][i] \in Calls
      BY <1>0, <3>1 DEF TypeOK
    <3>3. QED
      BY <1>0, <3>1, <3>2 DEF Inv, QueuesConsistent, Register, TypeOK
  <2>3. CASE s = r /\ i \notin 1..Len(queue[r])
    <3>1. queue'[s][i] = c
      BY <1>1, <2>3
    <3>2. QED
      BY <1>0, <2>3, <3>1 DEF Register, TypeOK
  <2>4. QED
    BY <2>2, <2>3
<1>5. SweepElapsed' /\ LockHasCaller'
  <2>1. \A d \in Calls : pc[d] \in {"expiring", "done"} => pc'[d] = pc[d]
    BY <1>0 DEF Register, TypeOK
  <2>2. \A s \in Resources : locks[s] # None => locks[s].id \in Calls
    BY <1>0 DEF TypeOK, Lock
  <2>3. QED
    BY <2>1, <2>2 DEF Inv, SweepElapsed, LockHasCaller, Register
<1>6. QED
  BY <1>2, <1>3, <1>4, <1>5 DEF Inv

(* Giving up keeps the invariant.                                          *)
LEMMA TimeoutInv ==
  ASSUME Inv, NEW c \in Calls, Timer(c) \/ Timeout(c)
  PROVE  Inv'
<1>0. TypeOK
  BY DEF Inv
<1>1. TypeOK' /\ CallsConsistent'
  BY <1>0 DEF Inv, TypeOK, Places, CallsConsistent, Timer, Timeout
<1>2. QueuesConsistent'
  <2>1. ASSUME NEW s \in Resources, NEW i \in 1..Len(queue[s])
        PROVE  pc'[queue[s][i]] # "new"
    <3>1. queue[s][i] \in Calls
      BY <1>0 DEF TypeOK
    <3>2. QED
      BY <1>0, <3>1 DEF Inv, QueuesConsistent, Timer, Timeout, TypeOK
  <2>2. QED
    BY <2>1 DEF Inv, QueuesConsistent, Timer, Timeout
<1>3. SweepElapsed' /\ LockHasCaller'
  <2>1. \A d \in Calls : pc[d] \in {"expiring", "done"} => pc'[d] \in {"expiring", "done"}
    BY <1>0 DEF Timer, Timeout, TypeOK
  <2>2. \A s \in Resources : locks[s] # None => locks[s].id \in Calls
    BY <1>0 DEF TypeOK, Lock
  <2>3. QED
    BY <2>1, <2>2 DEF Inv, SweepElapsed, LockHasCaller, Timer, Timeout
<1>4. QED
  BY <1>1, <1>2, <1>3 DEF Inv

(* Removing a lock keeps LockHasCaller.                                   *)
LEMMA FreeKeeps ==
  ASSUME TypeOK, LockHasCaller, NEW p \in Releasers, NEW r \in Resources,
         NEW id, Free(p, r, id), UNCHANGED <<pc, req, resp>>
  PROVE  /\ LockHasCaller'
         /\ locks' \in [Resources -> Lock \cup {None}]
         /\ releasing' \in [Releasers -> Resources \cup {None}]
<1>1. \/ locks' = locks /\ releasing' = releasing
      \/ /\ locks' = [locks EXCEPT ![r] = None]
         /\ releasing' = [releasing EXCEPT ![p] = r]
  BY DEF Free
<1>2. /\ locks' \in [Resources -> Lock \cup {None}]
      /\ releasing' \in [Releasers -> Resources \cup {None}]
      /\ \A s \in Resources : locks'[s] # None => locks'[s] = locks[s]
  BY <1>1 DEF TypeOK
<1>3. QED
  BY <1>2 DEF LockHasCaller

(* A release, whatever its lock_id, keeps the invariant.                   *)
LEMMA ReleaseInv ==
  ASSUME Inv, NEW c \in Calls, Release(c)
  PROVE  Inv'
<1>0. /\ TypeOK /\ LockHasCaller /\ c \in Releasers
      /\ req[c].res \in Resources
  BY DEF Inv, CallsConsistent, Release, Releasers, Request
<1>1. Free(c, req[c].res, resp[c]) /\ UNCHANGED <<pc, req, resp>>
  BY DEF Release
<1>2. /\ LockHasCaller'
      /\ locks' \in [Resources -> Lock \cup {None}]
      /\ releasing' \in [Releasers -> Resources \cup {None}]
  BY <1>0, <1>1, FreeKeeps
<1>3. TypeOK'
  BY <1>0, <1>2 DEF TypeOK, Release
<1>4. CallsConsistent' /\ QueuesConsistent' /\ SweepElapsed'
  BY DEF Inv, CallsConsistent, QueuesConsistent, SweepElapsed, Release
<1>5. QED
  BY <1>2, <1>3, <1>4 DEF Inv

(* One entry of the expiry sweep keeps the invariant.                      *)
LEMMA ExpireInv ==
  ASSUME Inv, NEW e \in sweep, ExpireNext(e)
  PROVE  Inv'
<1>0. /\ TypeOK /\ LockHasCaller /\ Expiry \in Releasers
      /\ e.res \in Resources
  BY DEF Inv, TypeOK, Releasers
<1>1. Free(Expiry, e.res, e.id) /\ UNCHANGED <<pc, req, resp>>
  BY DEF ExpireNext
<1>2. /\ LockHasCaller'
      /\ locks' \in [Resources -> Lock \cup {None}]
      /\ releasing' \in [Releasers -> Resources \cup {None}]
  BY <1>0, <1>1, FreeKeeps
<1>3. TypeOK'
  BY <1>0, <1>2 DEF TypeOK, ExpireNext
<1>4. CallsConsistent' /\ QueuesConsistent' /\ SweepElapsed'
  BY DEF Inv, CallsConsistent, QueuesConsistent, SweepElapsed, ExpireNext
<1>5. QED
  BY <1>2, <1>3, <1>4 DEF Inv

(* What one iteration of grant_next_waiter does, in the three cases.       *)
LEMMA GrantInv ==
  ASSUME Inv, NEW p \in Releasers, GrantNext(p)
  PROVE  Inv'
<1> DEFINE r == releasing[p]
           w == Head(queue[r])
<1> USE MutexAssumption DEF MutexAssumption
<1>0. TypeOK /\ r \in Resources /\ UNCHANGED <<req, sent, elapsed, sweep>>
  BY DEF Inv, TypeOK, GrantNext
<1>1. SweepElapsed'
  BY <1>0 DEF Inv, SweepElapsed
<1>2. CASE NoWaiter(p, r)
  <2>1. TypeOK'
    BY <1>0, <1>2 DEF TypeOK, NoWaiter, LeaveGrant
  <2>2. CallsConsistent' /\ QueuesConsistent' /\ LockHasCaller'
    BY <1>0, <1>2
       DEF Inv, CallsConsistent, QueuesConsistent, LockHasCaller, NoWaiter
  <2>3. QED
    BY <1>1, <2>1, <2>2 DEF Inv
<1>3. ASSUME queue[r] # <<>>, Pop(r),
             \/ pc' = pc /\ resp' = resp
             \/ pc[w] = "waiting" /\ Answer(w, w)
             \/ pc[w] = "waiting" /\ Answer(w, None)
      PROVE  /\ CallsConsistent' /\ QueuesConsistent'
             /\ queue' \in [Resources -> Seq(Calls)]
             /\ pc' \in [Calls -> Places]
             /\ resp' \in [Calls -> Calls \cup {None}]
             /\ \A c \in Calls : pc[c] # "waiting" => pc'[c] = pc[c] /\ resp'[c] = resp[c]
  <2>1. /\ w \in Calls /\ Tail(queue[r]) \in Seq(Calls)
        /\ \A i \in 1..Len(Tail(queue[r])) :
             /\ Tail(queue[r])[i] = queue[r][i + 1]
             /\ i + 1 \in 1..Len(queue[r])
    BY <1>0, <1>3, HeadWaits
  <2>2. /\ pc' \in [Calls -> Places]
        /\ resp' \in [Calls -> Calls \cup {None}]
        /\ \A c \in Calls :
             pc'[c] = pc[c] \/ (c = w /\ pc[c] = "waiting" /\ pc'[c] = "done")
        /\ \A c \in Calls : resp'[c] # resp[c]
                              => c = w /\ pc[c] = "waiting" /\ pc'[c] = "done"
    <3> HIDE DEF r, w
    <3>1. \/ pc' = pc /\ resp' = resp
          \/ /\ pc[w] = "waiting"
             /\ pc' = [pc EXCEPT ![w] = "done"]
             /\ \E v \in Calls \cup {None} : resp' = [resp EXCEPT ![w] = v]
      BY <1>3, <2>1 DEF Answer
    <3>2. /\ pc \in [Calls -> Places]
          /\ resp \in [Calls -> Calls \cup {None}]
      BY <1>0 DEF TypeOK
    <3>3. QED
      BY <2>1, <3>1, <3>2 DEF Places
  <2>3. \A c \in Calls : pc[c] = "waiting" => resp[c] = None
    BY DEF Inv, CallsConsistent
  <2>4. CallsConsistent'
    <3>1. SUFFICES ASSUME NEW c \in Calls
                   PROVE  /\ pc'[c] # "new" => req[c] \in Request
                          /\ pc'[c] # "done" => resp'[c] = None
      BY <1>0 DEF CallsConsistent
    <3>2. pc'[c] # "new" => req[c] \in Request
      BY <1>0, <1>3, <2>2, HeadWaits DEF Inv, CallsConsistent
    <3>3. pc'[c] # "done" => resp'[c] = None
      BY <2>2 DEF Inv, CallsConsistent
    <3>4. QED
      BY <3>2, <3>3
  <2>5. queue' = [queue EXCEPT ![r] = Tail(queue[r])]
    BY <1>3 DEF Pop
  <2>6. QueuesConsistent'
    <3>1. SUFFICES ASSUME NEW s \in Resources, NEW i \in 1..Len(queue'[s])
                   PROVE  /\ pc'[queue'[s][i]] # "new"
                          /\ req[queue'[s][i]].res = s
      BY <1>0 DEF QueuesConsistent
    <3>2. \E j \in 1..Len(queue[s]) : queue'[s][i] = queue[s][j]
      <4>1. CASE s = r
        <5>1. queue'[s] = Tail(queue[s])
          BY <1>0, <2>5, <4>1 DEF TypeOK
        <5>2. QED
          BY <2>1, <4>1, <5>1
      <4>2. CASE s # r
        BY <1>0, <2>5, <4>2 DEF TypeOK
      <4>3. QED
        BY <4>1, <4>2
    <3>3. PICK j \in 1..Len(queue[s]) : queue'[s][i] = queue[s][j]
      BY <3>2
    <3>4. queue[s][j] \in Calls
      BY <1>0 DEF TypeOK
    <3>5. pc[queue[s][j]] # "new" /\ req[queue[s][j]].res = s
      BY DEF Inv, QueuesConsistent
    <3>6. QED
      BY <2>2, <3>3, <3>4, <3>5
  <2>7. QED
    BY <1>0, <2>1, <2>2, <2>3, <2>4, <2>5, <2>6 DEF TypeOK
<1>4. ASSUME \A c \in Calls : pc[c] # "waiting" => pc'[c] = pc[c] /\ resp'[c] = resp[c],
             NEW s \in Resources, locks[s] # None
      PROVE  LET d == locks[s].id
             IN  /\ req'[d] = [agent |-> locks[s].agent, res |-> s]
                 /\ \/ resp'[d] = d
                    \/ pc'[d] \in {"expiring", "done"} /\ resp'[d] = None
  <2>1. LET d == locks[s].id
        IN  /\ d \in Calls /\ req[d] = [agent |-> locks[s].agent, res |-> s]
            /\ \/ resp[d] = d
               \/ pc[d] \in {"expiring", "done"} /\ resp[d] = None
    BY <1>0, <1>4 DEF TypeOK, Lock, Inv, LockHasCaller
  <2>2. LET d == locks[s].id IN pc[d] # "waiting"
    BY <2>1 DEF Inv, CallsConsistent
  <2>3. QED
    BY <1>0, <1>4, <2>1, <2>2
<1>5. CASE DropWaiter(p, r)
  <2>1. /\ queue[r] # <<>> /\ Pop(r) /\ UNCHANGED <<locks, guard, releasing>>
        /\ \/ pc' = pc /\ resp' = resp
           \/ pc[w] = "waiting" /\ Answer(w, None)
    BY <1>5 DEF DropWaiter
  <2>2. /\ CallsConsistent' /\ QueuesConsistent'
        /\ queue' \in [Resources -> Seq(Calls)]
        /\ pc' \in [Calls -> Places]
        /\ resp' \in [Calls -> Calls \cup {None}]
        /\ \A c \in Calls : pc[c] # "waiting" => pc'[c] = pc[c] /\ resp'[c] = resp[c]
    BY <1>3, <2>1
  <2>3. TypeOK'
    BY <1>0, <2>1, <2>2 DEF TypeOK
  <2>4. LockHasCaller'
    BY <1>4, <2>1, <2>2 DEF LockHasCaller
  <2>5. QED
    BY <1>1, <2>2, <2>3, <2>4 DEF Inv
<1>6. CASE GrantWaiter(p, r)
  <2>1. /\ queue[r] # <<>> /\ locks[r] = None /\ Pop(r)
        /\ \/ /\ pc[w] = "waiting" /\ Answer(w, w)
              /\ Granted(w, r) /\ LeaveGrant(p)
           \/ /\ pc[w] = "expiring" /\ UNCHANGED <<pc, resp>>
              /\ Granted(w, r) /\ LeaveGrant(p)
           \/ UNCHANGED <<locks, pc, resp, guard, releasing>>
    BY <1>6 DEF GrantWaiter
  <2>2. /\ CallsConsistent' /\ QueuesConsistent'
        /\ queue' \in [Resources -> Seq(Calls)]
        /\ pc' \in [Calls -> Places]
        /\ resp' \in [Calls -> Calls \cup {None}]
        /\ \A c \in Calls : pc[c] # "waiting" => pc'[c] = pc[c] /\ resp'[c] = resp[c]
    BY <1>3, <2>1
  <2>3. CASE UNCHANGED <<locks, pc, resp, guard, releasing>>
    <3>1. TypeOK'
      BY <1>0, <2>2, <2>3 DEF TypeOK
    <3>2. LockHasCaller'
      BY <1>4, <2>2, <2>3 DEF LockHasCaller
    <3>3. QED
      BY <1>1, <2>2, <3>1, <3>2 DEF Inv
  <2>4. CASE /\ Granted(w, r) /\ LeaveGrant(p)
             /\ \/ Answer(w, w)
                \/ pc[w] = "expiring" /\ UNCHANGED <<pc, resp>>
    <3>1. w \in Calls /\ req[w] \in Request /\ req[w].res = r
      BY <1>0, <2>1, HeadWaits
    <3>2. [id |-> w, agent |-> req[w].agent] \in Lock
      BY <3>1 DEF Request, Lock
    <3>3. TypeOK'
      BY <1>0, <2>2, <2>4, <3>2 DEF TypeOK, Granted, LeaveGrant
    <3>4. /\ locks'[r] = [id |-> w, agent |-> req[w].agent]
          /\ \A s \in Resources : s # r => locks'[s] = locks[s]
          /\ resp'[w] = w \/ (pc'[w] = "expiring" /\ resp'[w] = None)
      BY <1>0, <2>4, <3>1 DEF TypeOK, Granted, Answer, Inv, CallsConsistent
    <3>5. req'[w] = [agent |-> req[w].agent, res |-> r]
      BY <1>0, <3>1 DEF Request
    <3>6. LockHasCaller'
      BY <1>4, <2>2, <3>4, <3>5 DEF LockHasCaller
    <3>7. QED
      BY <1>1, <2>2, <3>3, <3>6 DEF Inv
  <2>5. QED
    BY <2>1, <2>3, <2>4
<1>7. QED
  BY <1>2, <1>5, <1>6 DEF GrantNext

(* Every step keeps the invariant.                                         *)
LEMMA NextInv == Inv /\ [Next]_vars => Inv'
<1> SUFFICES ASSUME Inv, [Next]_vars PROVE Inv'
  OBVIOUS
<1>1. ASSUME NEW p \in Releasers, TakeGuard(p) PROVE Inv'
  BY <1>1 DEF Inv, TypeOK, CallsConsistent, QueuesConsistent, SweepElapsed,
              LockHasCaller, TakeGuard
<1>2. ASSUME NEW r \in Resources, Elapse(r) PROVE Inv'
  <2>1. locks[r].id \in Calls
    BY <1>2 DEF Inv, TypeOK, Lock, Elapse
  <2>2. QED
    BY <1>2, <2>1 DEF Inv, TypeOK, CallsConsistent, QueuesConsistent,
                      SweepElapsed, LockHasCaller, Elapse
<1>3. ASSUME Scan PROVE Inv'
  <2>1. \A r \in Due : r \in Resources /\ locks[r].id \in elapsed
    BY DEF Due
  <2>2. elapsed \subseteq Calls
    BY DEF Inv, TypeOK
  <2>3. \A e \in sweep' : e \in [res : Resources, id : Calls] /\ e.id \in elapsed
    BY <1>3, <2>1, <2>2 DEF Scan
  <2>4. TypeOK' /\ SweepElapsed'
    BY <1>3, <2>3 DEF Inv, TypeOK, SweepElapsed, Scan
  <2>5. CallsConsistent' /\ QueuesConsistent' /\ LockHasCaller'
    BY <1>3 DEF Inv, CallsConsistent, QueuesConsistent, LockHasCaller, Scan
  <2>6. QED
    BY <2>4, <2>5 DEF Inv
<1>4. CASE UNCHANGED vars
  BY <1>4 DEF vars, Inv, TypeOK, CallsConsistent, QueuesConsistent,
              SweepElapsed, LockHasCaller
<1>5. QED
  BY <1>1, <1>2, <1>3, <1>4, AcquireInv, RegisterInv, TimeoutInv, ReleaseInv,
     ExpireInv, GrantInv
     DEF Next

(* The registry keeps its types and the rest of the invariant, for any     *)
(* number of calls, agents and resources.                                  *)
THEOREM RegistryInvariant == Spec => []Inv
BY InitInv, NextInv, PTL DEF Spec

(* The lock table, the wait queues and the answers keep their types.       *)
THEOREM RegistryTyped == Spec => []TypeOK
<1>1. Inv => TypeOK
  BY DEF Inv
<1>2. QED
  BY <1>1, RegistryInvariant, PTL

(* Every lock of the table belongs to a call of its agent for its          *)
(* resource, and that call was told its lock_id unless its timer had       *)
(* already fired when grant_next_waiter sent it: only the race of          *)
(* tokio::time::timeout with tx.send leaves a lock that nobody was told of *)
(* (acquire, grant_next_waiter).                                           *)
THEOREM OrphansGaveUp == Spec => []LockHasCaller
<1>1. Inv => LockHasCaller
  BY DEF Inv
<1>2. QED
  BY <1>1, RegistryInvariant, PTL

(* A lock leaves the table only through its own lock_id or after its TTL:  *)
(* LockKept, about the comparison in release and the snapshot that the     *)
(* expiry task acts on.                                                    *)
THEOREM LocksKept == Spec => LockKept
<1> DEFINE Kept == \A r \in Resources :
                     locks[r] # None /\ locks'[r] # locks[r] => GivenUp(r)
<1>1. Inv /\ [Next]_vars => [Kept]_vars
  <2> SUFFICES ASSUME Inv, Next, NEW r \in Resources,
                      locks[r] # None, locks'[r] # locks[r]
               PROVE  GivenUp(r)
    OBVIOUS
  <2>0. TypeOK
    BY DEF Inv
  <2>1. ASSUME NEW p, NEW s, NEW id, Free(p, s, id)
        PROVE  locks'[r] = None /\ locks[r].id = id
    BY <2>0, <2>1 DEF Free, OwnedBy, TypeOK
  <2>2. ASSUME NEW c \in Calls, Release(c) PROVE GivenUp(r)
    <3>1. locks'[r] = None /\ locks[r].id = resp[c]
      BY <2>1, <2>2 DEF Release
    <3>2. sent'[c] # sent[c]
      BY <2>0, <2>2 DEF Release, TypeOK
    <3>3. QED
      BY <3>1, <3>2 DEF GivenUp
  <2>3. ASSUME NEW e \in sweep, ExpireNext(e) PROVE GivenUp(r)
    <3>1. locks'[r] = None /\ locks[r].id = e.id
      BY <2>1, <2>3 DEF ExpireNext
    <3>2. e.id \in elapsed
      BY DEF Inv, SweepElapsed
    <3>3. QED
      BY <3>1, <3>2 DEF GivenUp
  <2>4. ASSUME NEW c \in Calls, NEW a \in Agents, NEW s \in Resources,
               Acquire(c, a, s)
        PROVE  GivenUp(r)
    BY <2>0, <2>4 DEF Acquire, TypeOK
  <2>5. ASSUME NEW p \in Releasers, GrantNext(p) PROVE GivenUp(r)
    BY <2>0, <2>5 DEF GrantNext, NoWaiter, GrantWaiter, DropWaiter, Granted,
                      TypeOK
  <2>6. QED
    BY <2>2, <2>3, <2>4, <2>5
       DEF Next, Register, Timer, Timeout, TakeGuard, Elapse, Scan
<1>2. QED
  BY <1>1, RegistryInvariant, PTL DEF Spec, LockKept

-----------------------------------------------------------------------------
InQueue(c, q) == \E i \in 1..Len(q) : q[i] = c

(* A call that waits is in the queue of its resource, where a release will *)
(* find it.                                                                *)
WaitersQueued ==
  \A c \in Calls : pc[c] = "waiting" => InQueue(c, queue[req[c].res])

(* The lock_id a call was answered was drawn by a call of the same agent   *)
(* for the same resource, which is over or whose timer has fired.          *)
AnswersOwn ==
  \A c \in Calls :
    resp[c] # None =>
      resp[c] \in Calls /\ pc[resp[c]] \in {"expiring", "done"} /\ req[resp[c]] = req[c]

(* Popping the head of a queue loses nobody but the head.                  *)
LEMMA PopKeeps ==
  ASSUME NEW q \in Seq(Calls), q # <<>>, NEW c, InQueue(c, q), c # Head(q)
  PROVE  InQueue(c, Tail(q))
<1>1. PICK i \in 1..Len(q) : q[i] = c
  BY DEF InQueue
<1>2. i # 1
  BY <1>1
<1>3. i - 1 \in 1..Len(Tail(q)) /\ Tail(q)[i - 1] = q[i]
  BY <1>2
<1>4. QED
  BY <1>1, <1>3 DEF InQueue

LEMMA AppendQueues ==
  ASSUME NEW q \in Seq(Calls), NEW c \in Calls
  PROVE  InQueue(c, Append(q, c)) /\ \A d : InQueue(d, q) => InQueue(d, Append(q, c))
<1> DEFINE m == Append(q, c)
<1>1. /\ Len(q) \in Nat /\ Len(m) = Len(q) + 1 /\ m[Len(q) + 1] = c
      /\ \A i \in 1..Len(q) : m[i] = q[i]
  OBVIOUS
<1> HIDE DEF m
<1>2. Len(q) + 1 \in 1..Len(m) /\ \A i \in 1..Len(q) : i \in 1..Len(m)
  BY <1>1
<1>3. QED
  BY <1>1, <1>2 DEF InQueue, m

(* A step that leaves queues, places and requests alone.                   *)
LEMMA QueuedQuiet ==
  ASSUME WaitersQueued, AnswersOwn, UNCHANGED <<queue, pc, req, resp>>
  PROVE  WaitersQueued' /\ AnswersOwn'
BY DEF WaitersQueued, AnswersOwn, InQueue

LEMMA AcquireQueued ==
  ASSUME Inv, WaitersQueued, AnswersOwn, NEW c \in Calls, NEW a \in Agents, NEW r \in Resources, Acquire(c, a, r)
  PROVE  WaitersQueued' /\ AnswersOwn'
<1> USE MutexAssumption DEF MutexAssumption
<1>0. TypeOK /\ pc[c] = "new" /\ resp[c] = None /\ queue' = queue
  BY DEF Inv, CallsConsistent, Acquire
<1>1. /\ req'[c] = [agent |-> a, res |-> r]
      /\ \A d \in Calls : d # c => req'[d] = req[d] /\ pc'[d] = pc[d] /\ resp'[d] = resp[d]
      /\ pc'[c] # "waiting"
  BY <1>0 DEF Acquire, Answer, TypeOK
<1>2. WaitersQueued'
  <2>1. ASSUME NEW d \in Calls, pc'[d] = "waiting" PROVE InQueue(d, queue[req'[d].res])
    <3>1. d # c /\ pc[d] = "waiting" /\ req'[d] = req[d]
      BY <1>1, <2>1
    <3>2. QED
      BY <3>1 DEF WaitersQueued
  <2>2. QED
    BY <1>0, <2>1 DEF WaitersQueued, InQueue
<1>3. \A d \in Calls : resp[d] # None => resp[d] # c
  BY <1>0 DEF AnswersOwn
<1>4. resp'[c] # None => resp'[c] \in Calls /\ pc'[resp'[c]] \in {"expiring", "done"} /\ req'[resp'[c]] = req'[c]
  <2>1. CASE Answer(c, c)
    BY <1>0, <2>1 DEF Answer, TypeOK
  <2>2. CASE locks[r] # None /\ locks[r].agent = a /\ Answer(c, locks[r].id)
    <3>1. /\ locks[r].id \in Calls /\ pc[locks[r].id] \in {"expiring", "done"}
          /\ req[locks[r].id] = [agent |-> a, res |-> r]
      BY <1>0, <2>2 DEF Inv, LockHasCaller, CallsConsistent, TypeOK, Lock
    <3>2. locks[r].id # c /\ resp'[c] = locks[r].id
      BY <1>0, <2>2, <3>1 DEF Answer, TypeOK
    <3>3. QED
      BY <1>1, <3>1, <3>2
  <2>3. CASE resp' = resp
    BY <1>0, <2>3
  <2>4. QED
    BY <2>1, <2>2, <2>3 DEF Acquire
<1>5. QED
  BY <1>1, <1>2, <1>3, <1>4 DEF AnswersOwn

LEMMA RegisterQueued ==
  ASSUME Inv, WaitersQueued, AnswersOwn, NEW c \in Calls, Register(c)
  PROVE  WaitersQueued' /\ AnswersOwn'
<1> DEFINE r == req[c].res
<1>0. TypeOK /\ pc[c] = "registering" /\ r \in Resources /\ UNCHANGED <<req, resp>>
  BY DEF Inv, CallsConsistent, Register, Request
<1>1. /\ queue[r] \in Seq(Calls) /\ queue'[r] = Append(queue[r], c)
      /\ \A s \in Resources : s # r => queue'[s] = queue[s]
      /\ pc'[c] = "waiting" /\ \A d \in Calls : d # c => pc'[d] = pc[d]
  BY <1>0 DEF TypeOK, Register
<1>2. ASSUME NEW d \in Calls, pc'[d] = "waiting" PROVE InQueue(d, queue'[req[d].res])
  <2>1. CASE d = c
    BY <1>1, <2>1, AppendQueues
  <2>2. CASE d # c
    <3>1. InQueue(d, queue[req[d].res]) /\ req[d].res \in Resources
      BY <1>1, <1>2, <2>2 DEF WaitersQueued, Inv, CallsConsistent, Request
    <3>2. QED
      BY <1>1, <3>1, AppendQueues
  <2>3. QED
    BY <2>1, <2>2
<1>3. WaitersQueued'
  BY <1>0, <1>2 DEF WaitersQueued, InQueue
<1>4. AnswersOwn'
  BY <1>0, <1>1 DEF AnswersOwn
<1>5. QED
  BY <1>3, <1>4

LEMMA TimeoutQueued ==
  ASSUME Inv, WaitersQueued, AnswersOwn, NEW c \in Calls, Timer(c) \/ Timeout(c)
  PROVE  WaitersQueued' /\ AnswersOwn'
<1>1. /\ UNCHANGED <<queue, req, resp>>
      /\ \A d \in Calls : pc'[d] = pc[d] \/ pc'[d] \in {"expiring", "done"}
  BY DEF Timer, Timeout, Inv, TypeOK
<1>2. QED
  BY <1>1 DEF WaitersQueued, AnswersOwn, InQueue

(* One iteration of grant_next_waiter answers the waiter it takes off the  *)
(* queue, or finds that it has given up.                                   *)
LEMMA GrantQueued ==
  ASSUME Inv, WaitersQueued, AnswersOwn, NEW p \in Releasers, GrantNext(p)
  PROVE  WaitersQueued' /\ AnswersOwn'
<1> DEFINE r == releasing[p]
           w == Head(queue[r])
<1>0. TypeOK /\ r \in Resources /\ req' = req
  BY DEF Inv, TypeOK, GrantNext
<1>1. CASE NoWaiter(p, r)
  BY <1>0, <1>1, QueuedQuiet DEF NoWaiter
<1>2. CASE GrantWaiter(p, r) \/ DropWaiter(p, r)
  <2>1. /\ queue[r] # <<>> /\ Pop(r)
        /\ \/ pc[w] # "waiting" /\ UNCHANGED <<pc, resp>>
           \/ pc[w] = "waiting" /\ (Answer(w, w) \/ Answer(w, None))
    BY <1>2 DEF GrantWaiter, DropWaiter
  <2>2. queue[r] \in Seq(Calls) /\ w \in Calls
    BY <1>0, <2>1, HeadWaits DEF TypeOK
  <2>3. queue'[r] = Tail(queue[r]) /\ \A s \in Resources : s # r => queue'[s] = queue[s]
    BY <1>0, <2>1 DEF Pop, TypeOK
  <2>4. /\ pc'[w] # "waiting"
        /\ \A d \in Calls : d # w => pc'[d] = pc[d] /\ resp'[d] = resp[d]
        /\ \/ pc'[w] = pc[w] /\ resp'[w] = resp[w]
           \/ pc'[w] = "done" /\ resp'[w] \in {w, None}
    BY <1>0, <2>1, <2>2 DEF Answer, TypeOK
  <2> HIDE DEF w, r
  <2>5. ASSUME NEW d \in Calls, pc'[d] = "waiting" PROVE InQueue(d, queue'[req[d].res])
    <3>1. d # w /\ pc[d] = "waiting"
      BY <2>4, <2>5
    <3>2. InQueue(d, queue[req[d].res]) /\ req[d].res \in Resources
      BY <3>1 DEF WaitersQueued, Inv, CallsConsistent, Request
    <3>3. CASE req[d].res = r
      BY <2>1, <2>2, <2>3, <3>1, <3>2, <3>3, PopKeeps DEF w
    <3>4. CASE req[d].res # r
      BY <2>3, <3>2, <3>4
    <3>5. QED
      BY <3>3, <3>4
  <2>6. WaitersQueued'
    BY <1>0, <2>5 DEF WaitersQueued, InQueue
  <2>7. \A d \in Calls : pc[d] \in {"expiring", "done"} => pc'[d] \in {"expiring", "done"}
    BY <2>4
  <2>8. AnswersOwn'
    <3> SUFFICES ASSUME NEW d \in Calls, resp'[d] # None
                 PROVE  resp'[d] \in Calls /\ pc'[resp'[d]] \in {"expiring", "done"} /\ req[resp'[d]] = req[d]
      BY <1>0 DEF AnswersOwn
    <3>1. CASE resp'[d] = resp[d]
      BY <2>7, <3>1 DEF AnswersOwn
    <3>2. CASE resp'[d] # resp[d]
      BY <2>2, <2>4, <3>2
    <3>3. QED
      BY <3>1, <3>2
  <2>9. QED
    BY <2>6, <2>8
<1>3. QED
  BY <1>1, <1>2 DEF GrantNext

LEMMA NextQueued ==
  Inv /\ WaitersQueued /\ AnswersOwn /\ [Next]_vars => WaitersQueued' /\ AnswersOwn'
<1> SUFFICES ASSUME Inv, WaitersQueued, AnswersOwn, [Next]_vars PROVE WaitersQueued' /\ AnswersOwn'
  OBVIOUS
<1>1. ASSUME NEW c \in Calls, Release(c) PROVE UNCHANGED <<queue, pc, req, resp>>
  BY <1>1 DEF Release
<1>2. ASSUME NEW p \in Releasers, TakeGuard(p) PROVE UNCHANGED <<queue, pc, req, resp>>
  BY <1>2 DEF TakeGuard
<1>3. CASE \/ UNCHANGED vars \/ Scan \/ (\E r \in Resources : Elapse(r)) \/ (\E e \in sweep : ExpireNext(e))
  <2>1. UNCHANGED <<queue, pc, req, resp>>
    BY <1>3 DEF vars, Scan, Elapse, ExpireNext
  <2>2. QED
    BY <2>1, QueuedQuiet
<1>4. QED
  BY <1>1, <1>2, <1>3, QueuedQuiet, AcquireQueued, RegisterQueued, TimeoutQueued, GrantQueued DEF Next

LEMMA QueuedAlways == Spec => [](WaitersQueued /\ AnswersOwn)
<1>1. Init => WaitersQueued /\ AnswersOwn
  BY DEF Init, WaitersQueued, AnswersOwn
<1>2. QED
  BY <1>1, NextQueued, RegistryInvariant, PTL DEF Spec

(* No waiter is forgotten: whoever still waits is in the queue that the    *)
(* next release of its resource works off, although the queue keeps the    *)
(* entries of calls that gave up and a release drops waiters while the     *)
(* resource is taken (acquire, grant_next_waiter).                         *)
THEOREM NoForgottenWaiter == Spec => []WaitersQueued
BY QueuedAlways, PTL

(* A caller is only ever answered a lock_id that its own agent drew for    *)
(* the resource it asked for, so an agent never holds the means to release *)
(* the lock of another (acquire, its reentrant path included).             *)
THEOREM OwnAnswersOnly == Spec => []AnswersOwn
BY QueuedAlways, PTL

(* A lock_id names no lock of the table.                                   *)
Spent(c) == \A r \in Resources : locks[r] # None => locks[r].id # c

(* One step: a call that has its answer, or gave up, does not come (back)  *)
(* into the table.                                                         *)
SpentStays == \A c \in Calls : pc[c] = "done" /\ Spent(c) => Spent(c)'

(* A lock_id that has left the table never names a lock again, and neither *)
(* does that of a call that timed out without one: the late release that   *)
(* LockKept is about finds nothing (release, grant_next_waiter).           *)
THEOREM LockIdsSpent == Spec => [][SpentStays]_vars
<1>1. Inv /\ [Next]_vars => [SpentStays]_vars
  <2> SUFFICES ASSUME Inv, Next, NEW c \in Calls, pc[c] = "done", Spent(c),
                      NEW r \in Resources, locks'[r] # None
               PROVE  locks'[r].id # c
    BY DEF SpentStays, Spent
  <2>0. TypeOK
    BY DEF Inv
  <2>1. CASE locks'[r] = locks[r]
    BY <2>1 DEF Spent
  <2>2. CASE locks'[r] # locks[r]
    <3>1. ASSUME NEW p, NEW s, NEW id, Free(p, s, id) PROVE FALSE
      BY <2>0, <2>2, <3>1 DEF Free, TypeOK
    <3>2. ASSUME NEW d \in Calls, NEW a \in Agents, NEW s \in Resources, Acquire(d, a, s)
          PROVE  locks'[r].id # c
      <4>1. pc[d] = "new" /\ locks' = [locks EXCEPT ![s] = [id |-> d, agent |-> a]]
        BY <2>2, <3>2 DEF Acquire
      <4>2. locks'[r] = [id |-> d, agent |-> a]
        BY <2>0, <2>2, <4>1 DEF TypeOK
      <4>3. QED
        BY <4>1, <4>2
    <3>3. ASSUME NEW p \in Releasers, GrantNext(p) PROVE locks'[r].id # c
      <4> DEFINE s == releasing[p]
                 w == Head(queue[s])
      <4>1. pc[w] \in {"waiting", "expiring"} /\ Granted(w, s) /\ s \in Resources
        BY <2>0, <2>2, <3>3 DEF GrantNext, NoWaiter, GrantWaiter, DropWaiter, TypeOK
      <4> HIDE DEF s, w
      <4>2. locks'[r] = [id |-> w, agent |-> req[w].agent]
        BY <2>0, <2>2, <4>1 DEF Granted, TypeOK
      <4>3. QED
        BY <4>1, <4>2
    <3>4. QED
      BY <2>2, <3>1, <3>2, <3>3 DEF Next, Register, Timer, Timeout, Release, TakeGuard, Elapse, Scan, ExpireNext
  <2>3. QED
    BY <2>1, <2>2
<1>2. QED
  BY <1>1, RegistryInvariant, PTL DEF Spec

-----------------------------------------------------------------------------
LEMMA ServiceInit == Init => LS!Init
BY DEF Init, LS!Init, Over

(* A step that answers nobody.                                             *)
LEMMA ToldQuiet ==
  ASSUME \A d \in Calls : /\ pc'[d] = "done" <=> pc[d] = "done"
                          /\ pc[d] = "done" => req'[d] = req[d] /\ resp'[d] = resp[d]
  PROVE  {Told(c) : c \in Over}' = {Told(c) : c \in Over}
<1>1. Over' = Over /\ \A d \in Over : Told(d)' = Told(d)
  BY DEF Told, Over
<1>2. QED
  BY <1>1

(* A step that answers one call.                                           *)
LEMMA ToldOne ==
  ASSUME NEW c \in Calls, NEW a, NEW r, NEW id, pc[c] # "done", pc'[c] = "done",
         req'[c].agent = a, req'[c].res = r, resp'[c] = id,
         \A d \in Calls : d # c => pc'[d] = pc[d] /\ req'[d] = req[d] /\ resp'[d] = resp[d]
  PROVE  LS!Tell(c, a, r, id)
<1> DEFINE m == [call |-> c, agent |-> a, res |-> r, id |-> id]
<1>1. /\ c \notin Over /\ Over' = Over \cup {c}
      /\ Told(c)' = m /\ \A d \in Over : Told(d)' = Told(d)
  BY DEF Over, Told
<1>2. \A n \in {Told(d) : d \in Over} : n.call # c
  BY <1>1 DEF Told
<1>3. {Told(d) : d \in Over}' = {Told(d) : d \in Over} \cup {m}
  <2> HIDE DEF m
  <2>1. QED
    BY <1>1
<1>4. QED
  BY <1>2, <1>3 DEF LS!Tell, LS!Unanswered

(* The lock_id of a call that has no answer, and whose timer has not       *)
(* fired, names no lock.                                                   *)
LEMMA NewHoldsNothing ==
  ASSUME Inv, NEW c \in Calls, pc[c] \notin {"expiring", "done"}
  PROVE  LS!HoldsNothing(c)
<1>1. resp[c] = None /\ None # c
  BY MutexAssumption DEF Inv, CallsConsistent, MutexAssumption
<1>2. QED
  BY <1>1 DEF LS!HoldsNothing, Inv, LockHasCaller

(* The three ways through the fast path of acquire.                        *)
LEMMA AcquireService ==
  ASSUME Inv, NEW c \in Calls, NEW a \in Agents, NEW r \in Resources, Acquire(c, a, r)
  PROVE  [LS!Next]_LS!vars
<1>0. /\ TypeOK /\ pc[c] = "new" /\ UNCHANGED <<sent, elapsed>>
      /\ req'[c] = [agent |-> a, res |-> r]
      /\ \A d \in Calls : d # c => req'[d] = req[d]
  BY DEF Inv, Acquire, TypeOK
<1>1. ASSUME NEW id, Answer(c, id) PROVE LS!Tell(c, a, r, id)
  <2>1. /\ pc'[c] = "done" /\ resp'[c] = id
        /\ \A d \in Calls : d # c => pc'[d] = pc[d] /\ resp'[d] = resp[d]
    BY <1>0, <1>1 DEF Answer, TypeOK
  <2>2. QED
    BY <1>0, <2>1, ToldOne
<1>2. CASE locks[r] = None
  <2>1. LS!Grant(c, a, r)
    BY <1>0, <1>1, <1>2, NewHoldsNothing DEF Acquire, LS!Grant
  <2>2. QED
    BY <2>1 DEF LS!Next
<1>3. CASE locks[r] # None /\ locks[r].agent = a
  <2>1. LS!Reenter(c, a, r)
    BY <1>0, <1>1, <1>3, NewHoldsNothing DEF Acquire, LS!Reenter
  <2>2. QED
    BY <2>1 DEF LS!Next
<1>4. CASE locks[r] # None /\ locks[r].agent # a
  <2>1. /\ locks' = locks /\ resp' = resp /\ pc' = [pc EXCEPT ![c] = "registering"]
    BY <1>4 DEF Acquire
  <2>2. {Told(d) : d \in Over}' = {Told(d) : d \in Over}
    BY <1>0, <2>1, ToldQuiet DEF TypeOK
  <2>3. QED
    BY <1>0, <2>1, <2>2 DEF LS!vars
<1>5. QED
  BY <1>2, <1>3, <1>4

(* A waiter that gives up is refused.                                      *)
LEMMA TimeoutService ==
  ASSUME Inv, NEW c \in Calls, Timeout(c)
  PROVE  LS!Next
<1>1. /\ TypeOK /\ pc[c] = "expiring" /\ UNCHANGED <<locks, req, resp, sent, elapsed>>
      /\ resp[c] = None /\ req[c].agent \in Agents /\ req[c].res \in Resources
  BY DEF Inv, CallsConsistent, Timeout, Request
<1>2. pc'[c] = "done" /\ \A d \in Calls : d # c => pc'[d] = pc[d]
  BY <1>1 DEF Timeout, TypeOK
<1>3. LS!Tell(c, req[c].agent, req[c].res, None)
  BY <1>1, <1>2, ToldOne
<1>4. LS!Refuse(c, req[c].agent, req[c].res)
  BY <1>1, <1>3 DEF LS!Refuse
<1>5. QED
  BY <1>1, <1>4 DEF LS!Next

(* A release, stale or not, is one of the service.                         *)
LEMMA ReleaseService ==
  ASSUME Inv, NEW c \in Calls, Release(c)
  PROVE  LS!Next
<1> DEFINE m == Told(c)
<1>1. /\ TypeOK /\ resp[c] # None /\ pc[c] = "done"
      /\ UNCHANGED <<pc, req, resp, elapsed>>
      /\ sent' = [sent EXCEPT ![c] = @ + 1]
      /\ Free(c, req[c].res, resp[c])
  BY DEF Inv, CallsConsistent, Release
<1>2. m.call = c /\ m.res = req[c].res /\ m.id = resp[c]
  BY DEF Told
<1>3. {Told(d) : d \in Over}' = {Told(d) : d \in Over}
  BY <1>1, ToldQuiet
<1>4. m \in {Told(d) : d \in Over}
  BY <1>1 DEF Over
<1> HIDE DEF m
<1>5. LS!Release(m)
  BY <1>1, <1>2, <1>3 DEF LS!Release, Free, OwnedBy
<1>6. QED
  BY <1>4, <1>5 DEF LS!Next

(* An entry of the sweep frees a lock whose time has passed, or nothing.   *)
LEMMA ExpireService ==
  ASSUME Inv, NEW e \in sweep, ExpireNext(e)
  PROVE  [LS!Next]_LS!vars
<1>1. /\ e.res \in Resources /\ e.id \in elapsed
      /\ UNCHANGED <<pc, req, resp, sent, elapsed>>
      /\ Free(Expiry, e.res, e.id)
  BY DEF Inv, TypeOK, SweepElapsed, ExpireNext
<1>2. {Told(d) : d \in Over}' = {Told(d) : d \in Over}
  BY <1>1, ToldQuiet
<1>3. CASE OwnedBy(e.res, e.id)
  <2>1. LS!Expire(e.res)
    BY <1>1, <1>2, <1>3 DEF LS!Expire, Free, OwnedBy
  <2>2. QED
    BY <1>1, <2>1 DEF LS!Next
<1>4. CASE ~OwnedBy(e.res, e.id)
  BY <1>1, <1>2, <1>4 DEF Free, LS!vars
<1>5. QED
  BY <1>3, <1>4

(* One iteration of grant_next_waiter grants, refuses, or is hidden.       *)
LEMMA GrantService ==
  ASSUME Inv, NEW p \in Releasers, GrantNext(p)
  PROVE  [LS!Next]_LS!vars
<1> DEFINE r == releasing[p]
           w == Head(queue[r])
           a == req[w].agent
<1>0. TypeOK /\ r \in Resources /\ UNCHANGED <<req, sent, elapsed>>
  BY DEF Inv, TypeOK, GrantNext
<1>1. ASSUME UNCHANGED <<locks, pc, resp>> PROVE UNCHANGED LS!vars
  <2>1. {Told(d) : d \in Over}' = {Told(d) : d \in Over}
    BY <1>0, <1>1, ToldQuiet
  <2>2. QED
    BY <1>0, <1>1, <2>1 DEF LS!vars
<1>2. ASSUME queue[r] # <<>>, pc[w] = "waiting", NEW id, Answer(w, id)
      PROVE  w \in Calls /\ a \in Agents /\ LS!Tell(w, a, r, id)
  <2>1. w \in Calls /\ req[w] \in Request /\ req[w].res = r
    BY <1>0, <1>2, HeadWaits
  <2>2. /\ pc'[w] = "done" /\ resp'[w] = id
        /\ \A d \in Calls : d # w => pc'[d] = pc[d] /\ resp'[d] = resp[d]
    BY <1>0, <1>2, <2>1 DEF Answer, TypeOK
  <2>3. a \in Agents
    BY <2>1 DEF Request
  <2> HIDE DEF r, w
  <2>4. LS!Tell(w, a, r, id)
    BY <1>0, <1>2, <2>1, <2>2, ToldOne
  <2>5. QED
    BY <2>1, <2>3, <2>4
<1>3. CASE NoWaiter(p, r)
  BY <1>1, <1>3 DEF NoWaiter
<1>4. CASE GrantWaiter(p, r)
  <2>1. CASE pc[w] = "waiting"
    <3>1. /\ queue[r] # <<>> /\ locks[r] = None /\ Granted(w, r) /\ Answer(w, w)
      BY <1>4, <2>1 DEF GrantWaiter
    <3>0. LS!HoldsNothing(w)
      BY <1>2, <2>1, <3>1, NewHoldsNothing
    <3>2. LS!Grant(w, a, r)
      BY <1>0, <1>2, <2>1, <3>1, <3>0 DEF LS!Grant, Granted
    <3>3. w \in Calls /\ a \in Agents
      BY <1>2, <2>1, <3>1
    <3>4. QED
      BY <1>0, <3>2, <3>3 DEF LS!Next
  <2>2. CASE pc[w] \notin {"waiting", "expiring"}
    BY <1>1, <1>4, <2>2 DEF GrantWaiter
  <2>3. CASE pc[w] = "expiring"
    <3>1. /\ queue[r] # <<>> /\ locks[r] = None /\ Granted(w, r)
          /\ UNCHANGED <<pc, resp>>
      BY <1>4, <2>3 DEF GrantWaiter
    <3>2. w \in Calls /\ req[w] \in Request /\ req[w].res = r /\ a \in Agents
      BY <1>0, <3>1, HeadWaits DEF Request
    <3>3. LS!HoldsNothing(w)
      <4>1. ASSUME NEW s \in Resources, locks[s] # None, locks[s].id = w
            PROVE  FALSE
        <5>1. req[locks[s].id] = [agent |-> locks[s].agent, res |-> s]
          BY <4>1 DEF Inv, LockHasCaller
        <5> HIDE DEF w, r
        <5>2. req[w].res = s
          BY <4>1, <5>1
        <5>3. QED
          BY <3>1, <3>2, <4>1, <5>2
      <4>2. QED
        BY <4>1 DEF LS!HoldsNothing
    <3>4. LS!Unanswered(w)
      BY <2>3 DEF LS!Unanswered, Told, Over
    <3>5. {Told(d) : d \in Over}' = {Told(d) : d \in Over}
      BY <1>0, <3>1, ToldQuiet
    <3>6. LS!Late(w, a, r)
      BY <1>0, <3>1, <3>3, <3>4, <3>5 DEF LS!Late, Granted
    <3>7. QED
      BY <1>0, <3>2, <3>6 DEF LS!Next
  <2>4. QED
    BY <2>1, <2>2, <2>3
<1>5. CASE DropWaiter(p, r)
  <2>1. CASE pc[w] = "waiting"
    <3>1. queue[r] # <<>> /\ locks' = locks /\ Answer(w, None)
      BY <1>5, <2>1 DEF DropWaiter
    <3>2. w \in Calls /\ a \in Agents /\ LS!Tell(w, a, r, None)
      BY <1>2, <2>1, <3>1
    <3>3. LS!Refuse(w, a, r)
      BY <1>0, <3>1, <3>2 DEF LS!Refuse
    <3>4. QED
      BY <1>0, <3>2, <3>3 DEF LS!Next
  <2>2. CASE pc[w] # "waiting"
    BY <1>1, <1>5, <2>2 DEF DropWaiter
  <2>3. QED
    BY <2>1, <2>2
<1>6. QED
  BY <1>3, <1>4, <1>5 DEF GrantNext

(* Every step of the registry is a step of the service or hidden from it.  *)
LEMMA ServiceStep == Inv /\ [Next]_vars => [LS!Next]_LS!vars
<1> SUFFICES ASSUME Inv, [Next]_vars PROVE [LS!Next]_LS!vars
  OBVIOUS
<1>1. ASSUME UNCHANGED <<locks, pc, req, resp, sent, elapsed>> PROVE UNCHANGED LS!vars
  BY <1>1, ToldQuiet DEF LS!vars
<1>2. ASSUME NEW c \in Calls, Register(c) PROVE UNCHANGED LS!vars
  <2>1. {Told(d) : d \in Over}' = {Told(d) : d \in Over}
    BY <1>2, ToldQuiet DEF Register, Inv, TypeOK
  <2>2. QED
    BY <1>2, <2>1 DEF Register, LS!vars
<1>3. ASSUME NEW r \in Resources, Elapse(r) PROVE LS!Next
  <2>1. {Told(d) : d \in Over}' = {Told(d) : d \in Over}
    BY <1>3, ToldQuiet DEF Elapse
  <2>2. LS!Elapse(r)
    BY <1>3, <2>1 DEF Elapse, LS!Elapse
  <2>3. QED
    BY <2>2 DEF LS!Next
<1>4. CASE \/ UNCHANGED vars \/ Scan \/ \E p \in Releasers : TakeGuard(p)
  BY <1>1, <1>4 DEF vars, Scan, TakeGuard
<1>5. ASSUME NEW c \in Calls, Timer(c) PROVE UNCHANGED LS!vars
  <2>1. {Told(d) : d \in Over}' = {Told(d) : d \in Over}
    BY <1>5, ToldQuiet DEF Timer, Inv, TypeOK
  <2>2. QED
    BY <1>5, <2>1 DEF Timer, LS!vars
<1>6. QED
  BY <1>2, <1>3, <1>4, <1>5, AcquireService, TimeoutService, ReleaseService, ExpireService, GrantService
     DEF Next

(* The registry implements LockService: behind the two tokio mutexes, the  *)
(* stale queue entries and the sweep over a snapshot, every acquire call   *)
(* takes effect in one step of the table - it gets a free resource and is  *)
(* told so in that step, or is told the lock_id its agent holds, or is     *)
(* refused - except that a grant may cross the call's own timeout and      *)
(* leave it refused with a lock; and a lock goes only by its lock_id or    *)
(* after its TTL (acquire, release, grant_next_waiter, spawn_expiry_task). *)
THEOREM RegistryIsLockService == Spec => ImplementsLockService
<1>1. Init => LS!Init
  BY ServiceInit
<1>2. Spec => [][LS!Next]_LS!vars
  BY ServiceStep, RegistryInvariant, PTL DEF Spec
<1>3. QED
  BY <1>1, <1>2, PTL DEF Spec, ImplementsLockService, LS!Spec
=============================================================================
