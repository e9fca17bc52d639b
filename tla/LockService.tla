----------------------------- MODULE LockService -----------------------------
(***************************************************************************)
(* What the mutex registry promises agents: a lock service without queues, *)
(* guards or sweeps.  A call is answered once, in one step with the table: *)
(* it gets the free resource under its own lock_id, it is told the lock_id *)
(* its agent already holds, or it is refused.  The one exception is Late.  *)
(* A lock goes only through a release sent with its lock_id or after its   *)
(* time has passed.                                                        *)
(***************************************************************************)
EXTENDS Naturals

CONSTANTS Calls, Agents, Resources, None

VARIABLES holder,   \* resource -> the lock held, or None
          answers,  \* what each call that is over asked for and was told
          sent,     \* call -> releases sent with its lock_id
          expired   \* the lock_ids whose time has passed

vars == <<holder, answers, sent, expired>>

Init ==
  /\ holder = [r \in Resources |-> None]
  /\ answers = {}
  /\ sent = [c \in Calls |-> 0]
  /\ expired = {}

Unanswered(c)   == \A m \in answers : m.call # c
HoldsNothing(c) == \A r \in Resources : holder[r] # None => holder[r].id # c

Tell(c, a, r, id) ==
  /\ Unanswered(c)
  /\ answers' =
       answers \cup {[call |-> c, agent |-> a, res |-> r, id |-> id]}

(* The resource is free, and the call that draws the lock_id is told so in *)
(* the same step.                                                          *)
Grant(c, a, r) ==
  /\ holder[r] = None /\ HoldsNothing(c)
  /\ holder' = [holder EXCEPT ![r] = [id |-> c, agent |-> a]]
  /\ Tell(c, a, r, c)
  /\ UNCHANGED <<sent, expired>>

(* The grant crosses the timeout of the call: it takes the resource for a  *)
(* call that has no answer yet and can only be refused from now on.  The   *)
(* lock stays until its time has passed, or until the agent re-enters.     *)
Late(c, a, r) ==
  /\ holder[r] = None /\ HoldsNothing(c) /\ Unanswered(c)
  /\ holder' = [holder EXCEPT ![r] = [id |-> c, agent |-> a]]
  /\ UNCHANGED <<answers, sent, expired>>

Reenter(c, a, r) ==
  /\ holder[r] # None /\ holder[r].agent = a /\ HoldsNothing(c)
  /\ Tell(c, a, r, holder[r].id)
  /\ UNCHANGED <<holder, sent, expired>>

Refuse(c, a, r) ==
  /\ Tell(c, a, r, None)
  /\ UNCHANGED <<holder, sent, expired>>

(* Frees the resource of the caller's own request, and only while its      *)
(* lock_id is the one in force.                                            *)
Release(m) ==
  /\ m.id # None
  /\ sent' = [sent EXCEPT ![m.call] = @ + 1]
  /\ holder' = IF holder[m.res] # None /\ holder[m.res].id = m.id
               THEN [holder EXCEPT ![m.res] = None]
               ELSE holder
  /\ UNCHANGED <<answers, expired>>

Elapse(r) ==
  /\ holder[r] # None
  /\ expired' = expired \cup {holder[r].id}
  /\ UNCHANGED <<holder, answers, sent>>

Expire(r) ==
  /\ holder[r] # None /\ holder[r].id \in expired
  /\ holder' = [holder EXCEPT ![r] = None]
  /\ UNCHANGED <<answers, sent, expired>>

Next ==
  \/ \E c \in Calls, a \in Agents, r \in Resources :
       Grant(c, a, r) \/ Late(c, a, r) \/ Reenter(c, a, r) \/ Refuse(c, a, r)
  \/ \E m \in answers : Release(m)
  \/ \E r \in Resources : Elapse(r) \/ Expire(r)

Spec == Init /\ [][Next]_vars
=============================================================================
