--------------------------- MODULE MCMutexRegistry ---------------------------
(* Instances of MutexRegistry for TLC. *)
EXTENDS MutexRegistry, TLC

(* Fairness: tasks run, tokio's mutexes are handed over first come first   *)
(* served, time passes and the expiry task ticks every second.  Nothing    *)
(* obliges an agent to release.                                            *)
FairSpec ==
  /\ Spec
  /\ \A c \in Calls : /\ WF_vars(Register(c))
                      /\ WF_vars(Timer(c)) /\ WF_vars(Timeout(c))
  /\ \A p \in Releasers : WF_vars(TakeGuard(p)) /\ WF_vars(GrantNext(p))
  /\ \A r \in Resources : WF_vars(Elapse(r))
  /\ WF_vars(Scan)
  /\ WF_vars(\E e \in sweep : ExpireNext(e))

(* An acquire call that did not get the lock at once is answered, also if  *)
(* the lock was released before it had registered and no release follows.  *)
CallAnswered ==
  \A c \in Calls :
    pc[c] \in {"registering", "waiting", "expiring"} ~> pc[c] = "done"

(* "TTL auto-expiry": a lock whose holder never releases it is freed.      *)
LockExpires ==
  \A c \in Calls :
    (\E r \in Resources : OwnedBy(r, c)) ~> ~ \E r \in Resources : OwnedBy(r, c)
=============================================================================
