------------------------------- MODULE PlanStore -------------------------------
(***************************************************************************)
(* What a plan revision promises: the accepted plan, its digest, the       *)
(* manifests of all scopes and the audit log change together, in one step, *)
(* and neither an operator's edit of the plan nor an answer recorded in a  *)
(* scope is ever lost on the way.                                          *)
(***************************************************************************)
EXTENDS Sequences, Naturals

CONSTANTS Plans, Scopes, Answers,
          Manifest   \* Manifest[p][s] is what plan p declares for scope s

VARIABLES draft,     \* the plan as the operator edits it
          edited,    \* how often he did
          accepted,  \* the plan in force
          digest,    \* the plan whose digest is recorded
          bound,     \* bound[s] is the manifest that scope s runs under
          audit,     \* the plans accepted so far
          answered   \* answered[s] are the answers recorded in scope s

vars == <<draft, edited, accepted, digest, bound, audit, answered>>

Init ==
  \E p \in Plans :
    /\ draft = p /\ edited = 0 /\ accepted = p /\ digest = p
    /\ bound = Manifest[p]
    /\ audit = << >>
    /\ answered = [s \in Scopes |-> {}]

Edit(p) ==
  /\ draft' = p /\ edited' = edited + 1
  /\ UNCHANGED <<accepted, digest, bound, audit, answered>>

Accept(p) ==
  /\ accepted' = p /\ digest' = p /\ bound' = Manifest[p]
  /\ audit' = Append(audit, p)
  /\ UNCHANGED <<draft, edited, answered>>

Answer(s, a) ==
  /\ answered' = [answered EXCEPT ![s] = @ \cup {a}]
  /\ UNCHANGED <<draft, edited, accepted, digest, bound, audit>>

Next == \/ \E p \in Plans : Edit(p) \/ Accept(p)
        \/ \E s \in Scopes, a \in Answers : Answer(s, a)

Spec == Init /\ [][Next]_vars
=============================================================================
