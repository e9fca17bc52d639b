---------------------------- MODULE ReviewWatcher ----------------------------
(***************************************************************************)
(* The review watcher (rust/exomonad-core/src/services/                    *)
(* worktree_event_watcher.rs) over one pull request: a poll cycle observes *)
(* the forge, compares what it sees with the runtime state of the pull     *)
(* request, persists that state in watcher-state.json, and then announces  *)
(* the differences as ledger events.  A new controller epoch has the       *)
(* standing announcements replayed.  Tools rewrite the file beside the     *)
(* watcher, without a lock: restart_review, which also resets the runtime  *)
(* state, and the three that clear the artifacts of a review.              *)
(*                                                                         *)
(* Abstractions: the fields no announcement depends on (rounds, stuck,     *)
(* reviewer attempts, addressed_changes, inline comments) are left out; a  *)
(* head or review is a number; merge_blocked_on_ci is FALSE, the only      *)
(* value the registry is built with.                                       *)
(***************************************************************************)
EXTENDS Integers, Sequences, FiniteSets

CONSTANTS MaxReviews, \* bound: reviews submitted
          MaxEvents   \* bound: pushes, dismissals, CI results, closings,
                      \*   controller epochs, calls of the tools, waits
                      \*   exceeded, crashes, cycles with a failed lookup and
                      \*   failed writes of the state file, together

ASSUME BoundAssumption == MaxReviews \in Nat /\ MaxEvents \in Nat

Heads    == 1 .. MaxEvents + 1
OrNone   == 0 .. MaxEvents + 1  \* 0: no head
Verdicts == {"approved", "changes_requested", "commented"}
CI       == {"unknown", "success", "failure"}
Prints   == 0 .. MaxReviews     \* last_review_fingerprint; 0: none

Review == [head : Heads, verdict : Verdicts, dismissed : BOOLEAN]

(* WatcherPrState, and what a missing entry reads as.                      *)
Entry == [sha : OrNone, review : Verdicts \cup {"none"}, print : Prints,
          timeout : BOOLEAN, approved : BOOLEAN, triggered : OrNone,
          blocked : BOOLEAN]
NoEntry == [sha |-> 0, review |-> "none", print |-> 0,
            timeout |-> FALSE, approved |-> FALSE, triggered |-> 0,
            blocked |-> FALSE]

(* WatchState: the entry, and what only the process knows.  "waited" is    *)
(* first_seen.elapsed() > reviewer_max_wait_seconds.                       *)
State == [known : BOOLEAN, saved : Entry, approvedAt : BOOLEAN, ci : CI,
          waited : BOOLEAN]
NoState == [known |-> FALSE, saved |-> NoEntry, approvedAt |-> FALSE,
            ci |-> "unknown", waited |-> FALSE]

File == [torn : BOOLEAN, epoch : 0 .. MaxEvents, entry : Entry]
NoFile == [torn |-> FALSE, epoch |-> 0, entry |-> NoEntry]

(* Observation: the head of the open list, its latest review in force and  *)
(* its CI status; "edits" identifies the state of the reviews.             *)
NoObs == [head |-> 0, latest |-> 0, ci |-> "unknown", edits |-> 0]

VARIABLES forge,    \* the pull request: open, head, reviews, ci
          ctl,      \* root.controller-epoch; 0: no such file
          mem,      \* WatcherRuntimeState of the pull request
          file,     \* watcher-state.json
          pc,       \* the watcher: "idle", "look", "compute", "persist", "say"
          obs,      \* its observation
          seen,     \* the epoch it read
          todo,     \* pending_actions
          call,     \* the tool: "idle", "read", "truncate", "write"
          copy,     \* the content it is about to write
          told,     \* history: the announcements made, by identity
          again,    \* history: one was made twice
          dropped,  \* history: some were computed, saved or not, and lost
          kept,     \* history: epoch and entry as the watcher saved them last
          strayed,  \* history: it read back something else
          events,   \* how many of the events that are bounded
          resets    \* calls of restart_review

watcher == <<pc, obs, seen, todo>>
tool    == <<call, copy>>
history == <<told, again, dropped, kept, strayed>>
vars    == <<forge, ctl, mem, file, watcher, tool, history, events, resets>>

Init ==
  /\ forge = [open |-> TRUE, head |-> 1, reviews |-> <<>>, ci |-> "unknown"]
  /\ ctl = 0 /\ mem = NoState /\ file = NoFile
  /\ pc = "idle" /\ obs = NoObs /\ seen = 0 /\ todo = <<>>
  /\ call = "idle" /\ copy = NoFile
  /\ told = {} /\ again = FALSE /\ dropped = FALSE
  /\ kept = NoFile /\ strayed = FALSE
  /\ events = 0 /\ resets = 0

Event == events < MaxEvents /\ events' = events + 1
-----------------------------------------------------------------------------
(* Mutant: reviews of every head count.                                    *)
InForce_AnyHead(r, h) == ~ r.dismissed

(* forgejo_review_parts: reviews that are dismissed, stale (the forge's    *)
(* mark once the head has moved) or of another head are skipped.           *)
InForce(r, h) == ~ r.dismissed /\ r.head = forge.head /\ r.head = h

(* latest_review_verdict: the number of the last review in force, or 0.    *)
Latest(h) ==
  LET S == {i \in DOMAIN forge.reviews : InForce(forge.reviews[i], h)}
  IN  IF S = {} THEN 0 ELSE CHOOSE i \in S : \A j \in S : j <= i

Edits == Len(forge.reviews)
           + Cardinality({i \in DOMAIN forge.reviews :
                            forge.reviews[i].dismissed})

(* read_watcher_state().unwrap_or_default()                                *)
Read == IF file.torn THEN NoFile ELSE file

(* load_registry_from_forgejo and evict_closed_prs_from_watcher_state.     *)
Load ==
  /\ pc = "idle"
  /\ IF forge.open
     THEN /\ pc' = "look" /\ obs' = [NoObs EXCEPT !.head = forge.head]
          /\ UNCHANGED file
     ELSE /\ Read.entry # NoEntry
          /\ file' = [file EXCEPT !.entry = NoEntry]
          /\ UNCHANGED <<pc, obs>>
  /\ UNCHANGED <<forge, ctl, mem, seen, todo, tool, history, events, resets>>

(* collect_observations: the lookups for the head of the registry; the one *)
(* of the reviews, that of the CI status, or both may fail, which reads as *)
(* nothing there.                                                          *)
Look(reviews, status) ==
  /\ pc = "look"
  /\ obs' = [obs EXCEPT
       !.latest = IF reviews THEN Latest(obs.head) ELSE 0,
       !.ci = IF status /\ forge.head = obs.head THEN forge.ci ELSE "unknown",
       !.edits = Edits]
  /\ pc' = "compute"
  /\ IF reviews /\ status THEN UNCHANGED events ELSE Event
  /\ UNCHANGED <<forge, ctl, mem, file, seen, todo, tool, history, resets>>

(* The head is not published, or its ownership is unresolved.              *)
Skip ==
  /\ pc = "look" /\ Event
  /\ pc' = "idle" /\ obs' = NoObs
  /\ UNCHANGED <<forge, ctl, mem, file, seen, todo, tool, history, resets>>
-----------------------------------------------------------------------------
(* compute_pr_actions_with_context, in its stages.  A stage maps a state   *)
(* and the announcements so far to the next.                               *)

(* The announcements, by what makes two of them the same.  No property is  *)
(* about repeating the others.                                             *)
Pushed    == <<"pushed", obs.head>>
CIBlocked == <<"ci_blocked", obs.head, resets>>
Approved  == <<"approved", obs.head, obs.edits, ctl>>
Triggered == <<"ci_triggered", obs.head, resets>>
TimedOut  == <<"timeout", obs.head, resets, ctl>>
Finding   == <<"review">>
CIStatus(approved) == IF approved THEN <<"ci_approved", obs.head>> ELSE <<"ci">>
Once == {"pushed", "ci_blocked", "approved", "ci_triggered", "timeout"}

(* process_observations without runtime state: WatchState::new with the    *)
(* persisted fields.                                                       *)
Hydrated ==
  [NoState EXCEPT !.known = TRUE,
     !.saved = [Read.entry EXCEPT !.sha = IF @ = 0 THEN obs.head ELSE @]]

(* Mutant: the last verdict is not forgotten.                              *)
OnNewHead_KeepsReview(s) ==
  [s EXCEPT !.saved = [NoEntry EXCEPT !.sha = obs.head, !.print = s.saved.print,
                                      !.review = s.saved.review],
            !.approvedAt = FALSE, !.waited = FALSE]

(* A head other than last_sha: all but the fingerprint and the CI status   *)
(* start anew.                                                             *)
OnNewHead(s) ==
  [s EXCEPT !.saved = [NoEntry EXCEPT !.sha = obs.head, !.print = s.saved.print],
            !.approvedAt = FALSE, !.waited = FALSE]

Stage1(st) ==
  IF st.s.saved.sha = obs.head THEN st
  ELSE [s |-> OnNewHead(st.s), out |-> Append(st.out, Pushed)]

Stage2(st) ==
  IF obs.ci # st.s.ci /\ obs.ci = "failure" /\ st.s.approvedAt
       /\ ~ st.s.saved.blocked
  THEN [s |-> [st.s EXCEPT !.saved.blocked = TRUE],
        out |-> Append(st.out, CIBlocked)]
  ELSE st

Verdict == IF obs.latest = 0 THEN "none"
           ELSE forge.reviews[obs.latest].verdict

IsNews(s, replay) == s.saved.review # "approved" \/ replay

Stage3(st, replay) ==
  IF Verdict = "approved" /\ IsNews(st.s, replay)
  THEN [s |-> [st.s EXCEPT !.saved.review = "approved",
                           !.saved.approved = TRUE,
                           !.saved.triggered = obs.head,
                           !.approvedAt = TRUE],
        out |-> IF st.s.saved.triggered = obs.head
                THEN Append(st.out, Approved)
                ELSE st.out \o <<Approved, Triggered>>]
  ELSE st

(* Requested changes and comments: announced when the state or the         *)
(* fingerprint differs; requested changes also restart the wait.           *)
Stage4(st) ==
  IF /\ Verdict \in {"changes_requested", "commented"}
     /\ \/ st.s.saved.review # Verdict
        \/ st.s.saved.print # obs.latest
  THEN [s |-> [st.s EXCEPT !.saved.review = Verdict,
                           !.saved.print = obs.latest,
                           !.waited = @ /\ Verdict = "commented"],
        out |-> Append(st.out, Finding)]
  ELSE st

Stage5(st) ==
  IF obs.ci # st.s.ci
  THEN [s |-> [st.s EXCEPT !.ci = obs.ci],
        out |-> Append(st.out, CIStatus(st.s.saved.approved))]
  ELSE st

Stage6(st, replay) ==
  IF st.s.waited /\ (~ st.s.saved.timeout \/ replay)
  THEN [s |-> [st.s EXCEPT !.saved.timeout = TRUE],
        out |-> Append(st.out, TimedOut)]
  ELSE st

(* After a timeout was announced, and without a replay, only the first two *)
(* stages run.                                                             *)
Actions(s, replay) ==
  LET early == Stage2(Stage1([s |-> s, out |-> <<>>]))
  IN  IF early.s.saved.timeout /\ ~ replay
      THEN early
      ELSE Stage6(Stage5(Stage4(Stage3(early, replay))), replay)

(* process_observations up to the save.                                    *)
Compute ==
  /\ pc = "compute"
  /\ LET replay == ctl # 0 /\ Read.epoch # ctl
         st     == Actions(IF mem.known THEN mem ELSE Hydrated, replay)
     IN  mem' = st.s /\ todo' = st.out
  /\ seen' = ctl
  /\ pc' = "persist"
  /\ strayed' = \/ strayed \/ Read.epoch # kept.epoch
                \/ ~ mem.known /\ Read.entry # kept.entry
  /\ UNCHANGED <<forge, ctl, file, obs, tool, told, again, dropped, kept,
                 events, resets>>

(* Mutant: the last verdict is not saved.                                  *)
Projected_NoReview ==
  [mem.saved EXCEPT !.sha = obs.head, !.review = "none"]

(* What persist_runtime_pr_state writes of the runtime state.              *)
Projected == [mem.saved EXCEPT !.sha = obs.head]

(* Mutant: a cycle with nothing to announce goes on to announce.           *)
Persist_Say ==
  /\ pc = "persist"
  /\ file' = [torn |-> FALSE,
              epoch |-> IF seen = 0 THEN Read.epoch ELSE seen,
              entry |-> Projected]
  /\ kept' = [kept EXCEPT !.epoch = IF seen = 0 THEN @ ELSE seen,
                          !.entry = Projected]
  /\ pc' = "say"
  /\ UNCHANGED <<forge, ctl, mem, obs, seen, todo, tool, told, again, dropped,
                 strayed, events, resets>>

(* persist_runtime_pr_state, by rename.                                    *)
Persist ==
  /\ pc = "persist"
  /\ file' = [torn |-> FALSE,
              epoch |-> IF seen = 0 THEN Read.epoch ELSE seen,
              entry |-> Projected]
  /\ kept' = [kept EXCEPT !.epoch = IF seen = 0 THEN @ ELSE seen,
                          !.entry = Projected]
  /\ pc' = IF todo = <<>> THEN "idle" ELSE "say"
  /\ obs' = IF todo = <<>> THEN NoObs ELSE obs
  /\ seen' = IF todo = <<>> THEN 0 ELSE seen
  /\ UNCHANGED <<forge, ctl, mem, todo, tool, told, again, dropped, strayed,
                 events, resets>>

(* It fails: the cycle ends, and what it would have announced is lost.     *)
PersistFails ==
  /\ pc = "persist" /\ Event
  /\ dropped' = (dropped \/ todo # <<>>)
  /\ pc' = "idle" /\ obs' = NoObs /\ seen' = 0 /\ todo' = <<>>
  /\ UNCHANGED <<forge, ctl, mem, file, tool, told, again, kept, strayed,
                 resets>>

(* One announcement: its ledger row is written before the role's handler   *)
(* is called, whose failure is only logged.                                *)
Say ==
  /\ pc = "say"
  /\ told' = told \cup {Head(todo)}
  /\ again' = (again \/ (Head(todo) \in told /\ Head(todo)[1] \in Once))
  /\ todo' = Tail(todo)
  /\ IF Len(todo) = 1
     THEN pc' = "idle" /\ obs' = NoObs /\ seen' = 0
     ELSE UNCHANGED <<pc, obs, seen>>
  /\ UNCHANGED <<forge, ctl, mem, file, tool, dropped, kept, strayed, events,
                 resets>>
-----------------------------------------------------------------------------
(* restart_review: WatchState::reset_review_cycle, which keeps the last    *)
(* head, verdict and CI status ...                                         *)
ResetCycle ==
  /\ call = "idle" /\ forge.open /\ Event
  /\ resets' = resets + 1
  /\ mem' = IF mem.known
            THEN [mem EXCEPT !.saved = [NoEntry EXCEPT !.sha = mem.saved.sha,
                                          !.review = mem.saved.review],
                             !.approvedAt = FALSE]
            ELSE mem
  /\ call' = "read"
  /\ UNCHANGED <<forge, ctl, file, watcher, copy, history>>

(* ... then reset_watcher_pr_state_file: the file is read, and written     *)
(* back, if it has the entry, without the fingerprint.                     *)
ReadCopy ==
  /\ call = "read"
  /\ IF file.torn \/ file.entry = NoEntry
     THEN call' = "idle" /\ UNCHANGED copy
     ELSE call' = "truncate" /\ copy' = [file EXCEPT !.entry.print = 0]
  /\ UNCHANGED <<forge, ctl, mem, file, watcher, history, events, resets>>

(* clear_watcher_pr_state, called when a reviewer is spawned, a leaf is    *)
(* cleaned up or replaced: written back without the entry.  A file that    *)
(* does not parse is an error, a missing one is left alone.                *)
ReadToClear ==
  /\ call = "idle" /\ ~ file.torn /\ file # NoFile /\ Event
  /\ call' = "truncate" /\ copy' = [file EXCEPT !.entry = NoEntry]
  /\ UNCHANGED <<forge, ctl, mem, file, watcher, history, resets>>

(* Either writes in place: first the file is empty ...                     *)
Truncate ==
  /\ call = "truncate"
  /\ file' = [NoFile EXCEPT !.torn = TRUE]
  /\ call' = "write"
  /\ UNCHANGED <<forge, ctl, mem, watcher, copy, history, events, resets>>

(* ... then it has the content; a file the watcher renamed over it stays.  *)
WriteCopy ==
  /\ call = "write"
  /\ file' = IF file.torn THEN copy ELSE file
  /\ call' = "idle" /\ copy' = NoFile
  /\ UNCHANGED <<forge, ctl, mem, watcher, history, events, resets>>
-----------------------------------------------------------------------------
(* The environment: developers, reviewers, CI, the controller, time.       *)
Env == UNCHANGED <<mem, file, watcher, tool, history, resets>>

Push ==
  /\ forge.open
  /\ forge' = [forge EXCEPT !.head = @ + 1, !.ci = "unknown"]
  /\ UNCHANGED ctl /\ Event /\ Env

Submit(v) ==
  /\ forge.open /\ Len(forge.reviews) < MaxReviews
  /\ forge' = [forge EXCEPT !.reviews =
       Append(@, [head |-> forge.head, verdict |-> v, dismissed |-> FALSE])]
  /\ UNCHANGED <<ctl, events>> /\ Env

Dismiss(i) ==
  /\ i \in DOMAIN forge.reviews /\ ~ forge.reviews[i].dismissed
  /\ forge' = [forge EXCEPT !.reviews[i].dismissed = TRUE]
  /\ UNCHANGED ctl /\ Event /\ Env

CIResult(c) ==
  /\ forge.ci # c
  /\ forge' = [forge EXCEPT !.ci = c]
  /\ UNCHANGED ctl /\ Event /\ Env

Close ==
  /\ forge' = [forge EXCEPT !.open = ~ @]
  /\ UNCHANGED ctl /\ Event /\ Env

NewEpoch ==
  /\ ctl' = ctl + 1
  /\ UNCHANGED forge /\ Event /\ Env

(* The wait for a review exceeds reviewer_max_wait_seconds.                *)
Elapse ==
  /\ mem.known /\ ~ mem.waited /\ Event
  /\ mem' = [mem EXCEPT !.waited = TRUE]
  /\ UNCHANGED <<forge, ctl, file, watcher, tool, history, resets>>

(* The server stops and starts again.                                      *)
Crash ==
  /\ Event
  /\ mem' = NoState
  /\ pc' = "idle" /\ obs' = NoObs /\ seen' = 0 /\ todo' = <<>>
  /\ call' = "idle" /\ copy' = NoFile
  /\ dropped' = (dropped \/ pc = "say")
  /\ UNCHANGED <<forge, ctl, file, told, again, kept, strayed, resets>>
-----------------------------------------------------------------------------
Lookups == \E reviews, status \in BOOLEAN : Look(reviews, status)
Cycle   == Load \/ Lookups \/ Skip \/ Compute \/ Persist \/ Say

Next ==
  \/ Cycle \/ PersistFails \/ Crash \/ Elapse
  \/ ResetCycle \/ ReadCopy \/ ReadToClear \/ Truncate \/ WriteCopy
  \/ Push \/ Close \/ NewEpoch
  \/ \E v \in Verdicts : Submit(v)
  \/ \E i \in 1 .. MaxReviews : Dismiss(i)
  \/ \E c \in CI : CIResult(c)

Spec == Init /\ [][Next]_vars

(* The poll loop runs for ever; nothing else needs to.                     *)
FairSpec == Spec /\ WF_vars(Cycle)
-----------------------------------------------------------------------------
(* Type invariant.                                                         *)
TypeOK ==
  /\ forge.open \in BOOLEAN /\ forge.head \in Heads /\ forge.ci \in CI
  /\ forge.reviews \in Seq(Review) /\ ctl \in 0 .. MaxEvents
  /\ mem \in State /\ {file, copy, kept} \subseteq File
  /\ pc \in {"idle", "look", "compute", "persist", "say"}
  /\ call \in {"idle", "read", "truncate", "write"}
  /\ pc # "idle" => obs.head \in Heads
  /\ (pc = "say") => todo # <<>>
  /\ obs.latest \in 0 .. Len(forge.reviews)
  /\ {again, dropped, strayed} \subseteq BOOLEAN
  /\ events \in 0 .. MaxEvents /\ resets \in 0 .. MaxEvents

(* Head binding ("Not an approval layer; a correctness guarantee",         *)
(* watcher-as-sensor.md): an approval is announced, and a CI event claims  *)
(* reviewer_approved, only for a head that a reviewer approved, however    *)
(* pushes and lookups interleave and through every restart.                *)
HeadBound ==
  \A k \in told :
    k[1] \in {"approved", "ci_approved", "ci_triggered"} =>
      \E i \in DOMAIN forge.reviews :
        forge.reviews[i].head = k[2] /\ forge.reviews[i].verdict = "approved"

(* As long as the watcher reads back what it saved, nothing it announced   *)
(* is announced again: one approval per controller epoch and state of the  *)
(* reviews, one timeout per head, epoch and restart_review, one push per   *)
(* head, through crashes, failed lookups, failed writes and replays, and   *)
(* although the tools rewrite the file between two of its own writes.      *)
(* (It may read something else, the epoch at any time and the entry after  *)
(* a restart, and then repeat itself: the entry of a closed pull request   *)
(* is evicted, clear_watcher_pr_state removes it, and a tool that dies,    *)
(* has only truncated the file or loses a race leaves it empty or puts an  *)
(* older one back.)                                                        *)
NotToldTwice == again => strayed

(* A head whose approval stands is announced as approved, unless a timeout *)
(* was announced for it or announcements were lost in a crash or a failed  *)
(* write.                                                                  *)
Standing == /\ forge.open /\ Latest(forge.head) # 0
            /\ forge.reviews[Latest(forge.head)].verdict = "approved"
ToldOf(kind) == \E k \in told : k[1] = kind /\ k[2] = forge.head

ApprovalTold ==
  Standing ~> ~ Standing \/ ToldOf("approved") \/ ToldOf("timeout") \/ dropped
=============================================================================
