------------------------- MODULE ReviewWatcherProofs -------------------------
(***************************************************************************)
(* Proofs about ReviewWatcher, for any number of reviews, pushes,          *)
(* dismissals, crashes, failed lookups and writes, epochs and calls of the *)
(* tools: what is announced as approved was approved at its head, nothing  *)
(* is announced twice as long as the watcher reads back what it saved, and *)
(* what is withheld as announced was.                                      *)
(***************************************************************************)
EXTENDS ReviewWatcher, FiniteSetTheorems, WellFoundedInduction, TLAPS

(* The types TypeOK needs to be inductive: the records of the forge and of *)
(* an observation, the announcements, and the counters behind the heads,   *)
(* the epochs and the calls of restart_review.                             *)
Forge == [open : BOOLEAN, head : Heads, reviews : Seq(Review), ci : CI]
Obs   == [head : OrNone, latest : Nat, ci : CI, edits : Nat]
Ann   == {<<"review">>, <<"ci">>}
           \cup {<<"pushed", h>> : h \in OrNone}
           \cup {<<"ci_approved", h>> : h \in OrNone}
           \cup {<<"ci_blocked", h, n>> : h \in OrNone, n \in Nat}
           \cup {<<"ci_triggered", h, n>> : h \in OrNone, n \in Nat}
           \cup {<<"approved", h, n, e>> : h \in OrNone, n \in Nat, e \in Nat}
           \cup {<<"timeout", h, n, e>> : h \in OrNone, n \in Nat, e \in Nat}

Values ==
  /\ forge \in Forge /\ obs \in Obs /\ todo \in Seq(Ann)
  /\ mem \in State /\ file \in File /\ copy \in File /\ kept \in File
  /\ pc \in {"idle", "look", "compute", "persist", "say"}
  /\ call \in {"idle", "read", "truncate", "write"}
  /\ again \in BOOLEAN /\ dropped \in BOOLEAN /\ strayed \in BOOLEAN

Counters ==
  /\ events \in 0 .. MaxEvents
  /\ ctl \in 0 .. events /\ resets \in 0 .. events /\ seen \in 0 .. events
  /\ forge.head <= events + 1
  /\ Len(forge.reviews) <= MaxReviews

Places ==
  /\ pc # "idle" => obs.head \in Heads
  /\ pc = "say" => todo # <<>>
  /\ obs.latest <= Len(forge.reviews)

Types == Values /\ Counters /\ Places

(* A reviewer has approved this head, whether or not the review still      *)
(* stands.                                                                 *)
ApprovedHead(h) ==
  \E i \in 1 .. Len(forge.reviews) :
    forge.reviews[i].head = h /\ forge.reviews[i].verdict = "approved"

(* An announcement that claims an approval names such a head.              *)
Bound(k) ==
  k[1] \in {"approved", "ci_approved", "ci_triggered"} => ApprovedHead(k[2])

(* So does every copy of the approval flag: in memory, in the file and in  *)
(* the copy restart_review writes back.                                    *)
FlagBound(e) == e.approved => ApprovedHead(e.sha)

Flags == FlagBound(mem.saved) /\ FlagBound(file.entry) /\ FlagBound(copy.entry)

(* The review an observation names is one of the observed head, and what   *)
(* is about to be saved belongs to the observed head.                      *)
ObservedHead ==
  /\ pc = "compute" /\ obs.latest # 0 => forge.reviews[obs.latest].head = obs.head
  /\ pc = "persist" => mem.saved.sha = obs.head

Announced == /\ \A i \in 1 .. Len(todo) : Bound(todo[i])
             /\ \A k \in told : Bound(k)

(* The inductive invariant.  HeadBound is Announced; Compute keeps it      *)
(* because of Flags and ObservedHead, Persist keeps Flags because of       *)
(* ObservedHead.                                                           *)
Inv == Types /\ Flags /\ ObservedHead /\ Announced

-----------------------------------------------------------------------------
(* A review keeps its head and verdict, so an approved head stays one.     *)
ReviewsKept ==
  /\ Len(forge.reviews) <= Len(forge'.reviews)
  /\ \A i \in 1 .. Len(forge.reviews) :
       /\ forge'.reviews[i].head = forge.reviews[i].head
       /\ forge'.reviews[i].verdict = forge.reviews[i].verdict

LEMMA ApprovedStays ==
  ASSUME Types, Types', ReviewsKept
  PROVE  \A h : ApprovedHead(h) => ApprovedHead(h)'
<1>1. Len(forge.reviews) \in Nat /\ Len(forge'.reviews) \in Nat
  BY DEF Types, Values, Counters, Places, Forge
<1>2. QED
  BY <1>1 DEF ApprovedHead, ReviewsKept

(* No head is 0, so a saved state without a head carries no approval.      *)
LEMMA ZeroUnapproved ==
  ASSUME Types
  PROVE  ~ ApprovedHead(0)
<1>1. \A i \in 1 .. Len(forge.reviews) : forge.reviews[i] \in Review
  BY DEF Types, Values, Counters, Places, Forge
<1>2. \A r \in Review : r.head # 0
  BY BoundAssumption DEF Review, Heads
<1>3. QED
  BY <1>1, <1>2 DEF ApprovedHead

LEMMA NoEntryTyped == NoEntry \in Entry /\ ~ NoEntry.approved /\ NoEntry.sha = 0
BY BoundAssumption DEF NoEntry, Entry, OrNone, Prints

LEMMA NoFileTyped == NoFile \in File /\ ~ NoFile.entry.approved
BY NoEntryTyped, BoundAssumption DEF NoFile, File

LEMMA NoStateTyped == NoState \in State /\ ~ NoState.saved.approved
BY NoEntryTyped DEF NoState, State, CI

LEMMA NoObsTyped == NoObs \in Obs /\ NoObs.latest = 0
BY BoundAssumption DEF NoObs, Obs, OrNone, CI

LEMMA EditsTyped ==
  ASSUME Types
  PROVE  Edits \in Nat
<1> DEFINE D == {i \in DOMAIN forge.reviews : forge.reviews[i].dismissed}
<1>1. Len(forge.reviews) \in Nat /\ DOMAIN forge.reviews = 1 .. Len(forge.reviews)
  BY DEF Types, Values, Counters, Places, Forge
<1>2. IsFiniteSet(1 .. Len(forge.reviews))
  BY <1>1, FS_Interval
<1>3. IsFiniteSet(D)
  BY <1>1, <1>2, FS_Subset
<1>4. Cardinality(D) \in Nat
  BY <1>3, FS_CardinalityType
<1>5. QED
  BY <1>1, <1>4 DEF Edits

(* A nonempty set of numbers up to n has a greatest element: the one with  *)
(* the fewest above it, as inclusion is well founded on finite sets.       *)
LEMMA GreatestExists ==
  ASSUME NEW n \in Nat, NEW S, S \subseteq 1 .. n, S # {}
  PROVE  \E i \in S : \A j \in S : j <= i
<1> DEFINE Above(i) == {j \in S : j > i}
           T == {Above(i) : i \in S}
           R == StrictSubsetOrdering(1 .. n)
<1>1. IsFiniteSet(1 .. n)
  BY FS_Interval
<1>2. IsWellFoundedOn(R, FiniteSubsetsOf(1 .. n))
  BY <1>1, FS_StrictSubsetOrderingWellFounded
<1>3. T \subseteq FiniteSubsetsOf(1 .. n) /\ T # {}
  <2>1. FiniteSubsetsOf(1 .. n) = SUBSET (1 .. n)
    BY <1>1, FS_FiniteSubsetsOfFinite
  <2>2. \A i \in S : Above(i) \subseteq 1 .. n
    OBVIOUS
  <2> HIDE DEF Above
  <2>3. T \subseteq SUBSET (1 .. n)
    BY <2>2
  <2>4. T # {}
    OBVIOUS
  <2>5. QED
    BY <2>1, <2>3, <2>4
<1>4. PICK x \in T : \A y \in T : ~ (<<y, x>> \in R)
  <2> HIDE DEF T, R
  <2> QED
    BY <1>2, <1>3, WFMin
<1>5. PICK i \in S : x = Above(i)
  OBVIOUS
<1>6. ASSUME NEW j \in S, j > i
      PROVE  FALSE
  <2>1. Above(j) \in T /\ Above(j) \subseteq Above(i) /\ j \in Above(i) /\ j \notin Above(j)
    <3>1. Above(j) \in T
      OBVIOUS
    <3>2. S \subseteq Int
      OBVIOUS
    <3>3. \A k \in S : k > j => k > i
      BY <1>6, <3>2
    <3>4. ~ (j > j)
      BY <3>2
    <3>5. QED
      BY <1>6, <3>1, <3>3, <3>4
  <2>2. Above(j) \subseteq 1 .. n /\ Above(i) \subseteq 1 .. n
    OBVIOUS
  <2>3. <<Above(j), Above(i)>> \in R
    <3> HIDE DEF Above
    <3> QED
      BY <2>1, <2>2 DEF StrictSubsetOrdering
  <2>4. QED
    BY <1>4, <1>5, <2>1, <2>3
<1>7. QED
  BY <1>6

(* What a lookup finds is a review of the head it was made for.            *)
LEMMA LatestOfHead ==
  ASSUME Types, NEW h
  PROVE  /\ Latest(h) \in 0 .. Len(forge.reviews)
         /\ Latest(h) # 0 => forge.reviews[Latest(h)].head = h
<1> DEFINE S == {i \in DOMAIN forge.reviews : InForce(forge.reviews[i], h)}
<1>1. Len(forge.reviews) \in Nat /\ DOMAIN forge.reviews = 1 .. Len(forge.reviews)
  BY DEF Types, Values, Counters, Places, Forge
<1>2. CASE S = {}
  BY <1>1, <1>2 DEF Latest
<1>3. CASE S # {}
  <2>2. \E i \in S : \A j \in S : j <= i
    BY <1>1, <1>3, GreatestExists
  <2>3. Latest(h) \in S
    BY <1>3, <2>2 DEF Latest
  <2>4. QED
    BY <1>1, <2>3 DEF InForce
<1>4. QED
  BY <1>2, <1>3
-----------------------------------------------------------------------------
(* The stages of compute_pr_actions_with_context keep announcements and    *)
(* flags bound; from the first one on the state belongs to the observed    *)
(* head.                                                                   *)
Stage == [s : State, out : Seq(Ann)]
Sound(st) == /\ st \in Stage
             /\ FlagBound(st.s.saved)
             /\ \A i \in 1 .. Len(st.out) : Bound(st.out[i])
AtHead(st) == Sound(st) /\ st.s.saved.sha = obs.head

(* An observation of an approval is one of the observed head.              *)
Observed == /\ Types /\ obs.head \in Heads
            /\ obs.latest # 0 => forge.reviews[obs.latest].head = obs.head

LEMMA AnnTyped ==
  ASSUME Types
  PROVE  /\ {Pushed, CIBlocked, Approved, Triggered, TimedOut, Finding} \subseteq Ann
         /\ \A b \in BOOLEAN : CIStatus(b) \in Ann
<1>1. obs.head \in OrNone /\ obs.edits \in Nat /\ ctl \in Nat /\ resets \in Nat
  BY DEF Types, Values, Counters, Places, Obs
<1>2. Pushed \in Ann
  BY <1>1 DEF Pushed, Ann
<1>3. CIBlocked \in Ann
  BY <1>1 DEF CIBlocked, Ann
<1>4. Approved \in Ann
  BY <1>1 DEF Approved, Ann
<1>5. Triggered \in Ann
  BY <1>1 DEF Triggered, Ann
<1>6. TimedOut \in Ann
  BY <1>1 DEF TimedOut, Ann
<1>7. Finding \in Ann
  BY DEF Finding, Ann
<1>8. \A b \in BOOLEAN : CIStatus(b) \in Ann
  BY <1>1 DEF CIStatus, Ann
<1>9. QED
  BY <1>2, <1>3, <1>4, <1>5, <1>6, <1>7, <1>8

LEMMA AnnBound ==
  /\ Bound(Pushed) /\ Bound(CIBlocked) /\ Bound(TimedOut) /\ Bound(Finding)
  /\ Bound(CIStatus(FALSE))
  /\ ApprovedHead(obs.head) => Bound(Approved) /\ Bound(Triggered) /\ Bound(CIStatus(TRUE))
BY DEF Bound, Pushed, CIBlocked, TimedOut, Finding, CIStatus, Approved, Triggered

(* Announcing k and changing the saved state to s.                         *)
LEMMA Announces ==
  ASSUME NEW st, Sound(st), NEW s \in State, FlagBound(s.saved), NEW k \in Ann, Bound(k)
  PROVE  Sound([s |-> s, out |-> Append(st.out, k)])
<1> DEFINE o == Append(st.out, k)
<1>1. st.out \in Seq(Ann)
  BY DEF Sound, Stage
<1>2. o \in Seq(Ann) /\ Len(o) = Len(st.out) + 1 /\ o[Len(st.out) + 1] = k
      /\ \A i \in 1 .. Len(st.out) : o[i] = st.out[i]
  BY <1>1
<1>3. \A i \in 1 .. Len(o) : Bound(o[i])
  <2> HIDE DEF o
  <2>1. \A i \in 1 .. Len(o) : i = Len(st.out) + 1 \/ i \in 1 .. Len(st.out)
    BY <1>1, <1>2
  <2>2. QED
    BY <1>2, <2>1 DEF Sound
<1>4. [s |-> s, out |-> o] \in Stage
  BY <1>2 DEF Stage
<1>5. QED
  BY <1>3, <1>4 DEF Sound

LEMMA Stage1Sound ==
  ASSUME Observed, NEW st, Sound(st)
  PROVE  AtHead(Stage1(st))
<1>1. CASE st.s.saved.sha = obs.head
  BY <1>1 DEF Stage1, AtHead
<1>2. CASE st.s.saved.sha # obs.head
  <2> DEFINE s == OnNewHead(st.s)
  <2>1. st.s \in State /\ st.s.saved \in Entry /\ st.s.saved.print \in Prints /\ obs.head \in OrNone
    BY DEF Sound, Stage, State, Entry, Observed, Types, Values, Counters, Places, Obs
  <2>2. [NoEntry EXCEPT !.sha = obs.head, !.print = st.s.saved.print] \in Entry
    BY <2>1, NoEntryTyped DEF Entry
  <2>3. s \in State /\ s.saved = [NoEntry EXCEPT !.sha = obs.head, !.print = st.s.saved.print]
    BY <2>1, <2>2 DEF OnNewHead, State
  <2>4. ~ s.saved.approved /\ s.saved.sha = obs.head
    BY <2>3 DEF NoEntry
  <2>5. Pushed \in Ann /\ Bound(Pushed) /\ FlagBound(s.saved)
    BY <2>4, AnnTyped, AnnBound DEF Observed, FlagBound
  <2> HIDE DEF s
  <2>6. Sound([s |-> s, out |-> Append(st.out, Pushed)])
    BY <2>3, <2>5, Announces
  <2>7. Stage1(st) = [s |-> s, out |-> Append(st.out, Pushed)]
    BY <1>2 DEF Stage1, s
  <2>8. QED
    BY <2>4, <2>6, <2>7 DEF AtHead
<1>3. QED
  BY <1>1, <1>2
LEMMA Stage2Sound ==
  ASSUME Observed, NEW st, AtHead(st)
  PROVE  AtHead(Stage2(st))
<1> DEFINE s == [st.s EXCEPT !.saved.blocked = TRUE]
<1>1. st.s \in State /\ st.s.saved \in Entry /\ Sound(st) /\ FlagBound(st.s.saved)
  BY DEF AtHead, Sound, Stage, State
<1>2. s \in State /\ s.saved.sha = st.s.saved.sha /\ s.saved.approved = st.s.saved.approved
  BY <1>1 DEF State, Entry
<1>3. FlagBound(s.saved)
  BY <1>1, <1>2 DEF FlagBound
<1>4. CIBlocked \in Ann /\ Bound(CIBlocked)
  BY AnnTyped, AnnBound DEF Observed
<1> HIDE DEF s
<1>5. AtHead([s |-> s, out |-> Append(st.out, CIBlocked)])
  BY <1>1, <1>2, <1>3, <1>4, Announces DEF AtHead
<1>6. QED
  BY <1>5 DEF Stage2, s

LEMMA Stage3Sound ==
  ASSUME Observed, NEW st, AtHead(st), NEW replay
  PROVE  AtHead(Stage3(st, replay))
<1> SUFFICES ASSUME Verdict = "approved"
             PROVE  AtHead(Stage3(st, replay))
  BY DEF Stage3
<1> DEFINE s == [st.s EXCEPT !.saved.review = "approved", !.saved.approved = TRUE,
                             !.saved.triggered = obs.head, !.approvedAt = TRUE]
           one == [s |-> s, out |-> Append(st.out, Approved)]
<1>1. st.s \in State /\ st.s.saved \in Entry /\ Sound(st) /\ st.out \in Seq(Ann) /\ obs.head \in OrNone
  BY DEF AtHead, Sound, Stage, State, Observed, Types, Values, Counters, Places, Obs
<1>2. s \in State /\ s.saved.sha = obs.head
  BY <1>1 DEF State, Entry, Verdicts, AtHead
<1>3. ApprovedHead(obs.head)
  <2>1. obs.latest \in 1 .. Len(forge.reviews)
    BY DEF Verdict, Observed, Types, Values, Counters, Places, Obs, Forge
  <2>2. QED
    BY <2>1 DEF Verdict, Observed, ApprovedHead
<1>4. FlagBound(s.saved)
  BY <1>2, <1>3 DEF FlagBound
<1>5. Approved \in Ann /\ Bound(Approved) /\ Triggered \in Ann /\ Bound(Triggered)
  BY <1>3, AnnTyped, AnnBound DEF Observed
<1>6. st.out \o <<Approved, Triggered>> = Append(Append(st.out, Approved), Triggered)
  <2> HIDE DEF s
  <2> QED
    BY <1>1, <1>5
<1> HIDE DEF s
<1>7. Sound(one)
  BY <1>1, <1>2, <1>4, <1>5, Announces
<1>8. one.out = Append(st.out, Approved)
  OBVIOUS
<1>9. Sound([s |-> s, out |-> Append(Append(st.out, Approved), Triggered)])
  BY <1>2, <1>4, <1>5, <1>7, <1>8, Announces
<1>10. Stage3(st, replay) \in {st, one, [s |-> s, out |-> Append(Append(st.out, Approved), Triggered)]}
  BY <1>6 DEF Stage3, s
<1>11. AtHead(one) /\ AtHead([s |-> s, out |-> Append(Append(st.out, Approved), Triggered)])
  BY <1>2, <1>7, <1>9 DEF AtHead
<1>12. QED
  BY <1>10, <1>11

LEMMA Stage4Sound ==
  ASSUME Observed, NEW st, AtHead(st)
  PROVE  AtHead(Stage4(st))
<1> SUFFICES ASSUME Verdict \in {"changes_requested", "commented"}
             PROVE  AtHead(Stage4(st))
  BY DEF Stage4
<1> DEFINE s == [st.s EXCEPT !.saved.review = Verdict, !.saved.print = obs.latest,
                             !.waited = @ /\ Verdict = "commented"]
<1>1. st.s \in State /\ st.s.saved \in Entry /\ Sound(st) /\ FlagBound(st.s.saved)
  BY DEF AtHead, Sound, Stage, State
<1>2. obs.latest \in Prints
  BY BoundAssumption DEF Observed, Types, Values, Counters, Places, Obs, Prints, Forge
<1>3. s \in State /\ s.saved.sha = st.s.saved.sha /\ s.saved.approved = st.s.saved.approved
  BY <1>1, <1>2 DEF State, Entry, Verdicts
<1>4. FlagBound(s.saved)
  BY <1>1, <1>3 DEF FlagBound
<1>5. Finding \in Ann /\ Bound(Finding)
  BY AnnTyped, AnnBound DEF Observed
<1> HIDE DEF s
<1>6. AtHead([s |-> s, out |-> Append(st.out, Finding)])
  BY <1>1, <1>3, <1>4, <1>5, Announces DEF AtHead
<1>7. QED
  BY <1>6 DEF Stage4, s

LEMMA Stage5Sound ==
  ASSUME Observed, NEW st, AtHead(st)
  PROVE  AtHead(Stage5(st))
<1> DEFINE s == [st.s EXCEPT !.ci = obs.ci]
           k == CIStatus(st.s.saved.approved)
<1>1. st.s \in State /\ st.s.saved \in Entry /\ Sound(st) /\ FlagBound(st.s.saved)
      /\ st.s.saved.approved \in BOOLEAN /\ obs.ci \in CI
  BY DEF AtHead, Sound, Stage, State, Entry, Observed, Types, Values, Counters, Places, Obs
<1>2. s \in State /\ s.saved = st.s.saved
  BY <1>1 DEF State
<1>3. k \in Ann /\ Bound(k)
  <2>1. st.s.saved.approved => ApprovedHead(obs.head)
    BY <1>1 DEF FlagBound, AtHead
  <2>2. QED
    BY <1>1, <2>1, AnnTyped, AnnBound DEF Observed
<1> HIDE DEF s, k
<1>4. AtHead([s |-> s, out |-> Append(st.out, k)])
  BY <1>1, <1>2, <1>3, Announces DEF AtHead
<1>5. QED
  BY <1>4 DEF Stage5, s, k

LEMMA Stage6Sound ==
  ASSUME Observed, NEW st, AtHead(st), NEW replay
  PROVE  AtHead(Stage6(st, replay))
<1> DEFINE s == [st.s EXCEPT !.saved.timeout = TRUE]
<1>1. st.s \in State /\ st.s.saved \in Entry /\ Sound(st) /\ FlagBound(st.s.saved)
  BY DEF AtHead, Sound, Stage, State
<1>2. s \in State /\ s.saved.sha = st.s.saved.sha /\ s.saved.approved = st.s.saved.approved
  BY <1>1 DEF State, Entry
<1>3. FlagBound(s.saved)
  BY <1>1, <1>2 DEF FlagBound
<1>4. TimedOut \in Ann /\ Bound(TimedOut)
  BY AnnTyped, AnnBound DEF Observed
<1> HIDE DEF s
<1>5. AtHead([s |-> s, out |-> Append(st.out, TimedOut)])
  BY <1>1, <1>2, <1>3, <1>4, Announces DEF AtHead
<1>6. QED
  BY <1>5 DEF Stage6, s

LEMMA ActionsSound ==
  ASSUME Observed, NEW s \in State, FlagBound(s.saved), NEW replay
  PROVE  AtHead(Actions(s, replay))
<1> DEFINE start == [s |-> s, out |-> <<>>]
           early == Stage2(Stage1(start))
<1>1. Sound(start)
  BY DEF Sound, Stage
<1> HIDE DEF start
<1>2. AtHead(early)
  BY <1>1, Stage1Sound, Stage2Sound
<1> HIDE DEF early
<1>3. AtHead(Stage6(Stage5(Stage4(Stage3(early, replay))), replay))
  <2>1. AtHead(Stage3(early, replay))
    BY <1>2, Stage3Sound
  <2>2. AtHead(Stage4(Stage3(early, replay)))
    BY <2>1, Stage4Sound
  <2>3. AtHead(Stage5(Stage4(Stage3(early, replay))))
    BY <2>2, Stage5Sound
  <2>4. QED
    BY <2>3, Stage6Sound
<1>4. QED
  BY <1>2, <1>3 DEF Actions, early, start
-----------------------------------------------------------------------------
LEMMA InitInv == Init => Inv
<1> SUFFICES ASSUME Init PROVE Inv
  OBVIOUS
<1>1. forge \in Forge
  BY BoundAssumption DEF Init, Forge, Heads, CI, Review
<1>2. Types
  <2>1. Values
    <3>1. todo \in Seq(Ann)
      BY DEF Init
    <3>2. obs \in Obs /\ mem \in State /\ file \in File /\ copy \in File /\ kept \in File
      BY NoFileTyped, NoStateTyped, NoObsTyped DEF Init
    <3>3. QED
      BY <1>1, <3>1, <3>2 DEF Init, Values
  <2>2. Counters
    BY BoundAssumption DEF Init, Counters
  <2>3. Places
    BY NoObsTyped DEF Init, Places
  <2>4. QED
    BY <2>1, <2>2, <2>3 DEF Types
<1>3. Flags
  BY NoFileTyped, NoStateTyped DEF Init, Flags, FlagBound
<1>4. ObservedHead /\ Announced
  BY DEF Init, ObservedHead, Announced
<1>5. QED
  BY <1>2, <1>3, <1>4 DEF Inv

(* Steps that leave the reviews alone leave what is approved alone.        *)
LEMMA ReviewsSame ==
  ASSUME UNCHANGED forge
  PROVE  /\ \A h : ApprovedHead(h)' <=> ApprovedHead(h)
         /\ \A k : Bound(k)' <=> Bound(k)
BY DEF ApprovedHead, Bound

LEMMA ReadSound ==
  ASSUME Types, Flags
  PROVE  Read \in File /\ FlagBound(Read.entry)
BY NoFileTyped DEF Types, Values, Counters, Places, Flags, Read, FlagBound

LEMMA LoadInv == ASSUME Inv, Load PROVE Inv'
<1> USE ReviewsSame
<1>0. /\ UNCHANGED <<forge, ctl, mem, seen, todo, copy, call, told, again, dropped, events, resets>>
      /\ UNCHANGED <<kept, strayed>>
  BY DEF Load, tool, history
<1>1. obs' \in Obs /\ obs'.latest <= Len(forge.reviews) /\ (pc' # "idle" => obs'.head \in Heads)
      /\ pc' \in {"idle", "look", "compute", "persist", "say"}
      /\ (pc' = "idle" \/ pc' = "look")
  <2>1. [NoObs EXCEPT !.head = forge.head] \in Obs /\ [NoObs EXCEPT !.head = forge.head].head = forge.head
        /\ [NoObs EXCEPT !.head = forge.head].latest = 0 /\ forge.head \in Heads
    BY NoObsTyped, BoundAssumption DEF Inv, Types, Values, Counters, Places, Forge, NoObs, Obs, Heads, OrNone
  <2>2. Len(forge.reviews) \in Nat
    BY DEF Inv, Types, Values, Counters, Places, Forge
  <2>3. CASE forge.open
    <3>1. obs' = [NoObs EXCEPT !.head = forge.head] /\ pc' = "look"
      BY <2>3 DEF Load
    <3>2. QED
      BY <2>1, <2>2, <3>1
  <2>4. CASE ~ forge.open
    BY <2>4 DEF Load, Inv, Types, Values, Counters, Places
  <2>5. QED
    BY <2>3, <2>4
<1>2. file' \in File /\ FlagBound(file'.entry)
  <2>1. [file EXCEPT !.entry = NoEntry] \in File /\ [file EXCEPT !.entry = NoEntry].entry = NoEntry
    BY NoEntryTyped DEF Inv, Types, Values, Counters, Places, File
  <2>2. FlagBound(NoEntry) /\ FlagBound(file.entry)
    BY NoEntryTyped DEF FlagBound, Inv, Flags
  <2>3. QED
    BY <2>1, <2>2 DEF Load, Inv, Types, Values, Counters, Places
<1>3. Types'
  BY <1>0, <1>1, <1>2 DEF Inv, Types, Values, Counters, Places
<1>4. Flags' /\ ObservedHead' /\ Announced'
  BY <1>0, <1>1, <1>2 DEF Inv, Flags, FlagBound, ObservedHead, Announced
<1>5. QED
  BY <1>3, <1>4 DEF Inv

LEMMA LookInv ==
  ASSUME Inv, NEW reviews \in BOOLEAN, NEW status \in BOOLEAN, Look(reviews, status)
  PROVE  Inv'
<1> USE ReviewsSame
<1>0. /\ UNCHANGED <<forge, ctl, mem, file, seen, todo, copy, call, told, again, dropped, kept, strayed, resets>>
      /\ pc = "look" /\ pc' = "compute"
  BY DEF Look, tool, history
<1>1. events' \in 0 .. MaxEvents /\ events' >= events
  BY BoundAssumption DEF Look, Event, Inv, Types, Values, Counters, Places
<1>2. /\ obs' \in Obs /\ obs'.head = obs.head /\ obs'.latest <= Len(forge.reviews)
      /\ obs'.latest # 0 => forge.reviews[obs'.latest].head = obs.head
  <2> DEFINE n == IF reviews THEN Latest(obs.head) ELSE 0
             c == IF status /\ forge.head = obs.head THEN forge.ci ELSE "unknown"
  <2>1. n \in 0 .. Len(forge.reviews) /\ (n # 0 => forge.reviews[n].head = obs.head)
    BY LatestOfHead DEF Inv, Types, Values, Counters, Places, Forge
  <2>2. c \in CI /\ Edits \in Nat
    BY EditsTyped DEF Inv, Types, Values, Counters, Places, Forge, CI
  <2>3. obs' = [obs EXCEPT !.latest = n, !.ci = c, !.edits = Edits]
    BY DEF Look
  <2> HIDE DEF n, c
  <2>4. obs \in Obs /\ n \in Nat
    BY <2>1 DEF Inv, Types, Values, Forge
  <2>6. obs' \in Obs /\ obs'.head = obs.head /\ obs'.latest = n
    BY <2>2, <2>3, <2>4 DEF Obs
  <2>5. QED
    BY <2>1, <2>6 DEF Inv, Types, Values, Forge
<1>3. Types'
  BY <1>0, <1>1, <1>2 DEF Inv, Types, Values, Counters, Places, Forge, Heads
<1>4. Flags' /\ ObservedHead' /\ Announced'
  BY <1>0, <1>2 DEF Inv, Flags, FlagBound, ObservedHead, Announced
<1>5. QED
  BY <1>3, <1>4 DEF Inv

LEMMA SkipInv == ASSUME Inv, Skip PROVE Inv'
<1> USE ReviewsSame
<1>1. Types'
  <2>1. Values'
    BY NoObsTyped DEF Skip, Inv, Types, Values, tool, history
  <2>2. Counters'
    BY BoundAssumption DEF Skip, Event, Inv, Types, Values, Counters, Forge, Heads
  <2>3. Places'
    BY NoObsTyped DEF Skip, Inv, Types, Values, Places, Forge
  <2>4. QED
    BY <2>1, <2>2, <2>3 DEF Types
<1>2. Flags' /\ ObservedHead' /\ Announced'
  BY DEF Skip, Inv, Flags, FlagBound, ObservedHead, Announced, tool, history
<1>3. QED
  BY <1>1, <1>2 DEF Inv
LEMMA ComputeInv == ASSUME Inv, Compute PROVE Inv'
<1> USE ReviewsSame
<1> DEFINE replay == ctl # 0 /\ Read.epoch # ctl
           from == IF mem.known THEN mem ELSE Hydrated
           st == Actions(from, replay)
<1>0. /\ UNCHANGED <<forge, ctl, file, obs, copy, call, told, again, dropped, kept, events, resets>>
      /\ pc = "compute" /\ pc' = "persist" /\ seen' = ctl /\ mem' = st.s /\ todo' = st.out
  BY DEF Compute, tool
<1>9. strayed' \in BOOLEAN
  BY DEF Compute
<1>1. Observed
  BY <1>0 DEF Inv, Types, Places, ObservedHead, Observed
<1>2. from \in State /\ FlagBound(from.saved)
  <2>1. CASE mem.known
    BY <2>1 DEF Inv, Types, Values, Flags
  <2>2. CASE ~ mem.known
    <3> DEFINE e == Read.entry
               f == [e EXCEPT !.sha = IF @ = 0 THEN obs.head ELSE @]
    <3>1. e \in Entry /\ FlagBound(e)
      BY ReadSound DEF Inv, Types, File
    <3>2. obs.head \in OrNone
      BY DEF Inv, Types, Values, Obs
    <3>3. f \in Entry /\ f.approved = e.approved /\ (e.sha # 0 => f.sha = e.sha)
      <4> HIDE DEF e
      <4> QED
        BY <3>1, <3>2 DEF Entry
    <3>4. FlagBound(f)
      BY <3>1, <3>3, ZeroUnapproved DEF FlagBound, Inv
    <3>5. Hydrated = [NoState EXCEPT !.known = TRUE, !.saved = f]
      BY DEF Hydrated
    <3> HIDE DEF f
    <3>6. Hydrated \in State /\ Hydrated.saved = f
      BY <3>3, <3>5, NoStateTyped DEF State
    <3>7. QED
      BY <2>2, <3>4, <3>6
  <2>3. QED
    BY <2>1, <2>2
<1> HIDE DEF from, replay
<1>3. AtHead(st)
  BY <1>1, <1>2, ActionsSound
<1> HIDE DEF st
<1>4. /\ st.s \in State /\ st.out \in Seq(Ann) /\ FlagBound(st.s.saved) /\ st.s.saved.sha = obs.head
      /\ \A i \in 1 .. Len(st.out) : Bound(st.out[i])
  BY <1>3 DEF AtHead, Sound, Stage
<1>5. Types'
  <2>1. Values'
    BY <1>0, <1>4, <1>9 DEF Inv, Types, Values
  <2>2. Counters' /\ Places'
    BY <1>0 DEF Inv, Types, Counters, Places
  <2>3. QED
    BY <2>1, <2>2 DEF Types
<1>6. Flags' /\ ObservedHead' /\ Announced'
  BY <1>0, <1>4 DEF Inv, Flags, FlagBound, ObservedHead, Announced
<1>7. QED
  BY <1>5, <1>6 DEF Inv

LEMMA PersistInv == ASSUME Inv, Persist PROVE Inv'
<1> USE ReviewsSame
<1>0. /\ UNCHANGED <<forge, ctl, mem, todo, copy, call, told, again, dropped, strayed, events, resets>>
      /\ kept' = [kept EXCEPT !.epoch = IF seen = 0 THEN @ ELSE seen, !.entry = Projected]
      /\ pc = "persist" /\ pc' = IF todo = <<>> THEN "idle" ELSE "say"
      /\ obs' = (IF todo = <<>> THEN NoObs ELSE obs) /\ seen' = (IF todo = <<>> THEN 0 ELSE seen)
      /\ file' = [torn |-> FALSE, epoch |-> IF seen = 0 THEN Read.epoch ELSE seen, entry |-> Projected]
  BY DEF Persist, tool
<1>1. Projected = mem.saved /\ mem.saved \in Entry
  BY <1>0 DEF Inv, ObservedHead, Projected, Types, Values, State, Entry
<1>2. file' \in File /\ kept' \in File /\ file'.entry = mem.saved
  <2>1. kept \in File
    BY DEF Inv, Types, Values
  <2>2. kept' \in File
    <3>1. seen \in 0 .. MaxEvents
      BY BoundAssumption DEF Inv, Types, Counters
    <3>2. QED
      BY <1>0, <1>1, <2>1, <3>1 DEF File
  <2>3. Read.epoch \in 0 .. MaxEvents /\ seen \in 0 .. MaxEvents
    BY ReadSound, BoundAssumption DEF Inv, File, Types, Counters
  <2>4. QED
    BY <1>0, <1>1, <2>2, <2>3 DEF File
<1>3. Types'
  <2>1. Values'
    BY <1>0, <1>2, NoObsTyped DEF Inv, Types, Values
  <2>2. Counters'
    BY <1>0 DEF Inv, Types, Counters
  <2>3. Places'
    BY <1>0, NoObsTyped DEF Inv, Types, Values, Places, Forge
  <2>4. QED
    BY <2>1, <2>2, <2>3 DEF Types
<1>4. Flags' /\ ObservedHead' /\ Announced'
  BY <1>0, <1>2 DEF Inv, Flags, FlagBound, ObservedHead, Announced
<1>5. QED
  BY <1>3, <1>4 DEF Inv

LEMMA PersistFailsInv == ASSUME Inv, PersistFails PROVE Inv'
<1> USE ReviewsSame
<1>0. /\ UNCHANGED <<forge, ctl, mem, file, copy, call, told, again, kept, strayed, resets>>
      /\ pc' = "idle" /\ obs' = NoObs /\ seen' = 0 /\ todo' = <<>> /\ dropped' \in BOOLEAN
  BY DEF PersistFails, tool
<1>1. Types'
  <2>1. Values'
    BY <1>0, NoObsTyped DEF Inv, Types, Values
  <2>2. Counters'
    BY <1>0, BoundAssumption DEF PersistFails, Event, Inv, Types, Values, Counters, Forge, Heads
  <2>3. Places'
    BY <1>0, NoObsTyped DEF Inv, Types, Values, Places, Forge
  <2>4. QED
    BY <2>1, <2>2, <2>3 DEF Types
<1>2. Flags' /\ ObservedHead' /\ Announced'
  BY <1>0 DEF Inv, Flags, FlagBound, ObservedHead, Announced
<1>3. QED
  BY <1>1, <1>2 DEF Inv

LEMMA SayInv == ASSUME Inv, Say PROVE Inv'
<1> USE ReviewsSame
<1>0. /\ UNCHANGED <<forge, ctl, mem, file, copy, call, dropped, kept, strayed, events, resets>>
      /\ pc = "say" /\ told' = told \cup {Head(todo)} /\ todo' = Tail(todo) /\ again' \in BOOLEAN
  BY DEF Say, tool, Inv, Types, Values
<1>1. \/ Len(todo) = 1 /\ pc' = "idle" /\ obs' = NoObs /\ seen' = 0
      \/ Len(todo) # 1 /\ UNCHANGED <<pc, obs, seen>>
  BY DEF Say
<1>2. todo \in Seq(Ann) /\ todo # <<>>
  BY <1>0 DEF Inv, Types, Values, Places
<1>3. /\ Tail(todo) \in Seq(Ann) /\ Head(todo) = todo[1] /\ Len(todo) \in Nat \ {0}
      /\ Len(Tail(todo)) = Len(todo) - 1
      /\ \A i \in 1 .. Len(Tail(todo)) : Tail(todo)[i] = todo[i + 1]
  BY <1>2
<1>4. Types'
  <2>1. Values'
    BY <1>0, <1>1, <1>3, NoObsTyped DEF Inv, Types, Values
  <2>2. Counters'
    BY <1>0, <1>1 DEF Inv, Types, Counters
  <2>3. Places'
    <3>1. pc' = "say" => Len(Tail(todo)) # 0
      BY <1>1, <1>3
    <3>2. Len(<<>>) = 0
      OBVIOUS
    <3>3. pc' = "say" => Tail(todo) # <<>>
      BY <3>1, <3>2
    <3>4. QED
      BY <1>0, <1>1, <3>3, NoObsTyped DEF Inv, Types, Values, Places, Forge
  <2>4. QED
    BY <2>1, <2>2, <2>3 DEF Types
<1>5. Announced'
  <2>1. \A i \in 1 .. Len(todo) : Bound(todo[i])
    BY DEF Inv, Announced
  <2>2. \A i \in 1 .. Len(Tail(todo)) : i + 1 \in 1 .. Len(todo)
    BY <1>3
  <2>3. 1 \in 1 .. Len(todo)
    BY <1>3
  <2>4. QED
    BY <1>0, <1>3, <2>1, <2>2, <2>3 DEF Inv, Announced
<1>6. Flags' /\ ObservedHead'
  BY <1>0, <1>1 DEF Inv, Flags, FlagBound, ObservedHead
<1>7. QED
  BY <1>4, <1>5, <1>6 DEF Inv
LEMMA CrashInv == ASSUME Inv, Crash PROVE Inv'
<1> USE ReviewsSame
<1>0. /\ UNCHANGED <<forge, ctl, file, told, again, kept, strayed, resets>>
      /\ mem' = NoState /\ pc' = "idle" /\ obs' = NoObs /\ seen' = 0 /\ todo' = <<>>
      /\ call' = "idle" /\ copy' = NoFile /\ dropped' \in BOOLEAN
  BY DEF Crash
<1>1. Types'
  <2>1. Values'
    BY <1>0, NoObsTyped, NoStateTyped, NoFileTyped DEF Inv, Types, Values
  <2>2. Counters'
    BY <1>0, BoundAssumption DEF Crash, Event, Inv, Types, Values, Counters, Forge, Heads
  <2>3. Places'
    BY <1>0, NoObsTyped DEF Inv, Types, Values, Places, Forge
  <2>4. QED
    BY <2>1, <2>2, <2>3 DEF Types
<1>2. Flags' /\ ObservedHead' /\ Announced'
  BY <1>0, NoStateTyped, NoFileTyped DEF Inv, Flags, FlagBound, ObservedHead, Announced
<1>3. QED
  BY <1>1, <1>2 DEF Inv

(* The watcher's state changes, and with it at most the flag it carries.   *)
LEMMA MemInv ==
  ASSUME Inv, UNCHANGED <<forge, ctl, file, copy, watcher, history>>, Event,
         mem' \in State, mem'.saved.sha = mem.saved.sha,
         mem'.saved.approved => mem.saved.approved,
         call' \in {"idle", "read", "truncate", "write"}, resets' \in {resets, resets + 1}
  PROVE  Inv'
<1> USE ReviewsSame
<1>1. Types'
  <2>1. Values'
    BY DEF Inv, Types, Values, watcher, history
  <2>2. Counters'
    BY BoundAssumption DEF Event, Inv, Types, Values, Counters, Forge, Heads, watcher
  <2>3. Places'
    BY DEF Inv, Types, Places, watcher
  <2>4. QED
    BY <2>1, <2>2, <2>3 DEF Types
<1>2. Flags' /\ ObservedHead' /\ Announced'
  BY DEF Inv, Flags, FlagBound, ObservedHead, Announced, watcher, history
<1>3. QED
  BY <1>1, <1>2 DEF Inv

LEMMA ElapseInv == ASSUME Inv, Elapse PROVE Inv'
<1>1. mem' \in State /\ mem'.saved = mem.saved
  BY DEF Elapse, Inv, Types, Values, State
<1>2. /\ UNCHANGED <<forge, ctl, file, copy, watcher, history>> /\ Event
      /\ call' \in {"idle", "read", "truncate", "write"} /\ resets' = resets
  BY DEF Elapse, tool, Inv, Types, Values
<1>3. QED
  BY <1>1, <1>2, MemInv

LEMMA ResetCycleInv == ASSUME Inv, ResetCycle PROVE Inv'
<1> DEFINE e == [NoEntry EXCEPT !.sha = mem.saved.sha, !.review = mem.saved.review]
<1>1. mem \in State /\ mem.saved \in Entry
  BY DEF Inv, Types, Values, State
<1>2. e \in Entry /\ e.sha = mem.saved.sha /\ ~ e.approved
  BY <1>1, NoEntryTyped DEF Entry, NoEntry
<1> HIDE DEF e
<1>3. \/ mem' = mem
      \/ mem' = [mem EXCEPT !.saved = e, !.approvedAt = FALSE]
  BY DEF ResetCycle, e
<1>4. mem' \in State /\ mem'.saved.sha = mem.saved.sha /\ (mem'.saved.approved => mem.saved.approved)
  BY <1>1, <1>2, <1>3 DEF State
<1>5. /\ UNCHANGED <<forge, ctl, file, copy, watcher, history>> /\ Event
      /\ call' = "read" /\ resets' = resets + 1
  BY DEF ResetCycle
<1>6. QED
  BY <1>4, <1>5, MemInv

(* The tools move entries between the file and their copy, or drop them.   *)
ToolStep == ReadCopy \/ ReadToClear \/ Truncate \/ WriteCopy

(* Nothing else changes, but for the bounded count of their calls.         *)
LEMMA ToolSteps ==
  ASSUME Inv, ToolStep
  PROVE  /\ UNCHANGED <<forge, ctl, mem, watcher, history, resets>>
         /\ events' \in 0 .. MaxEvents /\ events <= events'
<1>1. events \in 0 .. MaxEvents /\ MaxEvents \in Nat
  BY BoundAssumption DEF Inv, Types, Counters
<1>2. QED
  BY <1>1 DEF ToolStep, ReadCopy, ReadToClear, Truncate, WriteCopy, Event

LEMMA ToolInv ==
  ASSUME Inv, ToolStep
  PROVE  Inv'
<1> USE ReviewsSame
<1>0. /\ UNCHANGED <<forge, ctl, mem, watcher, history, resets>>
      /\ events' \in 0 .. MaxEvents /\ events <= events'
  BY ToolSteps
<1>1. /\ file' \in File /\ copy' \in File
      /\ call' \in {"idle", "read", "truncate", "write"}
      /\ (file'.entry.approved => ApprovedHead(file'.entry.sha))
      /\ (copy'.entry.approved => ApprovedHead(copy'.entry.sha))
  <2>0. /\ file \in File /\ copy \in File /\ file.entry \in Entry
        /\ FlagBound(file.entry) /\ FlagBound(copy.entry)
    BY DEF Inv, Types, Values, Flags, File
  <2>1. CASE ReadCopy
    <3> DEFINE f == [file EXCEPT !.entry.print = 0]
    <3>1. f \in File /\ f.entry.sha = file.entry.sha /\ f.entry.approved = file.entry.approved
      BY <2>0, BoundAssumption DEF File, Entry, Prints
    <3> HIDE DEF f
    <3>2. (copy' = f \/ copy' = copy) /\ file' = file /\ call' \in {"idle", "truncate"}
      BY <2>1 DEF ReadCopy, f
    <3>3. QED
      BY <2>0, <3>1, <3>2 DEF FlagBound
  <2>2. CASE Truncate
    <3>1. file' = [NoFile EXCEPT !.torn = TRUE]
      BY <2>2 DEF Truncate
    <3>2. file' \in File /\ ~ file'.entry.approved
      BY <3>1, NoFileTyped DEF File
    <3>3. QED
      BY <2>0, <2>2, <3>2 DEF Truncate, FlagBound
  <2>3. CASE WriteCopy
    <3>1. (file' = copy \/ file' = file) /\ copy' = NoFile /\ call' = "idle"
      BY <2>3 DEF WriteCopy
    <3>2. QED
      BY <2>0, <3>1, NoFileTyped DEF FlagBound
  <2>4. CASE ReadToClear
    <3> DEFINE f == [file EXCEPT !.entry = NoEntry]
    <3>1. f \in File /\ ~ f.entry.approved
      BY <2>0, NoEntryTyped DEF File
    <3> HIDE DEF f
    <3>2. copy' = f /\ file' = file /\ call' = "truncate"
      BY <2>4 DEF ReadToClear, f
    <3>3. QED
      BY <2>0, <3>1, <3>2 DEF FlagBound
  <2>5. QED
    BY <2>1, <2>2, <2>3, <2>4 DEF ToolStep
<1>2. Types'
  <2>1. Values'
    BY <1>0, <1>1 DEF Inv, Types, Values, watcher, history
  <2>2. Counters'
    BY <1>0, BoundAssumption DEF Inv, Types, Values, Counters, Forge, Heads, watcher
  <2>3. Places'
    BY <1>0 DEF Inv, Types, Places, watcher
  <2>4. QED
    BY <2>1, <2>2, <2>3 DEF Types
<1>3. Flags' /\ ObservedHead' /\ Announced'
  BY <1>0, <1>1 DEF Inv, Flags, FlagBound, ObservedHead, Announced, watcher, history
<1>4. QED
  BY <1>2, <1>3 DEF Inv

(* The environment keeps head and verdict of every review.                 *)
LEMMA EnvInv ==
  ASSUME Inv, Env, forge' \in Forge, ReviewsKept, Counters'
  PROVE  Inv'
<1>1. Types'
  <2>1. Values'
    BY DEF Env, Inv, Types, Values, watcher, tool, history
  <2>2. Places'
    <3>1. Len(forge.reviews) \in Nat /\ Len(forge'.reviews) \in Nat /\ obs.latest \in Nat
      BY DEF Inv, Types, Values, Forge, Obs
    <3>2. QED
      BY <3>1 DEF Env, Inv, Types, Places, watcher, ReviewsKept
  <2>3. QED
    BY <2>1, <2>2 DEF Types
<1>2. \A h : ApprovedHead(h) => ApprovedHead(h)'
  BY <1>1, ApprovedStays DEF Inv
<1>3. \A k : Bound(k) => Bound(k)'
  BY <1>2 DEF Bound
<1>4. Flags' /\ Announced'
  BY <1>2, <1>3 DEF Env, Inv, Flags, FlagBound, Announced, watcher, tool, history
<1>5. ObservedHead'
  <2>1. obs.latest # 0 => obs.latest \in 1 .. Len(forge.reviews)
    BY DEF Inv, Types, Values, Places, Obs, Forge
  <2>2. QED
    BY <2>1 DEF Env, Inv, ObservedHead, ReviewsKept, watcher
<1>6. QED
  BY <1>1, <1>4, <1>5 DEF Inv

(* Pushes, closings, CI results and epochs leave the reviews alone.        *)
LEMMA StatusInv ==
  ASSUME Inv, Push \/ Close \/ NewEpoch \/ (\E c \in CI : CIResult(c))
  PROVE  Inv'
<1>1. /\ forge \in Forge /\ forge.head \in Heads /\ forge.head <= events + 1
      /\ events \in 0 .. MaxEvents /\ ctl \in 0 .. events
      /\ resets \in 0 .. events /\ seen \in 0 .. events
      /\ Len(forge.reviews) <= MaxReviews /\ MaxEvents \in Nat
  BY BoundAssumption DEF Inv, Types, Values, Counters, Forge
<1>2. Env /\ Event
  BY DEF Push, Close, NewEpoch, CIResult
<1>3. /\ forge' \in Forge /\ forge'.reviews = forge.reviews
      /\ forge'.head <= events' + 1 /\ ctl' \in 0 .. events'
  <2>0. /\ events < MaxEvents /\ events' = events + 1 /\ events' \in 0 .. MaxEvents
    BY <1>1, <1>2 DEF Event
  <2>1. CASE Push
    <3>1. forge.head + 1 \in Heads /\ "unknown" \in CI
      BY <1>1, <2>0 DEF Heads, CI
    <3>2. /\ forge' = [forge EXCEPT !.head = forge.head + 1, !.ci = "unknown"]
          /\ ctl' = ctl
      BY <2>1 DEF Push
    <3>3. /\ forge' \in Forge /\ forge'.reviews = forge.reviews
          /\ forge'.head = forge.head + 1
      BY <1>1, <3>1, <3>2 DEF Forge
    <3>4. QED
      BY <1>1, <2>0, <3>2, <3>3 DEF Heads
  <2>2. CASE Close
    <3>1. forge' = [forge EXCEPT !.open = ~ forge.open] /\ ctl' = ctl
      BY <2>2 DEF Close
    <3>2. /\ forge' \in Forge /\ forge'.reviews = forge.reviews
          /\ forge'.head = forge.head
      BY <1>1, <3>1 DEF Forge
    <3>3. QED
      BY <1>1, <2>0, <3>1, <3>2 DEF Heads
  <2>3. CASE NewEpoch
    BY <1>1, <2>0, <2>3 DEF NewEpoch, Heads
  <2>4. ASSUME NEW c \in CI, CIResult(c)
        PROVE  /\ forge' \in Forge /\ forge'.reviews = forge.reviews
               /\ forge'.head <= events' + 1 /\ ctl' \in 0 .. events'
    <3>1. forge' = [forge EXCEPT !.ci = c] /\ ctl' = ctl
      BY <2>4 DEF CIResult
    <3>2. /\ forge' \in Forge /\ forge'.reviews = forge.reviews
          /\ forge'.head = forge.head
      BY <1>1, <3>1 DEF Forge
    <3>3. QED
      BY <1>1, <2>0, <3>1, <3>2 DEF Heads
  <2>5. QED
    BY <2>1, <2>2, <2>3, <2>4
<1>4. Len(forge.reviews) \in Nat
  BY <1>1 DEF Forge
<1>5. ReviewsKept
  BY <1>3, <1>4 DEF ReviewsKept
<1>6. Counters'
  BY <1>1, <1>2, <1>3 DEF Counters, Event, Env, watcher
<1>7. QED
  BY <1>2, <1>3, <1>5, <1>6, EnvInv

(* A review is appended, for the present head.                             *)
LEMMA SubmitInv ==
  ASSUME Inv, NEW v \in Verdicts, Submit(v)
  PROVE  Inv'
<1> DEFINE r == [head |-> forge.head, verdict |-> v, dismissed |-> FALSE]
<1>1. /\ forge \in Forge /\ forge.reviews \in Seq(Review) /\ r \in Review
  BY DEF Inv, Types, Values, Forge, Review
<1> HIDE DEF r
<1>2. /\ forge' = [forge EXCEPT !.reviews = Append(forge.reviews, r)]
      /\ Len(forge.reviews) < MaxReviews /\ UNCHANGED <<ctl, events>> /\ Env
  BY DEF Submit, r
<1>3. /\ Append(forge.reviews, r) \in Seq(Review)
      /\ Len(Append(forge.reviews, r)) = Len(forge.reviews) + 1
      /\ \A i \in 1 .. Len(forge.reviews) :
           Append(forge.reviews, r)[i] = forge.reviews[i]
      /\ Len(forge.reviews) \in Nat
  BY <1>1
<1>4. /\ forge' \in Forge /\ forge'.reviews = Append(forge.reviews, r)
      /\ forge'.head = forge.head
  BY <1>1, <1>2, <1>3 DEF Forge
<1>5. ReviewsKept
  BY <1>3, <1>4 DEF ReviewsKept
<1>6. Counters'
  BY <1>2, <1>3, <1>4, BoundAssumption DEF Inv, Types, Counters, Env, watcher
<1>7. QED
  BY <1>2, <1>4, <1>5, <1>6, EnvInv

(* A dismissal changes only the mark.                                      *)
LEMMA DismissInv ==
  ASSUME Inv, NEW i \in 1 .. MaxReviews, Dismiss(i)
  PROVE  Inv'
<1> DEFINE r == [forge.reviews[i] EXCEPT !.dismissed = TRUE]
           q == [forge.reviews EXCEPT ![i] = r]
<1>1. /\ forge \in Forge /\ forge.reviews \in Seq(Review)
      /\ i \in DOMAIN forge.reviews
  BY DEF Inv, Types, Values, Forge, Dismiss
<1>2. i \in 1 .. Len(forge.reviews) /\ forge.reviews[i] \in Review
  BY <1>1
<1>3. /\ r \in Review /\ r.head = forge.reviews[i].head
      /\ r.verdict = forge.reviews[i].verdict
  BY <1>2 DEF Review
<1> HIDE DEF r
<1>4. /\ q \in Seq(Review) /\ Len(q) = Len(forge.reviews)
      /\ Len(forge.reviews) \in Nat
      /\ \A j \in 1 .. Len(forge.reviews) :
           q[j] = IF j = i THEN r ELSE forge.reviews[j]
  BY <1>1, <1>2, <1>3
<1>5. /\ forge' = [forge EXCEPT !.reviews = q]
      /\ UNCHANGED ctl /\ Event /\ Env
  BY DEF Dismiss, q, r
<1> HIDE DEF q
<1>6. forge' \in Forge /\ forge'.reviews = q /\ forge'.head = forge.head
  BY <1>1, <1>4, <1>5 DEF Forge
<1>7. ReviewsKept
  BY <1>3, <1>4, <1>6 DEF ReviewsKept
<1>8. Counters'
  <2>1. forge.head \in Int
    BY <1>1, BoundAssumption DEF Forge, Heads
  <2>2. QED
    BY <1>4, <1>5, <1>6, <2>1, BoundAssumption
       DEF Inv, Types, Counters, Event, Env, watcher
<1>9. QED
  BY <1>5, <1>6, <1>7, <1>8, EnvInv

(* Nothing happens.                                                        *)
LEMMA StutterInv ==
  ASSUME Inv, UNCHANGED vars
  PROVE  Inv'
<1>1. UNCHANGED <<forge, ctl, mem, file, pc, obs, seen, todo, call, copy, told,
                  again, dropped, kept, strayed, events, resets>>
  BY DEF vars, watcher, tool, history
<1>2. Types' /\ Flags'
  BY <1>1 DEF Inv, Types, Values, Counters, Places, Flags, FlagBound, ApprovedHead
<1>3. ObservedHead' /\ Announced'
  BY <1>1 DEF Inv, ObservedHead, Announced, Bound, ApprovedHead
<1>4. QED
  BY <1>2, <1>3 DEF Inv

(* The inductive invariant is kept by every step.                          *)
LEMMA NextInv ==
  ASSUME Inv, [Next]_vars
  PROVE  Inv'
<1>1. CASE Cycle
  <2>1. CASE Lookups
    BY <2>1, LookInv DEF Lookups
  <2>2. QED
    BY <1>1, <2>1, LoadInv, SkipInv, ComputeInv, PersistInv, SayInv DEF Cycle
<1>2. CASE PersistFails \/ Crash \/ Elapse \/ ResetCycle
  BY <1>2, PersistFailsInv, CrashInv, ElapseInv, ResetCycleInv
<1>3. CASE ToolStep
  BY <1>3, ToolInv
<1>4. CASE Push \/ Close \/ NewEpoch \/ (\E c \in CI : CIResult(c))
  BY <1>4, StatusInv
<1>5. CASE \E v \in Verdicts : Submit(v)
  BY <1>5, SubmitInv
<1>6. CASE \E i \in 1 .. MaxReviews : Dismiss(i)
  BY <1>6, DismissInv
<1>7. CASE UNCHANGED vars
  BY <1>7, StutterInv
<1>8. QED
  BY <1>1, <1>2, <1>3, <1>4, <1>5, <1>6, <1>7 DEF Next, ToolStep

(* The watcher, the file, the tool and the pull request stay in Inv: every *)
(* copy of an approval, in memory, in watcher-state.json, in the tool and  *)
(* among the pending actions, belongs to a head that was approved.         *)
THEOREM InvAlways == Spec => []Inv
<1>1. Init => Inv
  BY InitInv
<1>2. Inv /\ [Next]_vars => Inv'
  BY NextInv
<1>3. QED
  BY <1>1, <1>2, PTL DEF Spec

(* Type correctness: the runtime state, the state file, the copy of the    *)
(* tool and the observation keep their shape through every interleaving,   *)
(* crash and failed write.                                                 *)
THEOREM WatcherTyped == Spec => []TypeOK
<1>1. Inv => TypeOK
  <2> SUFFICES ASSUME Inv PROVE TypeOK
    OBVIOUS
  <2>1. /\ forge.open \in BOOLEAN /\ forge.head \in Heads /\ forge.ci \in CI
        /\ forge.reviews \in Seq(Review) /\ Len(forge.reviews) \in Nat
        /\ obs.latest \in Nat
    BY DEF Inv, Types, Values, Forge, Obs
  <2>2. /\ ctl \in 0 .. MaxEvents /\ events \in 0 .. MaxEvents
        /\ resets \in 0 .. MaxEvents
    BY BoundAssumption DEF Inv, Types, Counters
  <2>3. obs.latest \in 0 .. Len(forge.reviews)
    BY <2>1 DEF Inv, Types, Places
  <2>4. {again, dropped, strayed} \subseteq BOOLEAN
    BY DEF Inv, Types, Values
  <2>5. QED
    BY <2>1, <2>2, <2>3, <2>4 DEF Inv, Types, Values, Places, TypeOK
<1>2. QED
  BY <1>1, InvAlways, PTL

(* Head binding: what is announced as approved, by an approval, by the     *)
(* trigger of CI or by a CI status with reviewer_approved, names a head    *)
(* that a reviewer approved, for every number of pushes, reviews, crashes, *)
(* failed lookups and writes, epochs and calls of restart_review.          *)
THEOREM ApprovalsBound == Spec => []HeadBound
<1>1. Inv => HeadBound
  <2> SUFFICES ASSUME Inv, NEW k \in told,
                      k[1] \in {"approved", "ci_approved", "ci_triggered"}
               PROVE  \E i \in DOMAIN forge.reviews :
                        /\ forge.reviews[i].head = k[2]
                        /\ forge.reviews[i].verdict = "approved"
    BY DEF HeadBound
  <2>1. ApprovedHead(k[2])
    BY DEF Inv, Announced, Bound
  <2>2. DOMAIN forge.reviews = 1 .. Len(forge.reviews)
    BY DEF Inv, Types, Values, Forge
  <2>3. QED
    BY <2>1, <2>2 DEF ApprovedHead
<1>2. QED
  BY <1>1, InvAlways, PTL
-----------------------------------------------------------------------------
(* Nothing is told twice.  What is told is remembered in what was saved    *)
(* last and, when there is runtime state, in memory, until a later head, a *)
(* change of the reviews, a call of restart_review or a new epoch makes it *)
(* news.                                                                   *)

(* Review i is the last one of head h that is not dismissed.               *)
Current(i, h) ==
  /\ i \in 1 .. Len(forge.reviews)
  /\ ~ forge.reviews[i].dismissed /\ forge.reviews[i].head = h
  /\ \A j \in 1 .. Len(forge.reviews) :
       ~ forge.reviews[j].dismissed /\ forge.reviews[j].head = h => j <= i

(* Announcement k names a head, calls of restart_review and a state of the *)
(* reviews that have been; when the reviews are still in that state, the   *)
(* approval stands.                                                        *)
Valid(k) ==
  /\ k[2] \in Nat /\ k[2] >= 1
  /\ k[1] \in {"ci_blocked", "ci_triggered", "timeout"} =>
       k[3] \in Nat /\ k[3] <= resets
  /\ k[1] = "approved" =>
       /\ k[3] \in Nat /\ k[3] <= Edits
       /\ k[3] = Edits => \A i \in 1 .. Len(forge.reviews) :
            Current(i, k[2]) => forge.reviews[i].verdict = "approved"
  /\ k[1] \in {"approved", "timeout"} => k[4] \in Nat

(* Entry e is why k is not announced again: its head is a later one, or it *)
(* has the mark, unless what k was about has changed.                      *)
Recorded(e, k) ==
  /\ k[2] <= e.sha
  /\ k[2] = e.sha =>
       /\ k[1] = "ci_blocked" => e.blocked \/ k[3] < resets
       /\ k[1] = "ci_triggered" => e.triggered = k[2] \/ k[3] < resets
       /\ k[1] = "timeout" => e.timeout \/ k[3] < resets
       /\ k[1] = "approved" => e.review = "approved" \/ k[3] < Edits

(* The replay of a new epoch: k was announced no later than epoch n.       *)
By(n, k) == k[1] \in {"approved", "timeout"} => k[4] <= n

(* Heads only grow, and the records do not run ahead of them.              *)
HeadsGrow ==
  /\ kept.entry.sha <= forge.head /\ mem.saved.sha <= forge.head
  /\ pc # "idle" => /\ obs.head <= forge.head /\ kept.entry.sha <= obs.head
                    /\ mem.saved.sha <= obs.head

(* Neither does the saved epoch run ahead of the controller's.             *)
EpochsGrow ==
  /\ kept.epoch <= ctl
  /\ pc \in {"persist", "say"} => kept.epoch <= seen /\ seen <= ctl

(* What was saved and the runtime state record everything told.            *)
Remembered ==
  \A k \in told : k[1] \in Once =>
    /\ Valid(k) /\ Recorded(kept.entry, k) /\ By(kept.epoch, k)
    /\ mem.known => Recorded(mem.saved, k)

(* An observation is of the reviews as they are or as they were before,    *)
(* and later than every approval told.                                     *)
Looked ==
  pc = "compute" =>
    /\ obs.edits <= Edits
    /\ obs.latest # 0 /\ obs.edits = Edits => Current(obs.latest, obs.head)
    /\ \A k \in told : k[1] = "approved" =>
         /\ k[3] <= obs.edits
         /\ LET e == IF mem.known THEN mem.saved ELSE kept.entry
            IN  k[2] = e.sha /\ e.review # "approved" => k[3] < obs.edits

Distinct(s) ==
  \A i, j \in 1 .. Len(s) : s[i] = s[j] /\ s[i][1] \in Once => i = j

(* What is about to be told is new, is recorded in memory, and is saved    *)
(* before the first of it is told.                                         *)
Pending ==
  pc \in {"persist", "say"} =>
    /\ mem.known /\ Distinct(todo)
    /\ \A i \in 1 .. Len(todo) : todo[i][1] \in Once =>
         /\ todo[i] \notin told /\ Valid(todo[i])
         /\ Recorded(mem.saved, todo[i]) /\ By(seen, todo[i])
         /\ pc = "say" => Recorded(kept.entry, todo[i]) /\ By(kept.epoch, todo[i])

Quiet == ~ again

(* Inductive together with Inv.                                            *)
Memory ==
  ~ strayed => /\ Quiet /\ HeadsGrow /\ EpochsGrow /\ Remembered
               /\ Looked /\ Pending

-----------------------------------------------------------------------------
LEMMA Numbers ==
  ASSUME Types
  PROVE  /\ forge.head \in Nat /\ obs.head \in Nat /\ obs.latest \in Nat /\ obs.edits \in Nat
         /\ mem.saved.sha \in Nat /\ kept.entry.sha \in Nat
         /\ kept.epoch \in Nat /\ ctl \in Nat /\ seen \in Nat /\ resets \in Nat
         /\ Edits \in Nat
<1>1. forge.head \in Nat /\ obs.head \in Nat /\ obs.latest \in Nat /\ obs.edits \in Nat
  BY BoundAssumption DEF Types, Values, Forge, Obs, Heads, OrNone
<1>2. mem.saved.sha \in Nat /\ kept.entry.sha \in Nat /\ kept.epoch \in Nat
  BY BoundAssumption DEF Types, Values, State, File, Entry, OrNone
<1>3. ctl \in Nat /\ seen \in Nat /\ resets \in Nat
  BY DEF Types, Counters
<1>4. QED
  BY <1>1, <1>2, <1>3, EditsTyped

(* Steps that change neither the reviews nor the calls of restart_review.  *)
LEMMA KeysSame ==
  ASSUME UNCHANGED <<forge, resets>>
  PROVE  /\ \A k : Valid(k)' <=> Valid(k)
         /\ \A e, k : Recorded(e, k)' <=> Recorded(e, k)
         /\ \A i, h : Current(i, h)' <=> Current(i, h)
         /\ Edits' = Edits
<1>1. Edits' = Edits
  BY DEF Edits
<1>2. \A i, h : Current(i, h)' <=> Current(i, h)
  BY DEF Current
<1>3. \A k : Valid(k)' <=> Valid(k)
  BY <1>1, <1>2 DEF Valid
<1>4. \A e, k : Recorded(e, k)' <=> Recorded(e, k)
  BY <1>1 DEF Recorded
<1>5. QED
  BY <1>1, <1>2, <1>3, <1>4

(* The reviews are left alone, or come to a state they have not been in.   *)
ReviewsMove == \/ forge'.reviews = forge.reviews
               \/ Edits' \in Nat /\ Edits < Edits'

LEMMA KeysKept ==
  ASSUME Types, ReviewsMove, resets' \in {resets, resets + 1}
  PROVE  /\ \A k : Valid(k) => Valid(k)'
         /\ \A e, k : Valid(k) /\ Recorded(e, k) => Recorded(e, k)'
         /\ Edits <= Edits' /\ Edits' \in Nat
         /\ Edits' = Edits => \A i, h : Current(i, h)' <=> Current(i, h)
<1>0. resets \in Nat /\ Edits \in Nat
  BY Numbers
<1>1. forge'.reviews = forge.reviews =>
        Edits' = Edits /\ \A i, h : Current(i, h)' <=> Current(i, h)
  BY DEF Edits, Current
<1>2. /\ Edits <= Edits' /\ Edits' \in Nat
      /\ Edits' = Edits => forge'.reviews = forge.reviews
  BY <1>0, <1>1 DEF ReviewsMove
<1>3. ASSUME NEW k, Valid(k)
      PROVE  Valid(k)'
  <2>1. /\ k[2] \in Nat /\ k[2] >= 1
        /\ k[1] \in {"approved", "timeout"} => k[4] \in Nat
        /\ k[1] \in {"ci_blocked", "ci_triggered", "timeout"} =>
             k[3] \in Nat /\ k[3] <= resets
        /\ k[1] = "approved" => k[3] \in Nat /\ k[3] <= Edits
        /\ k[1] = "approved" /\ k[3] = Edits => \A i \in 1 .. Len(forge.reviews) :
             Current(i, k[2]) => forge.reviews[i].verdict = "approved"
    BY <1>3 DEF Valid
  <2>2. k[1] \in {"ci_blocked", "ci_triggered", "timeout"} => k[3] <= resets'
    BY <1>0, <2>1
  <2>3. k[1] = "approved" => k[3] <= Edits'
    BY <1>0, <1>2, <2>1
  <2>4. ASSUME k[1] = "approved", k[3] = Edits', NEW i \in 1 .. Len(forge'.reviews),
               Current(i, k[2])'
        PROVE  forge'.reviews[i].verdict = "approved"
    <3>1. Edits' = Edits
      BY <1>0, <1>2, <2>1, <2>4
    <3>2. QED
      BY <1>1, <1>2, <2>1, <2>4, <3>1
  <2>5. QED
    BY <2>1, <2>2, <2>3, <2>4 DEF Valid
<1>4. ASSUME NEW e, NEW k, Valid(k), Recorded(e, k)
      PROVE  Recorded(e, k)'
  <2>1. /\ k[1] \in {"ci_blocked", "ci_triggered", "timeout"} => k[3] \in Nat
        /\ k[1] = "approved" => k[3] \in Nat
    BY <1>4 DEF Valid
  <2>2. /\ k[1] \in {"ci_blocked", "ci_triggered", "timeout"} /\ k[3] < resets => k[3] < resets'
        /\ k[1] = "approved" /\ k[3] < Edits => k[3] < Edits'
    BY <1>0, <1>2, <2>1
  <2>3. QED
    BY <1>4, <2>2 DEF Recorded
<1>5. QED
  BY <1>1, <1>2, <1>3, <1>4

(* Steps beside the poll cycle: forge, controller, clock, restart_review.  *)
LEMMA BesideMemory ==
  ASSUME Inv, Inv', Memory, UNCHANGED <<kept, watcher, told, again, strayed>>,
         mem'.known = mem.known,
         mem'.saved.sha = mem.saved.sha, mem'.saved.review = mem.saved.review,
         \A k : Valid(k) /\ Recorded(mem.saved, k) => Recorded(mem.saved, k)',
         ctl <= ctl', forge.head <= forge'.head,
         ReviewsMove, resets' \in {resets, resets + 1}
  PROVE  Memory'
<1> SUFFICES ASSUME ~ strayed
             PROVE  /\ Quiet' /\ HeadsGrow' /\ EpochsGrow' /\ Remembered'
                    /\ Looked' /\ Pending'
  BY DEF Memory
<1>0. UNCHANGED <<pc, obs, seen, todo>>
  BY DEF watcher
<1>1. Quiet /\ HeadsGrow /\ EpochsGrow /\ Remembered /\ Looked /\ Pending
  BY DEF Memory
<1>2. Types /\ Types'
  BY DEF Inv
<1>3. Quiet' /\ EpochsGrow'
  <2>1. ctl' \in Nat
    BY <1>2 DEF Types, Counters
  <2>2. QED
    BY <1>0, <1>1, <1>2, <2>1, Numbers DEF Quiet, EpochsGrow
<1>4. HeadsGrow'
  <2>1. forge'.head \in Nat
    BY <1>2 DEF Types, Values, Forge, Heads
  <2>2. QED
    BY <1>0, <1>1, <1>2, <2>1, Numbers DEF HeadsGrow
<1>5. /\ \A k : Valid(k) => Valid(k)'
      /\ \A e, k : Valid(k) /\ Recorded(e, k) => Recorded(e, k)'
      /\ Edits <= Edits' /\ Edits' \in Nat
      /\ Edits' = Edits => \A i, h : Current(i, h)' <=> Current(i, h)
  BY <1>2, KeysKept
<1>6. \A n, k : By(n, k)' <=> By(n, k)
  BY DEF By
<1>7. Remembered'
  <2> SUFFICES ASSUME NEW k \in told, k[1] \in Once
               PROVE  /\ Valid(k)' /\ Recorded(kept.entry, k)' /\ By(kept.epoch, k)'
                      /\ mem'.known => Recorded(mem.saved, k)'
    BY DEF Remembered
  <2>1. /\ Valid(k) /\ Recorded(kept.entry, k) /\ By(kept.epoch, k)
        /\ mem.known => Recorded(mem.saved, k)
    BY <1>1 DEF Remembered
  <2>2. QED
    BY <1>5, <1>6, <2>1
<1>8. Looked'
  <2> SUFFICES ASSUME pc = "compute" PROVE Looked'
    BY <1>0 DEF Looked
  <2>1. /\ obs.edits <= Edits
        /\ obs.latest # 0 /\ obs.edits = Edits => Current(obs.latest, obs.head)
        /\ \A k \in told : k[1] = "approved" =>
             /\ k[3] <= obs.edits
             /\ LET e == IF mem.known THEN mem.saved ELSE kept.entry
                IN  k[2] = e.sha /\ e.review # "approved" => k[3] < obs.edits
    BY <1>1 DEF Looked
  <2>2. obs.edits \in Nat /\ Edits \in Nat
    BY <1>2, Numbers
  <2>3. /\ obs.edits <= Edits'
        /\ obs.latest # 0 /\ obs.edits = Edits' => Current(obs.latest, obs.head)'
    BY <1>0, <1>5, <2>1, <2>2
  <2>4. QED
    BY <1>0, <2>1, <2>3 DEF Looked
<1>9. Pending'
  <2> SUFFICES ASSUME pc \in {"persist", "say"} PROVE Pending'
    BY <1>0 DEF Pending
  <2>1. mem'.known /\ Distinct(todo)'
    BY <1>0, <1>1 DEF Pending, Distinct
  <2>2. ASSUME NEW i \in 1 .. Len(todo), todo[i][1] \in Once
        PROVE  /\ todo[i] \notin told /\ Valid(todo[i])'
               /\ Recorded(mem.saved, todo[i])' /\ By(seen, todo[i])'
               /\ pc = "say" => Recorded(kept.entry, todo[i])' /\ By(kept.epoch, todo[i])'
    <3>1. /\ todo[i] \notin told /\ Valid(todo[i])
          /\ Recorded(mem.saved, todo[i]) /\ By(seen, todo[i])
          /\ pc = "say" => Recorded(kept.entry, todo[i]) /\ By(kept.epoch, todo[i])
      BY <1>1, <2>2 DEF Pending
    <3>2. QED
      BY <1>0, <1>5, <1>6, <3>1
  <2>3. QED
    BY <1>0, <2>1, <2>2 DEF Pending
<1>10. QED
  BY <1>3, <1>4, <1>7, <1>8, <1>9

(* Reviews and dismissals bring the reviews to a state they have not been  *)
(* in.                                                                     *)
LEMMA SubmitEdits ==
  ASSUME Types, Types', NEW v \in Verdicts, Submit(v)
  PROVE  Edits' \in Nat /\ Edits < Edits'
<1> DEFINE r == [head |-> forge.head, verdict |-> v, dismissed |-> FALSE]
           D == {i \in DOMAIN forge.reviews : forge.reviews[i].dismissed}
           q == Append(forge.reviews, r)
           E == {i \in DOMAIN q : q[i].dismissed}
<1>1. forge.reviews \in Seq(Review) /\ r \in Review /\ forge'.reviews = q
  BY DEF Types, Values, Forge, Review, Submit
<1>2. ~ r.dismissed
  OBVIOUS
<1> HIDE DEF r
<1>3. /\ Len(q) = Len(forge.reviews) + 1 /\ Len(forge.reviews) \in Nat
      /\ DOMAIN forge.reviews = 1 .. Len(forge.reviews)
      /\ DOMAIN q = 1 .. Len(forge.reviews) + 1
      /\ \A i \in 1 .. Len(forge.reviews) : q[i] = forge.reviews[i]
      /\ q[Len(forge.reviews) + 1] = r
  BY <1>1
<1> HIDE DEF q
<1>4. E = D
  <2>1. \A i \in DOMAIN q : i = Len(forge.reviews) + 1 \/ i \in 1 .. Len(forge.reviews)
    BY <1>3
  <2>2. QED
    BY <1>2, <1>3, <2>1
<1>5. Edits' = Len(q) + Cardinality(E)
  BY <1>1 DEF Edits
<1>6. Edits = Len(forge.reviews) + Cardinality(D)
  BY DEF Edits
<1>7. IsFiniteSet(D)
  <2>1. IsFiniteSet(1 .. Len(forge.reviews))
    BY <1>3, FS_Interval
  <2>2. QED
    BY <1>3, <2>1, FS_Subset
<1>8. Cardinality(D) \in Nat
  BY <1>7, FS_CardinalityType
<1> HIDE DEF D, E
<1>9. QED
  BY <1>3, <1>4, <1>5, <1>6, <1>8

LEMMA DismissEdits ==
  ASSUME Types, Types', NEW i \in 1 .. MaxReviews, Dismiss(i)
  PROVE  Edits' \in Nat /\ Edits < Edits'
<1> DEFINE q == forge.reviews
           r == [q[i] EXCEPT !.dismissed = TRUE]
           p == [q EXCEPT ![i] = r]
           D == {j \in DOMAIN q : q[j].dismissed}
           E == {j \in DOMAIN p : p[j].dismissed}
<1>1. q \in Seq(Review) /\ i \in DOMAIN q /\ ~ q[i].dismissed
  BY DEF Types, Values, Forge, Dismiss
<1>2. forge'.reviews = p
  BY DEF Types, Values, Forge, Dismiss
<1>3. r.dismissed
  BY <1>1 DEF Review
<1> HIDE DEF r
<1>4. /\ Len(p) = Len(q) /\ Len(q) \in Nat /\ DOMAIN q = 1 .. Len(q) /\ DOMAIN p = DOMAIN q
      /\ p[i] = r /\ \A j \in DOMAIN q : j # i => p[j] = q[j]
  BY <1>1
<1>5. Edits' = Len(p) + Cardinality(E) /\ Edits = Len(q) + Cardinality(D)
  BY <1>2 DEF Edits
<1> HIDE DEF q, p
<1>6. E = D \cup {i} /\ i \notin D
  BY <1>1, <1>3, <1>4
<1>7. IsFiniteSet(D)
  <2>1. IsFiniteSet(1 .. Len(q))
    BY <1>4, FS_Interval
  <2>2. QED
    BY <1>4, <2>1, FS_Subset
<1> HIDE DEF D, E
<1>8. Cardinality(E) = Cardinality(D) + 1 /\ Cardinality(D) \in Nat
  BY <1>6, <1>7, FS_AddElement, FS_CardinalityType
<1>9. QED
  BY <1>4, <1>5, <1>8

LEMMA EnvMemory ==
  ASSUME Inv, Inv', Memory,
         \/ Push \/ Close \/ NewEpoch \/ \E c \in CI : CIResult(c)
         \/ \E v \in Verdicts : Submit(v)
         \/ \E i \in 1 .. MaxReviews : Dismiss(i)
  PROVE  Memory'
<1>0. Types /\ Types' /\ forge.head \in Nat /\ ctl \in Nat /\ forge \in Forge
  BY Numbers DEF Inv, Types, Values
<1>1. Env
  BY DEF Push, Close, NewEpoch, CIResult, Submit, Dismiss
<1>2. UNCHANGED <<mem, resets, kept, watcher, told, again, strayed>>
  BY <1>1 DEF Env, tool, history
<1>3. ctl <= ctl'
  <2>1. ctl' = ctl \/ ctl' = ctl + 1
    BY DEF Push, Close, NewEpoch, CIResult, Submit, Dismiss
  <2>2. QED
    BY <1>0, <2>1
<1>4. forge.head <= forge'.head
  <2>1. Push => forge'.head = forge.head + 1
    BY <1>0 DEF Push, Forge
  <2>2. Close \/ NewEpoch => forge'.head = forge.head
    BY <1>0 DEF Close, NewEpoch, Forge
  <2>3. \A c \in CI : CIResult(c) => forge'.head = forge.head
    BY <1>0 DEF CIResult, Forge
  <2>4. \A v \in Verdicts : Submit(v) => forge'.head = forge.head
    BY <1>0 DEF Submit, Forge
  <2>5. \A i \in 1 .. MaxReviews : Dismiss(i) => forge'.head = forge.head
    BY <1>0 DEF Dismiss, Forge
  <2>6. QED
    BY <1>0, <2>1, <2>2, <2>3, <2>4, <2>5
<1>5. ReviewsMove
  <2>1. CASE Push \/ Close \/ NewEpoch \/ \E c \in CI : CIResult(c)
    <3>1. forge'.reviews = forge.reviews
      BY <1>0, <2>1 DEF Push, Close, NewEpoch, CIResult, Forge
    <3>2. QED
      BY <3>1 DEF ReviewsMove
  <2>2. CASE \E v \in Verdicts : Submit(v)
    BY <1>0, <2>2, SubmitEdits DEF ReviewsMove
  <2>3. CASE \E i \in 1 .. MaxReviews : Dismiss(i)
    BY <1>0, <2>3, DismissEdits DEF ReviewsMove
  <2>4. QED
    BY <2>1, <2>2, <2>3
<1>6. \A k : Valid(k) /\ Recorded(mem.saved, k) => Recorded(mem.saved, k)'
  BY <1>0, <1>2, <1>5, KeysKept
<1>7. QED
  BY <1>2, <1>3, <1>4, <1>5, <1>6, BesideMemory

LEMMA ElapseMemory == ASSUME Inv, Inv', Memory, Elapse PROVE Memory'
<1>1. mem'.saved = mem.saved /\ mem'.known = mem.known
  BY DEF Elapse, Inv, Types, Values, State
<1>2. UNCHANGED <<forge, ctl, resets, kept, watcher, told, again, strayed>>
  BY DEF Elapse, tool, history
<1>3. \A k : Recorded(mem.saved, k) => Recorded(mem.saved, k)'
  BY <1>1, <1>2, KeysSame
<1>4. forge.head <= forge'.head /\ ctl <= ctl' /\ ReviewsMove
  BY <1>2, Numbers DEF Inv, ReviewsMove
<1>5. QED
  BY <1>1, <1>2, <1>3, <1>4, BesideMemory

(* restart_review takes the marks away, but what they recorded was         *)
(* announced before this call; the verdict is kept.                        *)
LEMMA ResetCycleMemory == ASSUME Inv, Inv', Memory, ResetCycle PROVE Memory'
<1> DEFINE e == [NoEntry EXCEPT !.sha = mem.saved.sha, !.review = mem.saved.review]
<1>0. mem \in State /\ resets \in Nat
  BY Numbers DEF Inv, Types, Values
<1>1. e.sha = mem.saved.sha /\ e.review = mem.saved.review
  BY DEF NoEntry
<1> HIDE DEF e
<1>2. \/ mem' = mem
      \/ mem' = [mem EXCEPT !.saved = e, !.approvedAt = FALSE]
  BY DEF ResetCycle, e
<1>3. /\ mem'.known = mem.known /\ mem'.saved.sha = mem.saved.sha
      /\ mem'.saved.review = mem.saved.review
  BY <1>0, <1>1, <1>2 DEF State
<1>4. UNCHANGED <<forge, ctl, kept, watcher, told, again, strayed>>
      /\ resets' = resets + 1
  BY DEF ResetCycle, history
<1>5. forge.head <= forge'.head /\ ctl <= ctl' /\ ReviewsMove /\ Edits' = Edits
  BY <1>4, Numbers DEF Inv, ReviewsMove, Edits
<1>6. ASSUME NEW k, Valid(k), Recorded(mem.saved, k)
      PROVE  Recorded(mem.saved, k)'
  <2>1. k[1] \in {"ci_blocked", "ci_triggered", "timeout"} => k[3] < resets'
    BY <1>0, <1>4, <1>6 DEF Valid
  <2>2. QED
    BY <1>3, <1>5, <1>6, <2>1 DEF Recorded
<1>7. QED
  BY <1>3, <1>4, <1>5, <1>6, BesideMemory

(* The tools leave alone what the watcher remembers having saved.          *)
LEMMA ToolMemory ==
  ASSUME Inv, Inv', Memory, ToolStep
  PROVE  Memory'
<1>1. UNCHANGED <<forge, ctl, mem, resets, kept, watcher, told, again, strayed>>
  BY ToolSteps DEF history
<1>2. \A k : Recorded(mem.saved, k) => Recorded(mem.saved, k)'
  BY <1>1, KeysSame
<1>3. forge.head <= forge'.head /\ ctl <= ctl' /\ ReviewsMove
  BY <1>1, Numbers DEF Inv, ReviewsMove
<1>4. QED
  BY <1>1, <1>2, <1>3, BesideMemory

LEMMA StutterMemory ==
  ASSUME Inv, Inv', Memory, UNCHANGED vars
  PROVE  Memory'
<1>1. UNCHANGED <<forge, ctl, mem, resets, kept, watcher, told, again, strayed>>
  BY DEF vars, tool, history
<1>2. \A k : Recorded(mem.saved, k) => Recorded(mem.saved, k)'
  BY <1>1, KeysSame
<1>3. forge.head <= forge'.head /\ ctl <= ctl' /\ ReviewsMove
  BY <1>1, Numbers DEF Inv, ReviewsMove
<1>4. QED
  BY <1>1, <1>2, <1>3, BesideMemory

(* The steps of the poll cycle up to the observation, and those that end   *)
(* it early, leave the file and what is told alone.                        *)
LEMMA IdleMemory ==
  ASSUME Inv, Inv', Memory, UNCHANGED <<forge, ctl, resets, kept, told, again, strayed>>,
         pc' = "idle",
         mem' = mem \/ mem' = NoState
  PROVE  Memory'
<1> SUFFICES ASSUME ~ strayed
             PROVE  /\ Quiet' /\ HeadsGrow' /\ EpochsGrow' /\ Remembered'
                    /\ Looked' /\ Pending'
  BY DEF Memory
<1>1. Quiet /\ HeadsGrow /\ EpochsGrow /\ Remembered
  BY DEF Memory
<1>2. NoState.known = FALSE /\ NoState.saved.sha = 0
  BY DEF NoState, NoEntry
<1>3. Quiet' /\ EpochsGrow' /\ Looked' /\ Pending'
  BY <1>1 DEF Quiet, EpochsGrow, Looked, Pending
<1>4. HeadsGrow'
  BY <1>1, <1>2, Numbers DEF HeadsGrow, Inv
<1>5. Remembered'
  BY <1>1, <1>2, KeysSame DEF Remembered, By
<1>6. QED
  BY <1>3, <1>4, <1>5

LEMMA EndMemory ==
  ASSUME Inv, Inv', Memory, Skip \/ PersistFails \/ Crash
  PROVE  Memory'
<1>1. /\ UNCHANGED <<forge, ctl, resets, kept, told, again, strayed>>
      /\ pc' = "idle" /\ (mem' = mem \/ mem' = NoState)
  BY DEF Skip, PersistFails, Crash, tool, history
<1>2. QED
  BY <1>1, IdleMemory

LEMMA LoadMemory == ASSUME Inv, Inv', Memory, Load PROVE Memory'
<1>7. CASE ~ forge.open
  <2>1. /\ UNCHANGED <<forge, ctl, mem, resets, kept, told, again, strayed>>
        /\ pc' = "idle"
    BY <1>7 DEF Load, history
  <2>2. QED
    BY <2>1, IdleMemory
<1> SUFFICES ASSUME ~ strayed', forge.open
             PROVE  /\ Quiet' /\ HeadsGrow' /\ EpochsGrow' /\ Remembered'
                    /\ Looked' /\ Pending'
  BY <1>7 DEF Memory
<1>0. /\ UNCHANGED <<forge, ctl, mem, kept, seen, todo, told, again, strayed, resets>>
      /\ pc' = "look" /\ obs' = [NoObs EXCEPT !.head = forge.head]
  BY DEF Load, tool, history
<1>1. Quiet /\ HeadsGrow /\ EpochsGrow /\ Remembered
  BY <1>0 DEF Memory
<1>2. obs'.head = forge.head
  BY <1>0 DEF NoObs
<1>3. Quiet' /\ EpochsGrow' /\ Looked' /\ Pending'
  BY <1>0, <1>1 DEF Quiet, EpochsGrow, Looked, Pending
<1>4. HeadsGrow'
  BY <1>0, <1>1, <1>2, Numbers DEF HeadsGrow, Inv
<1>5. Remembered'
  BY <1>0, <1>1, KeysSame DEF Remembered, By
<1>6. QED
  BY <1>3, <1>4, <1>5

(* What a lookup finds is the review in force: the head is still the one   *)
(* it was made for, and the last review of it that is not dismissed.       *)
LEMMA LatestCurrent ==
  ASSUME Types, NEW h, Latest(h) # 0
  PROVE  Current(Latest(h), h)
<1> DEFINE S == {i \in DOMAIN forge.reviews : InForce(forge.reviews[i], h)}
<1>1. Len(forge.reviews) \in Nat /\ DOMAIN forge.reviews = 1 .. Len(forge.reviews)
  BY DEF Types, Values, Forge
<1>2. S # {}
  BY DEF Latest
<1>3. \E i \in S : \A j \in S : j <= i
  BY <1>1, <1>2, GreatestExists
<1>4. Latest(h) \in S /\ \A j \in S : j <= Latest(h)
  BY <1>2, <1>3 DEF Latest
<1>5. QED
  BY <1>1, <1>4 DEF InForce, Current

LEMMA LookMemory ==
  ASSUME Inv, Inv', Memory, NEW reviews \in BOOLEAN, NEW status \in BOOLEAN,
         Look(reviews, status)
  PROVE  Memory'
<1> SUFFICES ASSUME ~ strayed'
             PROVE  /\ Quiet' /\ HeadsGrow' /\ EpochsGrow' /\ Remembered'
                    /\ Looked' /\ Pending'
  BY DEF Memory
<1>0. /\ UNCHANGED <<forge, ctl, mem, kept, seen, todo, told, again, strayed, resets>>
      /\ pc = "look" /\ pc' = "compute"
  BY DEF Look, tool, history
<1>1. Quiet /\ HeadsGrow /\ EpochsGrow /\ Remembered
  BY <1>0 DEF Memory
<1>2. /\ obs'.head = obs.head /\ obs'.edits = Edits
      /\ obs'.latest = 0 \/ obs'.latest = Latest(obs.head)
  BY DEF Look, Inv, Types, Values, Obs
<1>3. Quiet' /\ EpochsGrow' /\ Pending' /\ HeadsGrow'
  BY <1>0, <1>1, <1>2 DEF Quiet, EpochsGrow, Pending, HeadsGrow
<1>4. Remembered'
  BY <1>0, <1>1, KeysSame DEF Remembered, By
<1>5. Looked'
  <2>0. Edits \in Nat /\ Edits' = Edits /\ \A i, h : Current(i, h)' <=> Current(i, h)
    BY <1>0, Numbers, KeysSame DEF Inv
  <2>1. obs'.latest # 0 => Current(obs'.latest, obs.head)
    BY <1>2, LatestCurrent DEF Inv
  <2>2. obs'.latest # 0 => Current(obs.latest, obs.head)'
    BY <1>2, <2>0, <2>1
  <2>3. ASSUME NEW k \in told, k[1] = "approved"
        PROVE  /\ k[3] <= Edits
               /\ LET e == IF mem.known THEN mem.saved ELSE kept.entry
                  IN  k[2] = e.sha /\ e.review # "approved" => k[3] < Edits
    <3>1. /\ Valid(k) /\ Recorded(kept.entry, k)
          /\ mem.known => Recorded(mem.saved, k)
      BY <1>1, <2>3 DEF Remembered, Once
    <3>2. k[3] <= Edits
      BY <2>3, <3>1 DEF Valid
    <3>3. QED
      BY <2>3, <3>1, <3>2 DEF Recorded
  <2>4. QED
    BY <1>0, <1>2, <2>0, <2>2, <2>3 DEF Looked
<1>6. QED
  BY <1>3, <1>4, <1>5

(* What is saved records everything told and everything about to be.       *)
LEMMA PersistMemory == ASSUME Inv, Inv', Memory, Persist PROVE Memory'
<1> SUFFICES ASSUME ~ strayed'
             PROVE  /\ Quiet' /\ HeadsGrow' /\ EpochsGrow' /\ Remembered'
                    /\ Looked' /\ Pending'
  BY DEF Memory
<1>0. /\ UNCHANGED <<forge, ctl, mem, todo, told, again, strayed, resets>>
      /\ pc = "persist"
      /\ \/ pc' = "idle"
         \/ pc' = "say" /\ obs' = obs /\ seen' = seen
      /\ kept' = [kept EXCEPT !.epoch = IF seen = 0 THEN @ ELSE seen, !.entry = Projected]
  BY DEF Persist
<1>1. Quiet /\ HeadsGrow /\ EpochsGrow /\ Remembered /\ Pending
  BY <1>0 DEF Memory
<1>2. Projected = mem.saved
  BY <1>0 DEF Inv, ObservedHead, Projected, Types, Values, State, Entry
<1>3. /\ kept'.entry = mem.saved
      /\ kept'.epoch = IF seen = 0 THEN kept.epoch ELSE seen
  BY <1>0, <1>2 DEF Inv, Types, Values, File
<1>4. /\ kept.epoch \in Nat /\ seen \in Nat /\ ctl \in Nat
      /\ kept.epoch <= seen /\ seen <= ctl /\ mem.known
  BY <1>0, <1>1, Numbers DEF EpochsGrow, Pending, Inv
<1>5. /\ Quiet' /\ Looked'
  BY <1>0, <1>1, <1>3 DEF Quiet, Looked
<1>6. EpochsGrow'
  BY <1>0, <1>3, <1>4 DEF EpochsGrow
<1>7. HeadsGrow'
  BY <1>0, <1>1, <1>3 DEF HeadsGrow
<1>8. kept'.epoch = seen \/ (seen = 0 /\ kept'.epoch = kept.epoch)
  BY <1>3
<1>9. Remembered'
  <2> SUFFICES ASSUME NEW k \in told, k[1] \in Once
               PROVE  /\ Valid(k)' /\ Recorded(kept.entry, k)' /\ By(kept.epoch, k)'
                      /\ Recorded(mem.saved, k)'
    BY <1>0 DEF Remembered
  <2>1. Valid(k) /\ Recorded(mem.saved, k) /\ By(kept.epoch, k)
    BY <1>1, <1>4 DEF Remembered
  <2>2. k[1] \in {"approved", "timeout"} => k[4] \in Nat
    BY <2>1 DEF Valid
  <2>3. By(kept'.epoch, k)
    BY <1>4, <1>8, <2>1, <2>2 DEF By
  <2>4. By(kept.epoch, k)'
    BY <2>3 DEF By
  <2>5. Recorded(mem.saved, k)' /\ Valid(k)' /\ Recorded(kept.entry, k)'
    BY <1>0, <1>3, <2>1, KeysSame
  <2>6. QED
    BY <2>4, <2>5
<1>10. Pending'
  <2> SUFFICES ASSUME pc' = "say", obs' = obs, seen' = seen
               PROVE  Pending'
    BY <1>0 DEF Pending
  <2>1. Distinct(todo)'
    BY <1>0, <1>1 DEF Pending, Distinct
  <2>2. ASSUME NEW i \in 1 .. Len(todo), todo[i][1] \in Once
        PROVE  /\ todo[i] \notin told /\ Valid(todo[i])'
               /\ Recorded(mem.saved, todo[i])' /\ By(seen, todo[i])'
               /\ Recorded(kept.entry, todo[i])' /\ By(kept.epoch, todo[i])'
    <3>1. /\ todo[i] \notin told /\ Valid(todo[i])
          /\ Recorded(mem.saved, todo[i]) /\ By(seen, todo[i])
      BY <1>0, <1>1, <2>2 DEF Pending
    <3>2. todo[i][1] \in {"approved", "timeout"} => todo[i][4] \in Nat
      BY <3>1 DEF Valid
    <3>3. By(kept'.epoch, todo[i])
      BY <1>4, <1>8, <3>1, <3>2 DEF By
    <3>4. By(kept.epoch, todo[i])' /\ By(seen, todo[i])'
      BY <1>0, <3>1, <3>3 DEF By
    <3>5. Recorded(mem.saved, todo[i])' /\ Valid(todo[i])' /\ Recorded(kept.entry, todo[i])'
      BY <1>0, <1>3, <3>1, KeysSame
    <3>6. QED
      BY <3>1, <3>4, <3>5
  <2>3. QED
    BY <1>0, <1>4, <2>1, <2>2 DEF Pending
<1>11. QED
  BY <1>5, <1>6, <1>7, <1>9, <1>10

(* The announcement made is new, and the ones that follow it are others.   *)
LEMMA SayMemory == ASSUME Inv, Inv', Memory, Say PROVE Memory'
<1> SUFFICES ASSUME ~ strayed'
             PROVE  /\ Quiet' /\ HeadsGrow' /\ EpochsGrow' /\ Remembered'
                    /\ Looked' /\ Pending'
  BY DEF Memory
<1>0. /\ UNCHANGED <<forge, ctl, mem, kept, strayed, resets>>
      /\ pc = "say" /\ told' = told \cup {Head(todo)} /\ todo' = Tail(todo)
      /\ again' = (again \/ (Head(todo) \in told /\ Head(todo)[1] \in Once))
      /\ pc' = "idle" \/ UNCHANGED <<pc, obs, seen>>
  BY DEF Say, tool
<1>1. Quiet /\ HeadsGrow /\ EpochsGrow /\ Remembered /\ Pending
  BY <1>0 DEF Memory
<1>2. todo \in Seq(Ann) /\ todo # <<>>
  BY <1>0 DEF Inv, Types, Values, Places
<1>3. /\ Head(todo) = todo[1] /\ Len(todo) \in Nat /\ 1 \in 1 .. Len(todo)
      /\ Len(Tail(todo)) = Len(todo) - 1
      /\ \A i \in 1 .. Len(Tail(todo)) :
           Tail(todo)[i] = todo[i + 1] /\ i + 1 \in 1 .. Len(todo) /\ i + 1 # 1
  BY <1>2
<1> DEFINE new == todo[1]
           rest == Tail(todo)
<1>4. /\ mem.known /\ Distinct(todo)
      /\ \A i \in 1 .. Len(todo) : todo[i][1] \in Once =>
           /\ todo[i] \notin told /\ Valid(todo[i])
           /\ Recorded(mem.saved, todo[i]) /\ By(seen, todo[i])
           /\ Recorded(kept.entry, todo[i]) /\ By(kept.epoch, todo[i])
  BY <1>0, <1>1 DEF Pending
<1>5. Quiet' /\ HeadsGrow' /\ EpochsGrow' /\ Looked'
  BY <1>0, <1>1, <1>3, <1>4, Numbers DEF Quiet, HeadsGrow, EpochsGrow, Looked, Inv
<1>6. \A n, k : By(n, k)' <=> By(n, k)
  BY DEF By
<1>7. Remembered'
  <2>1. ASSUME NEW k \in told \cup {new}, k[1] \in Once
        PROVE  /\ Valid(k) /\ Recorded(kept.entry, k) /\ By(kept.epoch, k)
               /\ Recorded(mem.saved, k)
    BY <1>1, <1>3, <1>4, <2>1 DEF Remembered
  <2>2. \A k \in told' : k[1] \in Once =>
          /\ Valid(k)' /\ Recorded(kept.entry, k)' /\ By(kept.epoch, k)'
          /\ Recorded(mem.saved, k)'
    BY <1>0, <1>3, <1>6, <2>1, KeysSame
  <2>3. QED
    BY <2>2 DEF Remembered
<1>8. Pending'
  <2> SUFFICES ASSUME UNCHANGED <<pc, obs, seen>>
               PROVE  Pending'
    BY <1>0 DEF Pending
  <2>1. ASSUME NEW i \in 1 .. Len(rest), rest[i][1] \in Once
        PROVE  /\ rest[i] \notin told' /\ Valid(rest[i])
               /\ Recorded(mem.saved, rest[i]) /\ By(seen, rest[i])
               /\ Recorded(kept.entry, rest[i]) /\ By(kept.epoch, rest[i])
    <3>1. rest[i] = todo[i + 1] /\ i + 1 \in 1 .. Len(todo) /\ i + 1 # 1
      BY <1>3
    <3>2. rest[i] # new
      BY <1>3, <1>4, <2>1, <3>1 DEF Distinct
    <3>3. QED
      BY <1>0, <1>3, <1>4, <2>1, <3>1, <3>2
  <2>2. Distinct(rest)
    <3> SUFFICES ASSUME NEW i \in 1 .. Len(rest), NEW j \in 1 .. Len(rest),
                        rest[i] = rest[j], rest[i][1] \in Once
                 PROVE  i = j
      BY DEF Distinct
    <3>1. /\ rest[i] = todo[i + 1] /\ i + 1 \in 1 .. Len(todo)
          /\ rest[j] = todo[j + 1] /\ j + 1 \in 1 .. Len(todo)
      BY <1>3
    <3>2. i + 1 = j + 1
      BY <1>4, <3>1 DEF Distinct
    <3>3. QED
      BY <3>2
  <2>3. Distinct(todo)'
    BY <1>0, <2>2 DEF Distinct
  <2>4. todo' = rest /\ pc' = pc /\ mem' = mem /\ seen' = seen /\ kept' = kept
    BY <1>0
  <2>5. ASSUME NEW i \in 1 .. Len(todo'), todo'[i][1] \in Once
        PROVE  /\ todo'[i] \notin told' /\ Valid(todo[i])'
               /\ Recorded(mem.saved, todo[i])' /\ By(seen, todo[i])'
               /\ Recorded(kept.entry, todo[i])' /\ By(kept.epoch, todo[i])'
    <3>1. /\ todo'[i] \notin told' /\ Valid(todo'[i])
          /\ Recorded(mem.saved, todo'[i]) /\ By(seen, todo'[i])
          /\ Recorded(kept.entry, todo'[i]) /\ By(kept.epoch, todo'[i])
      BY <2>1, <2>4, <2>5
    <3>2. QED
      BY <1>0, <1>6, <2>4, <3>1, KeysSame
  <2>6. QED
    BY <1>4, <2>3, <2>4, <2>5 DEF Pending
<1>9. QED
  BY <1>5, <1>7, <1>8

-----------------------------------------------------------------------------
(* The stages of compute_pr_actions_with_context announce only what is not *)
(* told yet, each kind at most once, and leave the marks for it.           *)
Ready == Inv /\ Memory /\ ~ strayed /\ pc = "compute"

(* Announcement k is fit to be made beside the ones told, with entry e.    *)
New(e, k) == k \notin told /\ Valid(k) /\ Recorded(e, k) /\ By(ctl, k)

(* A stage's result: the state records what is told and what is to be, and *)
(* the announcements so far are of the kinds in K.                         *)
Good(st, K) ==
  /\ st \in Stage /\ st.s.known /\ st.s.saved.sha = obs.head
  /\ \A k \in told : k[1] \in Once => Recorded(st.s.saved, k)
  /\ \A i \in 1 .. Len(st.out) :
       st.out[i][1] \in Once => st.out[i][1] \in K /\ New(st.s.saved, st.out[i])
  /\ Distinct(st.out)

(* An approval told for this head was told before the reviews came to the  *)
(* observed state, unless the verdict is remembered.                       *)
Stale(e) == \A k \in told :
  k[1] = "approved" /\ k[2] = e.sha /\ e.review # "approved" => k[3] < obs.edits

LEMMA GoodMore ==
  ASSUME NEW st, NEW K, NEW L, Good(st, K), K \subseteq L
  PROVE  Good(st, L)
BY DEF Good

LEMMA GoodAnnounces ==
  ASSUME NEW st, NEW K, NEW L, Good(st, K), K \subseteq L,
         NEW s \in State, s.known, s.saved.sha = obs.head,
         \A k \in told : k[1] \in Once => Recorded(s.saved, k),
         \A i \in 1 .. Len(st.out) : st.out[i][1] \in Once => Recorded(s.saved, st.out[i]),
         NEW a \in Ann,
         a[1] \in Once => a[1] \in L \ K /\ New(s.saved, a)
  PROVE  Good([s |-> s, out |-> Append(st.out, a)], L)
<1> DEFINE o == Append(st.out, a)
           t == [s |-> s, out |-> o]
<1>1. st.out \in Seq(Ann)
  BY DEF Good, Stage
<1>2. /\ o \in Seq(Ann) /\ Len(o) = Len(st.out) + 1 /\ o[Len(st.out) + 1] = a
      /\ \A i \in 1 .. Len(st.out) : o[i] = st.out[i]
      /\ Len(st.out) \in Nat
  BY <1>1
<1> HIDE DEF o
<1>3. \A i \in 1 .. Len(o) : i = Len(st.out) + 1 \/ i \in 1 .. Len(st.out)
  BY <1>2
<1>4. ASSUME NEW i \in 1 .. Len(o), o[i][1] \in Once
      PROVE  o[i][1] \in L /\ New(s.saved, o[i])
  BY <1>2, <1>3, <1>4 DEF Good, New
<1>5. \A i \in 1 .. Len(st.out) : o[i][1] \in Once => o[i][1] \in K
  BY <1>2 DEF Good
<1>6. Distinct(o)
  <2> SUFFICES ASSUME NEW i \in 1 .. Len(o), NEW j \in 1 .. Len(o),
                      o[i] = o[j], o[i][1] \in Once
               PROVE  i = j
    BY DEF Distinct
  <2>1. CASE i \in 1 .. Len(st.out) /\ j \in 1 .. Len(st.out)
    BY <1>2, <2>1 DEF Good, Distinct
  <2>2. CASE i = Len(st.out) + 1 /\ j \in 1 .. Len(st.out)
    BY <1>2, <1>5, <2>2
  <2>3. CASE j = Len(st.out) + 1 /\ i \in 1 .. Len(st.out)
    BY <1>2, <1>5, <2>3
  <2>4. QED
    BY <1>3, <2>1, <2>2, <2>3
<1>7. t \in Stage /\ t.s = s /\ t.out = o
  BY <1>2 DEF Stage
<1> HIDE DEF t
<1>8. Good(t, L)
  BY <1>4, <1>6, <1>7 DEF Good
<1>9. QED
  BY <1>8 DEF t, o

(* Of entries that agree on the head, one with more marks records more.    *)
LEMMA MarksRecord ==
  ASSUME NEW e, NEW f, f.sha = e.sha,
         e.blocked => f.blocked, e.timeout => f.timeout,
         e.triggered = e.sha => f.triggered = e.sha,
         e.review = "approved" => f.review = "approved"
  PROVE  \A k : Recorded(e, k) => Recorded(f, k)
BY DEF Recorded

(* So an announcement is added to a stage whose marks only grow.           *)
LEMMA GoodMarks ==
  ASSUME NEW st, NEW K, NEW L, Good(st, K), K \subseteq L,
         NEW s \in State, s.known, s.saved.sha = st.s.saved.sha,
         st.s.saved.blocked => s.saved.blocked, st.s.saved.timeout => s.saved.timeout,
         st.s.saved.triggered = st.s.saved.sha => s.saved.triggered = st.s.saved.sha,
         st.s.saved.review = "approved" => s.saved.review = "approved",
         NEW a \in Ann,
         a[1] \in Once => a[1] \in L \ K /\ New(s.saved, a)
  PROVE  Good([s |-> s, out |-> Append(st.out, a)], L)
<1>1. \A k : Recorded(st.s.saved, k) => Recorded(s.saved, k)
  BY MarksRecord
<1>2. /\ \A k \in told : k[1] \in Once => Recorded(s.saved, k)
      /\ \A i \in 1 .. Len(st.out) : st.out[i][1] \in Once => Recorded(s.saved, st.out[i])
      /\ s.saved.sha = obs.head
  BY <1>1 DEF Good, New
<1>3. QED
  BY <1>2, GoodAnnounces

(* What the proofs of the stages know of the observation and of what is    *)
(* told.                                                                   *)
LEMMA ReadyFacts ==
  ASSUME Ready
  PROVE  /\ Types /\ Observed
         /\ obs.head \in Nat /\ obs.head >= 1 /\ obs.edits \in Nat /\ Edits \in Nat
         /\ ctl \in Nat /\ resets \in Nat /\ kept.epoch \in Nat
         /\ kept.epoch <= ctl /\ obs.edits <= Edits
         /\ obs.latest # 0 /\ obs.edits = Edits => Current(obs.latest, obs.head)
         /\ \A k \in told : k[1] \in Once =>
              Valid(k) /\ Recorded(kept.entry, k) /\ By(kept.epoch, k)
<1>1. Types /\ Observed /\ Quiet /\ EpochsGrow /\ Remembered /\ Looked /\ HeadsGrow
  BY DEF Ready, Memory, Inv, ObservedHead, Observed, Types, Places
<1>2. obs.head >= 1
  BY <1>1 DEF Observed, Heads
<1>3. QED
  BY <1>1, <1>2, Numbers DEF EpochsGrow, Remembered, Looked, Ready

LEMMA PushedNew ==
  ASSUME Ready, NEW e, e.sha \in Nat, e.sha <= obs.head, e.sha # obs.head,
         \A k \in told : k[1] \in Once => Recorded(e, k),
         NEW f, f.sha = obs.head
  PROVE  New(f, Pushed)
<1>1. Pushed[1] = "pushed" /\ Pushed[2] = obs.head
  BY DEF Pushed
<1>2. Pushed \notin told
  BY <1>1, ReadyFacts DEF Recorded, Once
<1>3. Valid(Pushed)
  BY <1>1, ReadyFacts DEF Valid
<1>4. Recorded(f, Pushed) /\ By(ctl, Pushed)
  BY <1>1, ReadyFacts DEF Recorded, By
<1>5. QED
  BY <1>2, <1>3, <1>4 DEF New

LEMMA CIBlockedNew ==
  ASSUME Ready, NEW e, e.sha = obs.head, ~ e.blocked,
         \A k \in told : k[1] \in Once => Recorded(e, k),
         NEW f, f.sha = obs.head, f.blocked
  PROVE  New(f, CIBlocked)
<1>1. CIBlocked[1] = "ci_blocked" /\ CIBlocked[2] = obs.head /\ CIBlocked[3] = resets
  BY DEF CIBlocked
<1>2. CIBlocked \notin told
  BY <1>1, ReadyFacts DEF Recorded, Once
<1>3. Valid(CIBlocked)
  BY <1>1, ReadyFacts DEF Valid
<1>4. Recorded(f, CIBlocked) /\ By(ctl, CIBlocked)
  BY <1>1, ReadyFacts DEF Recorded, By
<1>5. QED
  BY <1>2, <1>3, <1>4 DEF New

LEMMA TriggeredNew ==
  ASSUME Ready, NEW e, e.sha = obs.head, e.triggered # obs.head,
         \A k \in told : k[1] \in Once => Recorded(e, k),
         NEW f, f.sha = obs.head, f.triggered = obs.head
  PROVE  New(f, Triggered)
<1>1. Triggered[1] = "ci_triggered" /\ Triggered[2] = obs.head /\ Triggered[3] = resets
  BY DEF Triggered
<1>2. Triggered \notin told
  BY <1>1, ReadyFacts DEF Recorded, Once
<1>3. Valid(Triggered)
  BY <1>1, ReadyFacts DEF Valid
<1>4. Recorded(f, Triggered) /\ By(ctl, Triggered)
  BY <1>1, ReadyFacts DEF Recorded, By
<1>5. QED
  BY <1>2, <1>3, <1>4 DEF New

(* A timeout is news when the mark is not there or the epoch is a new one. *)
LEMMA TimedOutNew ==
  ASSUME Ready, NEW e, e.sha = obs.head, ~ e.timeout \/ kept.epoch # ctl,
         \A k \in told : k[1] \in Once => Recorded(e, k),
         NEW f, f.sha = obs.head, f.timeout
  PROVE  New(f, TimedOut)
<1>1. /\ TimedOut[1] = "timeout" /\ TimedOut[2] = obs.head /\ TimedOut[3] = resets
      /\ TimedOut[4] = ctl
  BY DEF TimedOut
<1>2. TimedOut \notin told
  BY <1>1, ReadyFacts DEF Recorded, Once, By
<1>3. Valid(TimedOut)
  BY <1>1, ReadyFacts DEF Valid
<1>4. Recorded(f, TimedOut) /\ By(ctl, TimedOut)
  BY <1>1, ReadyFacts DEF Recorded, By
<1>5. QED
  BY <1>2, <1>3, <1>4 DEF New

(* An approval is news when the verdict is not remembered or the epoch is  *)
(* a new one.                                                              *)
LEMMA ApprovedNew ==
  ASSUME Ready, Verdict = "approved", NEW e, e.sha = obs.head, Stale(e),
         e.review # "approved" \/ kept.epoch # ctl,
         NEW f, f.sha = obs.head, f.review = "approved"
  PROVE  New(f, Approved)
<1>1. /\ Approved[1] = "approved" /\ Approved[2] = obs.head /\ Approved[3] = obs.edits
      /\ Approved[4] = ctl
  BY DEF Approved
<1>2. Approved \notin told
  BY <1>1, ReadyFacts DEF Stale, Once, By
<1>3. Valid(Approved)
  <2>1. ASSUME obs.edits = Edits, NEW i \in 1 .. Len(forge.reviews), Current(i, obs.head)
        PROVE  forge.reviews[i].verdict = "approved"
    <3>1. obs.latest # 0 /\ forge.reviews[obs.latest].verdict = "approved"
      BY DEF Verdict
    <3>2. Current(obs.latest, obs.head)
      BY <2>1, <3>1, ReadyFacts
    <3>3. obs.latest = i
      BY <2>1, <3>2 DEF Current
    <3>4. QED
      BY <3>1, <3>3
  <2>2. QED
    BY <1>1, <2>1, ReadyFacts DEF Valid
<1>4. Recorded(f, Approved) /\ By(ctl, Approved)
  BY <1>1, ReadyFacts DEF Recorded, By
<1>5. QED
  BY <1>2, <1>3, <1>4 DEF New

(* The kinds announced by the stages so far; an approval only under an     *)
(* approving verdict.                                                      *)
Kinds1 == {"pushed"}
Kinds2 == {"pushed", "ci_blocked"}
Kinds3 == Kinds2 \cup (IF Verdict = "approved" THEN {"approved", "ci_triggered"} ELSE {})

LEMMA Stage1Good ==
  ASSUME Ready, NEW s \in State, s.known, s.saved.sha \in Nat, s.saved.sha <= obs.head,
         \A k \in told : k[1] \in Once => Recorded(s.saved, k), Stale(s.saved)
  PROVE  LET t == Stage1([s |-> s, out |-> <<>>])
         IN  Good(t, Kinds1) /\ Stale(t.s.saved)
<1> DEFINE start == [s |-> s, out |-> <<>>]
           t == Stage1(start)
<1>0. start \in Stage /\ start.s = s /\ start.out = <<>>
  BY DEF Stage
<1>1. CASE s.saved.sha = obs.head
  <2>1. t = start
    BY <1>0, <1>1 DEF Stage1
  <2>2. Len(start.out) = 0
    BY <1>0
  <2>3. \A i \in 1 .. Len(start.out) : FALSE
    BY <2>2
  <2> HIDE DEF start, t
  <2>4. Good(start, Kinds1)
    BY <1>0, <1>1, <2>3 DEF Good, Distinct
  <2>5. QED
    BY <1>0, <2>1, <2>4 DEF t, start
<1>2. CASE s.saved.sha # obs.head
  <2> DEFINE n == OnNewHead(s)
             u == [s |-> n, out |-> Append(<<>>, Pushed)]
  <2>0. obs.head \in OrNone /\ s.saved \in Entry /\ s.saved.print \in Prints
    BY ReadyFacts DEF Types, Values, Obs, State, Entry
  <2>1. [NoEntry EXCEPT !.sha = obs.head, !.print = s.saved.print] \in Entry
    BY <2>0, NoEntryTyped DEF Entry
  <2>2. /\ n \in State /\ n.known
        /\ n.saved = [NoEntry EXCEPT !.sha = obs.head, !.print = s.saved.print]
    BY <2>0, <2>1 DEF OnNewHead, State
  <2>3. n.saved.sha = obs.head
    BY <2>2 DEF NoEntry
  <2> HIDE DEF n
  <2>4. \A k \in told : k[1] \in Once => k[2] \in Nat /\ k[2] < obs.head
    <3>1. \A k \in told : k[1] \in Once => k[2] \in Nat /\ k[2] <= s.saved.sha
      BY ReadyFacts DEF Recorded, Valid
    <3>2. QED
      BY <1>2, <3>1, ReadyFacts
  <2>5. \A k \in told : k[1] \in Once => Recorded(n.saved, k)
    BY <2>3, <2>4, ReadyFacts DEF Recorded
  <2>6. Stale(n.saved)
    BY <2>3, <2>4, ReadyFacts DEF Stale, Once
  <2>7. New(n.saved, Pushed)
    BY <1>2, <2>3, PushedNew
  <2>8. Append(<<>>, Pushed) = <<Pushed>> /\ Pushed \in Ann /\ Pushed[1] = "pushed"
    BY ReadyFacts, AnnTyped DEF Pushed
  <2>9. u \in Stage /\ u.s = n /\ u.out = <<Pushed>>
    BY <2>2, <2>8 DEF Stage
  <2>10. t = u
    BY <1>0, <1>2 DEF Stage1, n
  <2>11. \A i \in 1 .. Len(<<Pushed>>) : i = 1 /\ <<Pushed>>[i] = Pushed
    OBVIOUS
  <2> HIDE DEF u, t, start
  <2>12. Good(u, Kinds1)
    <3>1. \A i \in 1 .. Len(u.out) : i = 1 /\ u.out[i] = Pushed
      BY <2>9, <2>11
    <3>2. Distinct(u.out)
      BY <3>1 DEF Distinct
    <3>3. \A i \in 1 .. Len(u.out) :
            u.out[i][1] \in Kinds1 /\ New(u.s.saved, u.out[i])
      BY <2>7, <2>8, <2>9, <3>1 DEF Kinds1
    <3>4. QED
      BY <2>2, <2>3, <2>5, <2>9, <3>2, <3>3 DEF Good
  <2>13. QED
    BY <2>6, <2>9, <2>10, <2>12 DEF t, start
<1>3. QED
  BY <1>1, <1>2

LEMMA Stage2Good ==
  ASSUME Ready, NEW st, Good(st, Kinds1), Stale(st.s.saved)
  PROVE  Good(Stage2(st), Kinds2) /\ Stale(Stage2(st).s.saved)
<1> DEFINE s == [st.s EXCEPT !.saved.blocked = TRUE]
           t == [s |-> s, out |-> Append(st.out, CIBlocked)]
<1>0. st.s \in State /\ st.s.saved \in Entry /\ st.s.known /\ st.s.saved.sha = obs.head
  BY DEF Good, Stage, State
<1>1. Kinds1 \subseteq Kinds2 /\ "ci_blocked" \in Kinds2 \ Kinds1
  BY DEF Kinds1, Kinds2
<1>2. Good(st, Kinds2)
  BY <1>1, GoodMore
<1>3. ASSUME ~ st.s.saved.blocked
      PROVE  Good(t, Kinds2) /\ Stale(t.s.saved)
  <2>1. /\ s \in State /\ s.known /\ s.saved.sha = st.s.saved.sha
        /\ s.saved.blocked /\ s.saved.timeout = st.s.saved.timeout
        /\ s.saved.triggered = st.s.saved.triggered
        /\ s.saved.review = st.s.saved.review
    BY <1>0 DEF State, Entry
  <2>2. CIBlocked \in Ann /\ CIBlocked[1] = "ci_blocked"
    BY ReadyFacts, AnnTyped DEF CIBlocked
  <2> HIDE DEF s
  <2>3. New(s.saved, CIBlocked)
    BY <1>0, <1>3, <2>1, CIBlockedNew DEF Good
  <2>4. Good(t, Kinds2)
    BY <1>1, <2>1, <2>2, <2>3, GoodMarks
  <2>5. QED
    BY <2>1, <2>4 DEF Stale
<1>4. Stage2(st) = st \/ (~ st.s.saved.blocked /\ Stage2(st) = t)
  BY DEF Stage2
<1> HIDE DEF t
<1>5. QED
  BY <1>2, <1>3, <1>4

LEMMA Stage3Good ==
  ASSUME Ready, NEW st, Good(st, Kinds2), Stale(st.s.saved),
         NEW replay, replay => kept.epoch # ctl
  PROVE  Good(Stage3(st, replay), Kinds3)
<1> DEFINE s == [st.s EXCEPT !.saved.review = "approved", !.saved.approved = TRUE,
                             !.saved.triggered = obs.head, !.approvedAt = TRUE]
           one == [s |-> s, out |-> Append(st.out, Approved)]
           two == [s |-> s, out |-> Append(Append(st.out, Approved), Triggered)]
<1>0. /\ st.s \in State /\ st.s.saved \in Entry /\ st.s.known /\ st.s.saved.sha = obs.head
      /\ st.out \in Seq(Ann) /\ obs.head \in OrNone
  BY ReadyFacts DEF Good, Stage, State, Types, Values, Obs
<1>1. Kinds2 \subseteq Kinds3
  BY DEF Kinds3
<1>2. CASE ~ (Verdict = "approved" /\ IsNews(st.s, replay))
  <2>1. Stage3(st, replay) = st
    BY <1>2 DEF Stage3
  <2>2. QED
    BY <1>1, <2>1, GoodMore
<1>3. CASE Verdict = "approved" /\ IsNews(st.s, replay)
  <2> DEFINE K == Kinds2 \cup {"approved"}
  <2>1. /\ s \in State /\ s.known /\ s.saved.sha = st.s.saved.sha
        /\ s.saved.blocked = st.s.saved.blocked
        /\ s.saved.timeout = st.s.saved.timeout
        /\ s.saved.triggered = obs.head /\ s.saved.review = "approved"
    BY <1>0 DEF State, Entry, Verdicts
  <2>2. /\ Approved \in Ann /\ Approved[1] = "approved"
        /\ Triggered \in Ann /\ Triggered[1] = "ci_triggered"
    BY ReadyFacts, AnnTyped DEF Approved, Triggered
  <2>3. st.out \o <<Approved, Triggered>> = Append(Append(st.out, Approved), Triggered)
    <3> HIDE DEF s
    <3> QED
      BY <1>0, <2>2
  <2> HIDE DEF s
  <2>4. New(s.saved, Approved)
    BY <1>0, <1>3, <2>1, ApprovedNew DEF IsNews
  <2>5. /\ Kinds2 \subseteq K /\ "approved" \in K \ Kinds2 /\ K \subseteq Kinds3
        /\ "ci_triggered" \in Kinds3 \ K
    BY <1>3 DEF Kinds2, Kinds3
  <2>6. Good(one, K)
    <3> HIDE DEF K
    <3> QED
      BY <1>0, <2>1, <2>2, <2>4, <2>5, GoodMarks
  <2>7. one.s = s /\ one.out = Append(st.out, Approved)
    OBVIOUS
  <2>8. CASE st.s.saved.triggered = obs.head
    <3>1. Stage3(st, replay) = one
      BY <1>3, <2>8 DEF Stage3, s
    <3> HIDE DEF one, K
    <3>2. QED
      BY <2>5, <2>6, <3>1, GoodMore
  <2>9. CASE st.s.saved.triggered # obs.head
    <3>1. Stage3(st, replay) = two
      BY <1>3, <2>3, <2>9 DEF Stage3, s
    <3>2. New(s.saved, Triggered)
      BY <1>0, <2>1, <2>9, TriggeredNew DEF Good
    <3>3. Good(two, Kinds3)
      <4> HIDE DEF K, one
      <4>1. Good([s |-> s, out |-> Append(one.out, Triggered)], Kinds3)
        BY <2>1, <2>2, <2>5, <2>6, <2>7, <3>2, GoodMarks
      <4>2. QED
        BY <2>7, <4>1
    <3>4. QED
      BY <3>1, <3>3
  <2>10. QED
    BY <2>8, <2>9
<1>4. QED
  BY <1>2, <1>3

(* Requested changes and comments take the place of an approval only when  *)
(* the reviews have changed since it was told.                             *)
LEMMA Stage4Good ==
  ASSUME Ready, NEW st, Good(st, Kinds3)
  PROVE  Good(Stage4(st), Kinds3)
<1> SUFFICES ASSUME Verdict \in {"changes_requested", "commented"}
             PROVE  Good(Stage4(st), Kinds3)
  BY DEF Stage4
<1> DEFINE s == [st.s EXCEPT !.saved.review = Verdict, !.saved.print = obs.latest,
                             !.waited = @ /\ Verdict = "commented"]
<1>0. st.s \in State /\ st.s.saved \in Entry /\ st.s.known /\ st.s.saved.sha = obs.head
  BY DEF Good, Stage, State
<1>1. obs.latest \in Prints
  BY ReadyFacts, BoundAssumption DEF Types, Values, Counters, Places, Obs, Prints, Forge
<1>2. /\ s \in State /\ s.known /\ s.saved.sha = st.s.saved.sha
      /\ s.saved.blocked = st.s.saved.blocked
      /\ s.saved.timeout = st.s.saved.timeout
      /\ s.saved.triggered = st.s.saved.triggered
  BY <1>0, <1>1 DEF State, Entry, Verdicts
<1>3. Finding \in Ann /\ Finding[1] \notin Once
  BY ReadyFacts, AnnTyped DEF Finding, Once
<1> HIDE DEF s
<1>4. ASSUME NEW k, Recorded(st.s.saved, k),
             k[1] = "approved" /\ k[2] = obs.head => k[3] < Edits
      PROVE  Recorded(s.saved, k)
  BY <1>0, <1>2, <1>4 DEF Recorded
<1>5. ASSUME NEW k \in told, k[1] = "approved", k[2] = obs.head
      PROVE  k[3] < Edits
  <2>1. Valid(k)
    BY <1>5, ReadyFacts DEF Once
  <2>2. k[3] \in Nat /\ k[3] <= obs.edits
    BY <1>5, <2>1 DEF Valid, Ready, Memory, Looked
  <2>3. ASSUME k[3] = Edits
        PROVE  FALSE
    <3>1. obs.edits = Edits
      BY <2>2, <2>3, ReadyFacts
    <3>2. obs.latest # 0 /\ forge.reviews[obs.latest].verdict # "approved"
      BY DEF Verdict
    <3>3. Current(obs.latest, obs.head)
      BY <3>1, <3>2, ReadyFacts
    <3>4. obs.latest \in 1 .. Len(forge.reviews)
      BY <3>3 DEF Current
    <3>5. QED
      BY <1>5, <2>1, <2>3, <3>2, <3>3, <3>4 DEF Valid
  <2>4. QED
    BY <2>2, <2>3, ReadyFacts
<1>6. \A k \in told : k[1] \in Once => Recorded(s.saved, k)
  BY <1>4, <1>5 DEF Good
<1>7. \A i \in 1 .. Len(st.out) : st.out[i][1] \in Once => Recorded(s.saved, st.out[i])
  <2>1. "approved" \notin Kinds3
    BY DEF Kinds2, Kinds3
  <2>2. QED
    BY <1>4, <2>1 DEF Good, New
<1>8. Good([s |-> s, out |-> Append(st.out, Finding)], Kinds3)
  BY <1>0, <1>2, <1>3, <1>6, <1>7, GoodAnnounces
<1>9. QED
  BY <1>8 DEF Stage4, s

LEMMA Stage5Good ==
  ASSUME Ready, NEW st, Good(st, Kinds3)
  PROVE  Good(Stage5(st), Kinds3)
<1> DEFINE s == [st.s EXCEPT !.ci = obs.ci]
           a == CIStatus(st.s.saved.approved)
<1>0. st.s \in State /\ st.s.saved \in Entry /\ st.s.saved.approved \in BOOLEAN
      /\ obs.ci \in CI /\ st.s.known
  BY ReadyFacts DEF Good, Stage, State, Entry, Types, Values, Obs
<1>1. s \in State /\ s.saved = st.s.saved /\ s.known
  BY <1>0 DEF State
<1>2. a \in Ann /\ a[1] \notin Once
  BY <1>0, ReadyFacts, AnnTyped DEF CIStatus, Once
<1> HIDE DEF s, a
<1>3. Good([s |-> s, out |-> Append(st.out, a)], Kinds3)
  BY <1>1, <1>2, GoodMarks
<1>4. QED
  BY <1>3 DEF Stage5, s, a

LEMMA Stage6Good ==
  ASSUME Ready, NEW st, Good(st, Kinds3), NEW replay, replay => kept.epoch # ctl
  PROVE  Good(Stage6(st, replay), Once)
<1> DEFINE s == [st.s EXCEPT !.saved.timeout = TRUE]
           t == [s |-> s, out |-> Append(st.out, TimedOut)]
<1>0. st.s \in State /\ st.s.saved \in Entry /\ st.s.known /\ st.s.saved.sha = obs.head
  BY DEF Good, Stage, State
<1>1. Kinds3 \subseteq Once /\ "timeout" \in Once \ Kinds3
  BY DEF Kinds2, Kinds3, Once
<1>2. Good(st, Once)
  BY <1>1, GoodMore
<1>3. ASSUME ~ st.s.saved.timeout \/ replay
      PROVE  Good(t, Once)
  <2>1. /\ s \in State /\ s.known /\ s.saved.sha = st.s.saved.sha
        /\ s.saved.blocked = st.s.saved.blocked /\ s.saved.timeout
        /\ s.saved.triggered = st.s.saved.triggered
        /\ s.saved.review = st.s.saved.review
    BY <1>0 DEF State, Entry
  <2>2. TimedOut \in Ann /\ TimedOut[1] = "timeout"
    BY ReadyFacts, AnnTyped DEF TimedOut
  <2> HIDE DEF s
  <2>3. New(s.saved, TimedOut)
    BY <1>0, <1>3, <2>1, TimedOutNew DEF Good
  <2>4. QED
    BY <1>1, <2>1, <2>2, <2>3, GoodMarks
<1>4. Stage6(st, replay) = st \/ ((~ st.s.saved.timeout \/ replay) /\ Stage6(st, replay) = t)
  BY DEF Stage6
<1> HIDE DEF t
<1>5. QED
  BY <1>2, <1>3, <1>4

LEMMA ActionsGood ==
  ASSUME Ready, NEW s \in State, s.known, s.saved.sha \in Nat, s.saved.sha <= obs.head,
         \A k \in told : k[1] \in Once => Recorded(s.saved, k), Stale(s.saved),
         NEW replay, replay => kept.epoch # ctl
  PROVE  Good(Actions(s, replay), Once)
<1> DEFINE first == Stage1([s |-> s, out |-> <<>>])
           early == Stage2(first)
<1>1. Good(first, Kinds1) /\ Stale(first.s.saved)
  BY Stage1Good
<1> HIDE DEF first
<1>2. Good(early, Kinds2) /\ Stale(early.s.saved)
  BY <1>1, Stage2Good
<1> HIDE DEF early
<1>3. Good(early, Once)
  <2>1. Kinds2 \subseteq Once
    BY DEF Kinds2, Once
  <2>2. QED
    BY <1>2, <2>1, GoodMore
<1>4. Good(Stage6(Stage5(Stage4(Stage3(early, replay))), replay), Once)
  <2>1. Good(Stage3(early, replay), Kinds3)
    BY <1>2, Stage3Good
  <2>2. Good(Stage4(Stage3(early, replay)), Kinds3)
    BY <2>1, Stage4Good
  <2>3. Good(Stage5(Stage4(Stage3(early, replay))), Kinds3)
    BY <2>2, Stage5Good
  <2>4. QED
    BY <2>3, Stage6Good
<1>5. QED
  BY <1>3, <1>4 DEF Actions, early, first

(* process_observations up to the save, from the runtime state or from the *)
(* file: a persisted entry without a head has recorded nothing.            *)
LEMMA ComputeMemory == ASSUME Inv, Inv', Memory, Compute PROVE Memory'
<1> SUFFICES ASSUME ~ strayed'
             PROVE  /\ Quiet' /\ HeadsGrow' /\ EpochsGrow' /\ Remembered'
                    /\ Looked' /\ Pending'
  BY DEF Memory
<1> DEFINE replay == ctl # 0 /\ Read.epoch # ctl
           from == IF mem.known THEN mem ELSE Hydrated
           st == Actions(from, replay)
<1>0. /\ UNCHANGED <<forge, ctl, kept, obs, told, again, resets>>
      /\ pc = "compute" /\ pc' = "persist" /\ seen' = ctl /\ mem' = st.s /\ todo' = st.out
  BY DEF Compute
<1>11. ~ strayed /\ Read.epoch = kept.epoch /\ (~ mem.known => Read.entry = kept.entry)
  BY DEF Compute
<1>1. Ready
  BY <1>0, <1>11 DEF Ready
<1>2. Quiet /\ HeadsGrow /\ EpochsGrow /\ Remembered /\ Looked
  BY <1>11 DEF Memory
<1>3. /\ from \in State /\ from.known /\ from.saved.sha \in Nat /\ from.saved.sha <= obs.head
      /\ \A k \in told : k[1] \in Once => Recorded(from.saved, k)
      /\ Stale(from.saved)
  <2>1. CASE mem.known
    <3>1. from = mem /\ mem \in State /\ mem.saved.sha \in Nat /\ mem.saved.sha <= obs.head
      BY <1>0, <1>2, <2>1, Numbers DEF HeadsGrow, Inv, Types, Values
    <3>2. \A k \in told : k[1] \in Once => Recorded(mem.saved, k)
      BY <1>2, <2>1 DEF Remembered
    <3>3. Stale(mem.saved)
      BY <1>0, <1>2, <2>1 DEF Looked, Stale
    <3>4. QED
      BY <2>1, <3>1, <3>2, <3>3
  <2>2. CASE ~ mem.known
    <3> DEFINE e == kept.entry
               f == [e EXCEPT !.sha = IF @ = 0 THEN obs.head ELSE @]
    <3>1. e \in Entry /\ e.sha \in Nat /\ e.sha <= obs.head /\ obs.head \in OrNone /\ obs.head \in Nat
      BY <1>0, <1>2, Numbers DEF HeadsGrow, Inv, Types, Values, File, Obs
    <3>2. Hydrated = [NoState EXCEPT !.known = TRUE, !.saved = f]
      BY <1>11, <2>2 DEF Hydrated
    <3>3. f \in Entry /\ f.sha \in Nat /\ f.sha <= obs.head /\ (e.sha # 0 => f = e)
      <4> HIDE DEF e
      <4> QED
        BY <3>1 DEF Entry
    <3>4. e.sha = 0 => \A k \in told : k[1] \notin Once
      BY <1>1, ReadyFacts DEF Recorded, Valid
    <3> HIDE DEF f
    <3>5. from \in State /\ from.known /\ from.saved = f
      BY <2>2, <3>2, <3>3, NoStateTyped DEF State
    <3>6. \A k \in told : k[1] \in Once => Recorded(f, k)
      BY <1>1, <3>3, <3>4, ReadyFacts
    <3>7. Stale(f)
      BY <1>0, <1>2, <2>2, <3>3, <3>4 DEF Looked, Stale, Once
    <3> HIDE DEF from
    <3>8. QED
      BY <3>3, <3>5, <3>6, <3>7
  <2>3. QED
    BY <2>1, <2>2
<1>4. replay => kept.epoch # ctl
  BY <1>11
<1> HIDE DEF from, replay
<1>5. Good(st, Once)
  BY <1>1, <1>3, <1>4, ActionsGood
<1> HIDE DEF st
<1>6. Quiet' /\ Looked'
  BY <1>0, <1>2 DEF Quiet, Looked
<1>7. HeadsGrow' /\ EpochsGrow'
  <2>1. mem'.saved.sha = obs.head
    BY <1>0, <1>5 DEF Good
  <2>2. QED
    BY <1>0, <1>2, <2>1, Numbers DEF HeadsGrow, EpochsGrow, Inv
<1>8. Remembered'
  <2> SUFFICES ASSUME NEW k \in told, k[1] \in Once
               PROVE  /\ Valid(k)' /\ Recorded(kept.entry, k)' /\ By(kept.epoch, k)'
                      /\ Recorded(mem.saved, k)'
    BY <1>0 DEF Remembered
  <2>1. /\ Valid(k) /\ Recorded(kept.entry, k) /\ By(kept.epoch, k)
        /\ Recorded(st.s.saved, k)
    BY <1>2, <1>5 DEF Remembered, Good
  <2>2. By(kept.epoch, k)'
    BY <1>0, <2>1 DEF By
  <2>3. QED
    BY <1>0, <2>1, <2>2, KeysSame
<1>9. Pending'
  <2>1. mem'.known /\ Distinct(todo')
    BY <1>0, <1>5 DEF Good
  <2>2. Distinct(todo)'
    BY <2>1 DEF Distinct
  <2>3. ASSUME NEW i \in 1 .. Len(todo'), todo'[i][1] \in Once
        PROVE  /\ todo'[i] \notin told' /\ Valid(todo[i])'
               /\ Recorded(mem.saved, todo[i])' /\ By(seen, todo[i])'
    <3>1. /\ todo'[i] \notin told /\ Valid(todo'[i])
          /\ Recorded(mem'.saved, todo'[i]) /\ By(ctl, todo'[i])
      BY <1>0, <1>5, <2>3 DEF Good, New
    <3>2. By(seen, todo[i])'
      BY <1>0, <3>1 DEF By
    <3>3. QED
      BY <1>0, <3>1, <3>2, KeysSame
  <2>4. QED
    BY <1>0, <2>1, <2>2, <2>3 DEF Pending
<1>10. QED
  BY <1>6, <1>7, <1>8, <1>9

LEMMA NextMemory ==
  ASSUME Inv, Inv', Memory, [Next]_vars
  PROVE  Memory'
<1>1. CASE Cycle
  <2>1. CASE Lookups
    BY <2>1, LookMemory DEF Lookups
  <2>2. QED
    BY <1>1, <2>1, LoadMemory, EndMemory, ComputeMemory, PersistMemory, SayMemory DEF Cycle
<1>2. CASE PersistFails \/ Crash
  BY <1>2, EndMemory
<1>3. CASE Elapse \/ ResetCycle
  BY <1>3, ElapseMemory, ResetCycleMemory
<1>4. CASE ToolStep
  BY <1>4, ToolMemory
<1>5. CASE \/ Push \/ Close \/ NewEpoch \/ \E c \in CI : CIResult(c)
           \/ \E v \in Verdicts : Submit(v)
           \/ \E i \in 1 .. MaxReviews : Dismiss(i)
  BY <1>5, EnvMemory
<1>6. CASE UNCHANGED vars
  BY <1>6, StutterMemory
<1>7. QED
  BY <1>1, <1>2, <1>3, <1>4, <1>5, <1>6 DEF Next, ToolStep

LEMMA InitMemory == Init => Memory
<1> SUFFICES ASSUME Init
             PROVE  /\ Quiet /\ HeadsGrow /\ EpochsGrow /\ Remembered
                    /\ Looked /\ Pending
  BY DEF Memory
<1>1. Quiet /\ EpochsGrow /\ Looked /\ Pending /\ Remembered
  BY DEF Init, Quiet, EpochsGrow, Looked, Pending, Remembered, NoFile
<1>2. HeadsGrow
  BY DEF Init, HeadsGrow, NoFile, NoState, NoEntry
<1>3. QED
  BY <1>1, <1>2

(* Nothing is told twice: through every order of pushes, reviews,          *)
(* dismissals, CI results, epochs, crashes, failed lookups and failed      *)
(* writes, an announcement keyed by its head, by the state of the reviews, *)
(* by the epoch and by restart_review is made at most once, whatever the   *)
(* tools do to the file beside the watcher, as long as the watcher reads   *)
(* back what it saved.                                                     *)
THEOREM ToldOnce == Spec => []NotToldTwice
<1>1. Init => Memory
  BY InitMemory
<1>2. Inv /\ Inv' /\ Memory /\ [Next]_vars => Memory'
  BY NextMemory
<1>3. Inv /\ Memory => NotToldTwice
  BY DEF Memory, Quiet, NotToldTwice, Inv, Types, Values
<1>4. QED
  BY <1>1, <1>2, <1>3, InvAlways, PTL DEF Spec
-----------------------------------------------------------------------------
(* Nothing is forgotten.  A mark, in memory, in the file or in the copy of *)
(* restart_review, is what keeps the watcher silent; it stands for an      *)
(* announcement that was made or that is next to be made.                  *)
Told(kind, h)  == \E k \in told : k[1] = kind /\ k[2] = h
In(s, kind, h) == \E i \in 1 .. Len(s) : s[i][1] = kind /\ s[i][2] = h

Stands(e, s) ==
  /\ e.review = "approved" => Told("approved", e.sha) \/ In(s, "approved", e.sha)
  /\ e.timeout => Told("timeout", e.sha) \/ In(s, "timeout", e.sha)
  /\ e.blocked => Told("ci_blocked", e.sha) \/ In(s, "ci_blocked", e.sha)
  /\ e.triggered # 0 =>
       Told("ci_triggered", e.triggered) \/ In(s, "ci_triggered", e.triggered)

(* An entry without a head has no marks.                                   *)
Blank(e) == e.sha = 0 =>
  e.review # "approved" /\ ~ e.timeout /\ ~ e.blocked /\ e.triggered = 0

(* What is pending once it is saved.                                       *)
SavedTodo == IF pc = "say" THEN todo ELSE <<>>

MarksStand ==
  /\ pc \notin {"persist", "say"} => todo = <<>>
  /\ Blank(file.entry) /\ Blank(copy.entry)
  /\ ~ dropped => /\ Stands(mem.saved, todo)
                  /\ Stands(file.entry, SavedTodo) /\ Stands(copy.entry, SavedTodo)

LEMMA NothingIn == \A kind, h : ~ In(<<>>, kind, h)
BY DEF In

LEMMA InAppend ==
  ASSUME NEW s \in Seq(Ann), NEW a \in Ann
  PROVE  /\ \A kind, h : In(s, kind, h) => In(Append(s, a), kind, h)
         /\ In(Append(s, a), a[1], a[2])
<1> DEFINE t == Append(s, a)
<1>1. /\ Len(t) = Len(s) + 1 /\ Len(s) \in Nat /\ t[Len(s) + 1] = a
      /\ \A i \in 1 .. Len(s) : t[i] = s[i]
  OBVIOUS
<1>2. Len(s) + 1 \in 1 .. Len(t) /\ \A i \in 1 .. Len(s) : i \in 1 .. Len(t)
  BY <1>1
<1> HIDE DEF t
<1>3. \A kind, h : In(s, kind, h) => In(t, kind, h)
  BY <1>1, <1>2 DEF In
<1>4. In(t, a[1], a[2])
  BY <1>1, <1>2 DEF In
<1>5. QED
  BY <1>3, <1>4 DEF t

(* With more announcements the same marks stand.                           *)
LEMMA StandsMore ==
  ASSUME NEW e, NEW s \in Seq(Ann), NEW a \in Ann, Stands(e, s)
  PROVE  Stands(e, Append(s, a))
BY InAppend DEF Stands

LEMMA BlankStands ==
  /\ \A s : Stands(NoEntry, s) /\ Blank(NoEntry)
  /\ NoFile.entry = NoEntry /\ NoState.saved = NoEntry
BY DEF Stands, Blank, NoEntry, NoFile, NoState

(* A stage of compute_pr_actions_with_context.                             *)
Marked(st) == st \in Stage /\ Stands(st.s.saved, st.out)

LEMMA Stage1Marked ==
  ASSUME Types, NEW st, Marked(st)
  PROVE  Marked(Stage1(st))
<1>1. CASE st.s.saved.sha = obs.head
  BY <1>1 DEF Stage1
<1>2. CASE st.s.saved.sha # obs.head
  <2> DEFINE n == OnNewHead(st.s)
             o == Append(st.out, Pushed)
             t == [s |-> n, out |-> o]
  <2>0. /\ st.s \in State /\ st.s.saved \in Entry /\ st.s.saved.print \in Prints
        /\ obs.head \in OrNone /\ st.out \in Seq(Ann)
    BY DEF Marked, Stage, Types, Values, Obs, State, Entry
  <2>1. [NoEntry EXCEPT !.sha = obs.head, !.print = st.s.saved.print] \in Entry
    BY <2>0, NoEntryTyped DEF Entry
  <2>2. /\ n \in State
        /\ n.saved = [NoEntry EXCEPT !.sha = obs.head, !.print = st.s.saved.print]
    BY <2>0, <2>1 DEF OnNewHead, State
  <2>3. Stands(n.saved, o)
    BY <2>2 DEF NoEntry, Stands
  <2>4. o \in Seq(Ann)
    BY <2>0, AnnTyped
  <2>5. Stage1(st) = t
    BY <1>2 DEF Stage1
  <2> HIDE DEF n, o
  <2>6. QED
    BY <2>2, <2>3, <2>4, <2>5 DEF Marked, Stage
<1>3. QED
  BY <1>1, <1>2

LEMMA Stage2Marked ==
  ASSUME Types, NEW st, Marked(st), st.s.saved.sha = obs.head
  PROVE  Marked(Stage2(st))
<1> DEFINE s == [st.s EXCEPT !.saved.blocked = TRUE]
           o == Append(st.out, CIBlocked)
<1>0. st.s \in State /\ st.s.saved \in Entry /\ st.out \in Seq(Ann) /\ CIBlocked \in Ann
  BY AnnTyped DEF Marked, Stage, State
<1>1. /\ s \in State /\ s.saved.sha = obs.head
      /\ s.saved.timeout = st.s.saved.timeout
      /\ s.saved.triggered = st.s.saved.triggered
      /\ s.saved.review = st.s.saved.review
  BY <1>0 DEF State, Entry
<1>2. Stands(st.s.saved, o) /\ o \in Seq(Ann)
  BY <1>0, StandsMore DEF Marked
<1>3. In(o, "ci_blocked", obs.head)
  <2>1. In(o, CIBlocked[1], CIBlocked[2])
    BY <1>0, InAppend
  <2>2. QED
    BY <2>1 DEF CIBlocked
<1> HIDE DEF s, o
<1>4. Stands(s.saved, o)
  BY <1>1, <1>2, <1>3 DEF Stands
<1>5. Marked([s |-> s, out |-> o])
  BY <1>1, <1>2, <1>4 DEF Marked, Stage
<1>6. QED
  BY <1>5 DEF Stage2, s, o

LEMMA Stage3Marked ==
  ASSUME Types, NEW st, Marked(st), st.s.saved.sha = obs.head, NEW replay
  PROVE  Marked(Stage3(st, replay))
<1> DEFINE s == [st.s EXCEPT !.saved.review = "approved", !.saved.approved = TRUE,
                             !.saved.triggered = obs.head, !.approvedAt = TRUE]
           o == Append(st.out, Approved)
           p == Append(o, Triggered)
<1>0. /\ st.s \in State /\ st.s.saved \in Entry /\ st.out \in Seq(Ann) /\ obs.head \in OrNone
      /\ Approved \in Ann /\ Triggered \in Ann
  BY AnnTyped DEF Marked, Stage, State, Types, Values, Obs
<1>1. /\ s \in State /\ s.saved.sha = obs.head
      /\ s.saved.timeout = st.s.saved.timeout
      /\ s.saved.blocked = st.s.saved.blocked
      /\ s.saved.triggered = obs.head
  BY <1>0 DEF State, Entry, Verdicts
<1>2. Stands(st.s.saved, o) /\ o \in Seq(Ann)
  BY <1>0, StandsMore DEF Marked
<1>3. In(o, "approved", obs.head)
  <2>1. In(o, Approved[1], Approved[2])
    BY <1>0, InAppend
  <2>2. QED
    BY <2>1 DEF Approved
<1>4. p = st.out \o <<Approved, Triggered>>
  <2> HIDE DEF s
  <2> QED
    BY <1>0
<1> HIDE DEF o
<1>5. Stands(st.s.saved, p) /\ p \in Seq(Ann) /\ In(p, "approved", obs.head)
  BY <1>0, <1>2, <1>3, StandsMore, InAppend
<1>6. In(p, "ci_triggered", obs.head)
  <2>1. In(p, Triggered[1], Triggered[2])
    BY <1>0, <1>2, InAppend
  <2>2. QED
    BY <2>1 DEF Triggered
<1> HIDE DEF s, p
<1>7. st.s.saved.triggered = obs.head => Marked([s |-> s, out |-> o])
  <2>1. st.s.saved.triggered = obs.head => Stands(s.saved, o)
    BY <1>1, <1>2, <1>3 DEF Stands
  <2>2. QED
    BY <1>1, <1>2, <2>1 DEF Marked, Stage
<1>8. Marked([s |-> s, out |-> p])
  <2>1. Stands(s.saved, p)
    BY <1>1, <1>5, <1>6 DEF Stands
  <2>2. QED
    BY <1>1, <1>5, <2>1 DEF Marked, Stage
<1>9. QED
  BY <1>4, <1>7, <1>8 DEF Stage3, s, o

LEMMA Stage4Marked ==
  ASSUME Types, NEW st, Marked(st)
  PROVE  Marked(Stage4(st))
<1> SUFFICES ASSUME Verdict \in {"changes_requested", "commented"}
             PROVE  Marked(Stage4(st))
  BY DEF Stage4
<1> DEFINE s == [st.s EXCEPT !.saved.review = Verdict, !.saved.print = obs.latest,
                             !.waited = @ /\ Verdict = "commented"]
           o == Append(st.out, Finding)
<1>0. /\ st.s \in State /\ st.s.saved \in Entry /\ st.out \in Seq(Ann) /\ Finding \in Ann
      /\ obs.latest \in Prints
  BY AnnTyped, BoundAssumption
     DEF Marked, Stage, State, Types, Values, Counters, Places, Obs, Prints, Forge
<1>1. /\ s \in State /\ s.saved.sha = st.s.saved.sha
      /\ s.saved.timeout = st.s.saved.timeout
      /\ s.saved.blocked = st.s.saved.blocked
      /\ s.saved.triggered = st.s.saved.triggered
      /\ s.saved.review # "approved"
  BY <1>0 DEF State, Entry, Verdicts
<1>2. Stands(st.s.saved, o) /\ o \in Seq(Ann)
  BY <1>0, StandsMore DEF Marked
<1> HIDE DEF s, o
<1>3. Stands(s.saved, o)
  BY <1>1, <1>2 DEF Stands
<1>4. Marked([s |-> s, out |-> o])
  BY <1>1, <1>2, <1>3 DEF Marked, Stage
<1>5. QED
  BY <1>4 DEF Stage4, s, o

LEMMA Stage5Marked ==
  ASSUME Types, NEW st, Marked(st)
  PROVE  Marked(Stage5(st))
<1> DEFINE s == [st.s EXCEPT !.ci = obs.ci]
           a == CIStatus(st.s.saved.approved)
           o == Append(st.out, a)
<1>0. /\ st.s \in State /\ st.s.saved.approved \in BOOLEAN /\ st.out \in Seq(Ann)
      /\ obs.ci \in CI
  BY DEF Marked, Stage, State, Entry, Types, Values, Obs
<1>1. s \in State /\ s.saved = st.s.saved /\ a \in Ann
  BY <1>0, AnnTyped DEF State
<1> HIDE DEF a
<1>2. Stands(st.s.saved, o) /\ o \in Seq(Ann)
  BY <1>0, <1>1, StandsMore DEF Marked
<1> HIDE DEF s, o
<1>3. Marked([s |-> s, out |-> o])
  BY <1>1, <1>2 DEF Marked, Stage
<1>4. QED
  BY <1>3 DEF Stage5, s, o, a

LEMMA Stage6Marked ==
  ASSUME Types, NEW st, Marked(st), st.s.saved.sha = obs.head, NEW replay
  PROVE  Marked(Stage6(st, replay))
<1> DEFINE s == [st.s EXCEPT !.saved.timeout = TRUE]
           o == Append(st.out, TimedOut)
<1>0. st.s \in State /\ st.s.saved \in Entry /\ st.out \in Seq(Ann) /\ TimedOut \in Ann
  BY AnnTyped DEF Marked, Stage, State
<1>1. /\ s \in State /\ s.saved.sha = obs.head
      /\ s.saved.blocked = st.s.saved.blocked
      /\ s.saved.triggered = st.s.saved.triggered
      /\ s.saved.review = st.s.saved.review
  BY <1>0 DEF State, Entry
<1>2. Stands(st.s.saved, o) /\ o \in Seq(Ann)
  BY <1>0, StandsMore DEF Marked
<1>3. In(o, "timeout", obs.head)
  <2>1. In(o, TimedOut[1], TimedOut[2])
    BY <1>0, InAppend
  <2>2. QED
    BY <2>1 DEF TimedOut
<1> HIDE DEF s, o
<1>4. Stands(s.saved, o)
  BY <1>1, <1>2, <1>3 DEF Stands
<1>5. Marked([s |-> s, out |-> o])
  BY <1>1, <1>2, <1>4 DEF Marked, Stage
<1>6. QED
  BY <1>5 DEF Stage6, s, o

(* The stages in order; AtHead gives the head at each.                     *)
LEMMA ActionsMarked ==
  ASSUME Observed, NEW s \in State, FlagBound(s.saved), Stands(s.saved, <<>>), NEW replay
  PROVE  Marked(Actions(s, replay))
<1> DEFINE start == [s |-> s, out |-> <<>>]
           first == Stage1(start)
           early == Stage2(first)
           third == Stage3(early, replay)
           fourth == Stage4(third)
           fifth == Stage5(fourth)
           last == Stage6(fifth, replay)
<1>0. Types
  BY DEF Observed
<1>1. Sound(start) /\ Marked(start)
  BY DEF Sound, Stage, Marked
<1> HIDE DEF start
<1>2. AtHead(first) /\ Marked(first)
  BY <1>0, <1>1, Stage1Sound, Stage1Marked
<1> HIDE DEF first
<1>3. AtHead(early) /\ Marked(early)
  BY <1>0, <1>2, Stage2Sound, Stage2Marked DEF AtHead
<1> HIDE DEF early
<1>4. AtHead(third) /\ Marked(third)
  BY <1>0, <1>3, Stage3Sound, Stage3Marked DEF AtHead
<1> HIDE DEF third
<1>5. AtHead(fourth) /\ Marked(fourth)
  BY <1>0, <1>4, Stage4Sound, Stage4Marked
<1> HIDE DEF fourth
<1>6. AtHead(fifth) /\ Marked(fifth)
  BY <1>0, <1>5, Stage5Sound, Stage5Marked
<1> HIDE DEF fifth
<1>7. Marked(last)
  BY <1>0, <1>6, Stage6Marked DEF AtHead
<1>8. Actions(s, replay) = early \/ Actions(s, replay) = last
  BY DEF Actions, early, first, start, third, fourth, fifth, last
<1>9. QED
  BY <1>3, <1>7, <1>8

(* What is told stays told.                                                *)
LEMMA StandsKept ==
  ASSUME told \subseteq told'
  PROVE  /\ \A e, s : Stands(e, s) => Stands(e, s)'
         /\ \A e : Blank(e)' <=> Blank(e)
<1>1. \A kind, h : Told(kind, h) => Told(kind, h)'
  BY DEF Told
<1>2. \A s, kind, h : In(s, kind, h)' <=> In(s, kind, h)
  BY DEF In
<1>3. QED
  BY <1>1, <1>2 DEF Stands, Blank

(* Steps that neither announce nor lose anything.                          *)
SamePlace ==
  \/ pc' = pc
  \/ (pc \in {"idle", "look", "compute"} /\ pc' \in {"idle", "look", "compute"})
EntriesMove ==
  /\ file'.entry = file.entry \/ file'.entry = NoEntry \/ file'.entry = copy.entry
  /\ \/ copy'.entry = copy.entry \/ copy'.entry = NoEntry
     \/ copy'.entry = [file.entry EXCEPT !.print = 0]

LEMMA BesideKept ==
  ASSUME MarksStand, UNCHANGED <<told, todo, dropped>>, SamePlace, EntriesMove,
         file.entry \in Entry, Stands(mem.saved, todo) => Stands(mem'.saved, todo)
  PROVE  MarksStand'
<1>1. SavedTodo' = SavedTodo
  BY DEF SavedTodo, SamePlace
<1>2. pc' \notin {"persist", "say"} => todo' = <<>>
  BY DEF MarksStand, SamePlace
<1>3. \A e, s : e \in Entry /\ Stands(e, s) => Stands([e EXCEPT !.print = 0], s)
  BY DEF Stands, Entry
<1>4. \A e : e \in Entry /\ Blank(e) => Blank([e EXCEPT !.print = 0])
  BY DEF Blank, Entry
<1>5. Blank(file'.entry) /\ Blank(copy'.entry)
  BY <1>4, BlankStands DEF MarksStand, EntriesMove
<1>6. ~ dropped => /\ Stands(mem'.saved, todo) /\ Stands(file'.entry, SavedTodo)
                   /\ Stands(copy'.entry, SavedTodo)
  BY <1>3, BlankStands DEF MarksStand, EntriesMove
<1>7. Blank(file.entry)' /\ Blank(copy.entry)'
  BY <1>5, StandsKept
<1>8. ~ dropped => /\ Stands(mem.saved, todo)' /\ Stands(file.entry, SavedTodo)'
                   /\ Stands(copy.entry, SavedTodo)'
  BY <1>1, <1>6, StandsKept
<1>9. QED
  BY <1>2, <1>7, <1>8 DEF MarksStand

LEMMA OthersKept ==
  ASSUME Inv, MarksStand,
         \/ Load \/ Lookups \/ Skip \/ Elapse
         \/ ResetCycle \/ ToolStep
         \/ Push \/ Close \/ NewEpoch
         \/ \E v \in Verdicts : Submit(v)
         \/ \E i \in 1 .. MaxReviews : Dismiss(i)
         \/ \E c \in CI : CIResult(c)
         \/ UNCHANGED vars
  PROVE  MarksStand'
<1>0. mem \in State /\ file \in File /\ copy \in File /\ mem.saved \in Entry /\ file.entry \in Entry
  BY DEF Inv, Types, Values, State, File
<1>1. CASE Load
  <2>1. /\ UNCHANGED <<told, todo, dropped, mem, copy>>
        /\ SamePlace
        /\ file' = file \/ file' = [file EXCEPT !.entry = NoEntry]
    BY <1>1 DEF Load, tool, history, SamePlace
  <2>2. EntriesMove
    BY <1>0, <2>1 DEF File, EntriesMove
  <2>3. QED
    BY <1>0, <2>1, <2>2, BesideKept
<1>2. CASE Lookups \/ Skip
  <2>1. /\ UNCHANGED <<told, todo, dropped, mem, copy, file>>
        /\ SamePlace
    BY <1>2 DEF Lookups, Look, Skip, tool, history, SamePlace
  <2>2. QED
    BY <1>0, <2>1, BesideKept DEF EntriesMove
<1>3. CASE Elapse
  <2>1. mem'.saved = mem.saved
    BY <1>0, <1>3 DEF Elapse, State
  <2>2. UNCHANGED <<told, todo, dropped, copy, file, pc>>
    BY <1>3 DEF Elapse, watcher, tool, history
  <2>3. QED
    BY <1>0, <2>1, <2>2, BesideKept DEF EntriesMove, SamePlace
<1>4. CASE ResetCycle
  <2> DEFINE e == [NoEntry EXCEPT !.sha = mem.saved.sha, !.review = mem.saved.review]
  <2>1. /\ e.sha = mem.saved.sha /\ e.review = mem.saved.review
        /\ ~ e.timeout /\ ~ e.blocked /\ e.triggered = 0
    BY DEF NoEntry
  <2> HIDE DEF e
  <2>2. \/ mem' = mem
        \/ mem' = [mem EXCEPT !.saved = e, !.approvedAt = FALSE]
    BY <1>4 DEF ResetCycle, e
  <2>3. mem'.saved = mem.saved \/ mem'.saved = e
    BY <1>0, <2>2 DEF State
  <2>4. Stands(mem.saved, todo) => Stands(mem'.saved, todo)
    BY <2>1, <2>3 DEF Stands
  <2>5. UNCHANGED <<told, todo, dropped, copy, file, pc>>
    BY <1>4 DEF ResetCycle, watcher, history
  <2>6. QED
    BY <1>0, <2>4, <2>5, BesideKept DEF EntriesMove, SamePlace
<1>5. CASE ToolStep
  <2>1. UNCHANGED <<told, todo, dropped, mem, pc>>
    BY <1>5, ToolSteps DEF watcher, history
  <2>2. /\ file' = file \/ file' = [NoFile EXCEPT !.torn = TRUE] \/ file' = copy
        /\ \/ copy' = copy \/ copy' = NoFile
           \/ copy' = [file EXCEPT !.entry.print = 0]
           \/ copy' = [file EXCEPT !.entry = NoEntry]
    BY <1>5 DEF ToolStep, ReadCopy, ReadToClear, Truncate, WriteCopy
  <2>3. EntriesMove
    BY <1>0, <2>2 DEF File, NoFile, EntriesMove
  <2>4. QED
    BY <1>0, <2>1, <2>3, BesideKept DEF SamePlace
<1>6. CASE \/ Push \/ Close \/ NewEpoch
           \/ \E v \in Verdicts : Submit(v)
           \/ \E i \in 1 .. MaxReviews : Dismiss(i)
           \/ \E c \in CI : CIResult(c)
  <2>1. Env
    BY <1>6 DEF Push, Close, NewEpoch, Submit, Dismiss, CIResult
  <2>2. UNCHANGED <<told, todo, dropped, copy, file, pc, mem>>
    BY <2>1 DEF Env, watcher, tool, history
  <2>3. QED
    BY <1>0, <2>2, BesideKept DEF EntriesMove, SamePlace
<1>7. CASE UNCHANGED vars
  <2>1. UNCHANGED <<told, todo, dropped, copy, file, pc, mem>>
    BY <1>7 DEF vars, watcher, tool, history
  <2>2. QED
    BY <1>0, <2>1, BesideKept DEF EntriesMove, SamePlace
<1>8. QED
  BY <1>1, <1>2, <1>3, <1>4, <1>5, <1>6, <1>7

LEMMA ComputeKept == ASSUME Inv, MarksStand, Compute PROVE MarksStand'
<1> DEFINE replay == ctl # 0 /\ Read.epoch # ctl
           from == IF mem.known THEN mem ELSE Hydrated
           st == Actions(from, replay)
<1>0. /\ UNCHANGED <<file, obs, copy, told, dropped>>
      /\ pc = "compute" /\ pc' = "persist" /\ mem' = st.s /\ todo' = st.out
  BY DEF Compute, tool
<1>1. Observed /\ todo = <<>> /\ SavedTodo = <<>> /\ SavedTodo' = <<>>
  BY <1>0 DEF Inv, Types, Places, ObservedHead, Observed, MarksStand, SavedTodo
<1>2. from \in State /\ FlagBound(from.saved) /\ (~ dropped => Stands(from.saved, <<>>))
  <2>1. CASE mem.known
    BY <1>1, <2>1 DEF Inv, Types, Values, Flags, MarksStand
  <2>2. CASE ~ mem.known
    <3> DEFINE e == Read.entry
               f == [e EXCEPT !.sha = IF @ = 0 THEN obs.head ELSE @]
    <3>1. e \in Entry /\ FlagBound(e) /\ obs.head \in OrNone
      BY ReadSound DEF Inv, Types, Values, File, Obs
    <3>2. Blank(e) /\ (~ dropped => Stands(e, <<>>))
      BY <1>1, BlankStands DEF Read, MarksStand
    <3>3. Hydrated = [NoState EXCEPT !.known = TRUE, !.saved = f]
      BY DEF Hydrated
    <3>4. /\ f \in Entry /\ f.approved = e.approved /\ (e.sha # 0 => f = e)
          /\ f.review = e.review /\ f.timeout = e.timeout /\ f.blocked = e.blocked
          /\ f.triggered = e.triggered
      <4> HIDE DEF e
      <4> QED
        BY <3>1 DEF Entry
    <3> HIDE DEF e, f
    <3>5. FlagBound(f)
      BY <3>1, <3>4, ZeroUnapproved DEF FlagBound, Inv
    <3>6. ~ dropped => Stands(f, <<>>)
      BY <3>2, <3>4 DEF Stands, Blank
    <3>7. Hydrated \in State /\ Hydrated.saved = f
      BY <3>3, <3>4, NoStateTyped DEF State
    <3>8. QED
      BY <2>2, <3>5, <3>6, <3>7
  <2>3. QED
    BY <2>1, <2>2
<1> HIDE DEF from, replay
<1>3. ~ dropped => Marked(st)
  BY <1>1, <1>2, ActionsMarked
<1> HIDE DEF st
<1>4. ~ dropped => Stands(mem'.saved, todo')
  BY <1>0, <1>3 DEF Marked
<1>5. ~ dropped => /\ Stands(mem.saved, todo)' /\ Stands(file.entry, SavedTodo)'
                   /\ Stands(copy.entry, SavedTodo)'
  BY <1>0, <1>1, <1>4, StandsKept DEF MarksStand
<1>6. Blank(file.entry)' /\ Blank(copy.entry)'
  BY <1>0, StandsKept DEF MarksStand
<1>7. QED
  BY <1>0, <1>5, <1>6 DEF MarksStand

LEMMA PersistKept == ASSUME Inv, MarksStand, Persist PROVE MarksStand'
<1>0. /\ UNCHANGED <<mem, todo, copy, told, dropped>>
      /\ pc = "persist" /\ pc' = IF todo = <<>> THEN "idle" ELSE "say"
      /\ file'.entry = Projected
  BY DEF Persist, tool
<1>1. Projected = mem.saved /\ mem.saved.sha = obs.head /\ obs.head \in Heads
  BY <1>0 DEF Inv, ObservedHead, Projected, Types, Values, Places, State, Entry
<1>2. mem.saved.sha # 0
  BY <1>1 DEF Heads
<1>3. SavedTodo = <<>> /\ SavedTodo' = todo
  BY <1>0 DEF SavedTodo
<1>4. Blank(file'.entry) /\ Blank(copy.entry)
  BY <1>0, <1>1, <1>2 DEF Blank, MarksStand
<1>5. \A e : Stands(e, <<>>) => Stands(e, todo)
  BY NothingIn DEF Stands
<1>6. ~ dropped => /\ Stands(mem.saved, todo) /\ Stands(file'.entry, todo)
                   /\ Stands(copy.entry, todo)
  BY <1>0, <1>1, <1>3, <1>5 DEF MarksStand
<1>7. ~ dropped => /\ Stands(mem.saved, todo)' /\ Stands(file.entry, SavedTodo)'
                   /\ Stands(copy.entry, SavedTodo)'
  BY <1>0, <1>3, <1>6, StandsKept
<1>8. Blank(file.entry)' /\ Blank(copy.entry)'
  BY <1>0, <1>4, StandsKept
<1>9. QED
  BY <1>0, <1>7, <1>8 DEF MarksStand

(* A cycle cut short while it announces, or before it saved something to   *)
(* announce, counts as dropped; before the save the file has no such mark. *)
LEMMA LostKept == ASSUME Inv, MarksStand, PersistFails \/ Crash PROVE MarksStand'
<1>0. UNCHANGED <<file, told>> /\ pc' = "idle" /\ todo' = <<>>
  BY DEF PersistFails, Crash
<1>1. /\ copy' = copy \/ copy' = NoFile
      /\ mem' = mem \/ mem' = NoState
      /\ mem' = mem => dropped' = (dropped \/ todo # <<>>) \/ mem = NoState
      /\ dropped => dropped'
      /\ pc = "say" => dropped'
  BY DEF PersistFails, Crash, tool
<1>2. SavedTodo' = <<>> /\ (pc # "say" => SavedTodo = <<>>)
  BY <1>0 DEF SavedTodo
<1>3. Blank(file'.entry) /\ Blank(copy'.entry)
  BY <1>0, <1>1, BlankStands DEF MarksStand
<1>4. ~ dropped' => /\ Stands(mem'.saved, <<>>) /\ Stands(file'.entry, <<>>)
                    /\ Stands(copy'.entry, <<>>)
  BY <1>0, <1>1, <1>2, BlankStands DEF MarksStand
<1>5. ~ dropped' => /\ Stands(mem.saved, todo)' /\ Stands(file.entry, SavedTodo)'
                    /\ Stands(copy.entry, SavedTodo)'
  BY <1>0, <1>2, <1>4, StandsKept
<1>6. Blank(file.entry)' /\ Blank(copy.entry)'
  BY <1>3, <1>0, StandsKept
<1>7. QED
  BY <1>0, <1>5, <1>6 DEF MarksStand

(* An announcement goes from pending to told.                              *)
LEMMA SayKept == ASSUME Inv, MarksStand, Say PROVE MarksStand'
<1>0. /\ UNCHANGED <<mem, file, copy, dropped>>
      /\ pc = "say" /\ told' = told \cup {Head(todo)} /\ todo' = Tail(todo)
      /\ pc' = IF Len(todo) = 1 THEN "idle" ELSE "say"
  BY DEF Say, tool
<1>1. todo \in Seq(Ann) /\ todo # <<>>
  BY <1>0 DEF Inv, Types, Values, Places
<1>2. /\ Head(todo) = todo[1] /\ Len(todo) \in Nat /\ Len(todo) >= 1
      /\ Len(Tail(todo)) = Len(todo) - 1 /\ Tail(todo) \in Seq(Ann)
      /\ \A i \in 1 .. Len(todo) - 1 : Tail(todo)[i] = todo[i + 1]
  BY <1>1
<1>3. Len(todo) = 1 => Tail(todo) = <<>>
  <2>1. \A t \in Seq(Ann) : Len(t) = 0 => t = <<>>
    OBVIOUS
  <2> DEFINE t == Tail(todo)
  <2>2. t \in Seq(Ann) /\ (Len(todo) = 1 => Len(t) = 0)
    BY <1>2
  <2> HIDE DEF t
  <2>3. Len(todo) = 1 => t = <<>>
    BY <2>1, <2>2
  <2>4. QED
    BY <2>3 DEF t
<1>4. SavedTodo = todo /\ SavedTodo' = Tail(todo)
  BY <1>0, <1>3 DEF SavedTodo
<1>5. ASSUME NEW kind, NEW h, In(todo, kind, h)
      PROVE  Told(kind, h)' \/ In(Tail(todo), kind, h)
  <2>1. PICK i \in 1 .. Len(todo) : todo[i][1] = kind /\ todo[i][2] = h
    BY <1>5 DEF In
  <2>2. CASE i = 1
    BY <1>0, <1>2, <2>1, <2>2 DEF Told
  <2>3. CASE i # 1
    <3>1. i - 1 \in 1 .. Len(todo) - 1 /\ (i - 1) + 1 = i
      BY <1>2, <2>3
    <3>2. Tail(todo)[i - 1] = todo[i]
      BY <1>2, <3>1
    <3>3. QED
      BY <1>2, <2>1, <3>1, <3>2 DEF In
  <2>4. QED
    BY <2>2, <2>3
<1>6. \A kind, h : Told(kind, h) => Told(kind, h)'
  BY <1>0 DEF Told
<1>7. \A s, kind, h : In(s, kind, h)' <=> In(s, kind, h)
  BY DEF In
<1>8. \A e, s : s = Tail(todo) /\ Stands(e, todo) => Stands(e, s)'
  <2>1. \A kind, h, s : s = Tail(todo) /\ (Told(kind, h) \/ In(todo, kind, h)) =>
          Told(kind, h)' \/ In(s, kind, h)'
    BY <1>5, <1>6, <1>7
  <2>2. QED
    BY <2>1 DEF Stands
<1>9. ~ dropped => /\ Stands(mem.saved, todo)' /\ Stands(file.entry, SavedTodo)'
                   /\ Stands(copy.entry, SavedTodo)'
  BY <1>0, <1>4, <1>8 DEF MarksStand
<1>10. Blank(file.entry)' /\ Blank(copy.entry)'
  BY <1>0, StandsKept DEF MarksStand
<1>11. pc' \notin {"persist", "say"} => todo' = <<>>
  BY <1>0, <1>3
<1>12. QED
  BY <1>0, <1>9, <1>10, <1>11 DEF MarksStand

LEMMA NextKept ==
  ASSUME Inv, MarksStand, [Next]_vars
  PROVE  MarksStand'
<1>1. CASE Compute \/ Persist \/ Say
  BY <1>1, ComputeKept, PersistKept, SayKept
<1>2. CASE PersistFails \/ Crash
  BY <1>2, LostKept
<1>3. QED
  BY <1>1, <1>2, OthersKept DEF Next, Cycle, ToolStep

LEMMA InitKept == Init => MarksStand
<1> SUFFICES ASSUME Init PROVE MarksStand
  OBVIOUS
<1>1. /\ pc = "idle" /\ todo = <<>>
      /\ mem.saved = NoEntry /\ file.entry = NoEntry /\ copy.entry = NoEntry
  BY BlankStands DEF Init
<1>2. QED
  BY <1>1, BlankStands DEF MarksStand

(* An announcement is withheld as made only if it was made: between two    *)
(* cycles, every mark the watcher or watcher-state.json has for a head (an *)
(* approving verdict, a timeout, a CI failure that blocks, a triggered CI) *)
(* stands for an announcement of that kind for that head, unless           *)
(* announcements were lost in a crash or a failed write.                   *)
MarkIsTold(e) ==
  /\ e.review = "approved" => Told("approved", e.sha)
  /\ e.timeout => Told("timeout", e.sha)
  /\ e.blocked => Told("ci_blocked", e.sha)
  /\ e.triggered # 0 => Told("ci_triggered", e.triggered)

(* Between cycles no mark, in memory or in the file, is without its        *)
(* announcement.                                                           *)
MarkedIsTold ==
  ~ dropped /\ pc \notin {"persist", "say"} =>
    MarkIsTold(mem.saved) /\ MarkIsTold(file.entry)

(* The other half of NotToldTwice, and the safety half of ApprovalTold:    *)
(* the marks that keep compute_pr_actions_with_context silent never run    *)
(* ahead of the ledger, for every interleaving with pushes, reviews,       *)
(* crashes, failed lookups and writes, evictions and tools.                *)
THEOREM SilentOnlyIfTold == Spec => []MarkedIsTold
<1>1. Init => MarksStand
  BY InitKept
<1>2. Inv /\ MarksStand /\ [Next]_vars => MarksStand'
  BY NextKept
<1>3. MarksStand => MarkedIsTold
  <2> SUFFICES ASSUME MarksStand, ~ dropped, pc \notin {"persist", "say"}
               PROVE  MarkIsTold(mem.saved) /\ MarkIsTold(file.entry)
    BY DEF MarkedIsTold
  <2>1. Stands(mem.saved, <<>>) /\ Stands(file.entry, <<>>)
    BY DEF MarksStand, SavedTodo
  <2>2. QED
    BY <2>1, NothingIn DEF Stands, MarkIsTold
<1>4. QED
  BY <1>1, <1>2, <1>3, InvAlways, PTL DEF Spec
=============================================================================
