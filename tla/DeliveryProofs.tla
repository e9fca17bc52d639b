---------------------------- MODULE DeliveryProofs ----------------------------
(***************************************************************************)
(* Proofs about Delivery, for any number of messages, keys, consumer       *)
(* tasks, restarts and any capacity: one injection at a time, the cache    *)
(* keys mirror the FIFO, and the durable row comes before any transport.   *)
(***************************************************************************)
EXTENDS Delivery, TLAPS

(* A task injects the head of the FIFO, alone.                             *)
Injecting(t) == task[t] = "inject" => active /\ fifo # <<>> /\ Head(fifo) = item[t]
Injection == /\ \A t \in Tasks : Injecting(t)
             /\ \A t, u \in Tasks : task[t] = "inject" /\ task[u] = "inject" => t = u

(* The table has one pending row per key, and what a rebuild works off are *)
(* rows of the table.                                                      *)
RowsUnique == \A i, j \in 1 .. Len(rows) : rows[i].key = rows[j].key => i = j
Todo == \A m \in Msgs : /\ call[m] = "rebuild" => todo[m] # <<>>
                        /\ \A i \in 1 .. Len(todo[m]) : todo[m][i].key \in RowKeys(rows)

(* A call that is past its record has its row.                             *)
Recorded == \A m \in Msgs : call[m] \in {"route", "verify"} => Key[m] \in RowKeys(rows)

(* The inductive invariant.  OneInjection is Injection; CacheMirrorsFifo   *)
(* needs RowsUnique at a restart, DurableFirst needs Todo and Recorded.    *)
Inv == /\ TypeOK /\ Injection /\ CacheMirrorsFifo
       /\ RowsUnique /\ Todo /\ Recorded /\ DurableFirst

-----------------------------------------------------------------------------
(* What appending an entry does to the keys of the FIFO.                   *)
LEMMA PushKeys ==
  ASSUME NEW s \in Seq(Entry), NEW e \in Entry
  PROVE  /\ Append(s, e) \in Seq(Entry) /\ Append(s, e) # <<>>
         /\ Len(Append(s, e)) = Len(s) + 1
         /\ \A i \in 1 .. Len(s) : Append(s, e)[i] = s[i]
         /\ Append(s, e)[Len(s) + 1] = e
         /\ s # <<>> => Head(Append(s, e)) = Head(s)
         /\ EntryKeys(Append(s, e)) = EntryKeys(s) \cup ({e.key} \ {NoKey})
<1>1. /\ Append(s, e) \in Seq(Entry) /\ Len(Append(s, e)) = Len(s) + 1 /\ Append(s, e) # <<>>
      /\ \A i \in 1 .. Len(s) : Append(s, e)[i] = s[i]
      /\ Append(s, e)[Len(s) + 1] = e
      /\ DOMAIN Append(s, e) = 1 .. (Len(s) + 1) /\ DOMAIN s = 1 .. Len(s) /\ Len(s) \in Nat
      /\ s # <<>> => Head(Append(s, e)) = Head(s)
  OBVIOUS
<1>2. \A i : i \in 1 .. (Len(s) + 1) <=> i \in 1 .. Len(s) \/ i = Len(s) + 1
  BY <1>1
<1>3. \A k : k \in EntryKeys(Append(s, e)) <=> k # NoKey /\ \E i \in 1 .. (Len(s) + 1) : k = Append(s, e)[i].key
  BY <1>1 DEF EntryKeys
<1>4. \A k : k \in EntryKeys(s) <=> k # NoKey /\ \E i \in 1 .. Len(s) : k = s[i].key
  BY <1>1 DEF EntryKeys
<1>5. EntryKeys(Append(s, e)) = EntryKeys(s) \cup ({e.key} \ {NoKey})
  BY <1>1, <1>2, <1>3, <1>4
<1>6. QED
  BY <1>1, <1>5

(* What popping the head does to the keys of a FIFO without repetitions.   *)
LEMMA PopKeys ==
  ASSUME NEW s \in Seq(Entry), s # <<>>,
         \A i, j \in DOMAIN s : s[i].key = s[j].key /\ s[i].key # NoKey => i = j
  PROVE  /\ Tail(s) \in Seq(Entry)
         /\ EntryKeys(Tail(s)) = EntryKeys(s) \ {Head(s).key}
         /\ \A i, j \in DOMAIN Tail(s) : Tail(s)[i].key = Tail(s)[j].key /\ Tail(s)[i].key # NoKey => i = j
<1>1. /\ Tail(s) \in Seq(Entry) /\ Len(Tail(s)) = Len(s) - 1 /\ Len(s) \in Nat \ {0}
      /\ DOMAIN Tail(s) = 1 .. (Len(s) - 1) /\ DOMAIN s = 1 .. Len(s)
      /\ \A i \in 1 .. (Len(s) - 1) : Tail(s)[i] = s[i + 1]
      /\ Head(s) = s[1]
  OBVIOUS
<1>2. \A k : k \in EntryKeys(Tail(s)) <=> k # NoKey /\ \E i \in 1 .. (Len(s) - 1) : k = s[i + 1].key
  <2> DEFINE t == Tail(s)
  <2>1. DOMAIN t = 1 .. (Len(s) - 1) /\ \A i \in 1 .. (Len(s) - 1) : t[i] = s[i + 1]
    BY <1>1
  <2> HIDE DEF t
  <2>2. \A k : k \in EntryKeys(t) <=> k # NoKey /\ \E i \in 1 .. (Len(s) - 1) : k = t[i].key
    BY <2>1 DEF EntryKeys
  <2>3. \A k : k \in EntryKeys(t) <=> k # NoKey /\ \E i \in 1 .. (Len(s) - 1) : k = s[i + 1].key
    <3>1. \A i \in 1 .. (Len(s) - 1) : t[i].key = s[i + 1].key
      BY <2>1
    <3>2. ASSUME NEW k, NEW i \in 1 .. (Len(s) - 1)
          PROVE  k = t[i].key <=> k = s[i + 1].key
      BY <3>1
    <3>3. \A k : (\E i \in 1 .. (Len(s) - 1) : k = t[i].key) <=> \E i \in 1 .. (Len(s) - 1) : k = s[i + 1].key
      BY <3>2
    <3>4. QED
      BY <2>2, <3>3
  <2>4. QED
    BY <2>3 DEF t
<1>3. \A k : k \in EntryKeys(s) <=> k # NoKey /\ \E i \in 1 .. Len(s) : k = s[i].key
  BY <1>1 DEF EntryKeys
<1>4. ASSUME NEW k, k \in EntryKeys(Tail(s)) PROVE k \in EntryKeys(s) /\ k # Head(s).key
  <2>1. PICK i \in 1 .. (Len(s) - 1) : k = s[i + 1].key /\ k # NoKey
    BY <1>2, <1>4
  <2>2. i + 1 \in 1 .. Len(s) /\ 1 \in 1 .. Len(s) /\ i + 1 # 1
    BY <1>1
  <2>3. QED
    BY <1>1, <1>3, <2>1, <2>2
<1>5. ASSUME NEW k, k \in EntryKeys(s), k # Head(s).key PROVE k \in EntryKeys(Tail(s))
  <2>1. PICK i \in 1 .. Len(s) : k = s[i].key /\ k # NoKey
    BY <1>3, <1>5
  <2>2. i # 1
    BY <1>1, <1>5, <2>1
  <2>3. i - 1 \in 1 .. (Len(s) - 1) /\ (i - 1) + 1 = i
    BY <1>1, <2>2
  <2>4. QED
    BY <1>2, <2>1, <2>3
<1>6. ASSUME NEW i \in DOMAIN Tail(s), NEW j \in DOMAIN Tail(s),
             Tail(s)[i].key = Tail(s)[j].key, Tail(s)[i].key # NoKey
      PROVE  i = j
  <2>1. i + 1 \in DOMAIN s /\ j + 1 \in DOMAIN s /\ Tail(s)[i] = s[i + 1] /\ Tail(s)[j] = s[j + 1]
        /\ i \in Nat /\ j \in Nat
    BY <1>1
  <2>2. i + 1 = j + 1
    BY <1>6, <2>1
  <2>3. QED
    BY <2>1, <2>2
<1>7. QED
  BY <1>1, <1>4, <1>5, <1>6

(* The initial state satisfies the invariant.                              *)
LEMMA InitInv == Init => Inv
<1> SUFFICES ASSUME Init PROVE Inv
  OBVIOUS
<1>1. NoEntry \in Entry
  BY DEF NoEntry, Entry
<1>2. TypeOK
  <2>1. rows \in Seq(Row) /\ fifo \in Seq(Entry) /\ todo \in [Msgs -> Seq(Row)]
    BY DEF Init
  <2>2. item \in [Tasks -> Entry] /\ attempt \in [Tasks -> 0 .. MaxAttempts - 1]
    BY <1>1, DeliveryAssumption DEF Init
  <2>3. /\ task \in [Tasks -> {"off", "begin", "inject"}] /\ result \in [Msgs -> Results]
        /\ call \in [Msgs -> {"idle", "rebuild", "record", "route", "verify", "done"}]
    BY DEF Init, Results
  <2>4. QED
    BY <2>1, <2>2, <2>3 DEF Init, TypeOK
<1>3. Injection /\ RowsUnique /\ Todo /\ Recorded
  BY DEF Init, Injection, Injecting, RowsUnique, Todo, Recorded
<1>4. CacheMirrorsFifo /\ DurableFirst
  BY DEF Init, CacheMirrorsFifo, DurableFirst, EntryKeys
<1>5. QED
  BY <1>2, <1>3, <1>4 DEF Inv

(* A new entry at the end of the FIFO.                                     *)
LEMMA PushInv ==
  ASSUME Inv, NEW e \in Entry, Push(e), ~ Duplicate(e)
  PROVE  /\ fifo' \in Seq(Entry) /\ cached' \subseteq Keys
         /\ CacheMirrorsFifo'
         /\ fifo' # <<>> /\ (fifo # <<>> => Head(fifo') = Head(fifo))
         /\ cached' = cached \cup ({e.key} \ {NoKey})
<1>1. fifo \in Seq(Entry) /\ cached \subseteq Keys /\ fifo' = Append(fifo, e)
      /\ cached' = cached \cup ({e.key} \ {NoKey}) /\ e.key \in Keys \cup {NoKey}
  BY DEF Inv, TypeOK, Push, Entry
<1>2. /\ fifo' \in Seq(Entry) /\ fifo' # <<>>
      /\ Len(fifo') = Len(fifo) + 1
      /\ \A i \in 1 .. Len(fifo) : fifo'[i] = fifo[i]
      /\ fifo'[Len(fifo) + 1] = e
      /\ fifo # <<>> => Head(fifo') = Head(fifo)
      /\ EntryKeys(fifo') = EntryKeys(fifo) \cup ({e.key} \ {NoKey})
  BY <1>1, PushKeys
<1>3. cached' = EntryKeys(fifo')
  BY <1>1, <1>2 DEF Inv, CacheMirrorsFifo
<1>4. ASSUME NEW i \in DOMAIN fifo', NEW j \in DOMAIN fifo', fifo'[i].key = fifo'[j].key, fifo'[i].key # NoKey
      PROVE  i = j
  <2>1. DOMAIN fifo = 1 .. Len(fifo) /\ DOMAIN fifo' = 1 .. (Len(fifo) + 1) /\ Len(fifo) \in Nat
    BY <1>1, <1>2
  <2>2. \A n \in 1 .. Len(fifo) : fifo[n].key # e.key \/ e.key = NoKey
    BY <2>1 DEF Inv, CacheMirrorsFifo, Duplicate, EntryKeys
  <2>3. CASE i \in 1 .. Len(fifo) /\ j \in 1 .. Len(fifo)
    BY <1>2, <1>4, <2>1, <2>3 DEF Inv, CacheMirrorsFifo
  <2>4. CASE i = Len(fifo) + 1 /\ j \in 1 .. Len(fifo)
    BY <1>2, <1>4, <2>2, <2>4
  <2>5. CASE j = Len(fifo) + 1 /\ i \in 1 .. Len(fifo)
    BY <1>2, <1>4, <2>2, <2>5
  <2>6. CASE i = Len(fifo) + 1 /\ j = Len(fifo) + 1
    BY <2>6
  <2>7. QED
    BY <2>1, <2>3, <2>4, <2>5, <2>6
<1>5. cached' \subseteq Keys
  BY <1>1
<1>6. CacheMirrorsFifo'
  BY <1>3, <1>4 DEF CacheMirrorsFifo
<1>7. QED
  BY <1>1, <1>2, <1>5, <1>6

(* Steps of a call that touch neither queue nor rows.                      *)
LEMMA CallInv ==
  ASSUME Inv, NEW m \in Msgs,
         ListRows(m) \/ SkipRebuild(m) \/ RecordFails(m) \/ DeliverTeams(m) \/ Verified(m) \/ DeliverElsewhere(m)
  PROVE  Inv'
<1>1. UNCHANGED <<durable, queue, active, tasks, owed, restarts>>
  BY DEF ListRows, SkipRebuild, RecordFails, DeliverTeams, Verified, DeliverElsewhere
<1>2. /\ call' \in [Msgs -> {"idle", "rebuild", "record", "route", "verify", "done"}]
      /\ result' \in [Msgs -> Results]
  BY DEF Inv, TypeOK, ListRows, SkipRebuild, RecordFails, DeliverTeams, Verified, DeliverElsewhere, Return, Results
<1>3. todo' \in [Msgs -> Seq(Row)]
  BY DEF Inv, TypeOK, ListRows, SkipRebuild, RecordFails, DeliverTeams, Verified, DeliverElsewhere
<1>4. TypeOK'
  BY <1>1, <1>2, <1>3 DEF Inv, TypeOK, durable, queue, tasks
<1>5. Injection' /\ CacheMirrorsFifo' /\ RowsUnique'
  BY <1>1 DEF Inv, Injection, Injecting, CacheMirrorsFifo, RowsUnique, durable, queue, tasks
<1>6. Todo'
  <2>1. CASE ListRows(m)
    <3>1. \A i \in 1 .. Len(rows) : rows[i].key \in RowKeys(rows)
      BY DEF Inv, TypeOK, RowKeys
    <3>2. QED
      BY <1>1, <2>1, <3>1 DEF Inv, TypeOK, Todo, ListRows, durable
  <2>2. CASE ~ ListRows(m)
    BY <1>1, <2>2 DEF Inv, TypeOK, Todo, SkipRebuild, RecordFails, DeliverTeams, Verified, DeliverElsewhere, Return, durable
  <2>3. QED
    BY <2>1, <2>2
<1>7. Recorded'
  BY <1>1 DEF Inv, TypeOK, Recorded, ListRows, SkipRebuild, RecordFails, DeliverTeams, Verified, DeliverElsewhere, Return, durable
<1>8. DurableFirst'
  <2>1. \A n \in Msgs : result'[n] = "ok" => result[n] = "ok" \/ call[n] = "route"
    BY DEF Inv, TypeOK, ListRows, SkipRebuild, RecordFails, DeliverTeams, Verified, DeliverElsewhere, Return
  <2>2. QED
    BY <1>1, <2>1 DEF Inv, DurableFirst, Recorded, durable, queue
<1>9. QED
  BY <1>4, <1>5, <1>6, <1>7, <1>8 DEF Inv

(* rebuild_from_durable.                                                   *)
LEMMA RebuildInv ==
  ASSUME Inv, NEW m \in Msgs, RebuildOne(m)
  PROVE  Inv'
<1> DEFINE r == Head(todo[m])
           e == EntryOf(r)
           left == IF Full(e) THEN <<>> ELSE Tail(todo[m])
<1>1. /\ call[m] = "rebuild" /\ EnqueueOnly(e)
      /\ todo' = [todo EXCEPT ![m] = left]
      /\ call' = [call EXCEPT ![m] = IF left = <<>> THEN "record" ELSE @]
      /\ UNCHANGED <<durable, active, tasks, result, owed, restarts>>
  BY DEF RebuildOne
<1>2. todo[m] \in Seq(Row) /\ todo[m] # <<>>
  BY <1>1 DEF Inv, TypeOK, Todo
<1>3. r \in Row /\ r.key \in RowKeys(rows)
  <2>1. r = todo[m][1] /\ 1 \in 1 .. Len(todo[m]) /\ r \in Row
    BY <1>2
  <2>2. QED
    BY <2>1 DEF Inv, Todo
<1>4. e \in Entry /\ e.key = r.key
  BY <1>3 DEF EntryOf, Entry, Row
<1>5. left \in Seq(Row) /\ \A i \in 1 .. Len(left) : left[i].key \in RowKeys(rows)
  <2>1. CASE Full(e)
    BY <2>1
  <2>2. CASE ~ Full(e)
    <3>1. /\ left = Tail(todo[m]) /\ left \in Seq(Row)
          /\ \A i \in 1 .. Len(left) : i + 1 \in 1 .. Len(todo[m]) /\ left[i] = todo[m][i + 1]
      BY <1>2, <2>2
    <3>2. QED
      BY <3>1 DEF Inv, Todo
  <2>3. QED
    BY <2>1, <2>2
<1> HIDE DEF r, e, left
<1>6. /\ fifo' \in Seq(Entry) /\ cached' \subseteq Keys /\ CacheMirrorsFifo'
      /\ fifo # <<>> => fifo' # <<>> /\ Head(fifo') = Head(fifo)
      /\ cached' \subseteq cached \cup {e.key}
  <2>1. CASE UNCHANGED queue
    BY <2>1 DEF queue, Inv, TypeOK, CacheMirrorsFifo
  <2>2. CASE Push(e) /\ ~ Duplicate(e)
    BY <1>4, <2>2, PushInv
  <2>3. QED
    BY <1>1, <2>1, <2>2 DEF EnqueueOnly
<1>7. TypeOK'
  BY <1>1, <1>5, <1>6 DEF Inv, TypeOK, durable, tasks
<1>8. Injection'
  BY <1>1, <1>6 DEF Inv, Injection, Injecting, tasks
<1>9. RowsUnique'
  BY <1>1 DEF Inv, RowsUnique, durable
<1>10. Todo'
  BY <1>1, <1>5 DEF Inv, TypeOK, Todo, durable
<1>11. Recorded'
  BY <1>1 DEF Inv, TypeOK, Recorded, durable
<1>12. DurableFirst'
  BY <1>1, <1>3, <1>4, <1>6 DEF Inv, DurableFirst, durable
<1>13. QED
  BY <1>6, <1>7, <1>8, <1>9, <1>10, <1>11, <1>12 DEF Inv

(* The durable row.                                                        *)
LEMMA RecordInv ==
  ASSUME Inv, NEW m \in Msgs, Record(m)
  PROVE  Inv'
<1> DEFINE r == [key |-> Key[m], body |-> m, class |-> Class[m]]
<1>1. /\ call[m] = "record" /\ call' = [call EXCEPT ![m] = "route"]
      /\ UNCHANGED <<queue, active, tasks, todo, result, owed, restarts>>
  BY DEF Record
<1>2. r \in Row /\ r.key = Key[m]
  BY DeliveryAssumption DEF Row, Keys
<1>3. /\ rows' \in Seq(Row) /\ unread' \in BOOLEAN /\ RowsUnique'
      /\ RowKeys(rows') = RowKeys(rows) \cup {Key[m]}
  <2>1. CASE Key[m] \in RowKeys(rows) /\ UNCHANGED durable
    BY <2>1 DEF Inv, TypeOK, RowsUnique, durable
  <2>2. CASE Key[m] \notin RowKeys(rows) /\ rows' = Append(rows, r) /\ unread' = TRUE
    <3>1. rows \in Seq(Row)
      BY DEF Inv, TypeOK
    <3> HIDE DEF r
    <3>2. /\ rows' \in Seq(Row) /\ Len(rows') = Len(rows) + 1 /\ Len(rows) \in Nat
          /\ \A i \in 1 .. Len(rows) : rows'[i] = rows[i]
          /\ rows'[Len(rows) + 1] = r
          /\ DOMAIN rows' = 1 .. (Len(rows) + 1) /\ DOMAIN rows = 1 .. Len(rows)
      BY <1>2, <2>2, <3>1
    <3>3. \A i : i \in 1 .. (Len(rows) + 1) <=> i \in 1 .. Len(rows) \/ i = Len(rows) + 1
      BY <3>2
    <3>4. /\ \A k : k \in RowKeys(rows') <=> \E i \in 1 .. (Len(rows) + 1) : k = rows'[i].key
          /\ \A k : k \in RowKeys(rows) <=> \E i \in 1 .. Len(rows) : k = rows[i].key
      BY <3>2 DEF RowKeys
    <3>5. RowKeys(rows') = RowKeys(rows) \cup {Key[m]}
      BY <1>2, <3>2, <3>3, <3>4
    <3>6. RowsUnique'
      <4>1. ASSUME NEW i \in 1 .. (Len(rows) + 1), NEW j \in 1 .. (Len(rows) + 1), rows'[i].key = rows'[j].key
            PROVE  i = j
        <5>1. \A n \in 1 .. Len(rows) : rows[n].key # Key[m]
          BY <2>2, <3>4
        <5>2. CASE i \in 1 .. Len(rows) /\ j \in 1 .. Len(rows)
          BY <3>2, <4>1, <5>2 DEF Inv, RowsUnique
        <5>3. CASE i = Len(rows) + 1 /\ j \in 1 .. Len(rows)
          BY <1>2, <3>2, <4>1, <5>1, <5>3
        <5>4. CASE j = Len(rows) + 1 /\ i \in 1 .. Len(rows)
          BY <1>2, <3>2, <4>1, <5>1, <5>4
        <5>5. CASE i = Len(rows) + 1 /\ j = Len(rows) + 1
          BY <5>5
        <5>6. QED
          BY <3>3, <5>2, <5>3, <5>4, <5>5
      <4>2. QED
        BY <3>2, <4>1 DEF RowsUnique
    <3>7. QED
      BY <2>2, <3>2, <3>5, <3>6
  <2>3. QED
    BY <2>1, <2>2 DEF Record
<1>4. TypeOK'
  BY <1>1, <1>3 DEF Inv, TypeOK, queue, tasks
<1>5. Injection' /\ CacheMirrorsFifo'
  BY <1>1 DEF Inv, Injection, Injecting, CacheMirrorsFifo, queue, tasks
<1>6. Todo' /\ Recorded'
  BY <1>1, <1>3 DEF Inv, TypeOK, Todo, Recorded
<1>7. DurableFirst'
  BY <1>1, <1>3 DEF Inv, DurableFirst, queue
<1>8. QED
  BY <1>3, <1>4, <1>5, <1>6, <1>7 DEF Inv

(* enqueue_tmux_delivery of a recorded message or of a poke.               *)
LEMMA EnqueueTmuxInv ==
  ASSUME Inv, NEW e \in Entry, EnqueueTmux(e), UNCHANGED durable,
         e.key \in RowKeys(rows) \cup {NoKey}
  PROVE  /\ fifo' \in Seq(Entry) /\ cached' \subseteq Keys
         /\ task' \in [Tasks -> {"off", "begin", "inject"}]
         /\ UNCHANGED <<active, item, attempt>>
         /\ owed' \subseteq Keys
         /\ Injection' /\ CacheMirrorsFifo'
         /\ cached' \cup owed' \subseteq RowKeys(rows)
<1>1. /\ fifo' \in Seq(Entry) /\ cached' \subseteq Keys /\ CacheMirrorsFifo'
      /\ fifo # <<>> => fifo' # <<>> /\ Head(fifo') = Head(fifo)
      /\ cached' \subseteq cached \cup ({e.key} \ {NoKey})
  <2>1. CASE UNCHANGED queue
    BY <2>1 DEF queue, Inv, TypeOK, CacheMirrorsFifo
  <2>2. CASE Push(e) /\ ~ Duplicate(e)
    BY <2>2, PushInv
  <2>3. QED
    BY <2>1, <2>2 DEF EnqueueTmux
<1>2. /\ task' \in [Tasks -> {"off", "begin", "inject"}]
      /\ \A t \in Tasks : task'[t] = "inject" <=> task[t] = "inject"
  <2>1. CASE Spawn
    BY <2>1 DEF Spawn, Inv, TypeOK
  <2>2. CASE UNCHANGED task
    BY <2>2 DEF Inv, TypeOK
  <2>3. QED
    BY <2>1, <2>2 DEF EnqueueTmux
<1>3. UNCHANGED <<active, item, attempt>> /\ owed' = owed \cup ({e.key} \ {NoKey})
  BY DEF EnqueueTmux
<1>4. Injection'
  BY <1>1, <1>2, <1>3 DEF Inv, Injection, Injecting
<1>5. owed' \subseteq Keys
  BY <1>3 DEF Inv, TypeOK, Entry
<1>6. cached' \cup owed' \subseteq RowKeys(rows)
  BY <1>1, <1>3 DEF Inv, DurableFirst
<1>7. QED
  BY <1>1, <1>2, <1>3, <1>4, <1>5, <1>6

(* The three callers of enqueue_tmux_delivery.                             *)
LEMMA TmuxInv ==
  ASSUME Inv, (\E m \in Msgs : DeliverTmux(m) \/ VerifierFallsBack(m)) \/ PokeAgent
  PROVE  Inv'
<1>1. CASE PokeAgent
  <2>1. NoEntry \in Entry /\ NoEntry.key = NoKey
    BY DEF NoEntry, Entry
  <2>2. EnqueueTmux(NoEntry) /\ UNCHANGED <<durable, calls, restarts>>
    BY <1>1 DEF PokeAgent
  <2>3. /\ fifo' \in Seq(Entry) /\ cached' \subseteq Keys
        /\ task' \in [Tasks -> {"off", "begin", "inject"}] /\ UNCHANGED <<active, item, attempt>>
        /\ owed' \subseteq Keys /\ Injection' /\ CacheMirrorsFifo'
        /\ cached' \cup owed' \subseteq RowKeys(rows)
    BY <2>1, <2>2, EnqueueTmuxInv
  <2>4. TypeOK'
    BY <2>2, <2>3 DEF Inv, TypeOK, durable, calls
  <2>5. RowsUnique' /\ Todo' /\ Recorded' /\ DurableFirst'
    BY <2>2, <2>3 DEF Inv, RowsUnique, Todo, Recorded, DurableFirst, durable, calls
  <2>6. QED
    BY <2>3, <2>4, <2>5 DEF Inv
<1>2. ASSUME NEW m \in Msgs, DeliverTmux(m) \/ VerifierFallsBack(m) PROVE Inv'
  <2> DEFINE e == [key |-> Key[m], body |-> m]
  <2>1. e \in Entry /\ e.key = Key[m]
    BY DEF Entry, Keys
  <2>2. Key[m] \in RowKeys(rows)
    BY <1>2 DEF DeliverTmux, VerifierFallsBack, Inv, Recorded
  <2>3. /\ EnqueueTmux(e) \/ UNCHANGED <<queue, active, tasks, owed>>
        /\ UNCHANGED <<durable, todo, restarts>>
        /\ call' = [call EXCEPT ![m] = "done"]
        /\ UNCHANGED result \/ result' = [result EXCEPT ![m] = "ok"]
    BY <1>2 DEF DeliverTmux, VerifierFallsBack, Return
  <2> HIDE DEF e
  <2>4. /\ fifo' \in Seq(Entry) /\ cached' \subseteq Keys
        /\ task' \in [Tasks -> {"off", "begin", "inject"}] /\ UNCHANGED <<active, item, attempt>>
        /\ owed' \subseteq Keys /\ Injection' /\ CacheMirrorsFifo'
        /\ cached' \cup owed' \subseteq RowKeys(rows)
    <3>1. CASE EnqueueTmux(e)
      BY <2>1, <2>2, <2>3, <3>1, EnqueueTmuxInv
    <3>2. CASE UNCHANGED <<queue, active, tasks, owed>>
      BY <3>2 DEF queue, tasks, Inv, TypeOK, Injection, Injecting, CacheMirrorsFifo, DurableFirst
    <3>3. QED
      BY <2>3, <3>1, <3>2
  <2>5. TypeOK'
    BY <2>3, <2>4 DEF Inv, TypeOK, durable, Results
  <2>6. RowsUnique' /\ Todo' /\ Recorded'
    BY <2>3 DEF Inv, TypeOK, RowsUnique, Todo, Recorded, durable
  <2>7. DurableFirst'
    BY <2>2, <2>3, <2>4 DEF Inv, TypeOK, DurableFirst, durable
  <2>8. QED
    BY <2>4, <2>5, <2>6, <2>7 DEF Inv
<1>3. QED
  BY <1>1, <1>2

(* A task takes the head, or ends.                                         *)
LEMMA BeginInv ==
  ASSUME Inv, NEW t \in Tasks, BeginDelivery(t)
  PROVE  Inv'
<1>1. task[t] = "begin" /\ attempt' = [attempt EXCEPT ![t] = 0] /\ UNCHANGED <<durable, queue, calls, owed, restarts>>
  BY DEF BeginDelivery
<1>2. RowsUnique' /\ Todo' /\ Recorded' /\ DurableFirst' /\ CacheMirrorsFifo'
  BY <1>1 DEF Inv, RowsUnique, Todo, Recorded, DurableFirst, CacheMirrorsFifo, durable, queue, calls
<1>3. attempt' \in [Tasks -> 0 .. MaxAttempts - 1]
  BY <1>1, DeliveryAssumption DEF Inv, TypeOK
<1>4. CASE task' = [task EXCEPT ![t] = "off"] /\ UNCHANGED <<active, item>>
  <2>1. TypeOK'
    BY <1>1, <1>3, <1>4 DEF Inv, TypeOK, durable, queue, calls
  <2>2. Injection'
    BY <1>1, <1>4 DEF Inv, TypeOK, Injection, Injecting, queue
  <2>3. QED
    BY <1>2, <2>1, <2>2 DEF Inv
<1>5. CASE /\ ~ active /\ fifo # <<>> /\ active' = TRUE
           /\ item' = [item EXCEPT ![t] = Head(fifo)] /\ task' = [task EXCEPT ![t] = "inject"]
  <2>1. Head(fifo) \in Entry
    BY <1>5 DEF Inv, TypeOK
  <2>2. TypeOK'
    BY <1>1, <1>3, <1>5, <2>1 DEF Inv, TypeOK, durable, queue, calls
  <2>3. \A u \in Tasks : task[u] # "inject"
    BY <1>5 DEF Inv, Injection, Injecting
  <2>4. Injection'
    BY <1>1, <1>5, <2>3 DEF Inv, TypeOK, Injection, Injecting, queue
  <2>5. QED
    BY <1>2, <2>2, <2>4 DEF Inv
<1>6. QED
  BY <1>4, <1>5 DEF BeginDelivery, Taken

(* The injected or abandoned head leaves the FIFO.                         *)
LEMMA FinishInv ==
  ASSUME Inv, NEW t \in Tasks, task[t] = "inject", Finish(t), UNCHANGED <<durable, calls, restarts>>
  PROVE  Inv'
<1>1. fifo # <<>> /\ Head(fifo) = item[t] /\ \A u \in Tasks : u # t => task[u] # "inject"
  BY DEF Inv, Injection, Injecting
<1>2. /\ fifo' = Tail(fifo) /\ cached' = cached \ {item[t].key} /\ active' = FALSE
      /\ task' = [task EXCEPT ![t] = "begin"] /\ item' = [item EXCEPT ![t] = NoEntry]
      /\ attempt' = [attempt EXCEPT ![t] = 0] /\ owed' = owed \ {item[t].key}
  BY <1>1 DEF Finish
<1>3. /\ Tail(fifo) \in Seq(Entry)
      /\ EntryKeys(Tail(fifo)) = EntryKeys(fifo) \ {Head(fifo).key}
      /\ \A i, j \in DOMAIN Tail(fifo) : Tail(fifo)[i].key = Tail(fifo)[j].key /\ Tail(fifo)[i].key # NoKey => i = j
  <2>1. fifo \in Seq(Entry) /\ \A i, j \in DOMAIN fifo : fifo[i].key = fifo[j].key /\ fifo[i].key # NoKey => i = j
    BY DEF Inv, TypeOK, CacheMirrorsFifo
  <2>2. QED
    BY <1>1, <2>1, PopKeys
<1>4. CacheMirrorsFifo'
  BY <1>1, <1>2, <1>3 DEF Inv, CacheMirrorsFifo
<1>5. TypeOK'
  <2>1. NoEntry \in Entry
    BY DEF NoEntry, Entry
  <2>2. attempt' \in [Tasks -> 0 .. MaxAttempts - 1]
    BY <1>2, DeliveryAssumption DEF Inv, TypeOK
  <2>3. QED
    BY <1>2, <1>3, <2>1, <2>2 DEF Inv, TypeOK, durable, calls
<1>6. Injection'
  BY <1>1, <1>2 DEF Inv, TypeOK, Injection, Injecting
<1>7. RowsUnique' /\ Todo' /\ Recorded' /\ DurableFirst'
  BY <1>2 DEF Inv, RowsUnique, Todo, Recorded, DurableFirst, durable, calls
<1>8. QED
  BY <1>4, <1>5, <1>6, <1>7 DEF Inv

(* Injections that succeed, fail and are retried, or are abandoned.        *)
LEMMA InjectInv ==
  ASSUME Inv, NEW t \in Tasks, Inject(t) \/ InjectFails(t)
  PROVE  Inv'
<1>1. task[t] = "inject" /\ UNCHANGED <<durable, calls, restarts>>
  BY DEF Inject, InjectFails
<1>2. CASE Finish(t)
  BY <1>1, <1>2, FinishInv
<1>3. CASE /\ ~ (attempt[t] + 1 >= MaxAttempts) /\ attempt' = [attempt EXCEPT ![t] = @ + 1]
           /\ UNCHANGED <<queue, active, task, item, owed>>
  <2>1. attempt' \in [Tasks -> 0 .. MaxAttempts - 1]
    BY <1>3, DeliveryAssumption DEF Inv, TypeOK
  <2>2. TypeOK'
    BY <1>1, <1>3, <2>1 DEF Inv, TypeOK, durable, queue, calls
  <2>3. Injection' /\ CacheMirrorsFifo' /\ RowsUnique' /\ Todo' /\ Recorded' /\ DurableFirst'
    BY <1>1, <1>3 DEF Inv, Injection, Injecting, CacheMirrorsFifo, RowsUnique, Todo, Recorded, DurableFirst,
                      durable, queue, calls
  <2>4. QED
    BY <2>2, <2>3 DEF Inv
<1>4. QED
  BY <1>2, <1>3 DEF Inject, InjectFails

(* The FIFO after a restart: the first rows, one per key.                  *)
LEMMA RestartInv ==
  ASSUME Inv, Restart
  PROVE  Inv'
<1> DEFINE n == IF Len(rows) < HardCap THEN Len(rows) ELSE HardCap
<1>1. /\ fifo' = Rebuilt /\ cached' = EntryKeys(Rebuilt) /\ active' = FALSE
      /\ task' = [t \in Tasks |-> "off"] /\ item' = [t \in Tasks |-> NoEntry] /\ attempt' = [t \in Tasks |-> 0]
      /\ call' = [m \in Msgs |-> IF call[m] = "idle" THEN "idle" ELSE "done"]
      /\ todo' = [m \in Msgs |-> <<>>] /\ owed' = {} /\ restarts' = restarts + 1
      /\ UNCHANGED <<durable, result>>
  BY DEF Restart
<1>2. rows \in Seq(Row) /\ n \in Nat /\ 1 .. n \subseteq 1 .. Len(rows)
  BY DeliveryAssumption DEF Inv, TypeOK
<1>3. Rebuilt = [i \in 1 .. n |-> EntryOf(rows[i])]
  BY DEF Rebuilt
<1>4. \A i \in 1 .. n : EntryOf(rows[i]) \in Entry /\ EntryOf(rows[i]).key = rows[i].key
                       /\ rows[i].key \in Keys /\ rows[i].key \in RowKeys(rows)
  <2>1. \A i \in 1 .. n : rows[i] \in Row /\ i \in DOMAIN rows
    BY <1>2
  <2>2. QED
    BY <2>1 DEF EntryOf, Entry, Row, RowKeys
<1> HIDE DEF n
<1>5. /\ Rebuilt \in Seq(Entry) /\ DOMAIN Rebuilt = 1 .. n
      /\ \A i \in 1 .. n : Rebuilt[i].key = rows[i].key
  BY <1>2, <1>3, <1>4
<1>6. EntryKeys(Rebuilt) \subseteq Keys \cap RowKeys(rows)
  BY <1>4, <1>5 DEF EntryKeys
<1>7. CacheMirrorsFifo'
  <2>1. \A i, j \in 1 .. n : Rebuilt[i].key = Rebuilt[j].key => i = j
    BY <1>2, <1>5 DEF Inv, RowsUnique
  <2>2. QED
    BY <1>1, <1>5, <2>1 DEF CacheMirrorsFifo
<1>8. TypeOK'
  <2>1. NoEntry \in Entry /\ 0 \in 0 .. MaxAttempts - 1
    BY DeliveryAssumption DEF NoEntry, Entry
  <2>2. /\ fifo' \in Seq(Entry) /\ cached' \subseteq Keys /\ owed' \subseteq Keys /\ active' \in BOOLEAN
        /\ rows' \in Seq(Row) /\ unread' \in BOOLEAN /\ result' \in [Msgs -> Results] /\ restarts' \in Nat
    <3>1. fifo' \in Seq(Entry) /\ cached' \subseteq Keys
      BY <1>1, <1>5, <1>6
    <3>2. restarts' \in Nat
      BY <1>1 DEF Inv, TypeOK
    <3>3. owed' \subseteq Keys /\ active' \in BOOLEAN
      BY <1>1
    <3>4. rows' \in Seq(Row) /\ unread' \in BOOLEAN /\ result' \in [Msgs -> Results]
      BY <1>1 DEF Inv, TypeOK, durable
    <3>5. QED
      BY <3>1, <3>2, <3>3, <3>4
  <2>3. /\ task' \in [Tasks -> {"off", "begin", "inject"}]
        /\ item' \in [Tasks -> Entry] /\ attempt' \in [Tasks -> 0 .. MaxAttempts - 1]
    BY <1>1, <2>1
  <2>4. /\ call' \in [Msgs -> {"idle", "rebuild", "record", "route", "verify", "done"}]
        /\ todo' \in [Msgs -> Seq(Row)]
    BY <1>1
  <2>5. QED
    BY <2>2, <2>3, <2>4 DEF TypeOK
<1>9. Injection' /\ RowsUnique' /\ Todo' /\ Recorded'
  BY <1>1 DEF Inv, Injection, Injecting, RowsUnique, Todo, Recorded, durable
<1>10. DurableFirst'
  BY <1>1, <1>6 DEF Inv, DurableFirst, durable
<1>11. QED
  BY <1>7, <1>8, <1>9, <1>10 DEF Inv

(* Every step preserves the invariant.                                     *)
LEMMA NextInv == Inv /\ [Next]_vars => Inv'
<1> SUFFICES ASSUME Inv, [Next]_vars PROVE Inv'
  OBVIOUS
<1>1. ASSUME NEW m \in Msgs, ListRows(m) \/ SkipRebuild(m) \/ Deliver(m) PROVE Inv'
  BY <1>1, CallInv, RebuildInv, RecordInv, TmuxInv DEF Deliver
<1>2. ASSUME NEW t \in Tasks, Consume(t) PROVE Inv'
  BY <1>2, BeginInv, InjectInv DEF Consume
<1>3. CASE PokeAgent
  BY <1>3, TmuxInv
<1>4. CASE DrainUnread
  BY <1>4 DEF DrainUnread, queue, tasks, calls, Inv, TypeOK, Injection, Injecting, CacheMirrorsFifo, RowsUnique, Todo,
              Recorded, DurableFirst
<1>5. CASE Restart
  BY <1>5, RestartInv
<1>6. CASE UNCHANGED vars
  BY <1>6 DEF vars, durable, queue, tasks, calls, Inv, TypeOK, Injection, Injecting, CacheMirrorsFifo, RowsUnique, Todo,
              Recorded, DurableFirst
<1>7. QED
  BY <1>1, <1>2, <1>3, <1>4, <1>5, <1>6 DEF Next

(* The inductive invariant holds always.                                   *)
THEOREM InvAlways == Spec => []Inv
BY InitInv, NextInv, PTL DEF Spec

(* Rows, FIFO, consumer tasks and calls have their types (delivery.rs,     *)
(* agent_inbox.rs).                                                        *)
THEOREM DeliveryTyped == Spec => []TypeOK
<1>1. Inv => TypeOK
  BY DEF Inv
<1>2. QED
  BY <1>1, InvAlways, PTL

(* However many consumers run, at most one injects, and it injects the     *)
(* head of the FIFO (begin_delivery, complete_delivery).                   *)
THEOREM InjectsAlone == Spec => []OneInjection
<1>1. Inv => OneInjection
  BY DEF Inv, Injection, Injecting, OneInjection
<1>2. QED
  BY <1>1, InvAlways, PTL

(* queued_cache_keys are exactly the keys in the FIFO, each once (enqueue, *)
(* rebuild_from_durable, complete_delivery, abandon_delivery).             *)
THEOREM CacheIsFifo == Spec => []CacheMirrorsFifo
<1>1. Inv => CacheMirrorsFifo
  BY DEF Inv
<1>2. QED
  BY <1>1, InvAlways, PTL

(* No message reaches a transport, and no call returns success, before its *)
(* row is committed (record_inbox_delivery).                               *)
THEOREM CommitFirst == Spec => []DurableFirst
<1>1. Inv => DurableFirst
  BY DEF Inv
<1>2. QED
  BY <1>1, InvAlways, PTL

-----------------------------------------------------------------------------
(* What a caller was told would be typed into the pane, Tmux, is in the    *)
(* FIFO, and a consumer task is there to take it: the task that injects    *)
(* (consumer_active) or one on its way to begin_delivery.                  *)
OwedServed ==
  /\ owed \subseteq cached
  /\ active => \E t \in Tasks : task[t] = "inject"
  /\ owed # {} => \E t \in Tasks : task[t] # "off"

(* enqueue_tmux_delivery finds a consumer at work or starts one.           *)
LEMMA EnqueueTmuxServed ==
  ASSUME Inv, OwedServed, NEW e \in Entry, EnqueueTmux(e)
  PROVE  OwedServed'
<1>1. /\ UNCHANGED active /\ owed' = owed \cup ({e.key} \ {NoKey})
      /\ task \in [Tasks -> {"off", "begin", "inject"}]
  BY DEF EnqueueTmux, Inv, TypeOK
<1>2. cached \subseteq cached' /\ {e.key} \ {NoKey} \subseteq cached'
  <2>1. CASE Duplicate(e) /\ UNCHANGED queue
    BY <2>1 DEF Duplicate, queue
  <2>2. CASE Push(e)
    BY <2>2 DEF Push
  <2>3. QED
    BY <2>1, <2>2 DEF EnqueueTmux
<1>3. CASE ~ active /\ Spawn
  <2>1. PICK t \in Tasks : task[t] = "off" /\ task' = [task EXCEPT ![t] = "begin"]
    BY <1>3 DEF Spawn
  <2>2. t \in Tasks /\ task'[t] = "begin"
    BY <1>1, <2>1
  <2>3. QED
    BY <1>1, <1>2, <1>3, <2>2 DEF OwedServed
<1>4. CASE active /\ UNCHANGED task
  BY <1>1, <1>2, <1>4 DEF OwedServed
<1>5. QED
  BY <1>3, <1>4 DEF EnqueueTmux, ShouldStart, Inv, TypeOK

(* A task ends only when another one injects or the FIFO is empty, and     *)
(* with the FIFO nothing is owed.                                          *)
LEMMA BeginServed ==
  ASSUME Inv, OwedServed, NEW t \in Tasks, BeginDelivery(t)
  PROVE  OwedServed'
<1>1. /\ task[t] = "begin" /\ UNCHANGED <<fifo, cached, owed>>
      /\ task \in [Tasks -> {"off", "begin", "inject"}]
  BY DEF BeginDelivery, queue, Inv, TypeOK
<1>2. CASE active /\ task' = [task EXCEPT ![t] = "off"] /\ UNCHANGED active
  <2>1. PICK u \in Tasks : task[u] = "inject"
    BY <1>2 DEF OwedServed
  <2>2. task'[u] = "inject"
    BY <1>1, <1>2, <2>1
  <2>3. QED
    BY <1>1, <1>2, <2>2 DEF OwedServed
<1>3. CASE ~ active /\ fifo = <<>> /\ task' = [task EXCEPT ![t] = "off"] /\ UNCHANGED active
  <2>1. cached = {}
    BY <1>3 DEF Inv, CacheMirrorsFifo, EntryKeys
  <2>2. QED
    BY <1>1, <1>3, <2>1 DEF OwedServed
<1>4. CASE task' = [task EXCEPT ![t] = "inject"]
  <2>1. task'[t] = "inject"
    BY <1>1, <1>4
  <2>2. QED
    BY <1>1, <2>1 DEF OwedServed
<1>5. QED
  BY <1>2, <1>3, <1>4 DEF BeginDelivery, Taken

(* The injected or abandoned message is owed no more, and its task looks   *)
(* for the next one.                                                       *)
LEMMA InjectServed ==
  ASSUME Inv, OwedServed, NEW t \in Tasks, Inject(t) \/ InjectFails(t)
  PROVE  OwedServed'
<1>1. task[t] = "inject" /\ task \in [Tasks -> {"off", "begin", "inject"}]
  BY DEF Inject, InjectFails, Inv, TypeOK
<1>2. CASE Finish(t)
  <2>1. fifo # <<>> /\ Head(fifo) = item[t]
    BY <1>1 DEF Inv, Injection, Injecting
  <2>2. /\ cached' = cached \ {item[t].key} /\ owed' = owed \ {item[t].key} /\ active' = FALSE
        /\ task' = [task EXCEPT ![t] = "begin"]
    BY <1>2, <2>1 DEF Finish
  <2>3. task'[t] = "begin"
    BY <1>1, <2>2
  <2>4. QED
    BY <2>2, <2>3 DEF OwedServed
<1>3. CASE UNCHANGED <<queue, active, task, item, owed>>
  BY <1>3 DEF OwedServed, queue
<1>4. QED
  BY <1>2, <1>3 DEF Inject, InjectFails

(* Every step preserves it.                                                *)
LEMMA NextServed == Inv /\ OwedServed /\ [Next]_vars => OwedServed'
<1> SUFFICES ASSUME Inv, OwedServed, [Next]_vars PROVE OwedServed'
  OBVIOUS
<1>1. ASSUME NEW m \in Msgs,
             \/ ListRows(m) \/ SkipRebuild(m) \/ RecordFails(m) \/ Record(m)
             \/ DeliverTeams(m) \/ Verified(m) \/ DeliverElsewhere(m)
      PROVE  OwedServed'
  <2>1. UNCHANGED <<queue, active, tasks, owed>>
    BY <1>1 DEF ListRows, SkipRebuild, RecordFails, Record, DeliverTeams, Verified, DeliverElsewhere
  <2>2. QED
    BY <2>1 DEF OwedServed, queue, tasks
<1>2. ASSUME NEW m \in Msgs, RebuildOne(m) PROVE OwedServed'
  <2>1. UNCHANGED <<active, task, owed>> /\ EnqueueOnly(EntryOf(Head(todo[m])))
    BY <1>2 DEF RebuildOne, tasks
  <2>2. cached \subseteq cached'
    BY <2>1 DEF EnqueueOnly, Push, queue
  <2>3. QED
    BY <2>1, <2>2 DEF OwedServed
<1>3. ASSUME NEW m \in Msgs, DeliverTmux(m) \/ VerifierFallsBack(m) PROVE OwedServed'
  <2> DEFINE e == [key |-> Key[m], body |-> m]
  <2>1. e \in Entry
    BY DEF Entry, Keys
  <2>2. EnqueueTmux(e) \/ UNCHANGED <<queue, active, tasks, owed>>
    BY <1>3 DEF DeliverTmux, VerifierFallsBack
  <2>3. CASE UNCHANGED <<queue, active, tasks, owed>>
    BY <2>3 DEF OwedServed, queue, tasks
  <2> HIDE DEF e
  <2>4. QED
    BY <2>1, <2>2, <2>3, EnqueueTmuxServed
<1>4. CASE PokeAgent
  <2>1. NoEntry \in Entry
    BY DEF NoEntry, Entry
  <2>2. QED
    BY <1>4, <2>1, EnqueueTmuxServed DEF PokeAgent
<1>5. ASSUME NEW t \in Tasks, Consume(t) PROVE OwedServed'
  BY <1>5, BeginServed, InjectServed DEF Consume
<1>6. CASE Restart
  BY <1>6 DEF Restart, OwedServed
<1>7. CASE DrainUnread \/ UNCHANGED vars
  BY <1>7 DEF DrainUnread, vars, OwedServed, queue, tasks
<1>8. QED
  BY <1>1, <1>2, <1>3, <1>4, <1>5, <1>6, <1>7 DEF Next, Deliver

(* No wakeup is lost: whatever enqueue_tmux_delivery promised to inject    *)
(* has a consumer task until it is injected or given up, though consumers  *)
(* end on their own, start while another is between two messages, and      *)
(* should_start_consumer looks at consumer_active alone.  Only entries     *)
(* nobody was promised (a rebuilt FIFO) can be left without a consumer.    *)
THEOREM OwedHasConsumer == Spec => []OwedServed
<1>1. Init => OwedServed
  BY DEF Init, OwedServed
<1>2. QED
  BY <1>1, InvAlways, NextServed, PTL DEF Spec

-----------------------------------------------------------------------------
(* The FIFO never holds more than its capacity.                            *)
FifoWithinCap == Len(fifo) <= HardCap

(* One step of a server that keeps running: the FIFO is left alone, gets   *)
(* at its end, below its capacity, a batch that it does not hold yet, or   *)
(* loses its head to the task that was injecting exactly that message.     *)
FifoDiscipline ==
  restarts' = restarts =>
    \/ fifo' = fifo
    \/ /\ Len(fifo) < HardCap
       /\ \E e \in Entry : e.key \notin cached /\ fifo' = Append(fifo, e)
    \/ /\ fifo # <<>> /\ fifo' = Tail(fifo)
       /\ owed' = owed \ {Head(fifo).key}
       /\ \E t \in Tasks : /\ task[t] = "inject" /\ item[t] = Head(fifo)
                           /\ task'[t] # "inject"

(* What an enqueue does to the FIFO, for each of its callers.              *)
LEMMA EnqueueDiscipline ==
  ASSUME Inv, NEW e \in Entry,
         \/ UNCHANGED queue
         \/ Push(e) /\ ~ Duplicate(e) /\ ~ Full(e)
  PROVE  FifoDiscipline
<1>1. CASE UNCHANGED queue
  BY <1>1 DEF queue, FifoDiscipline
<1>2. CASE Push(e) /\ ~ Duplicate(e) /\ ~ Full(e)
  <2>1. e.key \notin cached /\ fifo' = Append(fifo, e)
    BY <1>2 DEF Push, Duplicate
  <2>2. Len(fifo) \in Nat
    BY DEF Inv, TypeOK
  <2>3. Len(fifo) < HardCap
    BY <1>2, <2>2, DeliveryAssumption DEF Full
  <2>4. QED
    BY <2>1, <2>3 DEF FifoDiscipline
<1>3. QED
  BY <1>1, <1>2

(* Every step keeps the discipline of the FIFO.                            *)
LEMMA StepDiscipline == Inv /\ [Next]_vars => FifoDiscipline
<1> SUFFICES ASSUME Inv, [Next]_vars PROVE FifoDiscipline
  OBVIOUS
<1>1. ASSUME NEW e \in Entry, EnqueueTmux(e) PROVE FifoDiscipline
  BY <1>1, EnqueueDiscipline DEF EnqueueTmux
<1>2. ASSUME NEW m \in Msgs, RebuildOne(m) PROVE FifoDiscipline
  <2> DEFINE e == EntryOf(Head(todo[m]))
  <2>1. EnqueueOnly(e)
    BY <1>2 DEF RebuildOne
  <2>2. e \in Entry
    <3>1. todo[m] \in Seq(Row) /\ todo[m] # <<>>
      BY <1>2 DEF RebuildOne, Inv, TypeOK, Todo
    <3>2. Head(todo[m]) \in Row
      BY <3>1
    <3>3. QED
      BY <3>2 DEF EntryOf, Entry, Row
  <2> HIDE DEF e
  <2>3. QED
    BY <2>1, <2>2, EnqueueDiscipline DEF EnqueueOnly
<1>3. ASSUME NEW m \in Msgs, VerifierFallsBack(m) \/ DeliverTmux(m) PROVE FifoDiscipline
  <2> DEFINE e == [key |-> Key[m], body |-> m]
  <2>1. e \in Entry
    BY DEF Entry, Keys
  <2>2. EnqueueTmux(e) \/ UNCHANGED queue
    BY <1>3 DEF VerifierFallsBack, DeliverTmux
  <2> HIDE DEF e
  <2>3. QED
    BY <1>1, <2>1, <2>2 DEF queue, FifoDiscipline
<1>4. CASE PokeAgent
  <2>1. NoEntry \in Entry
    BY DEF NoEntry, Entry
  <2>2. QED
    BY <1>1, <1>4, <2>1 DEF PokeAgent
<1>5. ASSUME NEW t \in Tasks, Inject(t) \/ InjectFails(t) PROVE FifoDiscipline
  <2>1. task[t] = "inject" /\ fifo # <<>> /\ Head(fifo) = item[t]
    BY <1>5 DEF Inject, InjectFails, Inv, Injection, Injecting
  <2>2. CASE Finish(t)
    <3>1. fifo' = Tail(fifo) /\ owed' = owed \ {Head(fifo).key} /\ task' = [task EXCEPT ![t] = "begin"]
      BY <2>1, <2>2 DEF Finish
    <3>2. task'[t] # "inject"
      BY <3>1 DEF Inv, TypeOK
    <3>3. QED
      BY <2>1, <3>1, <3>2 DEF FifoDiscipline
  <2>3. CASE UNCHANGED queue
    BY <2>3 DEF queue, FifoDiscipline
  <2>4. QED
    BY <1>5, <2>2, <2>3 DEF Inject, InjectFails
<1>6. CASE Restart
  <2>1. restarts' # restarts
    BY <1>6 DEF Restart, Inv, TypeOK
  <2>2. QED
    BY <2>1 DEF FifoDiscipline
<1>7. ASSUME UNCHANGED queue PROVE FifoDiscipline
  BY <1>7 DEF queue, FifoDiscipline
<1>8. ASSUME NEW m \in Msgs, ListRows(m) \/ SkipRebuild(m) \/ Deliver(m) PROVE FifoDiscipline
  <2>1. \/ RebuildOne(m) \/ VerifierFallsBack(m) \/ DeliverTmux(m) \/ UNCHANGED queue
    BY <1>8 DEF Deliver, ListRows, SkipRebuild, Record, RecordFails, DeliverTeams, DeliverElsewhere, Verified
  <2>2. QED
    BY <1>2, <1>3, <1>7, <2>1
<1>9. ASSUME NEW t \in Tasks, BeginDelivery(t) PROVE UNCHANGED queue
  BY <1>9 DEF BeginDelivery
<1>10. DrainUnread \/ UNCHANGED vars => UNCHANGED queue
  BY DEF DrainUnread, vars
<1>11. QED
  BY <1>4, <1>5, <1>6, <1>7, <1>8, <1>9, <1>10 DEF Next, Consume

(* While the server runs, a FIFO it is: nothing is inserted or removed in  *)
(* the middle, no copy is put in twice, and each message leaves at the     *)
(* head, by the consumer that injected or abandoned exactly that one,      *)
(* however many consumers, rebuilds and deliveries interleave (enqueue,    *)
(* rebuild_from_durable, complete_delivery, abandon_delivery).             *)
THEOREM FirstInFirstOut == Spec => [][FifoDiscipline]_vars
BY StepDiscipline, InvAlways, PTL DEF Spec

(* The FIFO stays within its hard cap, also when concurrent rebuilds work  *)
(* off stale lists of rows and at a restart with more rows than that       *)
(* (enqueue, rebuild_durable_inbox_caches).                                *)
THEOREM CapRespected == Spec => []FifoWithinCap
<1>1. Init => FifoWithinCap
  BY DeliveryAssumption DEF Init, FifoWithinCap
<1>2. Inv /\ FifoWithinCap /\ FifoDiscipline /\ [Next]_vars => FifoWithinCap'
  <2> SUFFICES ASSUME Inv, FifoWithinCap, FifoDiscipline, [Next]_vars PROVE FifoWithinCap'
    OBVIOUS
  <2>1. fifo \in Seq(Entry) /\ Len(fifo) \in Nat /\ HardCap \in Nat
    BY DeliveryAssumption DEF Inv, TypeOK
  <2>2. CASE restarts' = restarts
    <3>1. CASE fifo' = fifo
      BY <3>1 DEF FifoWithinCap
    <3>2. CASE Len(fifo) < HardCap /\ \E e \in Entry : fifo' = Append(fifo, e)
      <4>1. Len(fifo') = Len(fifo) + 1
        BY <2>1, <3>2
      <4>2. QED
        BY <2>1, <3>2, <4>1 DEF FifoWithinCap
    <3>3. CASE fifo # <<>> /\ fifo' = Tail(fifo)
      <4>1. Len(fifo') = Len(fifo) - 1
        BY <2>1, <3>3
      <4>2. QED
        BY <2>1, <4>1 DEF FifoWithinCap
    <3>4. QED
      BY <2>2, <3>1, <3>2, <3>3 DEF FifoDiscipline
  <2>3. CASE restarts' # restarts
    <3>1. Restart
      BY <2>3 DEF Next, vars, ListRows, SkipRebuild, Deliver, RebuildOne, Record, RecordFails, DeliverTeams, DeliverTmux,
                  DeliverElsewhere, Verified, VerifierFallsBack, Consume, BeginDelivery, Inject, InjectFails,
                  PokeAgent, DrainUnread
    <3> DEFINE n == IF Len(rows) < HardCap THEN Len(rows) ELSE HardCap
    <3>2. n \in Nat /\ n <= HardCap
      <4>1. Len(rows) \in Nat
        BY DEF Inv, TypeOK
      <4>2. QED
        BY <2>1, <4>1
    <3>3. fifo' = [i \in 1 .. n |-> EntryOf(rows[i])]
      BY <3>1 DEF Restart, Rebuilt
    <3> HIDE DEF n
    <3>4. Len(fifo') = n
      BY <3>2, <3>3
    <3>5. QED
      BY <3>2, <3>4 DEF FifoWithinCap
  <2>4. QED
    BY <2>2, <2>3
<1>3. QED
  BY <1>1, <1>2, StepDiscipline, InvAlways, PTL DEF Spec
=============================================================================
