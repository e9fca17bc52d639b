------------------------------- MODULE Delivery -------------------------------
(***************************************************************************)
(* Delivery of messages to one agent                                       *)
(* (rust/exomonad-core/src/services/delivery.rs, agent_inbox.rs): every    *)
(* message is first committed as a durable guidance row, then tried on the *)
(* teams inbox, the agent's socket and the tmux FIFO.  The FIFO is a cache *)
(* in the server process, rebuilt from the pending rows before a delivery  *)
(* and at the start of the server; consumer tasks inject its head into the *)
(* agent's pane.                                                           *)
(*                                                                         *)
(* No production code claims or acknowledges a row, so the rows modelled   *)
(* here stay pending.  The agent is always addressed by one key.  Which    *)
(* transport works is the environment's choice at each call.               *)
(***************************************************************************)
EXTENDS Integers, Sequences, FiniteSets

CONSTANTS Msgs,        \* the messages, each delivered by one call
          Key,         \* Key[m]: idempotency_key_for_message
          Class,       \* Class[m]: its queue class
          NoKey,       \* the key of a notification without durable row
          Poke,        \* the body of an inbox poke
          Tasks,       \* bound: consumer tasks that exist at a time
          HardCap,     \* capacity of the FIFO (32)
          MaxAttempts, \* injections of one message (8)
          MaxRestarts  \* bound: restarts of the server

Keys == {Key[m] : m \in Msgs}

ASSUME DeliveryAssumption ==
  /\ NoKey \notin Keys /\ Poke \notin Msgs
  /\ Class \in [Msgs -> {"steering", "follow_up"}]
  /\ HardCap \in Nat /\ MaxAttempts \in Nat \ {0} /\ MaxRestarts \in Nat

Entry == [key : Keys \cup {NoKey}, body : Msgs \cup {Poke}]
NoEntry == [key |-> NoKey, body |-> Poke]

VARIABLES rows,      \* pending guidance rows by queue_seq: [key, body, class]
          unread,    \* the durable inbox has messages the agent has not read
          fifo,      \* AgentQueue.messages
          cached,    \* AgentQueue.queued_cache_keys
          active,    \* AgentQueue.consumer_active
          task,      \* each consumer task: "off", "begin" or "inject"
          item,      \* the message a task injects
          attempt,   \* its attempts so far
          call,      \* each call: "idle", "rebuild", "record", "route",
                     \*   "verify" or "done"
          todo,      \* the rows a call's rebuild has yet to enqueue
          result,    \* its DeliveryResult: "ok" for all but Failed
          owed,      \* history: keys answered Tmux, not yet injected or dropped
          restarts

durable == <<rows, unread>>
queue   == <<fifo, cached>>
tasks   == <<task, item, attempt>>
calls   == <<call, todo, result>>
vars    == <<durable, queue, active, tasks, calls, owed, restarts>>

Row     == [key : Keys, body : Msgs, class : {"steering", "follow_up"}]
Results == {"none", "ok", "Failed"}
RowKeys(rs)   == {rs[i].key : i \in DOMAIN rs}
EntryKeys(es) == {es[i].key : i \in DOMAIN es} \ {NoKey}
-----------------------------------------------------------------------------
Init ==
  /\ rows = <<>> /\ unread = FALSE
  /\ fifo = <<>> /\ cached = {} /\ active = FALSE
  /\ task = [t \in Tasks |-> "off"]
  /\ item = [t \in Tasks |-> NoEntry]
  /\ attempt = [t \in Tasks |-> 0]
  /\ call = [m \in Msgs |-> "idle"]
  /\ todo = [m \in Msgs |-> <<>>]
  /\ result = [m \in Msgs |-> "none"]
  /\ owed = {} /\ restarts = 0

(* message_from_batch                                                      *)
EntryOf(r) == [key |-> r.key, body |-> r.body]

(* AgentInbox::enqueue: the three outcomes for an entry.                   *)
Duplicate(e) == e.key \in cached

Full(e) == ~ Duplicate(e) /\ Len(fifo) >= HardCap

(* Mutant: the key is not recorded with the copy.                          *)
Push_NoKey(e) ==
  /\ fifo' = Append(fifo, e)
  /\ UNCHANGED cached

Push(e) ==
  /\ fifo' = Append(fifo, e)
  /\ cached' = cached \cup ({e.key} \ {NoKey})

(* enqueue, when its outcome is not used further: rebuild_from_durable.    *)
EnqueueOnly(e) ==
  IF Duplicate(e) \/ Full(e) THEN UNCHANGED queue ELSE Push(e)

(* Mutant: only the first message of an empty FIFO starts a consumer.      *)
ShouldStart_First == ~ active /\ fifo = <<>>

(* should_start_consumer                                                   *)
ShouldStart == ~ active

(* spawn_inbox_consumer                                                    *)
Spawn == \E t \in Tasks : /\ task[t] = "off"
                          /\ task' = [task EXCEPT ![t] = "begin"]

(* enqueue_tmux_delivery, unless the FIFO is full.                         *)
EnqueueTmux(e) ==
  /\ ~ Full(e)
  /\ IF Duplicate(e) THEN UNCHANGED queue ELSE Push(e)
  /\ IF ShouldStart THEN Spawn ELSE UNCHANGED task
  /\ owed' = owed \cup ({e.key} \ {NoKey})
  /\ UNCHANGED <<active, item, attempt>>

(* The end of a call.                                                      *)
Return(m, r) ==
  /\ call' = [call EXCEPT ![m] = "done"]
  /\ result' = [result EXCEPT ![m] = r]
-----------------------------------------------------------------------------
(* deliver_to_agent_with_class: rebuild_from_durable reads the rows that   *)
(* are pending now.                                                        *)
ListRows(m) ==
  /\ call[m] = "idle"
  /\ todo' = [todo EXCEPT ![m] = rows]
  /\ call' = [call EXCEPT ![m] = IF rows = <<>> THEN "record" ELSE "rebuild"]
  /\ UNCHANGED <<durable, queue, active, tasks, result, owed, restarts>>

(* deliver_to_agent_for, TmuxOnly and MailboxOnly: no rebuild.             *)
SkipRebuild(m) ==
  /\ call[m] = "idle"
  /\ call' = [call EXCEPT ![m] = "record"]
  /\ UNCHANGED <<durable, queue, active, tasks, todo, result, owed, restarts>>

(* rebuild_from_durable enqueues one row; a full FIFO ends it.             *)
RebuildOne(m) ==
  /\ call[m] = "rebuild"
  /\ LET e    == EntryOf(Head(todo[m]))
         left == IF Full(e) THEN <<>> ELSE Tail(todo[m])
     IN  /\ EnqueueOnly(e)
         /\ todo' = [todo EXCEPT ![m] = left]
         /\ call' = [call EXCEPT ![m] = IF left = <<>> THEN "record" ELSE @]
  /\ UNCHANGED <<durable, active, tasks, result, owed, restarts>>

(* enqueue_batch_with_compatibility: a known key returns its batch, a      *)
(* known key of the other class is refused; a new row comes with a message *)
(* in the durable inbox.                                                   *)
OtherClass(m) ==
  \E i \in DOMAIN rows : rows[i].key = Key[m] /\ rows[i].class # Class[m]

(* Mutant: a message that could not be committed is routed all the same.   *)
RecordFails_Ignored(m) ==
  /\ call[m] = "record"
  /\ call' = [call EXCEPT ![m] = "route"]
  /\ UNCHANGED <<durable, queue, active, tasks, todo, result, owed, restarts>>

(* record_inbox_delivery fails, on the class or in the database.           *)
RecordFails(m) ==
  /\ call[m] = "record"
  /\ Return(m, "Failed")
  /\ UNCHANGED <<durable, queue, active, tasks, todo, owed, restarts>>

Record(m) ==
  /\ call[m] = "record" /\ ~ OtherClass(m)
  /\ IF Key[m] \in RowKeys(rows)
     THEN UNCHANGED durable
     ELSE /\ rows' = Append(rows, [key |-> Key[m], body |-> m,
                                   class |-> Class[m]])
          /\ unread' = TRUE
  /\ call' = [call EXCEPT ![m] = "route"]
  /\ UNCHANGED <<queue, active, tasks, todo, result, owed, restarts>>

(* The teams inbox took the message of a recipient the registry knows: a   *)
(* verifier is started.                                                    *)
DeliverTeams(m) ==
  /\ call[m] = "route"
  /\ call' = [call EXCEPT ![m] = "verify"]
  /\ result' = [result EXCEPT ![m] = "ok"]
  /\ UNCHANGED <<durable, queue, active, tasks, todo, owed, restarts>>

(* The verifier sees the message read within 30 s.                         *)
Verified(m) ==
  /\ call[m] = "verify"
  /\ call' = [call EXCEPT ![m] = "done"]
  /\ UNCHANGED <<durable, queue, active, tasks, todo, result, owed, restarts>>

(* It does not, and falls back to the FIFO, or finds it full.              *)
VerifierFallsBack(m) ==
  /\ call[m] = "verify"
  /\ LET e == [key |-> Key[m], body |-> m]
     IN  \/ EnqueueTmux(e)
         \/ Full(e) /\ UNCHANGED <<queue, active, tasks, owed>>
  /\ call' = [call EXCEPT ![m] = "done"]
  /\ UNCHANGED <<durable, todo, result, restarts>>

(* deliver_via_tmux, with an exact live pane.                              *)
DeliverTmux(m) ==
  /\ call[m] = "route"
  /\ EnqueueTmux([key |-> Key[m], body |-> m])
  /\ Return(m, "ok")
  /\ UNCHANGED <<durable, todo, restarts>>

(* The teams inbox without a verifier or the agent's socket took it, or no *)
(* transport did (no route, a stale pane, a full FIFO) and it is Durable.  *)
DeliverElsewhere(m) ==
  /\ call[m] = "route"
  /\ Return(m, "ok")
  /\ UNCHANGED <<durable, queue, active, tasks, todo, owed, restarts>>
-----------------------------------------------------------------------------
(* Mutant: consumer_active is not looked at.                               *)
Taken_Never == FALSE

(* AgentInbox::begin_delivery has nothing for this task.                   *)
Taken == active

(* begin_delivery: the task takes the head, or ends.                       *)
BeginDelivery(t) ==
  /\ task[t] = "begin"
  /\ IF Taken \/ fifo = <<>>
     THEN task' = [task EXCEPT ![t] = "off"] /\ UNCHANGED <<active, item>>
     ELSE /\ active' = TRUE
          /\ item' = [item EXCEPT ![t] = Head(fifo)]
          /\ task' = [task EXCEPT ![t] = "inject"]
  /\ attempt' = [attempt EXCEPT ![t] = 0]
  /\ UNCHANGED <<durable, queue, calls, owed, restarts>>

(* complete_delivery and abandon_delivery: the head is popped if it is the *)
(* task's message, its key forgotten, and the task looks for the next one. *)
Finish(t) ==
  /\ IF fifo # <<>> /\ Head(fifo) = item[t]
     THEN /\ fifo' = Tail(fifo)
          /\ cached' = cached \ {item[t].key}
     ELSE UNCHANGED queue
  /\ active' = FALSE
  /\ task' = [task EXCEPT ![t] = "begin"]
  /\ item' = [item EXCEPT ![t] = NoEntry]
  /\ attempt' = [attempt EXCEPT ![t] = 0]
  /\ owed' = owed \ {item[t].key}

(* run_inbox_consumer: an injection succeeds.                              *)
Inject(t) ==
  /\ task[t] = "inject"
  /\ Finish(t)
  /\ UNCHANGED <<durable, calls, restarts>>

(* Mutant: one attempt more.                                               *)
InjectFails_OneMore(t) ==
  /\ task[t] = "inject"
  /\ IF attempt[t] >= MaxAttempts
     THEN Finish(t)
     ELSE /\ attempt' = [attempt EXCEPT ![t] = @ + 1]
          /\ UNCHANGED <<queue, active, task, item, owed>>
  /\ UNCHANGED <<durable, calls, restarts>>

(* An injection fails (or panics): retried, then abandoned.                *)
InjectFails(t) ==
  /\ task[t] = "inject"
  /\ IF attempt[t] + 1 >= MaxAttempts
     THEN Finish(t)
     ELSE /\ attempt' = [attempt EXCEPT ![t] = @ + 1]
          /\ UNCHANGED <<queue, active, task, item, owed>>
  /\ UNCHANGED <<durable, calls, restarts>>
-----------------------------------------------------------------------------
(* poke_unread_inbox_agents: a notification without a durable row, sent    *)
(* when a poke is due; without a live pane or with a full FIFO it fails.   *)
PokeAgent ==
  /\ unread
  /\ EnqueueTmux(NoEntry)
  /\ UNCHANGED <<durable, calls, restarts>>

(* The agent reads its durable inbox: drain_unread.                        *)
DrainUnread ==
  /\ unread
  /\ unread' = FALSE
  /\ UNCHANGED <<rows, queue, active, tasks, calls, owed, restarts>>

(* rebuild_durable_inbox_caches into an empty FIFO.                        *)
Rebuilt == LET n == IF Len(rows) < HardCap THEN Len(rows) ELSE HardCap
           IN  [i \in 1 .. n |-> EntryOf(rows[i])]

(* The server stops, taking calls and tasks with it, and starts again.     *)
Restart ==
  /\ restarts < MaxRestarts
  /\ restarts' = restarts + 1
  /\ fifo' = Rebuilt
  /\ cached' = EntryKeys(Rebuilt)
  /\ active' = FALSE
  /\ task' = [t \in Tasks |-> "off"]
  /\ item' = [t \in Tasks |-> NoEntry]
  /\ attempt' = [t \in Tasks |-> 0]
  /\ call' = [m \in Msgs |-> IF call[m] = "idle" THEN "idle" ELSE "done"]
  /\ todo' = [m \in Msgs |-> <<>>]
  /\ owed' = {}
  /\ UNCHANGED <<durable, result>>
-----------------------------------------------------------------------------
Deliver(m) ==
  \/ RebuildOne(m) \/ Record(m) \/ RecordFails(m)
  \/ DeliverTeams(m) \/ DeliverTmux(m) \/ DeliverElsewhere(m)
  \/ Verified(m) \/ VerifierFallsBack(m)

Consume(t) == BeginDelivery(t) \/ Inject(t) \/ InjectFails(t)

Next ==
  \/ \E m \in Msgs : ListRows(m) \/ SkipRebuild(m) \/ Deliver(m)
  \/ \E t \in Tasks : Consume(t)
  \/ PokeAgent \/ DrainUnread \/ Restart

Spec == Init /\ [][Next]_vars

(* Calls and consumer tasks run on, and the watcher keeps poking; whether  *)
(* a call is made, mail is read or the server restarts is nobody's duty.   *)
FairSpec ==
  /\ Spec
  /\ \A m \in Msgs : WF_vars(Deliver(m))
  /\ \A t \in Tasks : WF_vars(Consume(t))
  /\ WF_vars(PokeAgent)
-----------------------------------------------------------------------------
(* Type invariant.                                                         *)
TypeOK ==
  /\ rows \in Seq(Row) /\ unread \in BOOLEAN
  /\ fifo \in Seq(Entry) /\ cached \subseteq Keys /\ active \in BOOLEAN
  /\ task \in [Tasks -> {"off", "begin", "inject"}]
  /\ item \in [Tasks -> Entry]
  /\ attempt \in [Tasks -> 0 .. MaxAttempts - 1]
  /\ call \in [Msgs -> {"idle", "rebuild", "record", "route", "verify",
                        "done"}]
  /\ todo \in [Msgs -> Seq(Row)]
  /\ result \in [Msgs -> Results]
  /\ owed \subseteq Keys
  /\ restarts \in Nat

(* However many consumers are started while another one is between two     *)
(* messages, at most one injects, and what it injects is the head of the   *)
(* FIFO, so that the head it pops afterwards is its own message.           *)
OneInjection ==
  \A t, u \in Tasks :
    task[t] = "inject" /\ task[u] = "inject" =>
      t = u /\ active /\ fifo # <<>> /\ Head(fifo) = item[t]

(* queued_cache_keys are exactly the keys in the FIFO, and no batch is in  *)
(* it twice, though rebuilds and deliveries enqueue the same rows          *)
(* concurrently and injections remove them.                                *)
CacheMirrorsFifo ==
  /\ cached = EntryKeys(fifo)
  /\ \A i, j \in DOMAIN fifo :
       fifo[i].key = fifo[j].key /\ fifo[i].key # NoKey => i = j

(* Commit before transport: a call that did not fail, and anything in the  *)
(* FIFO, has a pending row that survives a restart.                        *)
DurableFirst ==
  /\ cached \cup owed \subseteq RowKeys(rows)
  /\ \A m \in Msgs :
       result[m] = "ok" =>
         Key[m] \in RowKeys(rows)

(* A batch that was answered with Tmux is injected or, after its retries,  *)
(* abandoned, unless the server stops first.                               *)
OwedIsHandled == \A k \in Keys : k \in owed ~> k \notin owed

(* The consumer "exits only when the queue is empty; a failing delivery is *)
(* retried with backoff and then abandoned, never left stranded without a  *)
(* consumer" (delivery.rs:1069).                                           *)
NotStranded == fifo # <<>> ~> active \/ fifo = <<>>
=============================================================================
