-------------------------- MODULE WebhookDelivery --------------------------
(***************************************************************************)
(* The webhook outbox and the worker that drains it.  A delivery is a row  *)
(* of WebhookDelivery; setInterval starts a worker tick every second, and  *)
(* a tick selects a batch of due PENDING rows, then dispatches them one by *)
(* one: an await for the POST (or the in-process handler), then an UPDATE  *)
(* by id computed from the row as it was SELECTED.  Nothing stops a second *)
(* tick from starting while the first still awaits, so Ticks is the number *)
(* of ticks that can overlap; with one element, every tick ends within its *)
(* second.  Editors cancel, retry and test deliveries, and edit webhooks,  *)
(* meanwhile; the process may crash between any two steps.                 *)
(*                                                                         *)
(* The clock is abstracted to the order in which rows become due.  Ids are *)
(* UUIDs: a fresh id is one nothing in flight names, so ids are recycled.  *)
(***************************************************************************)
EXTENDS Naturals, Sequences, FiniteSets

CONSTANTS Deliveries,   \* delivery ids
          External,     \* ids of the operator's webhooks
          Internal,     \* the system's own webhooks, ensured at every boot
          Handlers,     \* the internal webhooks this build has a handler for
          Ticks,        \* worker ticks that can be in progress at once
          Editors,      \* editor requests (cancel, test) that can be in flight
          MaxAttempts,  \* MAX_ATTEMPTS
          BatchSize,    \* DEFAULT_BATCH
          MaxCrashes,   \* bound on the number of process crashes
          MaxSeen,      \* where the history counters saturate
          NoDelivery, NoWebhook

Webhooks == External \cup Internal

ASSUME WebhookAssumption ==
    /\ External \cap Internal = {} /\ Handlers \subseteq Internal
    /\ NoDelivery \notin Deliveries /\ NoWebhook \notin Webhooks
    /\ MaxAttempts \in Nat \ {0} /\ BatchSize \in Nat \ {0}
    /\ MaxCrashes \in Nat /\ MaxSeen \in Nat
    /\ MaxSeen > MaxAttempts + MaxCrashes

VARIABLES hook,      \* the Webhook table: absent, on (enabled) or off
          row,       \* the WebhookDelivery table
          queue,     \* the due PENDING rows, in the order of nextAttemptAt
          batch,     \* per tick: the selected rows still to dispatch
          flight,    \* per tick: the outcome of the dispatch being awaited
          editor,    \* the editor requests in flight
          posts,     \* history: dispatches of a delivery, as its receiver saw them
          accepted,  \* history: those the receiver answered with success
          crashes

vars == <<hook, row, queue, batch, flight, editor, posts, accepted, crashes>>
workerVars == <<batch, flight>>
history == <<posts, accepted>>

DeliveryStatus == {"PENDING", "SUCCESS", "FAILED", "DEAD_LETTERED"}
Terminal == DeliveryStatus \ {"PENDING"}
Bodies == {"placeholder", "composed"}
Outcomes == {"gone", "unhandled", "blocked", "ok", "error"}

Delivery == [hook : Webhooks, status : DeliveryStatus, attempts : 0..MaxAttempts,
             body : Bodies, completed : BOOLEAN]
NoRow == [hook |-> NoWebhook, status |-> "NONE", attempts |-> 0,
          body |-> "placeholder", completed |-> FALSE]

\* What selectPending returns of a row, and dispatch works from.
Selected == [id : Deliveries, hook : Webhooks, attempts : 0..(MaxAttempts - 1),
             body : Bodies]
Idle == [op |-> "idle", id |-> NoDelivery]

Live(d) == row[d] # NoRow

InHand(t) == {batch[t][i].id : i \in DOMAIN batch[t]}
Named == (UNION {InHand(t) : t \in Ticks}) \cup {editor[e].id : e \in Editors}

FreshDelivery(d) == ~Live(d) /\ d \notin Named

\* The queue without the ids in S, in the same order: the one sequence of this set,
\* by the positions that stay.
Kept(S) == {i \in DOMAIN queue : queue[i] \notin S}
Without(S) ==
    {[i \in DOMAIN at |-> queue[at[i]]] :
        at \in {f \in [1..Cardinality(Kept(S)) -> Kept(S)] :
                  \A i, j \in DOMAIN f : i < j => f[i] < f[j]}}

Due == {d \in Deliveries : row[d].status = "PENDING"
                            /\ \E i \in DOMAIN queue : queue[i] = d}

Insert(d, i) == SubSeq(queue, 1, i) \o <<d>> \o SubSeq(queue, i + 1, Len(queue))

Counted(n) == IF n < MaxSeen THEN n + 1 ELSE n

\* ensureSearchSyncWebhook, ensureCacheInvalidationWebhook: create the row if it
\* is missing, and leave an operator's choice to disable it alone.
Ensured(h) == [w \in Webhooks |-> IF w \in Internal /\ h[w] = "absent" THEN "on" ELSE h[w]]

Init ==
    /\ hook = Ensured([w \in Webhooks |-> "absent"])
    /\ row = [d \in Deliveries |-> NoRow]
    /\ queue = <<>>
    /\ batch = [t \in Ticks |-> <<>>]
    /\ flight = [t \in Ticks |-> "none"]
    /\ editor = [e \in Editors |-> Idle]
    /\ posts = [d \in Deliveries |-> 0]
    /\ accepted = [d \in Deliveries |-> 0]
    /\ crashes = 0

(***************************************************************************)
(* Enqueueing.  A new row is PENDING and due at once, behind the rows that *)
(* are already due.                                                        *)
(***************************************************************************)
\* Mutant: a retried delivery keeps the attempts of the original.
NewRowExhausted(d, w, b) ==
    /\ FreshDelivery(d)
    /\ row' = [row EXCEPT ![d] = [hook |-> w, status |-> "PENDING",
                                  attempts |-> MaxAttempts - 1, body |-> b,
                                  completed |-> FALSE]]
    /\ queue' = Append(queue, d)
    /\ posts' = [posts EXCEPT ![d] = 0]
    /\ accepted' = [accepted EXCEPT ![d] = 0]

\* Mutant: nextAttemptAt NULL sorts first, so the newest row overtakes the rest.
NewRowFirst(d, w, b) ==
    /\ FreshDelivery(d)
    /\ row' = [row EXCEPT ![d] = [hook |-> w, status |-> "PENDING", attempts |-> 0,
                                  body |-> b, completed |-> FALSE]]
    /\ queue' = <<d>> \o queue
    /\ posts' = [posts EXCEPT ![d] = 0]
    /\ accepted' = [accepted EXCEPT ![d] = 0]

NewRow(d, w, b) ==
    /\ FreshDelivery(d)
    /\ row' = [row EXCEPT ![d] = [hook |-> w, status |-> "PENDING", attempts |-> 0,
                                  body |-> b, completed |-> FALSE]]
    /\ queue' = Append(queue, d)
    /\ posts' = [posts EXCEPT ![d] = 0]
    /\ accepted' = [accepted EXCEPT ![d] = 0]

\* insertDeliveries inside the caller's transaction: the placeholder and its
\* payload become visible together, and only enabled webhooks receive one.
Enqueue(d, w) ==
    /\ hook[w] = "on"
    /\ NewRow(d, w, "composed")
    /\ UNCHANGED <<hook, workerVars, editor, crashes>>

\* Mutant: the original row is requeued in place.
RetryInPlace(d, original) ==
    /\ Live(original) /\ original \notin Named
    /\ row' = [row EXCEPT ![original].status = "PENDING", ![original].attempts = 0]
    /\ \E left \in Without({original}) : queue' = Append(left, original)
    /\ UNCHANGED <<hook, workerVars, editor, history, crashes>>

\* retry.post: a new row for the same webhook, whatever the original's status.
Retry(d, original) ==
    /\ Live(original)
    /\ NewRow(d, row[original].hook, row[original].body)
    /\ UNCHANGED <<hook, workerVars, editor, crashes>>

\* test.post: the placeholder is created, and filled, outside any transaction.
TestCreate(e, d, w) ==
    /\ editor[e] = Idle
    /\ w \in External /\ hook[w] # "absent"
    /\ NewRow(d, w, "placeholder")
    /\ editor' = [editor EXCEPT ![e] = [op |-> "test", id |-> d]]
    /\ UNCHANGED <<hook, workerVars, crashes>>

TestFill(e) ==
    /\ editor[e].op = "test"
    /\ LET d == editor[e].id
       IN  row' = IF Live(d) THEN [row EXCEPT ![d].body = "composed"] ELSE row
    /\ editor' = [editor EXCEPT ![e] = Idle]
    /\ UNCHANGED <<hook, queue, workerVars, history, crashes>>

(***************************************************************************)
(* The worker.                                                             *)
(***************************************************************************)
\* selectPending: the due PENDING rows, oldest nextAttemptAt first, at most
\* BatchSize, each row once.  Its row locks end with the SELECT.
Select(t) ==
    /\ batch[t] = <<>>
    /\ \E n \in 1..BatchSize : \E ids \in [1..n -> Due] :
           /\ n <= Len(queue) /\ (n = BatchSize \/ n = Len(queue))
           /\ \A i \in 1..n : ids[i] = queue[i]
           /\ \A i, j \in 1..n : ids[i] = ids[j] => i = j
           /\ batch' = [batch EXCEPT ![t] =
                  [i \in 1..n |-> [id |-> ids[i], hook |-> row[ids[i]].hook,
                                   attempts |-> row[ids[i]].attempts,
                                   body |-> row[ids[i]].body]]]
    /\ UNCHANGED <<hook, row, queue, flight, editor, history, crashes>>

\* The first half of dispatch for the head of the batch, up to the awaited
\* answer: the outcome is settled here and recorded by Record.
Send(t) ==
    /\ batch[t] # <<>> /\ flight[t] = "none"
    /\ LET p == Head(batch[t])
           posted == /\ hook[p.hook] # "absent"
                     /\ p.hook \in External \cup Handlers
       IN  \/ /\ hook[p.hook] = "absent"
              /\ flight' = [flight EXCEPT ![t] = "gone"]
              /\ UNCHANGED history
           \/ /\ hook[p.hook] # "absent" /\ p.hook \in Internal \ Handlers
              /\ flight' = [flight EXCEPT ![t] = "unhandled"]
              /\ UNCHANGED history
           \/ \* The DNS guard refuses the address.
              /\ posted /\ p.hook \in External
              /\ flight' = [flight EXCEPT ![t] = "blocked"]
              /\ UNCHANGED history
           \/ /\ posted
              /\ flight' = [flight EXCEPT ![t] = "ok"]
              /\ posts' = [posts EXCEPT ![p.id] = Counted(@)]
              /\ accepted' = [accepted EXCEPT ![p.id] = Counted(@)]
           \/ \* Not 2xx, a transport error, the 10 s timeout, a handler that throws.
              /\ posted
              /\ flight' = [flight EXCEPT ![t] = "error"]
              /\ posts' = [posts EXCEPT ![p.id] = Counted(@)]
              /\ UNCHANGED accepted
    /\ UNCHANGED <<hook, row, queue, batch, editor, crashes>>

\* Mutant: only answers count, so a failed dispatch leaves attempts as it was.
AttemptsAfterSuccessOnly(p, outcome) ==
    IF outcome \in {"gone", "error"} THEN p.attempts ELSE p.attempts + 1

AttemptsAfter(p, outcome) == IF outcome = "gone" THEN p.attempts ELSE p.attempts + 1

\* Mutant: gives up one attempt early.
StatusAfterEarly(p, outcome) ==
    CASE outcome = "ok" -> "SUCCESS"
      [] outcome \in {"gone", "blocked"} -> "FAILED"
      [] outcome = "error" /\ p.attempts + 2 < MaxAttempts -> "PENDING"
      [] OTHER -> "DEAD_LETTERED"

StatusAfter(p, outcome) ==
    CASE outcome = "ok" -> "SUCCESS"
      [] outcome \in {"gone", "blocked"} -> "FAILED"
      [] outcome = "error" /\ p.attempts + 1 < MaxAttempts -> "PENDING"
      [] OTHER -> "DEAD_LETTERED"

\* Mutant: the update of a success is forgotten.
RecordOnlyFailures(t) ==
    /\ flight[t] # "none"
    /\ LET p == Head(batch[t])
           s == StatusAfter(p, flight[t])
       IN  IF Live(p.id) /\ s # "SUCCESS"
           THEN /\ row' = [row EXCEPT ![p.id].status = s,
                                      ![p.id].attempts = AttemptsAfter(p, flight[t]),
                                      ![p.id].completed = @ \/ s # "PENDING"]
                /\ queue' \in Without({p.id})
                /\ batch' = [batch EXCEPT ![t] = Tail(@)]
           ELSE /\ batch' = [batch EXCEPT ![t] = Tail(@)]
                /\ UNCHANGED <<row, queue>>
    /\ flight' = [flight EXCEPT ![t] = "none"]
    /\ UNCHANGED <<hook, editor, history, crashes>>

\* The second half of dispatch: UPDATE by id, whatever the row says by now.  A
\* row that was deleted meanwhile makes it throw, which abandons the batch.  A
\* rescheduled row leaves the queue until its backoff is over; completedAt, once
\* set, is never cleared.
Record(t) ==
    /\ flight[t] # "none"
    /\ LET p == Head(batch[t])
           s == StatusAfter(p, flight[t])
       IN  IF Live(p.id)
           THEN /\ row' = [row EXCEPT ![p.id].status = s,
                                      ![p.id].attempts = AttemptsAfter(p, flight[t]),
                                      ![p.id].completed = @ \/ s # "PENDING"]
                /\ queue' \in Without({p.id})
                /\ batch' = [batch EXCEPT ![t] = Tail(@)]
           ELSE /\ batch' = [batch EXCEPT ![t] = <<>>]
                /\ UNCHANGED <<row, queue>>
    /\ flight' = [flight EXCEPT ![t] = "none"]
    /\ UNCHANGED <<hook, editor, history, crashes>>

\* backoffMs has passed.  The delay counts from before the POST, so the row may
\* turn out older than rows that became due during it.
BackoffEnds(d) ==
    /\ row[d].status = "PENDING" /\ d \notin Due
    /\ \E i \in 0..Len(queue) : queue' = Insert(d, i)
    /\ UNCHANGED <<hook, row, workerVars, editor, history, crashes>>

\* The process dies with whatever it was awaiting, and boots again.
Crash ==
    /\ crashes < MaxCrashes
    /\ crashes' = crashes + 1
    /\ batch' = [t \in Ticks |-> <<>>]
    /\ flight' = [t \in Ticks |-> "none"]
    /\ editor' = [e \in Editors |-> Idle]
    /\ hook' = Ensured(hook)
    /\ UNCHANGED <<row, queue, history>>

(***************************************************************************)
(* Editors and housekeeping.                                               *)
(***************************************************************************)
\* cancel.post: the status check and the update are two statements.
CancelRead(e, d) ==
    /\ editor[e] = Idle
    /\ row[d].status = "PENDING"
    /\ editor' = [editor EXCEPT ![e] = [op |-> "cancel", id |-> d]]
    /\ UNCHANGED <<hook, row, queue, workerVars, history, crashes>>

CancelCommit(e) ==
    /\ editor[e].op = "cancel"
    /\ LET d == editor[e].id
       IN  IF Live(d)
           THEN /\ row' = [row EXCEPT ![d].status = "FAILED", ![d].completed = TRUE]
                /\ queue' \in Without({d})
           ELSE UNCHANGED <<row, queue>>
    /\ editor' = [editor EXCEPT ![e] = Idle]
    /\ UNCHANGED <<hook, workerVars, history, crashes>>

CreateWebhook(w) ==
    /\ w \in External /\ hook[w] = "absent"
    /\ \A t \in Ticks : \A i \in DOMAIN batch[t] : batch[t][i].hook # w
    /\ \E enabled \in {"on", "off"} : hook' = [hook EXCEPT ![w] = enabled]
    /\ UNCHANGED <<row, queue, workerVars, editor, history, crashes>>

\* [id].put: the switch the worker never looks at again once a row is queued.
SetEnabled(w) ==
    /\ hook[w] # "absent"
    /\ hook' = [hook EXCEPT ![w] = IF @ = "on" THEN "off" ELSE "on"]
    /\ UNCHANGED <<row, queue, workerVars, editor, history, crashes>>

\* [id].delete: its deliveries go with it (onDelete: Cascade).
DeleteWebhook(w) ==
    /\ w \in External /\ hook[w] # "absent"
    /\ hook' = [hook EXCEPT ![w] = "absent"]
    /\ row' = [d \in Deliveries |-> IF row[d].hook = w THEN NoRow ELSE row[d]]
    /\ queue' \in Without({d \in Deliveries : row[d].hook = w})
    /\ UNCHANGED <<workerVars, editor, history, crashes>>

\* runCleanup: completedAt is 30 days old.  No dispatch or request lasts that
\* long, so the rows in hand are too young.
Cleanup(d) ==
    /\ row[d].completed /\ d \notin Named
    /\ row' = [row EXCEPT ![d] = NoRow]
    /\ queue' \in Without({d})
    /\ UNCHANGED <<hook, workerVars, editor, history, crashes>>

EditorStep(e) ==
    \/ TestFill(e) \/ CancelCommit(e)
    \/ \E d \in Deliveries : CancelRead(e, d) \/ \E w \in Webhooks : TestCreate(e, d, w)

Next ==
    \/ \E d \in Deliveries, w \in Webhooks : Enqueue(d, w)
    \/ \E d, original \in Deliveries : Retry(d, original)
    \/ \E t \in Ticks : Select(t) \/ Send(t) \/ Record(t)
    \/ \E d \in Deliveries : BackoffEnds(d) \/ Cleanup(d)
    \/ \E e \in Editors : EditorStep(e)
    \/ \E w \in Webhooks : CreateWebhook(w) \/ SetEnabled(w) \/ DeleteWebhook(w)
    \/ Crash

\* setInterval keeps firing, a POST ends by its timeout and an in-process handler
\* returns, and time passes.
Fairness ==
    /\ \A t \in Ticks : WF_vars(Select(t)) /\ WF_vars(Send(t)) /\ WF_vars(Record(t))
    /\ \A d \in Deliveries : WF_vars(BackoffEnds(d))

Spec == Init /\ [][Next]_vars
FairSpec == Spec /\ Fairness

(***************************************************************************)
(* Properties.                                                             *)
(***************************************************************************)
\* Types, and the queue holds each due PENDING row once.
TypeOK ==
    /\ hook \in [Webhooks -> {"absent", "on", "off"}]
    /\ row \in [Deliveries -> Delivery \cup {NoRow}]
    /\ queue \in Seq(Deliveries)
    /\ \A i, j \in DOMAIN queue : queue[i] = queue[j] => i = j
    /\ \A i \in DOMAIN queue : row[queue[i]].status = "PENDING"
    /\ batch \in [Ticks -> Seq(Selected)]
    /\ flight \in [Ticks -> Outcomes \cup {"none"}]
    /\ editor \in [Editors -> [op : {"cancel", "test"}, id : Deliveries] \cup {Idle}]
    /\ posts \in [Deliveries -> 0..MaxSeen]
    /\ accepted \in [Deliveries -> 0..MaxSeen]
    /\ crashes \in 0..MaxCrashes

\* A delivery is dead-lettered only after its receiver has been tried
\* MAX_ATTEMPTS times, whatever ticks overlap and whatever crashes; only an
\* internal webhook without a handler is given up at once.
GivenUpOnlyWhenExhausted ==
    \A d \in Deliveries :
        row[d].status = "DEAD_LETTERED" =>
            \/ row[d].hook \in Internal \ Handlers
            \/ posts[d] >= MaxAttempts

\* A row still PENDING has an attempt left, so the backoff table has an entry for
\* the next failure (backoffMs(attempts)! is never null).
PendingHasAnAttemptLeft ==
    \A d \in Deliveries : row[d].status = "PENDING" => row[d].attempts < MaxAttempts

\* SUCCESS is recorded only for a delivery its receiver accepted.
SuccessWasAccepted ==
    \A d \in Deliveries : row[d].status = "SUCCESS" => accepted[d] > 0

\* Every delivery belongs to a webhook that exists (the cascade leaves none behind).
DeliveriesHaveWebhooks ==
    \A d \in Deliveries : Live(d) => hook[row[d].hook] # "absent"

\* What a row says of its delivery was earned, however stale the selection an
\* update was computed from and whatever overlaps, crashes or is deleted
\* (webhookWorker.ts 74-103 and 224-260).
OutboxIsSound ==
    /\ GivenUpOnlyWhenExhausted
    /\ PendingHasAnAttemptLeft
    /\ SuccessWasAccepted
    /\ DeliveriesHaveWebhooks

\* The at-least-once promise above dispatch(): a receiver that has accepted a
\* delivery gets it again only because a crash lost the update, once per crash.
DuplicatesNeedACrash ==
    \A d \in Deliveries : accepted[d] <= 1 + crashes

InFlight(d) == \E t \in Ticks : flight[t] \in {"ok", "error"} /\ Head(batch[t]).id = d

\* No dispatch goes uncounted: what the receiver saw is what the row says, but for
\* the one in flight and those a crash cut off (webhookWorker.ts:224).
PostsAreCounted ==
    /\ TypeOK
    /\ \A d \in Deliveries : Live(d) =>
         posts[d] <= row[d].attempts + crashes + (IF InFlight(d) THEN 1 ELSE 0)

\* A settled delivery stays settled until it is removed: a later answer does not
\* revive it, a cancel does not rewrite how it ended.
TerminalIsFinal ==
    [][\A d \in Deliveries :
           row[d].status \in Terminal => row'[d].status \in {row[d].status, "NONE"}]_vars

\* Every delivery is eventually settled (or deleted with its webhook).
EveryDeliveryIsSettled ==
    \A d \in Deliveries : (row[d].status = "PENDING") ~> (row[d].status # "PENDING")
============================================================================
