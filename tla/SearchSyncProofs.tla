-------------------------- MODULE SearchSyncProofs --------------------------
(***************************************************************************)
(* Theorems about SearchSync: whatever times out, crashes, comes late or   *)
(* is done twice, a document that differs from the database has a delivery *)
(* ahead of it, and a reindex of an idle system repairs everything in its  *)
(* scope.                                                                  *)
(***************************************************************************)
EXTENDS SearchSync, SequenceTheorems, FiniteSetTheorems, TLAPS

Processes == Workers \cup Operators
Task == [by : Processes \cup {NoWorker}, update : Updates]

Typed ==
    /\ db \in [Entries -> Versions]
    /\ writes \in 0 .. MaxWrites /\ failures \in 0 .. MaxFailures
    /\ pending \subseteq Jobs /\ lost \subseteq Jobs
    /\ index \in [Keys -> Doc \cup {NoDoc}]
    /\ tasks \in Seq(Task)
    /\ worker \in [Workers -> Worker]
    /\ operator \in [Operators -> Operator]

\* The engine's queue as a sequence of tasks: the last one that touches a key decides
\* what will be served for it.
LastOf(ts, k) ==
    LET touching == {i \in DOMAIN ts : k \in DOMAIN ts[i].update}
    IN  IF touching = {} THEN 0
        ELSE CHOOSE i \in touching : \A j \in touching : j <= i

Served(x, ts, k) == IF LastOf(ts, k) = 0 THEN x[k] ELSE ts[LastOf(ts, k)].update[k]

IsLast(ts, i, k) ==
    /\ i \in DOMAIN ts /\ k \in DOMAIN ts[i].update
    /\ \A j \in DOMAIN ts : k \in DOMAIN ts[j].update => j <= i

Untouched(ts, k) == \A i \in DOMAIN ts : k \notin DOMAIN ts[i].update

HasLast(ts, k) == Untouched(ts, k) \/ \E i \in DOMAIN ts : IsLast(ts, i, k)

QueuedIn(ts, p) == \E i \in DOMAIN ts : ts[i].by = p

\* A process has a task in the queue only while it waits for it.
OnlyWaitersAreQueued ==
    /\ \A w \in Workers : worker[w].phase # "waiting" => ~Queued(w)
    /\ \A o \in Operators : operator[o].phase # "waiting" => ~Queued(o)

\* An operator that has not ended has something to send or to wait for, and a
\* worker that is not idle has a job.
PhasesAreTrue ==
    /\ \A w \in Workers : worker[w].phase # "idle" => worker[w].job \in Jobs
    /\ \A o \in Operators : /\ operator[o].phase = "loaded" => operator[o].todo # <<>>
                            /\ operator[o].phase = "done" => operator[o].todo = <<>>

\* Of the tasks that touch a key one is the last.
LastTaskExists == \A k \in Keys : HasLast(tasks, k)

\* The deliveries were enqueued by the writes that were made.
JobsAreNumbered ==
    /\ \A j \in pending \cup lost : j.n <= writes
    /\ \A w \in Workers : worker[w].phase # "idle" => worker[w].job.n <= writes
    /\ \A o \in Operators : operator[o].at <= writes

Base == /\ Typed
        /\ OnlyWaitersAreQueued
        /\ PhasesAreTrue
        /\ LastTaskExists
        /\ JobsAreNumbered

\* The engine's queue is as long as the tasks that are waited for or given up.
Callers == {p \in Processes : Queued(p)}
QueueIsBounded == Len(tasks) <= Cardinality(Callers) + failures

\* There is another delivery than the one worker w handles that reconciles k.
Another(w, k) == \E j \in (pending \cup lost) \ {worker[w].job} : Reconciles(j, k)

\* A key that drifts from the database has a delivery ahead.
KeysAreAhead ==
    \A k \in Keys \ excused :
        Upcoming(k) # Current(k) => \E j \in pending \cup lost : Reconciles(j, k)

\* What a worker has read is current, or another delivery is ahead.
ReadsAreAhead ==
    \A w \in Workers : worker[w].phase \in {"sending", "waiting"} =>
        \A k \in Keys \ excused :
            /\ \A i \in DOMAIN worker[w].todo : k \in DOMAIN worker[w].todo[i] =>
                  worker[w].todo[i][k] = Current(k) \/ Another(w, k)
            /\ Reconciles(worker[w].job, k)
                  /\ (\A i \in DOMAIN worker[w].todo : k \notin DOMAIN worker[w].todo[i])
               => Upcoming(k) = Current(k) \/ Another(w, k)

DriftInv == Base /\ QueueIsBounded /\ KeysAreAhead /\ ReadsAreAhead

\* A reindex of an idle system, since which nothing was written.
Undisturbed(o) == operator[o].alone /\ operator[o].at = writes /\ operator[o].phase # "idle"

Cleared == \A k \in Keys : Upcoming(k) = NoDoc

Upserted(docs, rebuild) ==
    /\ \A k \in DOMAIN docs : Upcoming(k) = docs[k]
    /\ rebuild /\ DOMAIN docs # {} => \A k \in Keys \ DOMAIN docs : Upcoming(k) = NoDoc

Progress(o) ==
    LET docs == DocsOfTypes(operator[o].scope)
        todo == operator[o].todo
    IN  \/ todo = <<Deletion(Keys), docs>> /\ operator[o].phase = "loaded"
        \/ todo = <<docs>> /\ (operator[o].rebuild => Cleared)
        \/ todo = <<>> /\ Upserted(docs, operator[o].rebuild)

ReindexIsAlone ==
    \A o \in Operators : Undisturbed(o) =>
        /\ pending = {}
        /\ \A w \in Workers : worker[w].phase = "idle"
        /\ \A i \in DOMAIN tasks : tasks[i].by = o
        /\ Progress(o)

ReindexInv == Base /\ ReindexIsAlone

(***************************************************************************)
(* What happens to the engine's queue.                                     *)
(***************************************************************************)
LEMMA UpcomingIsServed ==
    \A k : Upcoming(k) = Served(index, tasks, k) /\ Upcoming(k)' = Served(index', tasks', k)
BY DEF Upcoming, Served, LastTask, LastOf

LEMMA ServedLast ==
    ASSUME NEW ts \in Seq(Task), NEW i, NEW k, NEW x, IsLast(ts, i, k)
    PROVE  Served(x, ts, k) = ts[i].update[k]
<1> DEFINE touching == {j \in DOMAIN ts : k \in DOMAIN ts[j].update}
           c == CHOOSE j \in touching : \A l \in touching : l <= j
<1>1. i \in DOMAIN ts /\ i \in touching /\ \A j \in touching : j <= i
  BY DEF IsLast
<1>2. c \in touching /\ \A l \in touching : l <= c
  BY <1>1
<1>3. DOMAIN ts \subseteq Nat \ {0}
  OBVIOUS
<1>4. c = i
  BY <1>1, <1>2, <1>3
<1>5. LastOf(ts, k) = c
  BY <1>1 DEF LastOf
<1> QED BY <1>1, <1>3, <1>4, <1>5 DEF Served

LEMMA ServedUntouched ==
    ASSUME NEW ts, NEW k, NEW x, Untouched(ts, k)
    PROVE  Served(x, ts, k) = x[k]
BY DEF Untouched, Served, LastOf

LEMMA ServedAppend ==
    ASSUME NEW ts \in Seq(Task), NEW t \in Task, NEW k, NEW x, HasLast(ts, k)
    PROVE  /\ HasLast(Append(ts, t), k)
           /\ Served(x, Append(ts, t), k) =
                IF k \in DOMAIN t.update THEN t.update[k] ELSE Served(x, ts, k)
<1>0. PICK us : us = Append(ts, t)
  OBVIOUS
<1> SUFFICES /\ HasLast(us, k)
             /\ Served(x, us, k) =
                  IF k \in DOMAIN t.update THEN t.update[k] ELSE Served(x, ts, k)
  BY <1>0
<1>1. /\ us \in Seq(Task)
      /\ DOMAIN us = DOMAIN ts \cup {Len(ts) + 1}
      /\ us[Len(ts) + 1] = t
      /\ \A i \in DOMAIN ts : us[i] = ts[i] /\ i <= Len(ts) /\ i \in Nat
  BY <1>0, AppendProperties
<1>5. us \in Seq(Task)
  BY <1>1
<1>2. CASE k \in DOMAIN t.update
  <2> PICK n : n = Len(ts) + 1
    OBVIOUS
  <2>1. IsLast(us, n, k) /\ n \in DOMAIN us /\ us[n] = t
    BY <1>1, <1>2 DEF IsLast
  <2>2. Served(x, us, k) = us[n].update[k]
    BY <1>5, <2>1, ServedLast
  <2> QED BY <1>2, <2>1, <2>2 DEF HasLast
<1>3. CASE k \notin DOMAIN t.update /\ Untouched(ts, k)
  <2>1. Untouched(us, k)
    BY <1>1, <1>3 DEF Untouched
  <2> QED BY <1>3, <2>1, ServedUntouched DEF HasLast
<1>4. CASE k \notin DOMAIN t.update /\ ~Untouched(ts, k)
  <2>1. PICK i \in DOMAIN ts : IsLast(ts, i, k)
    BY <1>4 DEF HasLast
  <2>2. IsLast(us, i, k) /\ i \in DOMAIN us /\ us[i] = ts[i]
    BY <1>1, <1>4, <2>1 DEF IsLast
  <2>3. Served(x, us, k) = us[i].update[k]
    BY <1>5, <2>2, ServedLast
  <2>4. Served(x, ts, k) = ts[i].update[k]
    BY <2>1, ServedLast
  <2> QED BY <1>4, <2>2, <2>3, <2>4 DEF HasLast
<1> QED BY <1>2, <1>3, <1>4

LEMMA ServedTail ==
    ASSUME NEW ts \in Seq(Task), ts # <<>>, NEW k, NEW x, NEW y, HasLast(ts, k),
           y[k] = IF k \in DOMAIN Head(ts).update THEN Head(ts).update[k] ELSE x[k]
    PROVE  HasLast(Tail(ts), k) /\ Served(y, Tail(ts), k) = Served(x, ts, k)
<1>0. PICK us : us = Tail(ts)
  OBVIOUS
<1> SUFFICES HasLast(us, k) /\ Served(y, us, k) = Served(x, ts, k)
  BY <1>0
<1>1. /\ us \in Seq(Task)
      /\ \A i \in DOMAIN us : i \in Nat /\ i > 0 /\ i + 1 \in DOMAIN ts /\ us[i] = ts[i + 1]
      /\ \A i \in DOMAIN ts : i \in Nat /\ i > 0 /\ (i # 1 => i - 1 \in DOMAIN us)
      /\ 1 \in DOMAIN ts /\ Head(ts) = ts[1]
  BY <1>0, HeadTailProperties
<1>4. us \in Seq(Task)
  BY <1>1
<1>2. CASE Untouched(ts, k)
  <2>1. Untouched(us, k)
    BY <1>1, <1>2 DEF Untouched
  <2>2. k \notin DOMAIN Head(ts).update
    BY <1>1, <1>2 DEF Untouched
  <2> QED BY <1>2, <2>1, <2>2, ServedUntouched DEF HasLast
<1>3. CASE ~Untouched(ts, k)
  <2>1. PICK i \in DOMAIN ts : IsLast(ts, i, k)
    BY <1>3 DEF HasLast
  <2>2. Served(x, ts, k) = ts[i].update[k]
    BY <2>1, ServedLast
  <2>3. CASE i = 1
    <3>1. Untouched(us, k)
      <4> SUFFICES ASSUME NEW j \in DOMAIN us, k \in DOMAIN us[j].update PROVE FALSE
        BY DEF Untouched
      <4>1. j + 1 <= 1
        BY <1>1, <2>1, <2>3 DEF IsLast
      <4> QED BY <1>1, <4>1
    <3>2. k \in DOMAIN Head(ts).update
      BY <1>1, <2>1, <2>3 DEF IsLast
    <3> QED BY <1>1, <2>2, <2>3, <3>1, <3>2, ServedUntouched DEF HasLast
  <2>4. CASE i # 1
    <3> PICK h : h = i - 1
      OBVIOUS
    <3>1. h \in DOMAIN us /\ i \in Nat /\ h + 1 = i /\ us[h] = ts[i]
      <4>1. i \in Nat /\ i - 1 \in DOMAIN us
        BY <1>1, <2>4
      <4>2. h \in DOMAIN us /\ h + 1 = i
        BY <4>1
      <4> QED BY <1>1, <4>1, <4>2
    <3>2. IsLast(us, h, k)
      <4>1. k \in DOMAIN us[h].update
        BY <2>1, <3>1 DEF IsLast
      <4>2. ASSUME NEW j \in DOMAIN us, k \in DOMAIN us[j].update PROVE j <= h
        <5>1. j \in Nat /\ j + 1 <= i
          BY <1>1, <2>1, <4>2 DEF IsLast
        <5> QED BY <3>1, <5>1
      <4> QED BY <3>1, <4>1, <4>2 DEF IsLast
    <3>3. Served(y, us, k) = us[h].update[k]
      BY <1>4, <3>2, ServedLast
    <3> QED BY <2>2, <3>1, <3>2, <3>3 DEF HasLast
  <2> QED BY <2>3, <2>4
<1> QED BY <1>2, <1>3

\* Giving up a task changes who waits for it, not what it does.
LEMMA ServedAlike ==
    ASSUME NEW ts \in Seq(Task), NEW us \in Seq(Task), NEW k, NEW x, HasLast(ts, k),
           DOMAIN us = DOMAIN ts, \A i \in DOMAIN ts : us[i].update = ts[i].update
    PROVE  HasLast(us, k) /\ Served(x, us, k) = Served(x, ts, k)
<1>1. CASE Untouched(ts, k)
  <2>1. Untouched(us, k)
    BY <1>1 DEF Untouched
  <2> QED BY <1>1, <2>1, ServedUntouched DEF HasLast
<1>2. CASE ~Untouched(ts, k)
  <2>1. PICK i \in DOMAIN ts : IsLast(ts, i, k)
    BY <1>2 DEF HasLast
  <2>2. IsLast(us, i, k) /\ i \in DOMAIN us
    BY <2>1 DEF IsLast
  <2> QED BY <2>1, <2>2, ServedLast DEF HasLast
<1> QED BY <1>1, <1>2

LEMMA QueuedIsQueuedIn ==
    \A p : Queued(p) = QueuedIn(tasks, p) /\ Queued(p)' = QueuedIn(tasks', p)
BY DEF Queued, QueuedIn

LEMMA QueuedAppend ==
    ASSUME NEW ts \in Seq(Task), NEW t \in Task, NEW p
    PROVE  QueuedIn(Append(ts, t), p) <=> QueuedIn(ts, p) \/ t.by = p
<1>0. PICK us : us = Append(ts, t)
  OBVIOUS
<1>1. /\ DOMAIN us = DOMAIN ts \cup {Len(ts) + 1}
      /\ us[Len(ts) + 1] = t
      /\ \A i \in DOMAIN ts : us[i] = ts[i]
  BY <1>0, AppendProperties
<1>2. QueuedIn(us, p) <=> QueuedIn(ts, p) \/ t.by = p
  BY <1>1 DEF QueuedIn
<1> QED BY <1>0, <1>2

LEMMA QueuedTail ==
    ASSUME NEW ts \in Seq(Task), ts # <<>>, NEW p
    PROVE  /\ QueuedIn(Tail(ts), p) => QueuedIn(ts, p)
           /\ QueuedIn(ts, p) /\ p # Head(ts).by => QueuedIn(Tail(ts), p)
<1>0. PICK us : us = Tail(ts)
  OBVIOUS
<1>1. /\ \A i \in DOMAIN us : i + 1 \in DOMAIN ts /\ us[i] = ts[i + 1]
      /\ \A i \in DOMAIN ts : i # 1 => i - 1 \in DOMAIN us /\ us[i - 1] = ts[i]
      /\ Head(ts) = ts[1]
  BY <1>0, HeadTailProperties
<1>2. QueuedIn(us, p) => QueuedIn(ts, p)
  BY <1>1 DEF QueuedIn
<1>3. QueuedIn(ts, p) /\ p # Head(ts).by => QueuedIn(us, p)
  BY <1>1 DEF QueuedIn
<1> QED BY <1>0, <1>2, <1>3

LEMMA OrphanedQueue ==
    ASSUME tasks \in Seq(Task), NEW ps \in SUBSET Processes
    PROVE  /\ Orphaned(ps) \in Seq(Task)
           /\ Len(Orphaned(ps)) = Len(tasks)
           /\ DOMAIN Orphaned(ps) = DOMAIN tasks
           /\ \A i \in DOMAIN tasks : Orphaned(ps)[i].update = tasks[i].update
           /\ \A i \in DOMAIN tasks :
                  Orphaned(ps)[i].by = IF tasks[i].by \in ps THEN NoWorker ELSE tasks[i].by
           /\ \A p \in Processes :
                  QueuedIn(Orphaned(ps), p) <=> QueuedIn(tasks, p) /\ p \notin ps
<1>1. \A i \in DOMAIN tasks : tasks[i] \in Task
  OBVIOUS
<1>2. \A i \in DOMAIN tasks :
         /\ [tasks[i] EXCEPT !.by = NoWorker] \in Task
         /\ [tasks[i] EXCEPT !.by = NoWorker].by = NoWorker
         /\ [tasks[i] EXCEPT !.by = NoWorker].update = tasks[i].update
  BY <1>1 DEF Task
<1>3. DOMAIN Orphaned(ps) = DOMAIN tasks /\ DOMAIN tasks = 1 .. Len(tasks) /\ Len(tasks) \in Nat
  BY DEF Orphaned
<1>4. \A i \in DOMAIN tasks : Orphaned(ps)[i] =
         IF tasks[i].by \in ps THEN [tasks[i] EXCEPT !.by = NoWorker] ELSE tasks[i]
  BY DEF Orphaned
<1>5. \A i \in DOMAIN tasks :
         /\ Orphaned(ps)[i] \in Task
         /\ Orphaned(ps)[i].update = tasks[i].update
         /\ Orphaned(ps)[i].by = IF tasks[i].by \in ps THEN NoWorker ELSE tasks[i].by
  BY <1>1, <1>2, <1>4
<1>6. Orphaned(ps) \in Seq(Task) /\ Len(Orphaned(ps)) = Len(tasks)
  <2>1. Orphaned(ps) \in [1 .. Len(tasks) -> Task]
    BY <1>3, <1>5 DEF Orphaned
  <2> QED BY <1>3, <2>1
<1>7. \A p \in Processes : QueuedIn(Orphaned(ps), p) <=> QueuedIn(tasks, p) /\ p \notin ps
  BY <1>3, <1>5, ProcessesAreDistinct DEF QueuedIn, Processes
<1> QED BY <1>3, <1>5, <1>6, <1>7

(***************************************************************************)
(* Documents.                                                              *)
(***************************************************************************)
LEMMA DocsAreOfTheEntry ==
    ASSUME NEW e \in Entries, NEW vs \in Versions
    PROVE  /\ DocsOf(e, vs) \in Updates
           /\ \A k \in Keys : k[1] = e => (k \in DOMAIN DocsOf(e, vs) <=> vs[k[2]] # 0)
           /\ \A k \in DOMAIN DocsOf(e, vs) : k \in Keys /\ k[1] = e /\ DocsOf(e, vs)[k] \in Doc
<1> PICK S : S = {<<e, s>> : s \in {s \in Statuses : vs[s] # 0}}
  OBVIOUS
<1>1. S \subseteq Keys /\ \A k \in S : k[1] = e /\ k[2] \in Statuses /\ vs[k[2]] # 0
  BY DEF Keys
<1>2. \A k \in Keys : k[1] = e => (k \in S <=> vs[k[2]] # 0)
  BY <1>1 DEF Keys
<1>3. \A s \in Statuses : vs[s] # 0 => vs[s] \in 1 .. MaxWrites
  BY BoundsAreNaturals DEF Versions
<1>4. DOMAIN DocsOf(e, vs) = S
  BY DEF DocsOf
<1>5. ASSUME NEW k \in S PROVE DocsOf(e, vs)[k] \in Doc
  <2>1. DocsOf(e, vs)[k] = [version |-> vs[k[2]], working |-> k[2] = Working(vs)]
    BY DEF DocsOf
  <2>2. (k[2] = Working(vs)) \in BOOLEAN
    OBVIOUS
  <2> QED BY <1>1, <1>3, <2>1, <2>2 DEF Doc
<1>6. DocsOf(e, vs) \in [S -> Doc \cup {NoDoc}]
  <2>1. DocsOf(e, vs) = [k \in S |-> DocsOf(e, vs)[k]]
    BY DEF DocsOf
  <2> QED BY <1>5, <2>1
<1> QED BY <1>1, <1>2, <1>4, <1>5, <1>6 DEF Updates

LEMMA DocIsNotNoDoc == NoDoc \notin Doc
BY BoundsAreNaturals DEF NoDoc, Doc

LEMMA CurrentIsADoc ==
    ASSUME db \in [Entries -> Versions], NEW k \in Keys
    PROVE  /\ Current(k) \in Doc \cup {NoDoc}
           /\ Current(k) # NoDoc <=> db[k[1]][k[2]] # 0
           /\ Current(k) # NoDoc <=> k \in DOMAIN DocsOf(k[1], db[k[1]])
           /\ k \in DOMAIN DocsOf(k[1], db[k[1]]) => DocsOf(k[1], db[k[1]])[k] = Current(k)
<1>1. k[1] \in Entries /\ db[k[1]] \in Versions
  BY DEF Keys
<1> QED BY <1>1, DocsAreOfTheEntry, DocIsNotNoDoc DEF Current

LEMMA DocsOfTypesAreCurrent ==
    ASSUME db \in [Entries -> Versions], NEW types
    PROVE  /\ DocsOfTypes(types) \in Updates
           /\ DOMAIN DocsOfTypes(types) =
                {k \in Keys : TypeOf[k[1]] \in types /\ Current(k) # NoDoc}
           /\ \A k \in DOMAIN DocsOfTypes(types) : DocsOfTypes(types)[k] = Current(k)
<1> PICK S : S = {k \in Keys : TypeOf[k[1]] \in types /\ Current(k) # NoDoc}
  OBVIOUS
<1>1. DocsOfTypes(types) = [k \in S |-> Current(k)]
  BY DEF DocsOfTypes
<1>2. \A k \in S : Current(k) \in Doc \cup {NoDoc}
  BY CurrentIsADoc
<1>3. DocsOfTypes(types) \in [S -> Doc \cup {NoDoc}]
  BY <1>1, <1>2
<1> QED BY <1>1, <1>3 DEF Updates

LEMMA DocsHaveKeys ==
    \A types : DOMAIN DocsOfTypes(types) \subseteq Keys
BY DEF DocsOfTypes

LEMMA DeletionDeletes ==
    ASSUME NEW S \in SUBSET Keys
    PROVE  /\ Deletion(S) \in Updates
           /\ DOMAIN Deletion(S) = S
           /\ \A k \in S : Deletion(S)[k] = NoDoc
<1>1. Deletion(S) \in [S -> Doc \cup {NoDoc}]
  BY DEF Deletion
<1> QED BY <1>1 DEF Updates, Deletion

LEMMA CallSends ==
    ASSUME NEW u \in Updates
    PROVE  /\ Call(u) \in Seq(Updates)
           /\ \A i \in DOMAIN Call(u) : Call(u)[i] = u
           /\ \A k \in DOMAIN u : \E i \in DOMAIN Call(u) : Call(u)[i] = u
<1>1. CASE DOMAIN u = {}
  BY <1>1 DEF Call
<1>2. CASE DOMAIN u # {}
  <2>1. Call(u) = <<u>>
    BY <1>2 DEF Call
  <2> QED BY <2>1
<1> QED BY <1>1, <1>2

\* What is sent brings every key it touches in step.
Brings(todo, k) == \A i \in DOMAIN todo : k \in DOMAIN todo[i] => todo[i][k] = Current(k)
Reaches(todo, k) == \E i \in DOMAIN todo : k \in DOMAIN todo[i]

LEMMA ReconcileBringsInStep ==
    ASSUME db \in [Entries -> Versions], NEW e \in Entries
    PROVE  /\ Reconcile(e) \in Seq(Updates)
           /\ \A k \in Keys : Brings(Reconcile(e), k)
           /\ \A k \in Keys : k[1] = e => Reaches(Reconcile(e), k)
<1>1. PICK docs : docs = DocsOf(e, db[e])
  OBVIOUS
<1>2. PICK rest : rest = {k \in Keys : k[1] = e} \ DOMAIN docs
  OBVIOUS
<1>3. PICK gone : gone = Deletion(rest)
  OBVIOUS
<1>4. /\ docs \in Updates /\ gone \in Updates
      /\ \A k \in Keys : k \in DOMAIN docs => docs[k] = Current(k)
      /\ \A k \in Keys : k \in DOMAIN gone => gone[k] = Current(k)
      /\ \A k \in Keys : k[1] = e => k \in DOMAIN docs \/ k \in DOMAIN gone
  <2>1. /\ db[e] \in Versions
        /\ \A k \in DOMAIN docs : k \in Keys /\ k[1] = e
        /\ docs \in Updates
    BY <1>1, DocsAreOfTheEntry
  <2>2. /\ gone \in Updates /\ DOMAIN gone = rest
        /\ \A k \in rest : gone[k] = NoDoc
    BY <1>2, <1>3, DeletionDeletes
  <2>3. \A k \in Keys : k[1] = e => Current(k) = IF k \in DOMAIN docs THEN docs[k] ELSE NoDoc
    BY <1>1 DEF Current
  <2> QED BY <1>2, <2>1, <2>2, <2>3
<1>5. PICK us : us = Call(docs)
  OBVIOUS
<1>6. PICK vs : vs = Call(gone)
  OBVIOUS
<1>7. /\ us \in Seq(Updates) /\ vs \in Seq(Updates)
      /\ \A i \in DOMAIN us : us[i] = docs
      /\ \A i \in DOMAIN vs : vs[i] = gone
      /\ \A k \in DOMAIN docs : \E i \in DOMAIN us : us[i] = docs
      /\ \A k \in DOMAIN gone : \E i \in DOMAIN vs : vs[i] = gone
  BY <1>4, <1>5, <1>6, CallSends
<1>8. PICK todo : todo = us \o vs
  OBVIOUS
<1>9. /\ todo \in Seq(Updates)
      /\ \A i \in DOMAIN todo : todo[i] \in {docs, gone}
      /\ \A i \in DOMAIN us : i \in DOMAIN todo /\ todo[i] = us[i]
      /\ \A i \in DOMAIN vs : i + Len(us) \in DOMAIN todo /\ todo[i + Len(us)] = vs[i]
  <2>1. /\ todo \in Seq(Updates)
        /\ Len(todo) = Len(us) + Len(vs) /\ Len(us) \in Nat /\ Len(vs) \in Nat
        /\ \A i \in 1 .. Len(us) + Len(vs) :
              todo[i] = IF i <= Len(us) THEN us[i] ELSE vs[i - Len(us)]
    BY <1>7, <1>8, ConcatProperties
  <2>2. DOMAIN todo = 1 .. Len(us) + Len(vs) /\ DOMAIN us = 1 .. Len(us) /\ DOMAIN vs = 1 .. Len(vs)
    BY <1>7, <2>1
  <2>3. \A i \in DOMAIN vs : i + Len(us) \in DOMAIN todo /\ todo[i + Len(us)] = vs[i]
    BY <2>1, <2>2
  <2>4. \A i \in DOMAIN us : i \in DOMAIN todo /\ todo[i] = us[i]
    BY <2>1, <2>2
  <2>5. ASSUME NEW i \in DOMAIN todo PROVE todo[i] \in {docs, gone}
    <3>1. i \in 1 .. Len(us) + Len(vs)
      BY <2>2
    <3>2. CASE i <= Len(us)
      BY <1>7, <2>1, <2>2, <3>1, <3>2
    <3>3. CASE ~(i <= Len(us))
      <4>1. i - Len(us) \in DOMAIN vs /\ todo[i] = vs[i - Len(us)]
        BY <2>1, <2>2, <3>1, <3>3
      <4> QED BY <1>7, <4>1
    <3> QED BY <3>2, <3>3
  <2> QED BY <2>1, <2>3, <2>4, <2>5
<1>10. Reconcile(e) = todo
  BY <1>1, <1>2, <1>3, <1>5, <1>6, <1>8 DEF Reconcile
<1>11. \A k \in Keys : Brings(todo, k)
  BY <1>4, <1>9 DEF Brings
<1>12. ASSUME NEW k \in Keys, k[1] = e PROVE Reaches(todo, k)
  <2>1. CASE k \in DOMAIN docs
    <3>1. PICK i \in DOMAIN us : us[i] = docs
      BY <1>7, <2>1
    <3> QED BY <1>9, <2>1, <3>1 DEF Reaches
  <2>2. CASE k \in DOMAIN gone
    <3>1. PICK i \in DOMAIN vs : vs[i] = gone
      BY <1>7, <2>2
    <3> QED BY <1>9, <2>2, <3>1 DEF Reaches
  <2> QED BY <1>4, <1>12, <2>1, <2>2
<1> QED BY <1>9, <1>10, <1>11, <1>12

(***************************************************************************)
(* What the actions keep of the base, whichever processes run.             *)
(***************************************************************************)

\* What is asked of a worker, and of an operator, while `ts` are queued.
WorkerIsSound(w, r, ts) ==
    /\ r.phase # "idle" => r.job \in Jobs /\ r.job.n <= writes
    /\ r.phase # "waiting" => ~QueuedIn(ts, w)

OperatorIsSound(o, r, ts) ==
    /\ r.phase = "loaded" => r.todo # <<>>
    /\ r.phase = "done" => r.todo = <<>>
    /\ r.at <= writes
    /\ r.phase # "waiting" => ~QueuedIn(ts, o)

LEMMA BaseIsSound ==
    ASSUME Base
    PROVE  /\ \A j \in pending \cup lost : j \in Jobs /\ j.n <= writes
           /\ \A w \in Workers : WorkerIsSound(w, worker[w], tasks)
           /\ \A o \in Operators : OperatorIsSound(o, operator[o], tasks)
BY QueuedIsQueuedIn
   DEF Base, Typed, OnlyWaitersAreQueued, PhasesAreTrue, JobsAreNumbered, WorkerIsSound, OperatorIsSound

\* A step that is not a write keeps the base if it keeps the types, the last tasks
\* and every process sound.
LEMMA StepKeepsBase ==
    ASSUME Base, UNCHANGED <<db, writes>>, failures' \in 0 .. MaxFailures,
           \A j \in pending' \cup lost' : j \in Jobs /\ j.n <= writes,
           index' \in [Keys -> Doc \cup {NoDoc}], tasks' \in Seq(Task),
           worker' \in [Workers -> Worker], operator' \in [Operators -> Operator],
           \A k \in Keys : HasLast(tasks', k),
           \A w \in Workers : WorkerIsSound(w, worker'[w], tasks'),
           \A o \in Operators : OperatorIsSound(o, operator'[o], tasks')
    PROVE  Base'
<1>1. Typed'
  BY DEF Base, Typed
<1>2. OnlyWaitersAreQueued'
  BY QueuedIsQueuedIn DEF OnlyWaitersAreQueued, WorkerIsSound, OperatorIsSound
<1>3. PhasesAreTrue'
  BY DEF PhasesAreTrue, WorkerIsSound, OperatorIsSound
<1>4. LastTaskExists'
  BY DEF LastTaskExists
<1>5. JobsAreNumbered'
  BY DEF JobsAreNumbered, WorkerIsSound, OperatorIsSound
<1> QED BY <1>1, <1>2, <1>3, <1>4, <1>5 DEF Base

LEMMA EnqueueKeepsBase ==
    ASSUME Base, writes < MaxWrites, writes' = writes + 1, db' \in [Entries -> Versions],
           NEW j \in Jobs, j.n = writes + 1, pending' = pending \cup {j},
           UNCHANGED <<lost, failures, engine>>
    PROVE  Base'
<1>1. /\ writes \in Nat /\ MaxWrites \in Nat
      /\ pending \subseteq Jobs /\ lost \subseteq Jobs
  BY BoundsAreNaturals DEF Base, Typed
<1>2. Typed'
  BY <1>1 DEF Base, Typed, engine
<1>3. OnlyWaitersAreQueued' /\ PhasesAreTrue' /\ LastTaskExists'
  BY DEF Base, OnlyWaitersAreQueued, PhasesAreTrue, LastTaskExists, Queued, engine
<1>4. JobsAreNumbered'
  <2>1. \A i \in Jobs : i.n \in Nat
    BY <1>1 DEF Jobs
  <2>2. \A i \in pending' \cup lost' : i.n <= writes'
    BY <1>1, <2>1 DEF Base, JobsAreNumbered
  <2>3. \A w \in Workers : worker[w].phase # "idle" => worker[w].job.n <= writes'
    BY <1>1, <2>1 DEF Base, JobsAreNumbered, PhasesAreTrue
  <2>4. \A o \in Operators : operator[o].at <= writes'
    <3>1. \A o \in Operators : operator[o].at \in Nat
      BY <1>1 DEF Base, Typed, Operator
    <3> QED BY <1>1, <3>1 DEF Base, JobsAreNumbered
  <2> QED BY <2>2, <2>3, <2>4 DEF JobsAreNumbered, engine
<1> QED BY <1>2, <1>3, <1>4 DEF Base

LEMMA EntryWrites ==
    ASSUME Typed, NEW e \in Entries,
           SaveDraft(e) \/ Publish(e) \/ Unpublish(e) \/ DiscardDraft(e) \/ Remove(e)
    PROVE  \E vs \in Versions : WriteEntry(e, vs)
<1>1. /\ db[e] \in Versions /\ NoVersions \in Versions
      /\ writes < MaxWrites => Number \in 0 .. MaxWrites
  BY BoundsAreNaturals DEF Typed, NoVersions, Versions, Number
<1>2. \A vs \in Versions, s \in Statuses : \A n \in 0 .. MaxWrites :
         [vs EXCEPT ![s] = n] \in Versions
  BY DEF Versions
<1>3. {"DRAFT", "CHANGED", "PUBLISHED"} = Statuses
  BY DEF Statuses
<1>4. CASE SaveDraft(e)
  BY <1>1, <1>2, <1>3, <1>4 DEF SaveDraft, WriteEntry
<1>5. CASE Publish(e)
  BY <1>1, <1>2, <1>3, <1>5 DEF Publish, WriteEntry
<1>6. CASE Unpublish(e)
  <2>1. PICK n : n = IF db[e]["CHANGED"] # 0 THEN db[e]["CHANGED"] ELSE db[e]["PUBLISHED"]
    OBVIOUS
  <2>2. n \in 0 .. MaxWrites
    BY <1>1, <1>3, <2>1 DEF Versions
  <2>3. WriteEntry(e, [NoVersions EXCEPT !["DRAFT"] = n])
    BY <1>6, <2>1 DEF Unpublish
  <2> QED BY <1>1, <1>2, <1>3, <2>2, <2>3
<1>7. CASE DiscardDraft(e)
  <2>1. 0 \in 0 .. MaxWrites
    BY BoundsAreNaturals
  <2> QED BY <1>1, <1>2, <1>3, <1>7, <2>1 DEF DiscardDraft
<1>8. CASE Remove(e)
  BY <1>1, <1>8 DEF Remove
<1> QED BY <1>4, <1>5, <1>6, <1>7, <1>8

LEMMA EntryWriteIsTyped ==
    ASSUME Typed, NEW e \in Entries, NEW vs \in Versions, WriteEntry(e, vs)
    PROVE  /\ [kind |-> "entry", of |-> e, n |-> Number] \in Jobs
           /\ db' \in [Entries -> Versions]
           /\ db'[e] = vs /\ \A f \in Entries : f # e => db'[f] = db[f]
<1>1. Number \in 1 .. MaxWrites
  BY BoundsAreNaturals DEF Typed, WriteEntry, Number
<1> QED BY <1>1 DEF Typed, WriteEntry, Jobs

LEMMA SchemaChangeIsTyped ==
    ASSUME Typed, NEW t \in Types, ChangeSchema(t)
    PROVE  [kind |-> "type", of |-> t, n |-> Number] \in Jobs
<1>1. Number \in 1 .. MaxWrites
  BY BoundsAreNaturals DEF Typed, ChangeSchema, Number
<1> QED BY <1>1 DEF Jobs

LEMMA ImportIsTyped ==
    ASSUME Typed, NEW e \in Entries, NEW statuses, Import(e, statuses)
    PROVE  /\ [kind |-> "type", of |-> TypeOf[e], n |-> Number] \in Jobs
           /\ db' \in [Entries -> Versions]
           /\ \A f \in Entries : f # e => db'[f] = db[f]
<1>1. Number \in 1 .. MaxWrites /\ 0 \in 0 .. MaxWrites /\ Number \in 0 .. MaxWrites
  BY BoundsAreNaturals DEF Typed, Import, Number
<1>2. PICK vs : vs = [s \in Statuses |-> IF s \in statuses THEN Number ELSE 0]
  OBVIOUS
<1>3. vs \in Versions
  BY <1>1, <1>2 DEF Versions
<1>4. db' = [db EXCEPT ![e] = vs]
  BY <1>2 DEF Import
<1>5. TypeOf[e] \in Types
  BY EntriesHaveTypes
<1> QED BY <1>1, <1>3, <1>4, <1>5 DEF Typed, Jobs

LEMMA WriteKeepsBase ==
    ASSUME Base, Write
    PROVE  Base'
<1>1. ASSUME NEW e \in Entries,
             SaveDraft(e) \/ Publish(e) \/ Unpublish(e) \/ DiscardDraft(e) \/ Remove(e)
      PROVE  Base'
  <2>1. PICK vs \in Versions : WriteEntry(e, vs)
    BY <1>1, EntryWrites DEF Base
  <2>2. PICK j : j = [kind |-> "entry", of |-> e, n |-> Number]
    OBVIOUS
  <2>3. j \in Jobs /\ db' \in [Entries -> Versions]
    BY <2>1, <2>2, EntryWriteIsTyped DEF Base
  <2> QED BY <2>1, <2>2, <2>3, EnqueueKeepsBase DEF WriteEntry, Number
<1>2. ASSUME NEW t \in Types, ChangeSchema(t)
      PROVE  Base'
  <2>1. PICK j : j = [kind |-> "type", of |-> t, n |-> Number]
    OBVIOUS
  <2>2. j \in Jobs /\ db' \in [Entries -> Versions]
    BY <1>2, <2>1, SchemaChangeIsTyped DEF Base, Typed, ChangeSchema
  <2> QED BY <1>2, <2>1, <2>2, EnqueueKeepsBase DEF ChangeSchema, Number
<1>3. ASSUME NEW e \in Entries, NEW statuses, Import(e, statuses)
      PROVE  Base'
  <2>1. PICK j : j = [kind |-> "type", of |-> TypeOf[e], n |-> Number]
    OBVIOUS
  <2>2. j \in Jobs /\ db' \in [Entries -> Versions]
    BY <1>3, <2>1, ImportIsTyped DEF Base
  <2> QED BY <1>3, <2>1, <2>2, EnqueueKeepsBase DEF Import, Number
<1> QED BY <1>1, <1>2, <1>3 DEF Write

\* What the steps of a worker do to it, whatever else they do.
LEMMA WorkerTypes ==
    ASSUME Typed, NEW w \in Workers
    PROVE  /\ worker[w] \in Worker /\ IdleWorker \in Worker
           /\ worker[w].todo \in Seq(Updates)
           /\ DOMAIN worker = Workers
BY DEF Typed, Worker, IdleWorker

LEMMA TakeDoes ==
    ASSUME Base, NEW w \in Workers, NEW j \in Jobs, Take(w, j)
    PROVE  /\ worker' \in [Workers -> Worker]
           /\ worker'[w].phase = "taken" /\ worker'[w].job = j
           /\ \A v \in Workers : v # w => worker'[v] = worker[v]
<1>1. PICK r : r = [IdleWorker EXCEPT !.phase = "taken", !.job = j]
  OBVIOUS
<1>2. r \in Worker /\ r.phase = "taken" /\ r.job = j
  BY <1>1, WorkerTypes DEF Base, IdleWorker, Worker
<1>3. worker' = [worker EXCEPT ![w] = r]
  BY <1>1 DEF Take
<1> QED BY <1>2, <1>3 DEF Base, Typed

LEMMA LoadDoes ==
    ASSUME Base, NEW w \in Workers, Load(w)
    PROVE  /\ worker' \in [Workers -> Worker]
           /\ worker'[w].phase = "sending" /\ worker'[w].job = worker[w].job
           /\ \A k \in Keys : Brings(worker'[w].todo, k)
           /\ \A k \in Keys : Reconciles(worker[w].job, k) => Reaches(worker'[w].todo, k)
           /\ \A v \in Workers : v # w => worker'[v] = worker[v]
<1>1. PICK todo : todo = IF worker[w].job.kind = "entry" THEN Reconcile(worker[w].job.of)
                         ELSE Call(DocsOfTypes({worker[w].job.of}))
  OBVIOUS
<1>2. worker[w].job \in Jobs
  BY DEF Base, PhasesAreTrue, Load
<1>3. db \in [Entries -> Versions]
  BY DEF Base, Typed
<1>4. /\ todo \in Seq(Updates)
      /\ \A k \in Keys : Brings(todo, k)
      /\ \A k \in Keys : Reconciles(worker[w].job, k) => Reaches(todo, k)
  <2>1. CASE worker[w].job.kind = "entry"
    <3>1. worker[w].job.of \in Entries
      BY <1>2, <2>1 DEF Jobs
    <3> QED BY <1>1, <1>3, <2>1, <3>1, ReconcileBringsInStep DEF Reconciles
  <2>2. CASE worker[w].job.kind # "entry"
    <3>1. PICK docs : docs = DocsOfTypes({worker[w].job.of})
      OBVIOUS
    <3>2. /\ docs \in Updates
          /\ DOMAIN docs = {k \in Keys : TypeOf[k[1]] = worker[w].job.of /\ Current(k) # NoDoc}
          /\ \A k \in DOMAIN docs : docs[k] = Current(k)
      BY <1>3, <3>1, DocsOfTypesAreCurrent
    <3>3. todo = Call(docs)
      BY <1>1, <2>2, <3>1
    <3>4. /\ todo \in Seq(Updates)
          /\ \A i \in DOMAIN todo : todo[i] = docs
          /\ \A k \in DOMAIN docs : \E i \in DOMAIN todo : todo[i] = docs
      BY <3>2, <3>3, CallSends
    <3>5. \A k \in Keys : Brings(todo, k)
      BY <3>2, <3>4 DEF Brings
    <3>6. ASSUME NEW k \in Keys, Reconciles(worker[w].job, k) PROVE Reaches(todo, k)
      <4>1. k \in DOMAIN docs
        BY <2>2, <3>2, <3>6 DEF Reconciles
      <4> QED BY <3>4, <4>1 DEF Reaches
    <3> QED BY <3>4, <3>5, <3>6
  <2> QED BY <2>1, <2>2
<1>5. worker' = [worker EXCEPT ![w].phase = "sending", ![w].todo = todo]
  BY <1>1 DEF Load
<1>6. /\ worker' \in [Workers -> Worker]
      /\ worker'[w].phase = "sending" /\ worker'[w].job = worker[w].job
      /\ worker'[w].todo = todo
      /\ \A v \in Workers : v # w => worker'[v] = worker[v]
  BY <1>4, <1>5 DEF Base, Typed, Worker
<1> QED BY <1>4, <1>6

LEMMA SendDoes ==
    ASSUME Base, NEW w \in Workers, Send(w)
    PROVE  /\ [by |-> w, update |-> Head(worker[w].todo)] \in Task
           /\ worker' \in [Workers -> Worker]
           /\ worker'[w].phase = "waiting" /\ worker'[w].job = worker[w].job
           /\ worker'[w].todo = Tail(worker[w].todo)
           /\ \A v \in Workers : v # w => worker'[v] = worker[v]
<1>1. PICK todo : todo = worker[w].todo
  OBVIOUS
<1>2. todo \in Seq(Updates) /\ todo # <<>>
  BY <1>1, WorkerTypes DEF Base, Send
<1>3. Head(todo) \in Updates /\ Tail(todo) \in Seq(Updates)
  BY <1>2, HeadTailProperties
<1>4. worker' = [worker EXCEPT ![w].phase = "waiting", ![w].todo = Tail(todo)]
  BY <1>1 DEF Send, Base, Typed
<1>5. /\ worker' \in [Workers -> Worker]
      /\ worker'[w].phase = "waiting" /\ worker'[w].job = worker[w].job
      /\ worker'[w].todo = Tail(todo)
      /\ \A v \in Workers : v # w => worker'[v] = worker[v]
  BY <1>3, <1>4 DEF Base, Typed, Worker
<1>6. [by |-> w, update |-> Head(todo)] \in Task
  BY <1>3 DEF Task, Processes
<1> QED BY <1>1, <1>5, <1>6

LEMMA AwaitDoes ==
    ASSUME Base, NEW w \in Workers, Await(w)
    PROVE  /\ worker' \in [Workers -> Worker]
           /\ worker'[w].phase = "sending" /\ worker'[w].job = worker[w].job
           /\ worker'[w].todo = worker[w].todo
           /\ \A v \in Workers : v # w => worker'[v] = worker[v]
BY DEF Await, Base, Typed, Worker

LEMMA IdleDoes ==
    ASSUME Base, NEW w \in Workers, worker' = [worker EXCEPT ![w] = IdleWorker]
    PROVE  /\ worker' \in [Workers -> Worker]
           /\ worker'[w].phase = "idle"
           /\ \A v \in Workers : v # w => worker'[v] = worker[v]
BY WorkerTypes DEF Base, Typed, IdleWorker

LEMMA WorkerKeepsBase ==
    ASSUME Base, NEW w \in Workers, (\E j \in Jobs : Take(w, j)) \/ Load(w) \/ Await(w) \/ Finish(w)
    PROVE  Base'
<1>1. /\ failures \in 0 .. MaxFailures /\ index \in [Keys -> Doc \cup {NoDoc}]
      /\ tasks \in Seq(Task) /\ operator \in [Operators -> Operator]
      /\ \A k \in Keys : HasLast(tasks, k)
  BY DEF Base, Typed, LastTaskExists
<1>2. /\ \A j \in pending \cup lost : j \in Jobs /\ j.n <= writes
      /\ \A v \in Workers : WorkerIsSound(v, worker[v], tasks)
      /\ \A o \in Operators : OperatorIsSound(o, operator[o], tasks)
  BY BaseIsSound
<1>3. ASSUME UNCHANGED <<db, writes, lost, failures, index, tasks, operator>>,
             pending' \subseteq pending, worker' \in [Workers -> Worker],
             WorkerIsSound(w, worker'[w], tasks),
             \A v \in Workers : v # w => worker'[v] = worker[v]
      PROVE  Base'
  BY <1>1, <1>2, <1>3, StepKeepsBase
<1>4. ASSUME NEW j \in Jobs, Take(w, j)
      PROVE  Base'
  <2>1. ~QueuedIn(tasks, w) /\ j.n <= writes
    BY <1>2, <1>4 DEF Take, WorkerIsSound, Base, JobsAreNumbered
  <2> QED BY <1>3, <1>4, <2>1, TakeDoes DEF Take, WorkerIsSound
<1>5. CASE Load(w)
  <2>1. ~QueuedIn(tasks, w) /\ worker[w].job \in Jobs /\ worker[w].job.n <= writes
    BY <1>2, <1>5 DEF Load, WorkerIsSound
  <2>2. WorkerIsSound(w, worker'[w], tasks)
    BY <1>5, <2>1, LoadDoes DEF WorkerIsSound
  <2> QED BY <1>3, <1>5, <2>2, LoadDoes DEF Load
<1>6. CASE Await(w)
  <2>1. ~QueuedIn(tasks, w) /\ worker[w].job \in Jobs /\ worker[w].job.n <= writes
    BY <1>2, <1>6, QueuedIsQueuedIn DEF Await, WorkerIsSound
  <2> QED BY <1>3, <1>6, <2>1, AwaitDoes DEF Await, WorkerIsSound
<1>7. CASE Finish(w)
  <2>1. ~QueuedIn(tasks, w)
    BY <1>2, <1>7 DEF Finish, WorkerIsSound
  <2> QED BY <1>3, <1>7, <2>1, IdleDoes DEF Finish, WorkerIsSound
<1> QED BY <1>4, <1>5, <1>6, <1>7

\* A task is appended by a process that begins to wait for it.
LEMMA AppendKeepsBase ==
    ASSUME Base, NEW t \in Task, tasks' = Append(tasks, t),
           UNCHANGED <<db, writes, pending, lost, failures, index>>,
           worker' \in [Workers -> Worker], operator' \in [Operators -> Operator],
           \A w \in Workers : \/ t.by # w /\ worker'[w] = worker[w]
                              \/ /\ worker'[w].phase = "waiting"
                                 /\ worker[w].phase # "idle"
                                 /\ worker'[w].job = worker[w].job,
           \A o \in Operators : \/ t.by # o /\ operator'[o] = operator[o]
                                \/ operator'[o].phase = "waiting" /\ operator'[o].at <= writes
    PROVE  Base'
<1>1. /\ failures \in 0 .. MaxFailures /\ index \in [Keys -> Doc \cup {NoDoc}]
      /\ tasks \in Seq(Task) /\ tasks' \in Seq(Task)
      /\ \A k \in Keys : HasLast(tasks, k)
  BY AppendProperties DEF Base, Typed, LastTaskExists
<1>2. /\ \A j \in pending \cup lost : j \in Jobs /\ j.n <= writes
      /\ \A w \in Workers : WorkerIsSound(w, worker[w], tasks)
      /\ \A o \in Operators : OperatorIsSound(o, operator[o], tasks)
  BY BaseIsSound
<1>3. \A k \in Keys : HasLast(tasks', k)
  BY <1>1, ServedAppend
<1>4. \A p : QueuedIn(tasks', p) <=> QueuedIn(tasks, p) \/ t.by = p
  BY <1>1, QueuedAppend
<1>5. \A w \in Workers : WorkerIsSound(w, worker'[w], tasks')
  BY <1>2, <1>4 DEF WorkerIsSound
<1>6. \A o \in Operators : OperatorIsSound(o, operator'[o], tasks')
  BY <1>2, <1>4 DEF OperatorIsSound
<1> QED BY <1>1, <1>2, <1>3, <1>5, <1>6, StepKeepsBase

LEMMA SendKeepsBase ==
    ASSUME Base, NEW w \in Workers, Send(w)
    PROVE  Base'
<1>1. PICK t : t = [by |-> w, update |-> Head(worker[w].todo)]
  OBVIOUS
<1>2. t \in Task /\ t.by = w /\ tasks' = Append(tasks, t)
  BY <1>1, SendDoes DEF Send
<1>3. \A o \in Operators : t.by # o
  BY <1>2, ProcessesAreDistinct
<1>4. \A v \in Workers : \/ t.by # v /\ worker'[v] = worker[v]
                         \/ /\ worker'[v].phase = "waiting"
                            /\ worker[v].phase # "idle"
                            /\ worker'[v].job = worker[v].job
  BY <1>2, SendDoes DEF Send
<1>5. operator \in [Operators -> Operator] /\ worker' \in [Workers -> Worker]
  BY SendDoes DEF Base, Typed
<1> QED BY <1>2, <1>3, <1>4, <1>5, AppendKeepsBase DEF Send

LEMMA GivingUpKeepsBase ==
    ASSUME Base, NEW ws \in SUBSET Workers, tasks' = Orphaned(ws),
           UNCHANGED <<db, writes, index, operator>>, failures' \in 0 .. MaxFailures,
           \A j \in pending' \cup lost' : j \in Jobs /\ j.n <= writes,
           worker' \in [Workers -> Worker],
           \A w \in Workers : IF w \in ws THEN worker'[w].phase = "idle"
                              ELSE worker'[w] = worker[w]
    PROVE  Base'
<1>1. /\ index \in [Keys -> Doc \cup {NoDoc}] /\ operator \in [Operators -> Operator]
      /\ tasks \in Seq(Task)
      /\ \A k \in Keys : HasLast(tasks, k)
  BY DEF Base, Typed, LastTaskExists
<1>2. /\ \A w \in Workers : WorkerIsSound(w, worker[w], tasks)
      /\ \A o \in Operators : OperatorIsSound(o, operator[o], tasks)
  BY BaseIsSound
<1>3. ws \subseteq Processes
  BY DEF Processes
<1>4. /\ tasks' \in Seq(Task)
      /\ DOMAIN tasks' = DOMAIN tasks
      /\ \A i \in DOMAIN tasks : tasks'[i].update = tasks[i].update
      /\ \A p \in Processes : QueuedIn(tasks', p) <=> QueuedIn(tasks, p) /\ p \notin ws
  BY <1>1, <1>3, OrphanedQueue
<1>5. \A k \in Keys : HasLast(tasks', k)
  BY <1>1, <1>4, ServedAlike
<1>6. \A w \in Workers : WorkerIsSound(w, worker'[w], tasks')
  BY <1>2, <1>4 DEF WorkerIsSound, Processes
<1>7. \A o \in Operators : OperatorIsSound(o, operator'[o], tasks')
  BY <1>2, <1>4 DEF OperatorIsSound, Processes
<1> QED BY <1>1, <1>4, <1>5, <1>6, <1>7, StepKeepsBase

LEMMA FailureKeepsBase ==
    ASSUME Base, (\E w \in Workers : Fail(w)) \/ Crash
    PROVE  Base'
<1>1. failures < MaxFailures => failures + 1 \in 0 .. MaxFailures
  BY BoundsAreNaturals DEF Base, Typed
<1>2. ASSUME NEW w \in Workers, Fail(w)
      PROVE  Base'
  <2>1. \A j \in pending' \cup lost' : j \in Jobs /\ j.n <= writes
    BY <1>2, BaseIsSound DEF Fail, Kept, WorkerIsSound
  <2>2. /\ worker' \in [Workers -> Worker]
        /\ \A v \in Workers : IF v \in {w} THEN worker'[v].phase = "idle"
                               ELSE worker'[v] = worker[v]
    BY <1>2, IdleDoes DEF Fail
  <2> QED BY <1>1, <1>2, <2>1, <2>2, GivingUpKeepsBase DEF Fail
<1>3. CASE Crash
  <2>1. /\ worker' \in [Workers -> Worker]
        /\ \A w \in Workers : worker'[w].phase = "idle"
    BY <1>3, WorkerTypes DEF Crash, Base, IdleWorker
  <2> QED BY <1>1, <1>3, <2>1, BaseIsSound, GivingUpKeepsBase DEF Crash
<1> QED BY <1>2, <1>3

LEMMA ExecuteDoes ==
    ASSUME Base, Execute
    PROVE  /\ index' \in [Keys -> Doc \cup {NoDoc}]
           /\ tasks \in Seq(Task) /\ tasks # <<>> /\ tasks' = Tail(tasks)
           /\ \A k \in Keys : index'[k] = IF k \in DOMAIN Head(tasks).update
                                          THEN Head(tasks).update[k] ELSE index[k]
<1>1. PICK u : u = Head(tasks).update
  OBVIOUS
<1>2. tasks \in Seq(Task) /\ tasks # <<>> /\ tasks' = Tail(tasks)
  BY DEF Execute, Base, Typed
<1>3. Head(tasks) \in Task
  BY <1>2, HeadTailProperties
<1>4. \A k \in DOMAIN u : u[k] \in Doc \cup {NoDoc}
  <2>1. u \in Updates
    BY <1>1, <1>3 DEF Task
  <2>2. PICK S \in SUBSET Keys : u \in [S -> Doc \cup {NoDoc}]
    BY <2>1 DEF Updates
  <2> QED BY <2>2
<1>5. index' = [k \in Keys |-> IF k \in DOMAIN u THEN u[k] ELSE index[k]]
  BY <1>1 DEF Execute
<1>6. index \in [Keys -> Doc \cup {NoDoc}]
  BY DEF Base, Typed
<1> QED BY <1>1, <1>2, <1>4, <1>5, <1>6

LEMMA ExecuteKeepsBase ==
    ASSUME Base, Execute
    PROVE  Base'
<1>1. /\ failures \in 0 .. MaxFailures
      /\ worker \in [Workers -> Worker] /\ operator \in [Operators -> Operator]
      /\ \A k \in Keys : HasLast(tasks, k)
  BY DEF Base, Typed, LastTaskExists
<1>2. /\ \A j \in pending \cup lost : j \in Jobs /\ j.n <= writes
      /\ \A w \in Workers : WorkerIsSound(w, worker[w], tasks)
      /\ \A o \in Operators : OperatorIsSound(o, operator[o], tasks)
  BY BaseIsSound
<1>3. /\ index' \in [Keys -> Doc \cup {NoDoc}]
      /\ tasks \in Seq(Task) /\ tasks # <<>> /\ tasks' = Tail(tasks)
      /\ \A k \in Keys : index'[k] = IF k \in DOMAIN Head(tasks).update
                                     THEN Head(tasks).update[k] ELSE index[k]
  BY ExecuteDoes
<1>4. tasks' \in Seq(Task)
  BY <1>3, HeadTailProperties
<1>5. \A k \in Keys : HasLast(tasks', k)
  BY <1>1, <1>3, ServedTail
<1>6. \A p : QueuedIn(tasks', p) => QueuedIn(tasks, p)
  BY <1>3, QueuedTail
<1>7. \A w \in Workers : WorkerIsSound(w, worker[w], tasks')
  BY <1>2, <1>6 DEF WorkerIsSound
<1>8. \A o \in Operators : OperatorIsSound(o, operator[o], tasks')
  BY <1>2, <1>6 DEF OperatorIsSound
<1> QED BY <1>1, <1>2, <1>3, <1>4, <1>5, <1>7, <1>8, StepKeepsBase DEF Execute

LEMMA ReindexTodoIs ==
    ASSUME NEW docs \in Updates, NEW rebuild \in BOOLEAN
    PROVE  /\ ReindexTodo(docs, rebuild) \in Seq(Updates)
           /\ DOMAIN docs = {} => ReindexTodo(docs, rebuild) = <<>>
           /\ DOMAIN docs # {} /\ rebuild => ReindexTodo(docs, rebuild) = <<Deletion(Keys), docs>>
           /\ DOMAIN docs # {} /\ ~rebuild => ReindexTodo(docs, rebuild) = <<docs>>
<1>1. PICK clear : clear = Deletion(Keys)
  OBVIOUS
<1>2. clear \in Updates
  BY <1>1, DeletionDeletes
<1>3. <<clear>> \o <<docs>> = <<clear, docs>> /\ <<>> \o <<docs>> = <<docs>>
  <2>1. <<clear>> \in Seq(Updates) /\ <<docs>> \in Seq(Updates)
    BY <1>2
  <2>2. <<>> \o <<docs>> = <<docs>>
    BY <2>1, ConcatEmptySeq
  <2>3. PICK us : us = <<clear>> \o <<docs>>
    OBVIOUS
  <2>4. us \in Seq(Updates) /\ Len(us) = 2 /\ us[1] = clear /\ us[2] = docs
    BY <2>1, <2>3, ConcatProperties
  <2>5. us = <<clear, docs>>
    BY <2>4
  <2> QED BY <2>2, <2>3, <2>5
<1>4. /\ DOMAIN docs = {} => ReindexTodo(docs, rebuild) = <<>>
      /\ DOMAIN docs # {} /\ rebuild => ReindexTodo(docs, rebuild) = <<clear, docs>>
      /\ DOMAIN docs # {} /\ ~rebuild => ReindexTodo(docs, rebuild) = <<docs>>
  BY <1>1, <1>3 DEF ReindexTodo
<1>5. <<clear, docs>> \in Seq(Updates) /\ <<docs>> \in Seq(Updates) /\ <<>> \in Seq(Updates)
  BY <1>2
<1> QED BY <1>1, <1>4, <1>5

LEMMA ReindexDoes ==
    ASSUME Base, NEW o \in Operators, NEW scope \in SUBSET Types, NEW rebuild \in BOOLEAN,
           Reindex(o, scope, rebuild)
    PROVE  /\ operator' \in [Operators -> Operator]
           /\ operator'[o].todo = ReindexTodo(DocsOfTypes(scope), rebuild)
           /\ operator'[o].phase = IF operator'[o].todo = <<>> THEN "done" ELSE "loaded"
           /\ operator'[o].rebuild = rebuild /\ operator'[o].scope = scope
           /\ operator'[o].at = writes
           /\ operator'[o].alone <=> WorkerIsIdle
           /\ \A p \in Operators : p # o => operator'[p] = operator[p]
<1>1. PICK todo : todo = ReindexTodo(DocsOfTypes(scope), rebuild)
  OBVIOUS
<1>2. todo \in Seq(Updates)
  BY <1>1, DocsOfTypesAreCurrent, ReindexTodoIs DEF Base, Typed
<1>3. PICK r : r = [phase |-> IF todo = <<>> THEN "done" ELSE "loaded", rebuild |-> rebuild,
                    scope |-> scope, at |-> writes, alone |-> WorkerIsIdle, todo |-> todo]
  OBVIOUS
<1>4. WorkerIsIdle \in BOOLEAN
  BY DEF WorkerIsIdle
<1>5. PICK b : b = WorkerIsIdle
  OBVIOUS
<1>6. r \in Operator
  <2>1. r = [phase |-> IF todo = <<>> THEN "done" ELSE "loaded", rebuild |-> rebuild,
             scope |-> scope, at |-> writes, alone |-> b, todo |-> todo]
    BY <1>3, <1>5
  <2>2. b \in BOOLEAN
    BY <1>4, <1>5
  <2>3. writes \in 0 .. MaxWrites
    BY DEF Base, Typed
  <2> QED BY <1>2, <2>1, <2>2, <2>3 DEF Operator
<1>7. operator' = [operator EXCEPT ![o] = r]
  BY <1>1, <1>3 DEF Reindex
<1>8. operator' \in [Operators -> Operator] /\ operator'[o] = r
      /\ \A p \in Operators : p # o => operator'[p] = operator[p]
  BY <1>6, <1>7 DEF Base, Typed
<1>9. /\ r.todo = todo /\ r.phase = IF todo = <<>> THEN "done" ELSE "loaded"
      /\ r.rebuild = rebuild /\ r.scope = scope /\ r.at = writes
  BY <1>3
<1>10. r.alone <=> WorkerIsIdle
  BY <1>3, Zenon
<1> QED BY <1>1, <1>8, <1>9, <1>10

LEMMA ReindexSendDoes ==
    ASSUME Base, NEW o \in Operators, ReindexSend(o)
    PROVE  /\ operator[o].todo \in Seq(Updates) /\ operator[o].todo # <<>>
           /\ [by |-> o, update |-> Head(operator[o].todo)] \in Task
           /\ operator' \in [Operators -> Operator]
           /\ operator'[o].phase = "waiting"
           /\ operator'[o].todo = Tail(operator[o].todo)
           /\ operator'[o].rebuild = operator[o].rebuild
           /\ operator'[o].scope = operator[o].scope
           /\ operator'[o].at = operator[o].at
           /\ operator'[o].alone = operator[o].alone
           /\ \A p \in Operators : p # o => operator'[p] = operator[p]
<1>1. PICK todo : todo = operator[o].todo
  OBVIOUS
<1>2. todo \in Seq(Updates) /\ todo # <<>>
  BY <1>1 DEF Base, Typed, Operator, PhasesAreTrue, ReindexSend
<1>3. Head(todo) \in Updates /\ Tail(todo) \in Seq(Updates)
  BY <1>2, HeadTailProperties
<1>4. operator' = [operator EXCEPT ![o].phase = "waiting", ![o].todo = Tail(todo)]
  BY <1>1 DEF ReindexSend, Base, Typed
<1>5. /\ operator' \in [Operators -> Operator]
      /\ operator'[o].phase = "waiting" /\ operator'[o].todo = Tail(todo)
      /\ \A p \in Operators : p # o => operator'[p] = operator[p]
  <2>1. operator \in [Operators -> Operator] /\ operator[o] \in Operator
    BY DEF Base, Typed
  <2>2. PICK r : r = [operator[o] EXCEPT !.phase = "waiting", !.todo = Tail(todo)]
    OBVIOUS
  <2>3. r \in Operator /\ r.phase = "waiting" /\ r.todo = Tail(todo)
    BY <1>3, <2>1, <2>2 DEF Operator
  <2>4. operator' = [operator EXCEPT ![o] = r]
    BY <1>4, <2>1, <2>2
  <2> QED BY <2>1, <2>3, <2>4
<1>6. /\ operator'[o].rebuild = operator[o].rebuild
      /\ operator'[o].scope = operator[o].scope
      /\ operator'[o].at = operator[o].at
      /\ operator'[o].alone = operator[o].alone
  BY <1>4 DEF Base, Typed, Operator
<1>7. [by |-> o, update |-> Head(todo)] \in Task
  BY <1>3 DEF Task, Processes
<1> QED BY <1>1, <1>2, <1>5, <1>6, <1>7

LEMMA ReindexAwaitDoes ==
    ASSUME Base, NEW o \in Operators, ReindexAwait(o)
    PROVE  /\ operator' \in [Operators -> Operator]
           /\ operator'[o].phase = IF operator[o].todo = <<>> THEN "done" ELSE "loaded"
           /\ operator'[o].todo = operator[o].todo
           /\ operator'[o].rebuild = operator[o].rebuild
           /\ operator'[o].scope = operator[o].scope
           /\ operator'[o].at = operator[o].at
           /\ operator'[o].alone = operator[o].alone
           /\ \A p \in Operators : p # o => operator'[p] = operator[p]
<1>1. PICK s \in {"done", "loaded"} : s = IF operator[o].todo = <<>> THEN "done" ELSE "loaded"
  OBVIOUS
<1>2. operator' = [operator EXCEPT ![o].phase = s]
  BY <1>1 DEF ReindexAwait
<1> QED BY <1>1, <1>2 DEF Base, Typed, Operator

LEMMA OperatorKeepsBase ==
    ASSUME Base, NEW o \in Operators,
           \/ \E scope \in SUBSET Types, rebuild \in BOOLEAN : Reindex(o, scope, rebuild)
           \/ ReindexSend(o)
           \/ ReindexAwait(o)
    PROVE  Base'
<1>1. /\ failures \in 0 .. MaxFailures /\ index \in [Keys -> Doc \cup {NoDoc}]
      /\ tasks \in Seq(Task) /\ worker \in [Workers -> Worker]
      /\ \A k \in Keys : HasLast(tasks, k)
      /\ writes \in Nat
  BY DEF Base, Typed, LastTaskExists
<1>2. /\ \A j \in pending \cup lost : j \in Jobs /\ j.n <= writes
      /\ \A w \in Workers : WorkerIsSound(w, worker[w], tasks)
      /\ \A p \in Operators : OperatorIsSound(p, operator[p], tasks)
  BY BaseIsSound
<1>3. ASSUME UNCHANGED <<db, writes, pending, lost, failures, index, tasks, worker>>,
             operator' \in [Operators -> Operator],
             OperatorIsSound(o, operator'[o], tasks),
             \A p \in Operators : p # o => operator'[p] = operator[p]
      PROVE  Base'
  BY <1>1, <1>2, <1>3, StepKeepsBase
<1>4. ASSUME NEW scope \in SUBSET Types, NEW rebuild \in BOOLEAN, Reindex(o, scope, rebuild)
      PROVE  Base'
  <2>1. ~QueuedIn(tasks, o)
    BY <1>2, <1>4 DEF Reindex, OperatorIsSound
  <2>2. /\ operator' \in [Operators -> Operator]
        /\ operator'[o].phase = IF operator'[o].todo = <<>> THEN "done" ELSE "loaded"
        /\ operator'[o].at = writes
        /\ \A p \in Operators : p # o => operator'[p] = operator[p]
    BY <1>4, ReindexDoes
  <2>3. OperatorIsSound(o, operator'[o], tasks)
    BY <1>1, <2>1, <2>2 DEF OperatorIsSound
  <2> QED BY <1>3, <1>4, <2>2, <2>3 DEF Reindex
<1>5. CASE ReindexSend(o)
  <2>1. PICK t : t = [by |-> o, update |-> Head(operator[o].todo)]
    OBVIOUS
  <2>2. t \in Task /\ t.by = o /\ tasks' = Append(tasks, t)
    BY <1>5, <2>1, ReindexSendDoes DEF ReindexSend
  <2>3. \A w \in Workers : t.by # w
    BY <2>2, ProcessesAreDistinct
  <2>4. operator[o].at <= writes
    BY <1>2 DEF OperatorIsSound
  <2>5. \A p \in Operators : \/ t.by # p /\ operator'[p] = operator[p]
                             \/ operator'[p].phase = "waiting" /\ operator'[p].at <= writes
    BY <1>5, <2>2, <2>4, ReindexSendDoes
  <2>6. /\ operator' \in [Operators -> Operator] /\ worker' = worker
        /\ UNCHANGED <<db, writes, pending, lost, failures, index>>
    BY <1>5, ReindexSendDoes DEF ReindexSend
  <2> QED BY <1>1, <2>2, <2>3, <2>5, <2>6, AppendKeepsBase
<1>6. CASE ReindexAwait(o)
  <2>1. ~QueuedIn(tasks, o) /\ operator[o].at <= writes
    BY <1>2, <1>6, QueuedIsQueuedIn DEF ReindexAwait, OperatorIsSound
  <2>2. OperatorIsSound(o, operator'[o], tasks)
    BY <1>6, <2>1, ReindexAwaitDoes DEF OperatorIsSound
  <2> QED BY <1>3, <1>6, <2>2, ReindexAwaitDoes DEF ReindexAwait
<1> QED BY <1>4, <1>5, <1>6

LEMMA NextKeepsBase ==
    ASSUME Base, [Next]_vars
    PROVE  Base'
<1>1. \A scope \in {Types} \cup {{t} : t \in Types} : scope \in SUBSET Types
  OBVIOUS
<1>2. ASSUME NEW o \in Operators, NEW rebuild \in BOOLEAN,
             NEW scope \in {Types} \cup {{t} : t \in Types}, Reindex(o, scope, rebuild)
      PROVE  Base'
  BY <1>1, <1>2, OperatorKeepsBase
<1>3. ASSUME NEW w \in Workers, WorkerStep(w) \/ Fail(w)
      PROVE  Base'
  BY <1>3, WorkerKeepsBase, SendKeepsBase, FailureKeepsBase DEF WorkerStep
<1>4. ASSUME NEW w \in Workers, NEW j \in Jobs, Take(w, j)
      PROVE  Base'
  BY <1>4, WorkerKeepsBase
<1>5. ASSUME NEW o \in Operators, OperatorStep(o)
      PROVE  Base'
  BY <1>5, OperatorKeepsBase DEF OperatorStep
<1>6. CASE UNCHANGED vars
  BY <1>6 DEF vars, Base, Typed, OnlyWaitersAreQueued, PhasesAreTrue, LastTaskExists,
     JobsAreNumbered, Queued
<1> QED BY <1>2, <1>3, <1>4, <1>5, <1>6, WriteKeepsBase, ExecuteKeepsBase, FailureKeepsBase
        DEF Next

LEMMA InitBase == Init => Base
<1> SUFFICES ASSUME Init PROVE Base
  OBVIOUS
<1>1. tasks = <<>> /\ tasks \in Seq(Task) /\ DOMAIN tasks = {}
  BY DEF Init
<1>2. worker \in [Workers -> Worker] /\ operator \in [Operators -> Operator]
  <2>1. IdleWorker \in Worker
    BY DEF IdleWorker, Worker
  <2>2. IdleOperator \in Operator
    BY BoundsAreNaturals DEF IdleOperator, Operator
  <2> QED BY <2>1, <2>2 DEF Init
<1>3. Typed
  BY <1>1, <1>2, BoundsAreNaturals DEF Init, Typed, Versions, NoVersions
<1>4. OnlyWaitersAreQueued /\ LastTaskExists
  BY <1>1 DEF OnlyWaitersAreQueued, Queued, LastTaskExists, HasLast, Untouched
<1>5. PhasesAreTrue /\ JobsAreNumbered
  BY <1>2, BoundsAreNaturals
     DEF Init, PhasesAreTrue, JobsAreNumbered, IdleWorker, IdleOperator
<1> QED BY <1>3, <1>4, <1>5 DEF Base

(***************************************************************************)
(* What the engine will serve, and what the database calls for.            *)
(***************************************************************************)
LEMMA EngineStaysTheSame ==
    ASSUME UNCHANGED <<index, tasks>>
    PROVE  \A k : Upcoming(k)' = Upcoming(k)
BY UpcomingIsServed

LEMMA EngineAppends ==
    ASSUME Base, NEW t \in Task, tasks' = Append(tasks, t), UNCHANGED index
    PROVE  \A k \in Keys : Upcoming(k)' = IF k \in DOMAIN t.update THEN t.update[k] ELSE Upcoming(k)
<1>1. tasks \in Seq(Task) /\ \A k \in Keys : HasLast(tasks, k)
  BY DEF Base, Typed, LastTaskExists
<1>2. \A k \in Keys : Served(index, Append(tasks, t), k) =
         IF k \in DOMAIN t.update THEN t.update[k] ELSE Served(index, tasks, k)
  BY <1>1, ServedAppend
<1> QED BY <1>2, UpcomingIsServed

LEMMA EngineExecutes ==
    ASSUME Base, Execute
    PROVE  \A k \in Keys : Upcoming(k)' = Upcoming(k)
<1>1. \A k \in Keys : HasLast(tasks, k)
  BY DEF Base, LastTaskExists
<1>2. PICK x : x = index
  OBVIOUS
<1>3. PICK y : y = index'
  OBVIOUS
<1>4. PICK ts : ts = tasks
  OBVIOUS
<1>5. /\ ts \in Seq(Task) /\ ts # <<>> /\ tasks' = Tail(ts)
      /\ \A k \in Keys : y[k] = IF k \in DOMAIN Head(ts).update THEN Head(ts).update[k] ELSE x[k]
  BY <1>2, <1>3, <1>4, ExecuteDoes
<1>6. \A k \in Keys : Served(y, Tail(ts), k) = Served(x, ts, k)
  BY <1>1, <1>4, <1>5, ServedTail
<1>7. \A k \in Keys : Upcoming(k)' = Served(y, Tail(ts), k) /\ Upcoming(k) = Served(x, ts, k)
  BY <1>2, <1>3, <1>4, <1>5, UpcomingIsServed
<1> QED BY <1>6, <1>7

LEMMA EngineIsGivenUp ==
    ASSUME Base, NEW ws \in SUBSET Workers, tasks' = Orphaned(ws), UNCHANGED index
    PROVE  \A k \in Keys : Upcoming(k)' = Upcoming(k)
<1>1. tasks \in Seq(Task) /\ \A k \in Keys : HasLast(tasks, k)
  BY DEF Base, Typed, LastTaskExists
<1>2. /\ Orphaned(ws) \in Seq(Task)
      /\ DOMAIN Orphaned(ws) = DOMAIN tasks
      /\ \A i \in DOMAIN tasks : Orphaned(ws)[i].update = tasks[i].update
  BY <1>1, OrphanedQueue DEF Processes
<1>3. PICK ts : ts = Orphaned(ws)
  OBVIOUS
<1>4. \A k \in Keys : Served(index, ts, k) = Served(index, tasks, k)
  BY <1>1, <1>2, <1>3, ServedAlike
<1> QED BY <1>3, <1>4, UpcomingIsServed

LEMMA DatabaseStaysTheSame ==
    ASSUME UNCHANGED db
    PROVE  /\ \A k : Current(k)' = Current(k)
           /\ \A types : DocsOfTypes(types)' = DocsOfTypes(types)
<1>1. \A k : Current(k)' = Current(k)
  BY DEF Current
<1>2. \A types : DocsOfTypes(types)' = DocsOfTypes(types)
  BY <1>1 DEF DocsOfTypes
<1> QED BY <1>1, <1>2

(***************************************************************************)
(* A reindex of an idle system.                                            *)
(***************************************************************************)
OneOperator == \A o, p \in Operators : o = p

LEMMA ProgressAfter ==
    ASSUME UNCHANGED db, NEW o, NEW scope, NEW r, operator'[o] = r, r.scope = scope,
           NEW docs, docs = DocsOfTypes(scope),
           \/ r.todo = <<Deletion(Keys), docs>> /\ r.phase = "loaded"
           \/ r.todo = <<docs>> /\ (r.rebuild => Cleared')
           \/ r.todo = <<>> /\ Upserted(docs, r.rebuild)'
    PROVE  Progress(o)'
<1>1. DocsOfTypes(scope)' = docs
  BY DatabaseStaysTheSame
<1>2. DocsOfTypes(operator[o].scope)' = DocsOfTypes(scope)'
  BY DEF DocsOfTypes
<1>3. Deletion(Keys)' = Deletion(Keys)
  BY DEF Deletion
<1>4. CASE r.todo = <<Deletion(Keys), docs>> /\ r.phase = "loaded"
  BY <1>1, <1>2, <1>3, <1>4 DEF Progress
<1>5. CASE r.todo = <<docs>> /\ (r.rebuild => Cleared')
  BY <1>1, <1>2, <1>5 DEF Progress
<1>6. CASE r.todo = <<>> /\ Upserted(docs, r.rebuild)'
  <2>1. Upserted(docs, operator[o].rebuild)'
    BY <1>6 DEF Upserted
  <2> QED BY <1>1, <1>2, <1>6, <2>1 DEF Progress
<1> QED BY <1>4, <1>5, <1>6

LEMMA ReindexStarts ==
    ASSUME ReindexInv, NEW o \in Operators, NEW scope \in SUBSET Types,
           NEW rebuild \in BOOLEAN, Reindex(o, scope, rebuild), Undisturbed(o)'
    PROVE  /\ pending' = {}
           /\ \A w \in Workers : worker'[w].phase = "idle"
           /\ \A i \in DOMAIN tasks' : tasks'[i].by = o
           /\ Progress(o)'
<1>1. PICK docs : docs = DocsOfTypes(scope)
  OBVIOUS
<1>2. /\ operator'[o].todo = ReindexTodo(docs, rebuild)
      /\ operator'[o].phase = IF operator'[o].todo = <<>> THEN "done" ELSE "loaded"
      /\ operator'[o].rebuild = rebuild /\ operator'[o].scope = scope
      /\ operator'[o].alone <=> WorkerIsIdle
  BY <1>1, ReindexDoes DEF ReindexInv
<1>3. UNCHANGED <<db, pending, index, tasks, worker>>
  BY DEF Reindex
<1>4. pending = {} /\ tasks = <<>> /\ \A w \in Workers : worker[w].phase = "idle"
  BY <1>2 DEF Undisturbed, WorkerIsIdle
<1>5. docs \in Updates
  BY <1>1, DocsOfTypesAreCurrent DEF ReindexInv, Base, Typed
<1>6. PICK r : r = operator'[o]
  OBVIOUS
<1>7. CASE DOMAIN docs = {}
  <2>1. operator'[o].todo = <<>>
    BY <1>2, <1>5, <1>7, ReindexTodoIs
  <2>2. Upserted(docs, r.rebuild)'
    BY <1>7 DEF Upserted
  <2>3. Progress(o)'
    BY <1>1, <1>2, <1>3, <1>6, <2>1, <2>2, ProgressAfter
  <2> QED BY <1>3, <1>4, <2>3
<1>8. CASE DOMAIN docs # {} /\ rebuild
  <2>1. operator'[o].todo = <<Deletion(Keys), docs>>
    BY <1>2, <1>5, <1>8, ReindexTodoIs
  <2>2. operator'[o].phase = "loaded"
    BY <1>2, <2>1
  <2>3. Progress(o)'
    BY <1>1, <1>2, <1>3, <1>6, <2>1, <2>2, ProgressAfter
  <2> QED BY <1>3, <1>4, <2>3
<1>9. CASE DOMAIN docs # {} /\ ~rebuild
  <2>1. operator'[o].todo = <<docs>>
    BY <1>2, <1>5, <1>9, ReindexTodoIs
  <2>2. Progress(o)'
    BY <1>1, <1>2, <1>3, <1>6, <1>9, <2>1, ProgressAfter
  <2> QED BY <1>3, <1>4, <2>2
<1> QED BY <1>7, <1>8, <1>9

LEMMA ReindexSends ==
    ASSUME ReindexInv, NEW o \in Operators, ReindexSend(o), Undisturbed(o)
    PROVE  /\ \A i \in DOMAIN tasks' : tasks'[i].by = o
           /\ Progress(o)'
<1>1. PICK t : t = [by |-> o, update |-> Head(operator[o].todo)]
  OBVIOUS
<1>2. PICK docs : docs = DocsOfTypes(operator[o].scope)
  OBVIOUS
<1>3. /\ t \in Task /\ t.by = o /\ t.update = Head(operator[o].todo)
      /\ tasks' = Append(tasks, t)
      /\ UNCHANGED <<db, index>>
  BY <1>1, ReindexSendDoes DEF ReindexSend, ReindexInv
<1>4. /\ operator[o].todo # <<>>
      /\ operator'[o].phase = "waiting"
      /\ operator'[o].todo = Tail(operator[o].todo)
      /\ operator'[o].rebuild = operator[o].rebuild
      /\ operator'[o].scope = operator[o].scope
  BY ReindexSendDoes DEF ReindexInv
<1>5. \A i \in DOMAIN tasks' : tasks'[i].by = o
  <2>1. tasks \in Seq(Task) /\ \A i \in DOMAIN tasks : tasks[i].by = o
    BY DEF ReindexInv, ReindexIsAlone, Base, Typed
  <2> QED BY <1>3, <2>1, AppendProperties
<1>6. \A k \in Keys : Upcoming(k)' = IF k \in DOMAIN t.update THEN t.update[k] ELSE Upcoming(k)
  BY <1>3, EngineAppends DEF ReindexInv
<1>7. PICK r : r = operator'[o]
  OBVIOUS
<1>8. DOMAIN docs \subseteq Keys
  BY <1>2, DocsHaveKeys
<1>9. \/ operator[o].todo = <<Deletion(Keys), docs>>
      \/ operator[o].todo = <<docs>> /\ (operator[o].rebuild => Cleared)
  BY <1>2, <1>4 DEF ReindexInv, ReindexIsAlone, Progress
<1>10. CASE operator[o].todo = <<Deletion(Keys), docs>>
  <2>1. t.update = Deletion(Keys) /\ operator'[o].todo = <<docs>>
    BY <1>3, <1>4, <1>10
  <2>2. \A k \in Keys : Upcoming(k)' = NoDoc
    BY <1>6, <2>1, DeletionDeletes
  <2>3. Cleared'
    BY <2>2 DEF Cleared
  <2> QED BY <1>2, <1>3, <1>4, <1>5, <1>7, <2>1, <2>3, ProgressAfter
<1>11. CASE operator[o].todo = <<docs>> /\ (operator[o].rebuild => Cleared)
  <2>1. t.update = docs /\ operator'[o].todo = <<>>
    BY <1>3, <1>4, <1>11
  <2>2. \A k \in DOMAIN docs : Upcoming(k)' = docs[k]
    BY <1>6, <1>8, <2>1
  <2>3. operator[o].rebuild => \A k \in Keys \ DOMAIN docs : Upcoming(k)' = NoDoc
    BY <1>6, <1>11, <2>1 DEF Cleared
  <2>4. Upserted(docs, r.rebuild)'
    <3>1. r.rebuild = operator[o].rebuild
      BY <1>4, <1>7
    <3> QED BY <2>2, <2>3, <3>1 DEF Upserted
  <2> QED BY <1>2, <1>3, <1>4, <1>5, <1>7, <2>1, <2>4, ProgressAfter
<1> QED BY <1>9, <1>10, <1>11

\* Nothing of a reindex changes while the engine is to serve the same.
LEMMA ReindexProceeds ==
    ASSUME Base, NEW o \in Operators, Progress(o), UNCHANGED db,
           \A k \in Keys : Upcoming(k)' = Upcoming(k),
           operator'[o].scope = operator[o].scope, operator'[o].todo = operator[o].todo,
           operator'[o].rebuild = operator[o].rebuild,
           operator[o].phase = "loaded" => operator'[o].phase = "loaded"
    PROVE  Progress(o)'
<1>1. PICK docs : docs = DocsOfTypes(operator[o].scope)
  OBVIOUS
<1>2. PICK r : r = operator'[o]
  OBVIOUS
<1>3. DOMAIN docs \subseteq Keys
  BY <1>1, DocsHaveKeys
<1>4. CASE operator[o].todo = <<Deletion(Keys), docs>> /\ operator[o].phase = "loaded"
  BY <1>1, <1>2, <1>4, ProgressAfter
<1>5. CASE operator[o].todo = <<docs>> /\ (operator[o].rebuild => Cleared)
  <2>1. r.rebuild => Cleared'
    BY <1>2, <1>5 DEF Cleared
  <2> QED BY <1>1, <1>2, <1>5, <2>1, ProgressAfter
<1>6. CASE operator[o].todo = <<>> /\ Upserted(docs, operator[o].rebuild)
  <2>1. r.rebuild = operator[o].rebuild
    BY <1>2
  <2>2. Upserted(docs, r.rebuild)'
    BY <1>3, <1>6, <2>1 DEF Upserted
  <2> QED BY <1>1, <1>2, <1>6, <2>2, ProgressAfter
<1> QED BY <1>1, <1>4, <1>5, <1>6 DEF Progress

LEMMA ReindexNextKeeps ==
    ASSUME OneOperator, ReindexInv, [Next]_vars
    PROVE  ReindexInv'
<1> USE DEF ReindexInv
<1>1. Base'
  BY NextKeepsBase
<1> DEFINE Fine(o) == /\ pending = {}
                      /\ \A w \in Workers : worker[w].phase = "idle"
                      /\ \A i \in DOMAIN tasks : tasks[i].by = o
                      /\ Progress(o)
<1>2. SUFFICES ASSUME NEW o \in Operators, Undisturbed(o)'
               PROVE  Fine(o)'
  BY <1>1 DEF ReindexIsAlone
<1>3. ASSUME operator'[o] = operator[o], writes' = writes
      PROVE  Undisturbed(o) /\ Fine(o)
  BY <1>2, <1>3 DEF Undisturbed, ReindexIsAlone
<1>4. CASE Write
  <2>1. operator' = operator /\ writes' = writes + 1
    BY <1>4 DEF Write, SaveDraft, Publish, Unpublish, DiscardDraft, Remove, WriteEntry,
       ChangeSchema, Import, Number, engine
  <2>2. operator[o].at <= writes /\ operator[o].at \in Nat /\ writes \in Nat
    BY DEF Base, Typed, JobsAreNumbered, Operator
  <2> QED BY <1>2, <2>1, <2>2 DEF Undisturbed
<1>5. ASSUME NEW w \in Workers, WorkerStep(w) \/ Fail(w) \/ \E j \in Jobs : Take(w, j)
      PROVE  Fine(o)'
  <2>1. operator' = operator /\ writes' = writes
    BY <1>5 DEF WorkerStep, Fail, Take, Load, Send, Await, Finish
  <2>2. worker[w].phase # "idle" \/ pending # {}
    BY <1>5 DEF WorkerStep, Fail, Take, Load, Send, Await, Finish
  <2> QED BY <1>3, <2>1, <2>2
<1>6. ASSUME Crash \/ Execute \/ UNCHANGED vars
      PROVE  Fine(o)'
  <2>1. UNCHANGED <<db, writes, pending, operator>>
    BY <1>6 DEF Crash, Execute, vars
  <2>2. Undisturbed(o) /\ Fine(o)
    BY <1>3, <2>1
  <2>3. \A k \in Keys : Upcoming(k)' = Upcoming(k)
    BY <1>6, EngineStaysTheSame, EngineExecutes, EngineIsGivenUp DEF Crash, vars
  <2>4. Progress(o)'
    BY <2>1, <2>2, <2>3, ReindexProceeds
  <2>5. \A w \in Workers : worker'[w].phase = "idle"
    BY <1>6, <2>2, WorkerTypes DEF Crash, Execute, vars, IdleWorker
  <2>6. \A i \in DOMAIN tasks' : tasks'[i].by = o
    <3>1. tasks \in Seq(Task) /\ o \notin Workers
      BY ProcessesAreDistinct DEF Base, Typed
    <3>2. CASE Crash
      BY <2>2, <3>1, <3>2, OrphanedQueue DEF Crash, Processes
    <3>3. CASE Execute
      BY <2>2, <3>1, <3>3, HeadTailProperties DEF Execute
    <3>4. CASE UNCHANGED vars
      BY <2>2, <3>4 DEF vars
    <3> QED BY <1>6, <3>2, <3>3, <3>4
  <2> QED BY <2>1, <2>2, <2>4, <2>5, <2>6
<1>7. ASSUME NEW p \in Operators, NEW rebuild \in BOOLEAN, NEW scope \in SUBSET Types,
             Reindex(p, scope, rebuild)
      PROVE  Fine(o)'
  <2>1. p = o
    BY DEF OneOperator
  <2> QED BY <1>2, <1>7, <2>1, ReindexStarts
<1>8. ASSUME NEW p \in Operators, OperatorStep(p)
      PROVE  Fine(o)'
  <2>1. p = o
    BY DEF OneOperator
  <2>2. UNCHANGED <<db, writes, pending, index, worker>>
    BY <1>8 DEF OperatorStep, ReindexSend, ReindexAwait
  <2>3. CASE ReindexSend(o)
    <3>1. Undisturbed(o)
      BY <1>2, <2>2, <2>3, ReindexSendDoes DEF Undisturbed, ReindexSend
    <3> QED BY <2>2, <2>3, <3>1, ReindexSends DEF ReindexIsAlone
  <2>4. CASE ReindexAwait(o)
    <3>1. Undisturbed(o) /\ operator[o].phase = "waiting" /\ tasks' = tasks
      BY <1>2, <2>2, <2>4, ReindexAwaitDoes DEF Undisturbed, ReindexAwait
    <3>2. Fine(o)
      BY <3>1 DEF ReindexIsAlone
    <3>3. Progress(o)'
      BY <2>2, <2>4, <3>1, <3>2, ReindexAwaitDoes, EngineStaysTheSame, ReindexProceeds
    <3> QED BY <2>2, <3>1, <3>2, <3>3
  <2> QED BY <1>8, <2>1, <2>3, <2>4 DEF OperatorStep
<1>9. \A scope \in {Types} \cup {{t} : t \in Types} : scope \in SUBSET Types
  OBVIOUS
<1> QED BY <1>4, <1>5, <1>6, <1>7, <1>8, <1>9 DEF Next

\* The authoritative recovery path (reindex.ts): for any number of entries, types and
\* workers, one search:reindex at a time, started on an idle system, gives every
\* indexable version in its scope its document, and a rebuild of everything leaves
\* nothing else, whatever was lost before.
THEOREM ReindexIsRecovery ==
    ASSUME OneOperator
    PROVE  Spec => []ReindexRepairs
<1>1. Init => ReindexInv
  <2>1. Init => ReindexIsAlone
    BY DEF Init, ReindexIsAlone, Undisturbed, IdleOperator
  <2> QED BY <2>1, InitBase DEF ReindexInv
<1>2. ReindexInv /\ [Next]_vars => ReindexInv'
  BY ReindexNextKeeps
<1>3. ReindexInv => ReindexRepairs
  <2> SUFFICES ASSUME ReindexInv, NEW o \in Operators, Reindexed(o), operator[o].alone
               PROVE  DocumentsAreCurrent(o) /\ NothingElseRemains(o)
    BY DEF ReindexRepairs
  <2> PICK docs : docs = DocsOfTypes(operator[o].scope)
    OBVIOUS
  <2>1. Undisturbed(o) /\ operator[o].phase = "done" /\ operator[o].todo = <<>>
    BY DEF Reindexed, Undisturbed, ReindexInv, Base, PhasesAreTrue
  <2>2. /\ \A i \in DOMAIN tasks : tasks[i].by = o
        /\ Upserted(docs, operator[o].rebuild)
    BY <2>1 DEF ReindexInv, ReindexIsAlone, Progress
  <2>3. \A i \in DOMAIN tasks : FALSE
    BY <2>1, <2>2 DEF ReindexInv, Base, OnlyWaitersAreQueued, Queued
  <2>4. \A k : Upcoming(k) = index[k]
    BY <2>3, UpcomingIsServed, ServedUntouched DEF Untouched
  <2>5. /\ DOMAIN docs = {k \in Keys : TypeOf[k[1]] \in operator[o].scope /\ Current(k) # NoDoc}
        /\ \A k \in DOMAIN docs : docs[k] = Current(k)
    BY DocsOfTypesAreCurrent DEF ReindexInv, Base, Typed
  <2>6. DocumentsAreCurrent(o)
    BY <2>2, <2>4, <2>5 DEF Upserted, DocumentsAreCurrent
  <2>7. NothingElseRemains(o)
    <3> SUFFICES ASSUME operator[o].rebuild, operator[o].scope = Types,
                        NEW c \in Keys, Current(c) # NoDoc, NEW k \in Keys
                 PROVE  index[k] = Current(k)
      BY DEF NothingElseRemains
    <3>1. \A l \in Keys : TypeOf[l[1]] \in Types
      BY EntriesHaveTypes DEF Keys
    <3>2. c \in DOMAIN docs
      BY <2>5, <3>1
    <3>3. k \in DOMAIN docs \/ Current(k) = NoDoc
      BY <2>5, <3>1
    <3> QED BY <2>2, <2>4, <2>5, <3>2, <3>3 DEF Upserted
  <2> QED BY <2>6, <2>7
<1> QED BY <1>1, <1>2, <1>3, PTL DEF Spec

(***************************************************************************)
(* A delivery is ahead of every drift.  One key at a time: what is to be   *)
(* served for it, and what a worker has read of it.                        *)
(***************************************************************************)
Outstanding == pending \cup lost

KeyIsAhead(k) == Upcoming(k) # Current(k) => \E j \in Outstanding : Reconciles(j, k)

ReadIsAhead(w, k) ==
    /\ \A i \in DOMAIN worker[w].todo : k \in DOMAIN worker[w].todo[i] =>
          worker[w].todo[i][k] = Current(k) \/ Another(w, k)
    /\ Reconciles(worker[w].job, k)
          /\ (\A i \in DOMAIN worker[w].todo : k \notin DOMAIN worker[w].todo[i])
       => Upcoming(k) = Current(k) \/ Another(w, k)

Busy(w) == worker[w].phase \in {"sending", "waiting"}

LEMMA DriftByKey ==
    /\ KeysAreAhead <=> \A k \in Keys \ excused : KeyIsAhead(k)
    /\ ReadsAreAhead <=>
          \A w \in Workers : Busy(w) => \A k \in Keys \ excused : ReadIsAhead(w, k)
BY DEF KeysAreAhead, KeyIsAhead, ReadsAreAhead, ReadIsAhead, Busy, Outstanding

LEMMA KeyStaysAhead ==
    ASSUME NEW k, KeyIsAhead(k), Current(k)' = Current(k),
           Upcoming(k)' \in {Upcoming(k), Current(k)}, Outstanding \subseteq Outstanding'
    PROVE  KeyIsAhead(k)'
BY DEF KeyIsAhead, Reconciles

LEMMA ReadStaysAhead ==
    ASSUME NEW k, NEW w, ReadIsAhead(w, k), Current(k)' = Current(k),
           Upcoming(k)' \in {Upcoming(k), Current(k)}, Outstanding \subseteq Outstanding',
           worker'[w].todo = worker[w].todo, worker'[w].job = worker[w].job
    PROVE  ReadIsAhead(w, k)'
<1>1. Another(w, k) => Another(w, k)'
  BY DEF Another, Reconciles, Outstanding
<1>2. Reconciles(worker[w].job, k)' => Reconciles(worker[w].job, k)
  BY DEF Reconciles
<1> QED BY <1>1, <1>2 DEF ReadIsAhead

\* Steps that write nothing, and read or finish nothing.
LEMMA StepStaysAhead ==
    ASSUME KeysAreAhead, ReadsAreAhead, UNCHANGED db, excused \subseteq excused',
           \A k \in Keys \ excused' : Upcoming(k)' \in {Upcoming(k), Current(k)},
           Outstanding \subseteq Outstanding',
           \A w \in Workers : Busy(w)' => /\ Busy(w)
                                          /\ worker'[w].todo = worker[w].todo
                                          /\ worker'[w].job = worker[w].job
    PROVE  KeysAreAhead' /\ ReadsAreAhead'
<1>1. \A k : Current(k)' = Current(k)
  BY DatabaseStaysTheSame
<1>2. ASSUME NEW k \in Keys \ excused'
      PROVE  /\ KeyIsAhead(k)'
             /\ \A w \in Workers : Busy(w)' => ReadIsAhead(w, k)'
  <2>1. KeyIsAhead(k) /\ \A w \in Workers : Busy(w) => ReadIsAhead(w, k)
    BY DriftByKey
  <2> QED BY <1>1, <2>1, KeyStaysAhead, ReadStaysAhead
<1>3. KeysAreAhead'
  BY <1>2 DEF KeysAreAhead, KeyIsAhead, Outstanding
<1>4. ReadsAreAhead'
  BY <1>2 DEF ReadsAreAhead, ReadIsAhead, Busy
<1> QED BY <1>3, <1>4

\* A write is ahead of the keys it disturbs: its delivery is new.
LEMMA WriteIsAhead ==
    ASSUME Base, KeysAreAhead, ReadsAreAhead, UNCHANGED engine, UNCHANGED lost,
           NEW j \in Jobs, j.n = writes + 1, pending' = pending \cup {j},
           \A k \in Keys \ excused' :
              \/ Reconciles(j, k)'
              \/ k \notin excused /\ Current(k)' = Current(k)
    PROVE  KeysAreAhead' /\ ReadsAreAhead'
<1>1. /\ \A k : Upcoming(k)' = Upcoming(k)
      /\ Outstanding \subseteq Outstanding' /\ j \in Outstanding'
      /\ worker' = worker
  BY EngineStaysTheSame DEF engine, Outstanding
<1>2. \A w \in Workers : Busy(w) => worker[w].job # j
  <2>1. writes \in Nat
    BY DEF Base, Typed
  <2> QED BY <2>1 DEF Base, JobsAreNumbered, Busy
<1>3. ASSUME NEW k \in Keys \ excused'
      PROVE  KeyIsAhead(k)' /\ \A w \in Workers : Busy(w)' => ReadIsAhead(w, k)'
  <2>1. CASE Reconciles(j, k)'
    <3>1. KeyIsAhead(k)'
      BY <1>1, <2>1 DEF KeyIsAhead
    <3>2. \A w \in Workers : Busy(w)' => Another(w, k)'
      BY <1>1, <1>2, <2>1 DEF Another, Busy, Outstanding
    <3> QED BY <3>1, <3>2 DEF ReadIsAhead
  <2>2. CASE k \notin excused /\ Current(k)' = Current(k)
    <3>1. KeyIsAhead(k) /\ \A w \in Workers : Busy(w) => ReadIsAhead(w, k)
      BY <2>2, DriftByKey
    <3>2. \A w \in Workers : Busy(w)' => Busy(w)
      BY <1>1 DEF Busy
    <3> QED BY <1>1, <2>2, <3>1, <3>2, KeyStaysAhead, ReadStaysAhead
  <2> QED BY <1>3, <2>1, <2>2
<1>4. KeysAreAhead'
  BY <1>3 DEF KeysAreAhead, KeyIsAhead, Outstanding
<1>5. ReadsAreAhead'
  BY <1>3 DEF ReadsAreAhead, ReadIsAhead, Busy
<1> QED BY <1>4, <1>5

LEMMA ReconcilesAfter ==
    ASSUME NEW j, NEW k,
           \/ j.kind = "entry" /\ j.of = k[1]
           \/ j.kind = "type" /\ j.of = TypeOf[k[1]] /\ Current(k)' # NoDoc
    PROVE  Reconciles(j, k)'
BY DEF Reconciles

LEMMA CurrentAfter ==
    ASSUME db' \in [Entries -> Versions], NEW k \in Keys
    PROVE  Current(k)' # NoDoc <=> db'[k[1]][k[2]] # 0
<1>1. k[1] \in Entries /\ db'[k[1]] \in Versions
  BY DEF Keys
<1>2. PICK vs \in Versions : vs = db'[k[1]]
  BY <1>1
<1>3. Current(k)' = LET docs == DocsOf(k[1], vs) IN IF k \in DOMAIN docs THEN docs[k] ELSE NoDoc
  BY <1>2 DEF Current
<1> QED BY <1>1, <1>2, <1>3, DocsAreOfTheEntry, DocIsNotNoDoc

LEMMA WriteStaysAhead ==
    ASSUME Base, KeysAreAhead, ReadsAreAhead, Write
    PROVE  KeysAreAhead' /\ ReadsAreAhead'
<1>1. ASSUME NEW e \in Entries,
             SaveDraft(e) \/ Publish(e) \/ Unpublish(e) \/ DiscardDraft(e) \/ Remove(e)
      PROVE  KeysAreAhead' /\ ReadsAreAhead'
  <2>1. PICK vs \in Versions : WriteEntry(e, vs)
    BY <1>1, EntryWrites DEF Base
  <2>2. PICK j : j = [kind |-> "entry", of |-> e, n |-> Number]
    OBVIOUS
  <2>3. j \in Jobs /\ j.kind = "entry" /\ j.of = e /\ j.n = writes + 1
    BY <2>1, <2>2, EntryWriteIsTyped DEF Base, Number
  <2>4. ASSUME NEW k \in Keys \ excused'
        PROVE  Reconciles(j, k)' \/ (k \notin excused /\ Current(k)' = Current(k))
    <3>1. CASE k[1] = e
      BY <2>3, <3>1, ReconcilesAfter
    <3>2. CASE k[1] # e
      <4>1. db'[k[1]] = db[k[1]]
        BY <2>1, <3>2, EntryWriteIsTyped DEF Base, Keys
      <4>2. Current(k)' = Current(k)
        BY <4>1 DEF Current
      <4> QED BY <2>1, <3>2, <4>2 DEF WriteEntry
    <3> QED BY <3>1, <3>2
  <2> QED BY <2>1, <2>2, <2>3, <2>4, WriteIsAhead DEF WriteEntry
<1>2. ASSUME NEW t \in Types, ChangeSchema(t)
      PROVE  KeysAreAhead' /\ ReadsAreAhead'
  <2>1. PICK j : j = [kind |-> "type", of |-> t, n |-> Number]
    OBVIOUS
  <2>2. j \in Jobs /\ j.n = writes + 1
    BY <1>2, <2>1, SchemaChangeIsTyped DEF Base, Number
  <2>3. UNCHANGED <<db, excused, lost, engine>> /\ pending' = pending \cup {j}
    BY <1>2, <2>1 DEF ChangeSchema
  <2>4. \A k : Current(k)' = Current(k)
    BY <2>3, DatabaseStaysTheSame
  <2> QED BY <2>2, <2>3, <2>4, WriteIsAhead
<1>3. ASSUME NEW e \in Entries, NEW statuses, Import(e, statuses)
      PROVE  KeysAreAhead' /\ ReadsAreAhead'
  <2>1. PICK j : j = [kind |-> "type", of |-> TypeOf[e], n |-> Number]
    OBVIOUS
  <2>2. j \in Jobs /\ j.kind = "type" /\ j.of = TypeOf[e] /\ j.n = writes + 1
    BY <1>3, <2>1, ImportIsTyped DEF Base, Number
  <2>3. db \in [Entries -> Versions] /\ db' \in [Entries -> Versions]
    BY <1>3, ImportIsTyped DEF Base, Typed
  <2>4. ASSUME NEW k \in Keys \ excused'
        PROVE  Reconciles(j, k)' \/ (k \notin excused /\ Current(k)' = Current(k))
    <3>1. k \notin excused
      BY <1>3 DEF Import
    <3>2. CASE k[1] # e
      <4>1. db'[k[1]] = db[k[1]]
        BY <1>3, <3>2, ImportIsTyped DEF Base, Keys
      <4> QED BY <3>1, <4>1 DEF Current
    <3>3. CASE k[1] = e /\ Current(k)' # NoDoc
      BY <2>2, <3>3, ReconcilesAfter
    <3>4. CASE k[1] = e /\ Current(k)' = NoDoc
      <4>1. db'[e][k[2]] = 0
        BY <2>3, <3>4, CurrentAfter
      <4>2. db[e][k[2]] = 0
        BY <1>3, <3>4, <4>1 DEF Import
      <4>3. Current(k) = NoDoc
        BY <2>3, <3>4, <4>2, CurrentIsADoc
      <4> QED BY <3>1, <3>4, <4>3
    <3> QED BY <3>2, <3>3, <3>4
  <2> QED BY <1>3, <2>1, <2>2, <2>4, WriteIsAhead DEF Import
<1> QED BY <1>1, <1>2, <1>3 DEF Write

\* What a worker has just read is current.
LEMMA LoadStaysAhead ==
    ASSUME Base, KeysAreAhead, ReadsAreAhead, NEW w \in Workers, Load(w)
    PROVE  KeysAreAhead' /\ ReadsAreAhead'
<1>1. UNCHANGED <<db, pending, lost, index, tasks, excused>>
  BY DEF Load
<1>2. /\ \A k : Current(k)' = Current(k) /\ Upcoming(k)' = Upcoming(k)
      /\ Outstanding' = Outstanding
  BY <1>1, DatabaseStaysTheSame, EngineStaysTheSame DEF Outstanding
<1>3. PICK todo : todo = worker'[w].todo
  OBVIOUS
<1>4. /\ worker'[w].job = worker[w].job
      /\ \A k \in Keys : Brings(todo, k)
      /\ \A k \in Keys : Reconciles(worker[w].job, k) => Reaches(todo, k)
      /\ \A v \in Workers : v # w => worker'[v] = worker[v]
  BY <1>3, LoadDoes
<1>5. ASSUME NEW k \in Keys \ excused
      PROVE  KeyIsAhead(k)' /\ \A v \in Workers : Busy(v)' => ReadIsAhead(v, k)'
  <2>1. KeyIsAhead(k) /\ \A v \in Workers : Busy(v) => ReadIsAhead(v, k)
    BY DriftByKey
  <2>2. ReadIsAhead(w, k)'
    <3>1. \A i \in DOMAIN todo : k \in DOMAIN todo[i] => todo[i][k] = Current(k)'
      BY <1>2, <1>4 DEF Brings
    <3>2. Reconciles(worker[w].job, k)' => \E i \in DOMAIN todo : k \in DOMAIN todo[i]
      BY <1>2, <1>4 DEF Reconciles, Reaches
    <3> QED BY <1>3, <3>1, <3>2 DEF ReadIsAhead
  <2>3. ASSUME NEW v \in Workers, v # w, Busy(v)' PROVE ReadIsAhead(v, k)'
    BY <1>2, <1>4, <2>1, <2>3, ReadStaysAhead DEF Busy
  <2>4. KeyIsAhead(k)'
    BY <1>2, <2>1, KeyStaysAhead
  <2> QED BY <2>2, <2>3, <2>4
<1> QED BY <1>1, <1>5 DEF KeysAreAhead, KeyIsAhead, ReadsAreAhead, ReadIsAhead, Busy, Outstanding

OneWorker == \A v, w \in Workers : v = w

\* What it sends is current, or another delivery is ahead.
LEMMA SendStaysAhead ==
    ASSUME OneWorker, Base, KeysAreAhead, ReadsAreAhead, NEW w \in Workers, Send(w)
    PROVE  KeysAreAhead' /\ ReadsAreAhead'
<1>1. PICK todo : todo = worker[w].todo
  OBVIOUS
<1>2. PICK t : t = [by |-> w, update |-> Head(todo)]
  OBVIOUS
<1>3. UNCHANGED <<db, pending, lost, index, excused>> /\ tasks' = Append(tasks, t)
  BY <1>1, <1>2 DEF Send
<1>4. /\ t \in Task /\ t.update = Head(todo)
      /\ worker'[w].job = worker[w].job /\ worker'[w].todo = Tail(todo)
  BY <1>1, <1>2, SendDoes
<1>5. todo \in Seq(Updates) /\ todo # <<>>
  BY <1>1, WorkerTypes DEF Base, Send
<1>6. /\ 1 \in DOMAIN todo /\ Head(todo) = todo[1]
      /\ \A i \in DOMAIN Tail(todo) : i + 1 \in DOMAIN todo /\ Tail(todo)[i] = todo[i + 1]
      /\ \A i \in DOMAIN todo : i # 1 => i - 1 \in DOMAIN Tail(todo) /\ Tail(todo)[i - 1] = todo[i]
  BY <1>5, HeadTailProperties
<1>7. PICK rest : rest = Tail(todo)
  OBVIOUS
<1>8. /\ \A i \in DOMAIN rest : \E h \in DOMAIN todo : rest[i] = todo[h]
      /\ \A i \in DOMAIN todo : i = 1 \/ \E h \in DOMAIN rest : rest[h] = todo[i]
  BY <1>6, <1>7
<1>9. /\ \A k : Current(k)' = Current(k)
      /\ \A k \in Keys : Upcoming(k)' = IF k \in DOMAIN todo[1] THEN todo[1][k] ELSE Upcoming(k)
      /\ Outstanding' = Outstanding
  BY <1>3, <1>4, <1>6, DatabaseStaysTheSame, EngineAppends DEF Outstanding
<1>10. ASSUME NEW k \in Keys \ excused
       PROVE  KeyIsAhead(k)' /\ ReadIsAhead(w, k)'
  <2>1. KeyIsAhead(k) /\ ReadIsAhead(w, k)
    BY DriftByKey DEF Send, Busy
  <2>2. Another(w, k)' <=> Another(w, k)
    BY <1>4, <1>9 DEF Another, Reconciles, Outstanding
  <2>3. \A i \in DOMAIN todo : k \in DOMAIN todo[i] => todo[i][k] = Current(k) \/ Another(w, k)
    BY <1>1, <2>1 DEF ReadIsAhead
  <2>4. Another(w, k) => \E j \in Outstanding : Reconciles(j, k)
    BY DEF Another, Outstanding
  <2>5. KeyIsAhead(k)'
    <3>1. Upcoming(k)' # Current(k) => \E j \in Outstanding : Reconciles(j, k)
      BY <1>6, <1>9, <2>1, <2>3, <2>4 DEF KeyIsAhead
    <3> QED BY <1>9, <3>1 DEF KeyIsAhead, Reconciles
  <2>6. \A i \in DOMAIN rest : k \in DOMAIN rest[i] => rest[i][k] = Current(k) \/ Another(w, k)
    BY <1>8, <2>3
  <2>7. ASSUME Reconciles(worker[w].job, k), \A i \in DOMAIN rest : k \notin DOMAIN rest[i]
        PROVE  Upcoming(k)' = Current(k) \/ Another(w, k)
    <3>1. CASE k \in DOMAIN todo[1]
      BY <1>6, <1>9, <2>3, <3>1
    <3>2. CASE k \notin DOMAIN todo[1]
      <4>1. \A i \in DOMAIN todo : k \notin DOMAIN todo[i]
        BY <1>8, <2>7, <3>2
      <4> QED BY <1>1, <1>9, <2>1, <2>7, <3>2, <4>1 DEF ReadIsAhead
    <3> QED BY <3>1, <3>2
  <2>8. Reconciles(worker[w].job, k)' => Reconciles(worker[w].job, k)
    BY <1>4, <1>9 DEF Reconciles
  <2>9. worker'[w].todo = rest
    BY <1>4, <1>7
  <2> QED BY <1>9, <2>2, <2>5, <2>6, <2>7, <2>8, <2>9 DEF ReadIsAhead
<1>11. \A v \in Workers : v = w
  BY DEF OneWorker
<1> QED BY <1>3, <1>10, <1>11
        DEF KeysAreAhead, KeyIsAhead, ReadsAreAhead, ReadIsAhead, Busy, Outstanding

\* A delivery is settled when nothing depends on it any more.
LEMMA FinishStaysAhead ==
    ASSUME OneWorker, Base, KeysAreAhead, ReadsAreAhead, NEW w \in Workers, Finish(w)
    PROVE  KeysAreAhead' /\ ReadsAreAhead'
<1>1. PICK job : job = worker[w].job
  OBVIOUS
<1>2. UNCHANGED <<db, lost, index, tasks, excused>> /\ pending' = pending \ {job}
  BY <1>1 DEF Finish
<1>3. \A k : Current(k)' = Current(k) /\ Upcoming(k)' = Upcoming(k)
  BY <1>2, DatabaseStaysTheSame, EngineStaysTheSame
<1>4. Outstanding \ {job} \subseteq Outstanding'
  BY <1>2 DEF Outstanding
<1>5. ASSUME NEW k \in Keys \ excused
      PROVE  KeyIsAhead(k)'
  <2>1. KeyIsAhead(k) /\ ReadIsAhead(w, k)
    BY DriftByKey DEF Finish, Busy
  <2> SUFFICES ASSUME Upcoming(k) # Current(k)
               PROVE  \E j \in Outstanding' : Reconciles(j, k)
    BY <1>3 DEF KeyIsAhead, Reconciles
  <2>2. PICK j \in Outstanding : Reconciles(j, k)
    BY <2>1 DEF KeyIsAhead
  <2>3. CASE j # job
    BY <1>4, <2>2, <2>3
  <2>4. CASE j = job
    <3>1. \A i \in DOMAIN worker[w].todo : FALSE
      BY DEF Finish
    <3>2. Another(w, k)
      BY <1>1, <2>1, <2>2, <2>4, <3>1 DEF ReadIsAhead
    <3> QED BY <1>1, <1>4, <3>2 DEF Another, Outstanding
  <2> QED BY <2>3, <2>4
<1>6. \A v \in Workers : ~Busy(v)'
  BY IdleDoes DEF OneWorker, Busy, Finish
<1> QED BY <1>2, <1>5, <1>6 DEF KeysAreAhead, KeyIsAhead, ReadsAreAhead, Busy, Outstanding

LEMMA OthersStayAhead ==
    ASSUME Base, KeysAreAhead, ReadsAreAhead,
           \/ \E w \in Workers : Await(w) \/ Fail(w) \/ \E j \in Jobs : Take(w, j)
           \/ Crash \/ Execute \/ UNCHANGED vars
           \/ \E o \in Operators, scope \in SUBSET Types, rebuild \in BOOLEAN :
                 Reindex(o, scope, rebuild)
           \/ \E o \in Operators : OperatorStep(o)
    PROVE  KeysAreAhead' /\ ReadsAreAhead'
<1>1. ASSUME NEW w \in Workers, Await(w) \/ \E j \in Jobs : Take(w, j)
      PROVE  KeysAreAhead' /\ ReadsAreAhead'
  <2>1. UNCHANGED <<db, pending, lost, index, tasks, excused>>
    BY <1>1 DEF Await, Take
  <2>2. \A v \in Workers : Busy(v)' => /\ Busy(v)
                                       /\ worker'[v].todo = worker[v].todo
                                       /\ worker'[v].job = worker[v].job
    BY <1>1, AwaitDoes, TakeDoes DEF Busy, Await
  <2> QED BY <2>1, <2>2, EngineStaysTheSame, StepStaysAhead DEF Outstanding
<1>2. ASSUME NEW w \in Workers, Fail(w)
      PROVE  KeysAreAhead' /\ ReadsAreAhead'
  <2>1. /\ UNCHANGED <<db, index, excused>> /\ tasks' = Orphaned({w})
        /\ Outstanding \subseteq Outstanding'
    BY <1>2 DEF Fail, Kept, Outstanding
  <2>2. \A v \in Workers : Busy(v)' => Busy(v) /\ worker'[v] = worker[v]
    BY <1>2, IdleDoes DEF Fail, Busy
  <2> QED BY <2>1, <2>2, EngineIsGivenUp, StepStaysAhead
<1>3. CASE Crash
  <2>1. /\ UNCHANGED <<db, index, excused>> /\ tasks' = Orphaned(Workers)
        /\ Outstanding \subseteq Outstanding'
    BY <1>3 DEF Crash, Outstanding
  <2>2. \A v \in Workers : ~Busy(v)'
    BY <1>3 DEF Crash, Busy, IdleWorker
  <2> QED BY <2>1, <2>2, EngineIsGivenUp, StepStaysAhead
<1>4. CASE Execute
  <2>1. UNCHANGED <<db, pending, lost, worker, excused>>
    BY <1>4 DEF Execute
  <2> QED BY <1>4, <2>1, EngineExecutes, StepStaysAhead DEF Outstanding, Busy
<1>5. CASE UNCHANGED vars
  BY <1>5, EngineStaysTheSame, StepStaysAhead DEF vars, Outstanding, Busy
<1>6. ASSUME NEW o \in Operators,
             \/ \E scope \in SUBSET Types, rebuild \in BOOLEAN : Reindex(o, scope, rebuild)
             \/ ReindexAwait(o)
      PROVE  KeysAreAhead' /\ ReadsAreAhead'
  <2>1. UNCHANGED <<db, pending, lost, index, tasks, worker, excused>>
    BY <1>6 DEF Reindex, ReindexAwait
  <2> QED BY <2>1, EngineStaysTheSame, StepStaysAhead DEF Outstanding, Busy
<1>7. ASSUME NEW o \in Operators, ReindexSend(o)
      PROVE  KeysAreAhead' /\ ReadsAreAhead'
  <2>1. PICK t : t = [by |-> o, update |-> Head(operator[o].todo)]
    OBVIOUS
  <2>2. /\ UNCHANGED <<db, pending, lost, index, worker>>
        /\ tasks' = Append(tasks, t)
        /\ excused' = excused \cup {k \in DOMAIN t.update : t.update[k] # Current(k)}
    BY <1>7, <2>1 DEF ReindexSend
  <2>3. t \in Task
    BY <1>7, <2>1, ReindexSendDoes
  <2>4. \A k \in Keys \ excused' : Upcoming(k)' \in {Upcoming(k), Current(k)}
    BY <2>2, <2>3, EngineAppends
  <2> QED BY <2>2, <2>4, StepStaysAhead DEF Outstanding, Busy
<1> QED BY <1>1, <1>2, <1>3, <1>4, <1>5, <1>6, <1>7 DEF OperatorStep

(***************************************************************************)
(* The engine's queue has a task of each process that waits, and one for   *)
(* each failure.                                                           *)
(***************************************************************************)
Waiting(ts) == {p \in Processes : QueuedIn(ts, p)}

LEMMA WaitingIsFinite ==
    /\ IsFiniteSet(Processes)
    /\ \A ts : IsFiniteSet(Waiting(ts)) /\ Cardinality(Waiting(ts)) \in Nat
    /\ \A ts : Cardinality(Waiting(ts)) <= Cardinality(Workers) + Cardinality(Operators)
<1>1. /\ IsFiniteSet(Processes)
      /\ Cardinality(Processes) <= Cardinality(Workers) + Cardinality(Operators)
  <2>1. /\ IsFiniteSet(Processes)
        /\ Cardinality(Processes) =
             Cardinality(Workers) + Cardinality(Operators) - Cardinality(Workers \cap Operators)
    BY ProcessesAreFinite, FS_Union DEF Processes
  <2>2. Cardinality(Workers \cap Operators) = 0
    BY ProcessesAreDistinct, FS_EmptySet
  <2>3. Cardinality(Workers) \in Nat /\ Cardinality(Operators) \in Nat
    BY ProcessesAreFinite, FS_CardinalityType
  <2> QED BY <2>1, <2>2, <2>3
<1>2. \A ts : Waiting(ts) \in SUBSET Processes
  BY DEF Waiting
<1>3. \A ts : /\ IsFiniteSet(Waiting(ts))
              /\ Cardinality(Waiting(ts)) <= Cardinality(Processes)
  BY <1>1, <1>2, FS_Subset
<1>4. /\ Cardinality(Processes) \in Nat
      /\ Cardinality(Workers) \in Nat /\ Cardinality(Operators) \in Nat
      /\ \A ts : Cardinality(Waiting(ts)) \in Nat
  BY <1>1, <1>3, ProcessesAreFinite, FS_CardinalityType
<1> QED BY <1>1, <1>3, <1>4

\* At most one process less waits.
LEMMA OneLessWaits ==
    ASSUME NEW ts, NEW us, NEW q, Waiting(ts) \ {q} \subseteq Waiting(us)
    PROVE  Cardinality(Waiting(ts)) <= Cardinality(Waiting(us)) + 1
<1>1. IsFiniteSet(Waiting(us)) /\ Cardinality(Waiting(us)) \in Nat
  BY WaitingIsFinite
<1>2. PICK more : more = Waiting(us) \cup {q}
  OBVIOUS
<1>3. IsFiniteSet(more) /\ Cardinality(more) <= Cardinality(Waiting(us)) + 1
  <2>1. /\ IsFiniteSet(more)
        /\ Cardinality(more) = IF q \in Waiting(us) THEN Cardinality(Waiting(us))
                               ELSE Cardinality(Waiting(us)) + 1
    BY <1>1, <1>2, FS_AddElement
  <2> QED BY <1>1, <2>1
<1>4. Waiting(ts) \in SUBSET more
  BY <1>2
<1>5. Cardinality(Waiting(ts)) <= Cardinality(more) /\ Cardinality(Waiting(ts)) \in Nat
  BY <1>3, <1>4, FS_Subset, WaitingIsFinite
<1>6. Cardinality(more) \in Nat
  BY <1>3, FS_CardinalityType
<1> QED BY <1>1, <1>3, <1>5, <1>6

LEMMA BoundByWaiting ==
    /\ QueueIsBounded <=> Len(tasks) <= Cardinality(Waiting(tasks)) + failures
    /\ QueueIsBounded' <=> Len(tasks') <= Cardinality(Waiting(tasks')) + failures'
BY DEF QueueIsBounded, Callers, Waiting, Queued, QueuedIn

LEMMA BoundAfterAppend ==
    ASSUME Base, QueueIsBounded, NEW t \in Task, t.by \in Processes, ~QueuedIn(tasks, t.by),
           tasks' = Append(tasks, t), failures' = failures
    PROVE  QueueIsBounded'
<1>1. tasks \in Seq(Task) /\ Len(tasks') = Len(tasks) + 1
  BY AppendProperties DEF Base, Typed
<1>2. Waiting(tasks') = Waiting(tasks) \cup {t.by} /\ t.by \notin Waiting(tasks)
  BY <1>1, QueuedAppend DEF Waiting
<1>3. Cardinality(Waiting(tasks')) = Cardinality(Waiting(tasks)) + 1
  BY <1>2, WaitingIsFinite, FS_AddElement
<1>4. failures \in Nat /\ Len(tasks) \in Nat /\ Cardinality(Waiting(tasks)) \in Nat
  BY <1>1, WaitingIsFinite DEF Base, Typed
<1> QED BY <1>1, <1>3, <1>4, BoundByWaiting

LEMMA BoundAfterExecute ==
    ASSUME Base, QueueIsBounded, Execute
    PROVE  QueueIsBounded'
<1>1. /\ tasks \in Seq(Task) /\ tasks # <<>> /\ tasks' = Tail(tasks)
      /\ failures' = failures
  BY ExecuteDoes DEF Execute
<1>2. Len(tasks') = Len(tasks) - 1
  BY <1>1, HeadTailProperties
<1>3. Waiting(tasks) \ {Head(tasks).by} \subseteq Waiting(tasks')
  BY <1>1, QueuedTail DEF Waiting
<1>4. Cardinality(Waiting(tasks)) <= Cardinality(Waiting(tasks')) + 1
  BY <1>3, OneLessWaits
<1>5. /\ failures \in Nat /\ Len(tasks) \in Nat
      /\ Cardinality(Waiting(tasks)) \in Nat /\ Cardinality(Waiting(tasks')) \in Nat
  BY <1>1, WaitingIsFinite DEF Base, Typed
<1> QED BY <1>1, <1>2, <1>4, <1>5, BoundByWaiting

LEMMA BoundAfterFailure ==
    ASSUME OneWorker, Base, QueueIsBounded, (\E w \in Workers : Fail(w)) \/ Crash
    PROVE  QueueIsBounded'
<1>1. PICK ws \in SUBSET Workers : tasks' = Orphaned(ws) /\ failures' = failures + 1
  BY DEF Fail, Crash
<1>2. tasks \in Seq(Task) /\ ws \in SUBSET Processes
  BY DEF Base, Typed, Processes
<1>3. /\ Len(tasks') = Len(tasks)
      /\ \A p \in Processes : QueuedIn(tasks', p) <=> QueuedIn(tasks, p) /\ p \notin ws
  BY <1>1, <1>2, OrphanedQueue
<1>4. PICK q : \A w \in ws : w = q
  BY DEF OneWorker
<1>5. Waiting(tasks) \ {q} \subseteq Waiting(tasks')
  BY <1>3, <1>4 DEF Waiting
<1>6. Cardinality(Waiting(tasks)) <= Cardinality(Waiting(tasks')) + 1
  BY <1>5, OneLessWaits
<1>7. /\ failures \in Nat /\ Len(tasks) \in Nat
      /\ Cardinality(Waiting(tasks)) \in Nat /\ Cardinality(Waiting(tasks')) \in Nat
  BY <1>2, WaitingIsFinite DEF Base, Typed
<1> QED BY <1>1, <1>3, <1>6, <1>7, BoundByWaiting

LEMMA BoundIsKept ==
    ASSUME OneWorker, Base, QueueIsBounded, [Next]_vars
    PROVE  QueueIsBounded'
<1>1. ASSUME UNCHANGED <<tasks, failures>>
      PROVE  QueueIsBounded'
  BY <1>1, BoundByWaiting
<1>2. CASE Write
  BY <1>1, <1>2 DEF Write, SaveDraft, Publish, Unpublish, DiscardDraft, Remove, WriteEntry,
     ChangeSchema, Import, engine
<1>3. ASSUME NEW w \in Workers,
             Load(w) \/ Await(w) \/ Finish(w) \/ \E j \in Jobs : Take(w, j)
      PROVE  QueueIsBounded'
  BY <1>1, <1>3 DEF Load, Await, Finish, Take
<1>4. ASSUME NEW o \in Operators,
             \/ \E scope \in SUBSET Types, rebuild \in BOOLEAN : Reindex(o, scope, rebuild)
             \/ ReindexAwait(o)
      PROVE  QueueIsBounded'
  BY <1>1, <1>4 DEF Reindex, ReindexAwait
<1>5. ASSUME NEW w \in Workers, Send(w)
      PROVE  QueueIsBounded'
  <2>1. PICK t : t = [by |-> w, update |-> Head(worker[w].todo)]
    OBVIOUS
  <2>2. t \in Task /\ t.by = w /\ w \in Processes
    BY <1>5, <2>1, SendDoes DEF Processes
  <2>3. ~QueuedIn(tasks, w)
    BY <1>5, BaseIsSound DEF Send, WorkerIsSound
  <2>4. tasks' = Append(tasks, t) /\ failures' = failures
    BY <1>5, <2>1 DEF Send
  <2> QED BY <2>2, <2>3, <2>4, BoundAfterAppend
<1>6. ASSUME NEW o \in Operators, ReindexSend(o)
      PROVE  QueueIsBounded'
  <2>1. PICK t : t = [by |-> o, update |-> Head(operator[o].todo)]
    OBVIOUS
  <2>2. t \in Task /\ t.by = o /\ o \in Processes
    BY <1>6, <2>1, ReindexSendDoes DEF Processes
  <2>3. ~QueuedIn(tasks, o)
    BY <1>6, BaseIsSound DEF ReindexSend, OperatorIsSound
  <2>4. tasks' = Append(tasks, t) /\ failures' = failures
    BY <1>6, <2>1 DEF ReindexSend
  <2> QED BY <2>2, <2>3, <2>4, BoundAfterAppend
<1>7. CASE UNCHANGED vars
  BY <1>1, <1>7 DEF vars
<1>8. \A scope \in {Types} \cup {{t} : t \in Types} : scope \in SUBSET Types
  OBVIOUS
<1>9. ASSUME NEW o \in Operators, NEW rebuild \in BOOLEAN,
             NEW scope \in {Types} \cup {{t} : t \in Types}, Reindex(o, scope, rebuild)
      PROVE  QueueIsBounded'
  BY <1>4, <1>8, <1>9
<1> QED BY <1>2, <1>3, <1>4, <1>5, <1>6, <1>7, <1>9, BoundAfterExecute, BoundAfterFailure
        DEF Next, WorkerStep, OperatorStep

LEMMA DriftNextKeeps ==
    ASSUME OneWorker, DriftInv, [Next]_vars
    PROVE  DriftInv'
<1>1. Base /\ QueueIsBounded /\ KeysAreAhead /\ ReadsAreAhead
  BY DEF DriftInv
<1>2. Base' /\ QueueIsBounded'
  BY <1>1, NextKeepsBase, BoundIsKept
<1>3. ASSUME NEW w \in Workers, WorkerStep(w)
      PROVE  KeysAreAhead' /\ ReadsAreAhead'
  BY <1>1, <1>3, LoadStaysAhead, SendStaysAhead, FinishStaysAhead, OthersStayAhead DEF WorkerStep
<1>4. \A scope \in {Types} \cup {{t} : t \in Types} : scope \in SUBSET Types
  OBVIOUS
<1>5. ASSUME NEW o \in Operators, NEW rebuild \in BOOLEAN,
             NEW scope \in {Types} \cup {{t} : t \in Types}, Reindex(o, scope, rebuild)
      PROVE  KeysAreAhead' /\ ReadsAreAhead'
  BY <1>1, <1>4, <1>5, OthersStayAhead
<1>6. KeysAreAhead' /\ ReadsAreAhead'
  BY <1>1, <1>3, <1>5, WriteStaysAhead, OthersStayAhead DEF Next
<1> QED BY <1>2, <1>6 DEF DriftInv

\* syncToSearchIndex: for any number of entries, types, operators, failures and writes,
\* if one worker handles the deliveries, a document that will not be what the database
\* calls for has a delivery ahead that puts it right, or one that was given up.
THEOREM DriftHasADelivery ==
    ASSUME OneWorker
    PROVE  Spec => []DriftIsAhead
<1>1. Init => DriftInv
  <2> SUFFICES ASSUME Init PROVE DriftInv
    OBVIOUS
  <2>1. Base
    BY InitBase
  <2>2. DOMAIN tasks = {} /\ Len(tasks) = 0
    BY DEF Init
  <2>3. QueueIsBounded
    BY <2>2, WaitingIsFinite, BoundByWaiting DEF Init
  <2>4. KeysAreAhead
    <3> SUFFICES ASSUME NEW k \in Keys PROVE Upcoming(k) = Current(k)
      BY DEF KeysAreAhead
    <3>1. Upcoming(k) = NoDoc
      BY <2>2, UpcomingIsServed, ServedUntouched DEF Untouched, Init
    <3>2. db \in [Entries -> Versions] /\ db[k[1]][k[2]] = 0
      BY <2>1 DEF Base, Typed, Init, Keys, NoVersions
    <3> QED BY <3>1, <3>2, CurrentIsADoc
  <2>5. ReadsAreAhead
    BY DEF Init, ReadsAreAhead, IdleWorker
  <2> QED BY <2>1, <2>3, <2>4, <2>5 DEF DriftInv
<1>2. DriftInv /\ [Next]_vars => DriftInv'
  BY DriftNextKeeps
<1>3. DriftInv => DriftIsAhead
  <2> SUFFICES ASSUME DriftInv PROVE DriftIsAhead
    OBVIOUS
  <2>1. Typed /\ QueueIsBounded /\ KeysAreAhead
    BY DEF DriftInv, Base
  <2>2. Len(tasks) <= Cardinality(Workers) + Cardinality(Operators) + failures
    <3>1. /\ Len(tasks) \in Nat /\ failures \in Nat
          /\ Cardinality(Workers) \in Nat /\ Cardinality(Operators) \in Nat
      BY <2>1, ProcessesAreFinite, FS_CardinalityType DEF Typed
    <3>2. /\ Cardinality(Waiting(tasks)) \in Nat
          /\ Cardinality(Waiting(tasks)) <= Cardinality(Workers) + Cardinality(Operators)
      BY WaitingIsFinite
    <3> QED BY <2>1, <3>1, <3>2, BoundByWaiting
  <2>3. TypeOK
    BY <2>1, <2>2 DEF Typed, TypeOK, Worker, Operator
  <2> QED BY <2>1, <2>3 DEF DriftIsAhead, KeysAreAhead
<1> QED BY <1>1, <1>2, <1>3, PTL DEF Spec
=============================================================================
