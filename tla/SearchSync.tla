----------------------------- MODULE SearchSync -----------------------------
(***************************************************************************)
(* The search index follows the versions of the entries.  A write enqueues *)
(* a delivery to the internal "Search index sync" webhook in its own       *)
(* transaction; the worker runs syncToSearchIndex for it, which loads the  *)
(* entry as it is by then and sends tasks to the search engine.  The       *)
(* engine queues tasks and executes them in order; the worker waits for    *)
(* each of its tasks, and a wait that times out fails the delivery while   *)
(* the task stays queued.  `pnpm search:reindex` is a process of its own.  *)
(*                                                                         *)
(* A version is abstracted to the number of the write that stored it, and  *)
(* an entry to its versions with an indexable status.                      *)
(***************************************************************************)
EXTENDS Integers, Sequences, FiniteSets

CONSTANTS
    Entries, Types,
    TypeOf,         \* the content type of each entry
    Workers,        \* deliveries to this webhook run at the same time
    Operators,      \* search:reindex processes run at the same time
    MaxWrites,      \* bound on the writes
    MaxFailures,    \* bound on failed deliveries and crashes
    NoWorker, NoJob

ASSUME EntriesHaveTypes == TypeOf \in [Entries -> Types]
ASSUME BoundsAreNaturals == MaxWrites \in Nat /\ MaxFailures \in Nat
ASSUME ProcessesAreFinite == IsFiniteSet(Workers) /\ IsFiniteSet(Operators)
ASSUME ProcessesAreDistinct ==
    Workers \cap Operators = {} /\ NoWorker \notin Workers \cup Operators

VARIABLES
    db,         \* the indexable versions of each entry
    writes,     \* the number of writes so far
    pending,    \* deliveries not settled
    lost,       \* deliveries given up
    failures,   \* failures so far
    index,      \* the documents the engine serves
    tasks,      \* the engine's queue
    worker,
    operator,
    excused     \* history: keys an import emptied, or a reindex wrote from an old read

vars == <<db, writes, pending, lost, failures, index, tasks, worker, operator, excused>>

----------------------------------------------------------------------------
(* Documents.                                                              *)

\* INDEXABLE_STATUSES.
Statuses == {"DRAFT", "CHANGED", "PUBLISHED"}

\* searchDocId: one document per entry and status.
Keys == Entries \X Statuses

\* 0 stands for "no version with this status".
Versions == [Statuses -> 0 .. MaxWrites]
NoVersions == [s \in Statuses |-> 0]

Doc == [version : 1 .. MaxWrites, working : BOOLEAN]
NoDoc == [version |-> 0, working |-> FALSE]

\* The working version: CHANGED, else DRAFT, else PUBLISHED.
Working(vs) == IF vs["CHANGED"] # 0 THEN "CHANGED"
               ELSE IF vs["DRAFT"] # 0 THEN "DRAFT" ELSE "PUBLISHED"

\* buildEntrySearchDocuments, as the documents of the entry's present keys.
DocsOf(e, vs) ==
    [k \in {<<e, s>> : s \in {s \in Statuses : vs[s] # 0}} |->
        [version |-> vs[k[2]], working |-> k[2] = Working(vs)]]

\* An update of the index: a document, or its deletion, for some keys.
Updates == UNION {[S -> Doc \cup {NoDoc}] : S \in SUBSET Keys}

\* What the index would hold for a key if it were in step.
Current(k) == LET docs == DocsOf(k[1], db[k[1]])
              IN  IF k \in DOMAIN docs THEN docs[k] ELSE NoDoc

\* addDocuments for all entries of these types.
DocsOfTypes(types) ==
    LET present == {k \in Keys : TypeOf[k[1]] \in types /\ Current(k) # NoDoc}
    IN  [k \in present |-> Current(k)]

Deletion(keys) == [k \in keys |-> NoDoc]

\* What is sent of an update: nothing, if it has no key.
Call(update) == IF DOMAIN update = {} THEN <<>> ELSE <<update>>

----------------------------------------------------------------------------

\* CONTENT_BULK_SYNC and CONTENT_TYPE_SCHEMA_CHANGED carry a type, the others an
\* entry.  `n` is the write that enqueued the delivery.
Jobs == [kind : {"entry"}, of : Entries, n : 1 .. MaxWrites]
        \cup [kind : {"type"}, of : Types, n : 1 .. MaxWrites]

Worker == [phase : {"idle", "taken", "sending", "waiting"},
           job : Jobs \cup {NoJob}, todo : Seq(Updates)]
IdleWorker == [phase |-> "idle", job |-> NoJob, todo |-> <<>>]

\* `at` and `alone` are history: the number of writes when the operator's process
\* read the database, and whether the worker and the engine were idle then.
Operator == [phase : {"idle", "loaded", "waiting", "done"}, rebuild : BOOLEAN,
             scope : SUBSET Types, at : 0 .. MaxWrites, alone : BOOLEAN,
             todo : Seq(Updates)]
IdleOperator == [phase |-> "idle", rebuild |-> FALSE, scope |-> {}, at |-> 0,
                 alone |-> TRUE, todo |-> <<>>]

Init ==
    /\ db = [e \in Entries |-> NoVersions]
    /\ writes = 0 /\ failures = 0
    /\ pending = {} /\ lost = {} /\ excused = {}
    /\ index = [k \in Keys |-> NoDoc]
    /\ tasks = <<>>
    /\ worker = [w \in Workers |-> IdleWorker]
    /\ operator = [o \in Operators |-> IdleOperator]

engine == <<index, tasks, worker, operator>>

----------------------------------------------------------------------------
(* Writes, each with the delivery it enqueues.                             *)

Number == writes + 1

\* An entry event reconciles every key of the entry, whatever an import left.
WriteEntry(e, vs) ==
    /\ writes < MaxWrites
    /\ db' = [db EXCEPT ![e] = vs]
    /\ writes' = Number
    /\ pending' = pending \cup {[kind |-> "entry", of |-> e, n |-> Number]}
    /\ excused' = {k \in excused : k[1] # e}
    /\ UNCHANGED <<lost, failures, engine>>

\* Create, save or unarchive: a DRAFT, or a CHANGED beside the PUBLISHED version.
SaveDraft(e) ==
    WriteEntry(e, [db[e] EXCEPT
        ![IF db[e]["PUBLISHED"] # 0 THEN "CHANGED" ELSE "DRAFT"] = Number])

Publish(e) == WriteEntry(e, [NoVersions EXCEPT !["PUBLISHED"] = Number])

\* The CHANGED version, or else the PUBLISHED one, becomes the DRAFT.
Unpublish(e) ==
    /\ db[e]["PUBLISHED"] # 0
    /\ WriteEntry(e, [NoVersions EXCEPT !["DRAFT"] =
                        IF db[e]["CHANGED"] # 0 THEN db[e]["CHANGED"]
                        ELSE db[e]["PUBLISHED"]])

DiscardDraft(e) ==
    /\ db[e]["CHANGED"] # 0
    /\ WriteEntry(e, [db[e] EXCEPT !["CHANGED"] = 0])

\* Archive or delete: no indexable version is left.
Remove(e) ==
    /\ db[e] # NoVersions
    /\ WriteEntry(e, NoVersions)

\* A change of the type's fields touches the content of no version.
ChangeSchema(t) ==
    /\ writes < MaxWrites
    /\ writes' = Number
    /\ pending' = pending \cup {[kind |-> "type", of |-> t, n |-> Number]}
    /\ UNCHANGED <<db, lost, failures, excused, engine>>

\* An import replaces all versions of an entry by those of the bundle, and
\* enqueues one CONTENT_BULK_SYNC for the type.
Import(e, statuses) ==
    /\ writes < MaxWrites
    /\ db' = [db EXCEPT ![e] = [s \in Statuses |-> IF s \in statuses THEN Number ELSE 0]]
    /\ writes' = Number
    /\ pending' = pending \cup {[kind |-> "type", of |-> TypeOf[e], n |-> Number]}
    /\ excused' = excused \cup {k \in Keys : k[1] = e /\ db[e][k[2]] # 0 /\ db'[e][k[2]] = 0}
    /\ UNCHANGED <<lost, failures, engine>>

----------------------------------------------------------------------------
(* The worker.                                                             *)

Take(w, j) ==
    /\ worker[w].phase = "idle"
    /\ j \in pending
    /\ worker' = [worker EXCEPT ![w] = [IdleWorker EXCEPT !.phase = "taken", !.job = j]]
    /\ UNCHANGED <<db, writes, pending, lost, failures, index, tasks, operator, excused>>

\* Mutant: the keys without a version are left alone.
ReconcileUpserting(e) == Call(DocsOf(e, db[e]))

\* reconcileEntry: upsert the documents of the present versions, then delete the
\* other keys; an entry that is gone has all its keys deleted.
Reconcile(e) ==
    LET docs == DocsOf(e, db[e])
    IN  Call(docs) \o Call(Deletion({k \in Keys : k[1] = e} \ DOMAIN docs))

\* The handler's query: everything it will send is decided here.
Load(w) ==
    /\ worker[w].phase = "taken"
    /\ worker' = [worker EXCEPT
         ![w].phase = "sending",
         ![w].todo = IF worker[w].job.kind = "entry" THEN Reconcile(worker[w].job.of)
                     ELSE Call(DocsOfTypes({worker[w].job.of}))]
    /\ UNCHANGED <<db, writes, pending, lost, failures, index, tasks, operator, excused>>

\* addDocuments or deleteDocuments: the engine queues the task.
Send(w) ==
    /\ worker[w].phase = "sending"
    /\ worker[w].todo # <<>>
    /\ tasks' = Append(tasks, [by |-> w, update |-> Head(worker[w].todo)])
    /\ worker' = [worker EXCEPT ![w].phase = "waiting", ![w].todo = Tail(@)]
    /\ UNCHANGED <<db, writes, pending, lost, failures, index, operator, excused>>

Queued(p) == \E i \in DOMAIN tasks : tasks[i].by = p

\* waitTask sees that the task has been executed.
Await(w) ==
    /\ worker[w].phase = "waiting"
    /\ ~Queued(w)
    /\ worker' = [worker EXCEPT ![w].phase = "sending"]
    /\ UNCHANGED <<db, writes, pending, lost, failures, index, tasks, operator, excused>>

\* The handler returns and the delivery is recorded as delivered.
Finish(w) ==
    /\ worker[w].phase = "sending"
    /\ worker[w].todo = <<>>
    /\ pending' = pending \ {worker[w].job}
    /\ worker' = [worker EXCEPT ![w] = IdleWorker]
    /\ UNCHANGED <<db, writes, lost, failures, index, tasks, operator, excused>>

\* Nobody waits any more for the tasks these processes have queued.
Orphaned(ps) == [i \in DOMAIN tasks |->
    IF tasks[i].by \in ps THEN [tasks[i] EXCEPT !.by = NoWorker] ELSE tasks[i]]

\* Mutant: a delivery that times out or fails is not tried again.
Dropped(j) == pending \ {j}

\* The delivery stays PENDING.
Kept(j) == pending

\* The database or the engine fails, or waitTask times out: a retry, or the
\* last attempt.
Fail(w) ==
    /\ worker[w].phase # "idle"
    /\ failures < MaxFailures
    /\ failures' = failures + 1
    /\ \/ pending' = Kept(worker[w].job) /\ UNCHANGED lost
       \/ /\ pending' = pending \ {worker[w].job}
          /\ lost' = lost \cup {worker[w].job}
    /\ tasks' = Orphaned({w})
    /\ worker' = [worker EXCEPT ![w] = IdleWorker]
    /\ UNCHANGED <<db, writes, index, operator, excused>>

\* The server process dies; the database and the engine live on.
Crash ==
    /\ failures < MaxFailures
    /\ failures' = failures + 1
    /\ tasks' = Orphaned(Workers)
    /\ worker' = [w \in Workers |-> IdleWorker]
    /\ UNCHANGED <<db, writes, pending, lost, index, operator, excused>>

----------------------------------------------------------------------------
(* The engine.                                                             *)

\* Tasks are executed in the order they were queued.
Execute ==
    /\ tasks # <<>>
    /\ LET u == Head(tasks).update
       IN  index' = [k \in Keys |-> IF k \in DOMAIN u THEN u[k] ELSE index[k]]
    /\ tasks' = Tail(tasks)
    /\ UNCHANGED <<db, writes, pending, lost, failures, worker, operator, excused>>

----------------------------------------------------------------------------
(* pnpm search:reindex.                                                    *)

WorkerIsIdle ==
    pending = {} /\ tasks = <<>> /\ \A w \in Workers : worker[w].phase = "idle"

\* Mutant: the index is cleared after the upsert.
UpsertThenClear(docs, rebuild) ==
    IF DOMAIN docs = {} THEN <<>>
    ELSE <<docs>> \o (IF rebuild THEN <<Deletion(Keys)>> ELSE <<>>)

\* Clear first on request, then upsert.  Without a document runReindex returns
\* before it clears anything.
ReindexTodo(docs, rebuild) ==
    IF DOMAIN docs = {} THEN <<>>
    ELSE (IF rebuild THEN <<Deletion(Keys)>> ELSE <<>>) \o <<docs>>

\* runReindex: the query, and what is to be sent.
Reindex(o, scope, rebuild) ==
    /\ operator[o].phase \in {"idle", "done"}
    /\ LET todo == ReindexTodo(DocsOfTypes(scope), rebuild)
       IN  operator' = [operator EXCEPT ![o] =
             [phase |-> IF todo = <<>> THEN "done" ELSE "loaded", rebuild |-> rebuild,
              scope |-> scope, at |-> writes, alone |-> WorkerIsIdle, todo |-> todo]]
    /\ UNCHANGED <<db, writes, pending, lost, failures, index, tasks, worker, excused>>

ReindexSend(o) ==
    /\ operator[o].phase = "loaded"
    /\ tasks' = Append(tasks, [by |-> o, update |-> Head(operator[o].todo)])
    /\ operator' = [operator EXCEPT ![o].phase = "waiting", ![o].todo = Tail(@)]
    /\ LET u == Head(operator[o].todo)
       IN  excused' = excused \cup {k \in DOMAIN u : u[k] # Current(k)}
    /\ UNCHANGED <<db, writes, pending, lost, failures, index, worker>>

ReindexAwait(o) ==
    /\ operator[o].phase = "waiting"
    /\ ~Queued(o)
    /\ operator' = [operator EXCEPT
         ![o].phase = IF operator[o].todo = <<>> THEN "done" ELSE "loaded"]
    /\ UNCHANGED <<db, writes, pending, lost, failures, index, tasks, worker, excused>>

----------------------------------------------------------------------------

Write ==
    \/ \E e \in Entries : \/ SaveDraft(e) \/ Publish(e) \/ Unpublish(e)
                          \/ DiscardDraft(e) \/ Remove(e)
    \/ \E t \in Types : ChangeSchema(t)
    \/ \E e \in Entries, statuses \in {{}, {"DRAFT"}, {"PUBLISHED"}, {"CHANGED", "PUBLISHED"}} :
         Import(e, statuses)

WorkerStep(w) == Load(w) \/ Send(w) \/ Await(w) \/ Finish(w)

OperatorStep(o) == ReindexSend(o) \/ ReindexAwait(o)

Next ==
    \/ Write
    \/ \E w \in Workers, j \in Jobs : Take(w, j)
    \/ \E w \in Workers : WorkerStep(w) \/ Fail(w)
    \/ Crash
    \/ Execute
    \/ \E o \in Operators, rebuild \in BOOLEAN :
         \E scope \in {Types} \cup {{t} : t \in Types} : Reindex(o, scope, rebuild)
    \/ \E o \in Operators : OperatorStep(o)

Spec == Init /\ [][Next]_vars

\* The worker polls for due deliveries for ever and every call returns or times
\* out; the engine works off its queue.  Each delivery is selected in the end:
\* a batch takes the deliveries in the order of their due time.
Fairness ==
    /\ \A w \in Workers : WF_vars(WorkerStep(w))
    /\ \A w \in Workers, j \in Jobs : SF_vars(Take(w, j))
    /\ WF_vars(Execute)

FairSpec == Spec /\ Fairness

----------------------------------------------------------------------------
(* Properties.                                                             *)

\* Every variable holds what is declared above; the engine's queue is as long as
\* the tasks its clients wait for or have given up waiting for.
TypeOK ==
    /\ db \in [Entries -> Versions]
    /\ writes \in 0 .. MaxWrites /\ failures \in 0 .. MaxFailures
    /\ pending \subseteq Jobs /\ lost \subseteq Jobs
    /\ \A k \in Keys : index[k] \in Doc \cup {NoDoc}
    /\ Len(tasks) <= Cardinality(Workers) + Cardinality(Operators) + failures
    /\ \A w \in Workers : worker[w].phase \in {"idle", "taken", "sending", "waiting"}
                          /\ worker[w].job \in Jobs \cup {NoJob}
    /\ \A o \in Operators : operator[o].phase \in {"idle", "loaded", "waiting", "done"}

\* The last queued task that touches a key, 0 if there is none.
LastTask(k) ==
    LET touching == {i \in DOMAIN tasks : k \in DOMAIN tasks[i].update}
    IN  IF touching = {} THEN 0
        ELSE CHOOSE i \in touching : \A j \in touching : j <= i

\* What the engine will serve for a key once its queue is empty.
Upcoming(k) == IF LastTask(k) = 0 THEN index[k] ELSE tasks[LastTask(k)].update[k]

\* A delivery that reconciles key k: of its entry, or of its type if the key is
\* to have a document, because the deliveries of a type only upsert.
Reconciles(j, k) ==
    \/ j.kind = "entry" /\ j.of = k[1]
    \/ j.kind = "type" /\ j.of = TypeOf[k[1]] /\ Current(k) # NoDoc

\* A document that is not what the database calls for, when everything queued has
\* been executed, has a delivery ahead of it that will put it right, or one that
\* was given up; whatever timed out, crashed, came late or was done twice
\* (syncToSearchIndex.ts 41-67, 93-114).  Exempt, until the next write of their
\* entry, are the keys an import emptied and those a reindex wrote from a read
\* that was out of date.
DriftIsAhead ==
    /\ TypeOK
    /\ \A k \in Keys \ excused :
         Upcoming(k) # Current(k) => \E j \in pending \cup lost : Reconciles(j, k)

InStep == \A k \in Keys \ excused : index[k] = Current(k)

\* "The index is kept in step with Postgres": once the writes stop, and unless a
\* delivery was given up, the index comes to show the database and stays so.
InStepInTheEnd == <>[](lost = {} => InStep)

\* The process has ended, and nothing was written since it read the database.
Reindexed(o) == /\ operator[o].phase = "done"
                /\ operator[o].at = writes

\* The authoritative recovery path (reindex.ts 3-11): run on an idle system, a
\* reindex gives every indexable version in its scope its current document,
\* whatever deliveries were lost and whatever an import left behind.
DocumentsAreCurrent(o) ==
    \A k \in Keys : TypeOf[k[1]] \in operator[o].scope /\ Current(k) # NoDoc =>
        index[k] = Current(k)

\* A rebuild of everything, run on an idle system that has something to index,
\* leaves no document without its version either (reindex.ts 16-20).
NothingElseRemains(o) ==
    /\ operator[o].rebuild /\ operator[o].scope = Types
    /\ \E k \in Keys : Current(k) # NoDoc
    => \A k \in Keys : index[k] = Current(k)

\* Both hold when the process ends, and until the next write.
ReindexRepairs ==
    \A o \in Operators : Reindexed(o) /\ operator[o].alone =>
        DocumentsAreCurrent(o) /\ NothingElseRemains(o)
=============================================================================
