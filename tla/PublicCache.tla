---------------------------- MODULE PublicCache ----------------------------
(***************************************************************************)
(* The tagged response cache in front of the public reads: the entry lists *)
(* of the REST endpoint and the results of GraphQL queries.  A reader that *)
(* misses fetches from the database, stores the value, and then adds its   *)
(* key to a reverse index of every tag it depends on; the webhook worker   *)
(* clears a tag by reading its index, removing the values and deleting the *)
(* index.  None of this is atomic, and the process may die anywhere.       *)
(*                                                                         *)
(* What is published of a content type is abstracted to a version number   *)
(* and to whether it is empty.  The tag of a key is its content type: a    *)
(* value with an `entry:` tag also has the tag of the entry's type         *)
(* (buildTags), and every invalidation clears the type's tag.              *)
(***************************************************************************)
EXTENDS Naturals, FiniteSets

CONSTANTS
    Types,          \* content types
    Lists,          \* keys of the REST lists
    Queries,        \* keys of the GraphQL results
    Depends,        \* the content types each key reads
    Harvested,      \* those whose entries a query meets in flattenToShape
    Readers,        \* requests that miss the cache
    Workers,        \* invalidations in progress at the same time
    MaxVersion,     \* bound on the publications of a type
    Ttl,            \* BOJECT_PUBLIC_CACHE_TTL in ticks of the clock
    NoValue, NoJob

Keys == Lists \cup Queries

ASSUME DependsOnTypes == Depends \in [Keys -> SUBSET Types]
ASSUME ListsReadOneType == \A k \in Lists : \E t \in Types : Depends[k] = {t}
ASSUME HarvestIsPartial == \A k \in Queries : Harvested[k] \subseteq Depends[k]
ASSUME TtlIsPositive == Ttl \in Nat \ {0} /\ MaxVersion \in Nat

\* A delivery to the "Cache invalidation" webhook: a type and the version whose
\* transaction enqueued it.
Jobs == [type : Types, version : 1 .. MaxVersion]

VARIABLES
    content,    \* what the database has published of each type
    pending,    \* deliveries not settled
    lost,       \* deliveries given up after the last attempt
    value,      \* the values in Redis
    index,      \* the keys in the reverse index of each tag
    indexTtl,   \* the remaining life of each index; 0 when there is none
    reader,
    worker

vars == <<content, pending, lost, value, index, indexTtl, reader, worker>>

----------------------------------------------------------------------------

\* `saw` is the published content the value was made of.  The rest is history:
\* `by` is the reader whose set() wrote it, and `clean` whether that set() has
\* written the index too and no invalidation of one of its tags was in progress
\* between the fetch and that write.
Value == [saw : [Types -> 0 .. MaxVersion], tags : SUBSET Types,
          ttl : 1 .. Ttl, by : Readers, clean : BOOLEAN]

\* "missed": the cache had no value; "fetched": the database has answered;
\* "stored": setItem has, the index pipeline has not.
Reader == [phase : {"idle", "missed", "fetched", "stored"},
           key : Keys, saw : [Types -> 0 .. MaxVersion], tags : SUBSET Types,
           clean : BOOLEAN]

\* "taken": the delivery is selected; "read": smembers has answered.
Worker == [phase : {"idle", "taken", "read"}, job : Jobs \cup {NoJob},
           members : SUBSET Keys]

\* The placeholders are no values, and there is something to read.
ASSUME NullAssumption == NoJob \notin Jobs /\ NoValue \notin Value /\ Keys # {}

IdleReader == [phase |-> "idle", key |-> CHOOSE k \in Keys : TRUE,
               saw |-> [t \in Types |-> 0], tags |-> {}, clean |-> TRUE]

IdleWorker == [phase |-> "idle", job |-> NoJob, members |-> {}]

Init ==
    /\ content \in [Types -> [version : {0}, empty : BOOLEAN]]
    /\ pending = {} /\ lost = {}
    /\ value = [k \in Keys |-> NoValue]
    /\ index = [t \in Types |-> {}]
    /\ indexTtl = [t \in Types |-> 0]
    /\ reader = [r \in Readers |-> IdleReader]
    /\ worker = [w \in Workers |-> IdleWorker]

----------------------------------------------------------------------------
(* The database.                                                           *)

\* A publish, unpublish, delete, schema change or import commits, and enqueues
\* the invalidation in the same transaction.
Change(t) ==
    /\ content[t].version < MaxVersion
    /\ \E empty \in BOOLEAN :
         content' = [content EXCEPT ![t] = [version |-> @.version + 1, empty |-> empty]]
    /\ pending' = pending \cup {[type |-> t, version |-> content[t].version + 1]}
    /\ UNCHANGED <<lost, value, index, indexTtl, reader, worker>>

----------------------------------------------------------------------------
(* Readers.                                                                *)

\* cache.get finds nothing.  A hit, and a get that fails, leave everything as
\* it is: the reader serves the value, or the origin, and stores nothing.
Miss(r, k) ==
    /\ reader[r].phase = "idle"
    /\ value[k] = NoValue
    /\ reader' = [reader EXCEPT ![r] = [IdleReader EXCEPT !.phase = "missed", !.key = k]]
    /\ UNCHANGED <<content, pending, lost, value, index, indexTtl, worker>>

\* An invalidation of one of these tags has read its index and not deleted it.
Invalidating(tags) ==
    \E w \in Workers : worker[w].phase = "read" /\ worker[w].job.type \in tags

\* A list is tagged with its type, a query with the types of the entries it met
\* in a resolver other than a list (GraphqlQueries!EveryAnswerIsHarvested).
TagsOf(k) ==
    IF k \in Lists THEN Depends[k]
    ELSE {t \in Harvested[k] : ~content[t].empty}

Fetch(r) ==
    /\ reader[r].phase = "missed"
    /\ reader' = [reader EXCEPT
         ![r].phase = "fetched",
         ![r].saw = [t \in Types |-> content[t].version],
         ![r].tags = TagsOf(reader[r].key),
         ![r].clean = ~Invalidating(TagsOf(reader[r].key))]
    /\ UNCHANGED <<content, pending, lost, value, index, indexTtl, worker>>

\* The request ends: fetch failed, result had errors or was too large, or the
\* write to Redis failed (best effort).
GiveUpFill(r) ==
    /\ reader[r].phase \in {"missed", "fetched", "stored"}
    /\ reader' = [reader EXCEPT ![r] = IdleReader]
    /\ UNCHANGED <<content, pending, lost, value, index, indexTtl, worker>>

\* storage.setItem; a value without tags is done.
Store(r) ==
    /\ reader[r].phase = "fetched"
    /\ value' = [value EXCEPT ![reader[r].key] =
                   [saw |-> reader[r].saw, tags |-> reader[r].tags, ttl |-> Ttl,
                    by |-> r, clean |-> FALSE]]
    /\ reader' = [reader EXCEPT ![r] = IF reader[r].tags = {} THEN IdleReader
                                       ELSE [@ EXCEPT !.phase = "stored"]]
    /\ UNCHANGED <<content, pending, lost, index, indexTtl, worker>>

\* Mutant: `expire NX` without the `expire GT` that lengthens a life.
IndexLifeOfFirst(t) == IF indexTtl[t] = 0 THEN Ttl ELSE indexTtl[t]

\* Mutant: a life is prolonged by the TTL instead of raised to it.
IndexLifeAdded(t) == indexTtl[t] + Ttl

\* `expire NX` gives an index without a life one, `expire GT` only lengthens it.
IndexLife(t) == IF indexTtl[t] < Ttl THEN Ttl ELSE indexTtl[t]

\* The pipeline of sadd and expire for every tag; its commands may interleave
\* with other clients', but each touches one index only.
WriteIndex(r) ==
    /\ reader[r].phase = "stored"
    /\ LET k == reader[r].key
           tags == reader[r].tags
       IN  /\ index' = [t \in Types |-> IF t \in tags THEN index[t] \cup {k} ELSE index[t]]
           /\ indexTtl' = [t \in Types |-> IF t \in tags THEN IndexLife(t) ELSE indexTtl[t]]
           /\ value' = IF value[k] # NoValue /\ value[k].by = r
                       THEN [value EXCEPT ![k].clean = reader[r].clean]
                       ELSE value
    /\ reader' = [reader EXCEPT ![r] = IdleReader]
    /\ UNCHANGED <<content, pending, lost, worker>>

----------------------------------------------------------------------------
(* The worker's in-process delivery to syncToCacheInvalidation.            *)

\* A tick selects the delivery; overlapping ticks may select the same one.
Take(w, j) ==
    /\ worker[w].phase = "idle"
    /\ j \in pending
    /\ worker' = [worker EXCEPT ![w] = [IdleWorker EXCEPT !.phase = "taken", !.job = j]]
    /\ UNCHANGED <<content, pending, lost, value, index, indexTtl, reader>>

\* invalidateByTag: smembers.
ReadIndex(w) ==
    /\ worker[w].phase = "taken"
    /\ worker' = [worker EXCEPT ![w].phase = "read",
                                ![w].members = index[worker[w].job.type]]
    /\ reader' = [r \in Readers |->
         IF reader[r].phase \in {"fetched", "stored"}
            /\ worker[w].job.type \in reader[r].tags
         THEN [reader[r] EXCEPT !.clean = FALSE] ELSE reader[r]]
    /\ UNCHANGED <<content, pending, lost, value, index, indexTtl>>

\* removeItem of one of the members, in any order.
Remove(w, k) ==
    /\ worker[w].phase = "read"
    /\ k \in worker[w].members
    /\ value' = [value EXCEPT ![k] = NoValue]
    /\ worker' = [worker EXCEPT ![w].members = @ \ {k}]
    /\ UNCHANGED <<content, pending, lost, index, indexTtl, reader>>

\* Mutant: the index is deleted without awaiting the removals.
NoneAwaited(w) == TRUE

\* When the index may be deleted.
AllRemoved(w) == worker[w].members = {}

\* del of the index, and the delivery is recorded as delivered.
DeleteIndex(w) ==
    /\ worker[w].phase = "read"
    /\ AllRemoved(w)
    /\ LET t == worker[w].job.type
       IN  /\ index' = [index EXCEPT ![t] = {}]
           /\ indexTtl' = [indexTtl EXCEPT ![t] = 0]
    /\ pending' = pending \ {worker[w].job}
    /\ worker' = [worker EXCEPT ![w] = IdleWorker]
    /\ UNCHANGED <<content, lost, value, reader>>

\* Redis fails: the delivery stays PENDING for a retry, or it was the last one.
FailDelivery(w) ==
    /\ worker[w].phase \in {"taken", "read"}
    /\ \/ UNCHANGED <<pending, lost>>
       \/ /\ pending' = pending \ {worker[w].job}
          /\ lost' = lost \cup {worker[w].job}
    /\ worker' = [worker EXCEPT ![w] = IdleWorker]
    /\ UNCHANGED <<content, value, index, indexTtl, reader>>

\* The server process dies; Redis and the database live on.
Crash ==
    /\ reader' = [r \in Readers |-> IdleReader]
    /\ worker' = [w \in Workers |-> IdleWorker]
    /\ UNCHANGED <<content, pending, lost, value, index, indexTtl>>

----------------------------------------------------------------------------
(* Redis.                                                                  *)

\* Mutant: the value was stored without its TTL.
Persistent(v) == v

\* A stored value one tick later.
Aged(v) == IF v.ttl = 1 THEN NoValue ELSE [v EXCEPT !.ttl = @ - 1]

\* A tick of the clock: what has run out of time disappears.
Tick ==
    /\ value' = [k \in Keys |->
         IF value[k] = NoValue THEN NoValue ELSE Aged(value[k])]
    /\ indexTtl' = [t \in Types |-> IF indexTtl[t] = 0 THEN 0 ELSE indexTtl[t] - 1]
    /\ index' = [t \in Types |-> IF indexTtl[t] <= 1 THEN {} ELSE index[t]]
    /\ value' # value \/ indexTtl' # indexTtl
    /\ UNCHANGED <<content, pending, lost, reader, worker>>

----------------------------------------------------------------------------

Next ==
    \/ \E t \in Types : Change(t)
    \/ \E r \in Readers, k \in Keys : Miss(r, k)
    \/ \E r \in Readers : Fetch(r) \/ GiveUpFill(r) \/ Store(r) \/ WriteIndex(r)
    \/ \E w \in Workers, j \in Jobs : Take(w, j)
    \/ \E w \in Workers : ReadIndex(w) \/ DeleteIndex(w) \/ FailDelivery(w)
    \/ \E w \in Workers, k \in Keys : Remove(w, k)
    \/ Crash
    \/ Tick

Spec == Init /\ [][Next]_vars

\* Time passes.  Nothing is asked of the worker or of the readers.
FairSpec == Spec /\ WF_vars(Tick)

----------------------------------------------------------------------------
(* Properties.                                                             *)

\* The cache, its index and the processes have the shapes declared above, and an
\* index exists exactly as long as it has life left.
TypeOK ==
    /\ content \in [Types -> [version : 0 .. MaxVersion, empty : BOOLEAN]]
    /\ pending \subseteq Jobs /\ lost \subseteq Jobs
    /\ value \in [Keys -> Value \cup {NoValue}]
    /\ index \in [Types -> SUBSET Keys]
    /\ indexTtl \in [Types -> 0 .. Ttl]
    /\ reader \in [Readers -> Reader]
    /\ worker \in [Workers -> Worker]
    /\ \A t \in Types : index[t] # {} <=> indexTtl[t] > 0

Missed(v, t) == {n \in 1 .. content[t].version : n > v.saw[t]}

\* Every published change a cached value is missing has its invalidation still
\* ahead or given up, if the set() of the value overlapped no invalidation: a
\* delivery that is recorded as delivered has done its work, whatever fails,
\* crashes or overlaps (taggedCache.ts 46-93, syncToCacheInvalidation.ts 26-71).
MissedChangesAreAhead ==
    \A k \in Keys : value[k] # NoValue /\ value[k].clean =>
        \A t \in value[k].tags : \A n \in Missed(value[k], t) :
            [type |-> t, version |-> n] \in pending \cup lost

\* The comment on the self-cleaning index: "a later shorter-TTL write can't
\* shorten the index below a live member" (taggedCache.ts 55-61).  A value whose
\* set() overlapped no invalidation stays in the index of each of its tags for as
\* long as it lives.
Indexed(k) == \A t \in value[k].tags : k \in index[t] /\ indexTtl[t] >= value[k].ttl

\* The cache has its shapes, and the index of a tag outlives every value that only
\* the index can clear (taggedCache.ts 46-93).
IndexOutlivesValues ==
    /\ TypeOK
    /\ \A k \in Keys : value[k] # NoValue /\ value[k].clean => Indexed(k)

Stale(k) ==
    /\ value[k] # NoValue
    /\ \E t \in Depends[k] : Missed(value[k], t) # {}

\* The TTL is the backstop: whatever raced, failed or was never tagged (the entries
\* of a GraphQL list, and a result without entries, give no tag), a stale value
\* does not stay forever.
StaleValuesGo == \A k \in Keys : Stale(k) ~> ~Stale(k)
=============================================================================
