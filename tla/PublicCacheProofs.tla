------------------------- MODULE PublicCacheProofs -------------------------
(***************************************************************************)
(* Proofs, for every value of the constants, that a cached value that is   *)
(* missing a published change still has that change's invalidation ahead   *)
(* of it, and that the index of a tag outlives the values it must clear.   *)
(***************************************************************************)
EXTENDS PublicCache, TLAPS

AtWork(r) == reader[r].phase \in {"fetched", "stored"}

\* Worker w has read the index of tag t and not deleted it.
Clears(w, t) == worker[w].phase = "read" /\ worker[w].job.type = t

BusyHaveJobs == \A w \in Workers : worker[w].phase # "idle" => worker[w].job \in Jobs

\* A set() that is still clean has no invalidation of its tags beside it.
CleanSetsAreAlone ==
    \A r \in Readers : AtWork(r) /\ reader[r].clean =>
        \A w \in Workers, t \in reader[r].tags : ~Clears(w, t)

\* Between its two writes, the value a reader finds under its name is the one it
\* stored.
StoredIsOwn ==
    \A r \in Readers :
        LET v == value[reader[r].key] IN
        reader[r].phase = "stored" /\ v # NoValue /\ v.by = r =>
            v.saw = reader[r].saw /\ v.tags = reader[r].tags

\* What a clean set() did not see has its invalidation still ahead or given up.
FetchedIsAhead ==
    \A r \in Readers : AtWork(r) /\ reader[r].clean =>
        \A t \in reader[r].tags : \A n \in Missed(reader[r], t) :
            [type |-> t, version |-> n] \in pending \cup lost

Clean(k) == value[k] # NoValue /\ value[k].clean

\* Whoever clears one of its tags is going to remove the value.
Listed(k) ==
    \A w \in Workers, t \in value[k].tags : Clears(w, t) => k \in worker[w].members

Ahead(k) ==
    \A t \in value[k].tags : \A n \in Missed(value[k], t) :
        [type |-> t, version |-> n] \in pending \cup lost

CleanValuesAreSafe == \A k \in Keys : Clean(k) => Indexed(k) /\ Listed(k) /\ Ahead(k)

CacheInv ==
    /\ TypeOK
    /\ BusyHaveJobs
    /\ CleanSetsAreAlone
    /\ StoredIsOwn
    /\ FetchedIsAhead
    /\ CleanValuesAreSafe

(***************************************************************************)
(* Shapes.                                                                 *)
(***************************************************************************)
LEMMA TagsAreTypes ==
    ASSUME TypeOK, NEW k \in Keys
    PROVE  TagsOf(k) \subseteq Types
BY DependsOnTypes, HarvestIsPartial DEF TagsOf, Keys

LEMMA IdleReaderTyped == IdleReader \in Reader /\ IdleReader.phase = "idle"
<1>1. (CHOOSE k \in Keys : TRUE) \in Keys
  BY NullAssumption
<1> QED BY <1>1, TtlIsPositive DEF IdleReader, Reader

LEMMA IdleWorkerTyped ==
    IdleWorker \in Worker /\ IdleWorker.phase = "idle" /\ IdleWorker.members = {}
BY DEF IdleWorker, Worker

\* A stored value is a record, and so is what is left of it a tick later.
LEMMA AgedValue ==
    ASSUME NEW v \in Value, Aged(v) # NoValue
    PROVE  /\ Aged(v) \in Value /\ v.ttl > 1 /\ Aged(v).ttl = v.ttl - 1
           /\ Aged(v).saw = v.saw /\ Aged(v).tags = v.tags
           /\ Aged(v).by = v.by /\ Aged(v).clean = v.clean
<1>1. v.ttl \in 1 .. Ttl /\ v.ttl # 1 /\ Aged(v) = [v EXCEPT !.ttl = @ - 1]
  BY DEF Aged, Value
<1>2. v.ttl - 1 \in 1 .. Ttl
  BY <1>1, TtlIsPositive
<1> QED BY <1>1, <1>2 DEF Value

LEMMA InitKeeps == Init => CacheInv
<1> SUFFICES ASSUME Init PROVE CacheInv
  OBVIOUS
<1>1. /\ \A k \in Keys : value[k] = NoValue
      /\ \A r \in Readers : reader[r] = IdleReader
      /\ \A w \in Workers : worker[w] = IdleWorker
  BY DEF Init
<1>2. TypeOK
  BY <1>1, IdleReaderTyped, IdleWorkerTyped, TtlIsPositive DEF Init, TypeOK
<1>3. BusyHaveJobs
  BY <1>1, IdleWorkerTyped DEF BusyHaveJobs
<1>4. CleanSetsAreAlone /\ StoredIsOwn /\ FetchedIsAhead
  BY <1>1, IdleReaderTyped DEF CleanSetsAreAlone, StoredIsOwn, FetchedIsAhead, AtWork
<1>5. CleanValuesAreSafe
  BY <1>1 DEF CleanValuesAreSafe, Clean
<1> QED BY <1>2, <1>3, <1>4, <1>5 DEF CacheInv

(***************************************************************************)
(* The database.                                                           *)
(***************************************************************************)
LEMMA ChangeKeeps ==
    ASSUME CacheInv, NEW t \in Types, Change(t)
    PROVE  CacheInv'
<1> DEFINE n == content[t].version + 1
<1>1. content[t].version \in 0 .. MaxVersion /\ MaxVersion \in Nat
  BY TtlIsPositive DEF CacheInv, TypeOK
<1>2. n \in 1 .. MaxVersion /\ n \in 0 .. MaxVersion
  BY <1>1 DEF Change
<1>3. PICK empty \in BOOLEAN :
        content' = [content EXCEPT ![t] = [version |-> @.version + 1, empty |-> empty]]
  BY DEF Change
<1>4. content' \in [Types -> [version : 0 .. MaxVersion, empty : BOOLEAN]]
  BY <1>2, <1>3 DEF CacheInv, TypeOK
<1>5. pending' = pending \cup {[type |-> t, version |-> n]} /\ lost' = lost
  BY DEF Change
<1>6. /\ value' = value /\ index' = index /\ indexTtl' = indexTtl
      /\ reader' = reader /\ worker' = worker
  BY DEF Change
<1>7. TypeOK'
  BY <1>2, <1>4, <1>5, <1>6 DEF CacheInv, TypeOK, Jobs
<1>8. \A u \in Types : content'[u].version = IF u = t THEN n ELSE content[u].version
  BY <1>3 DEF CacheInv, TypeOK
<1>9. \A u \in Types : \A m \in 1 .. content'[u].version :
        m \in 1 .. content[u].version \/ (u = t /\ m = n)
  <2>1. \A m \in 1 .. n : m \in 1 .. content[t].version \/ m = n
    BY <1>1
  <2> QED BY <1>8, <2>1
<1>10. FetchedIsAhead'
  <2> SUFFICES ASSUME NEW r \in Readers, AtWork(r)', reader'[r].clean,
                      NEW u \in reader'[r].tags, NEW m \in Missed(reader[r], u)'
               PROVE  [type |-> u, version |-> m] \in pending' \cup lost'
    BY DEF FetchedIsAhead
  <2>1. u \in Types
    BY <1>7 DEF TypeOK, Reader
  <2>2. m \in Missed(reader[r], u) \/ (u = t /\ m = n)
    BY <1>6, <1>9, <2>1 DEF Missed
  <2> QED BY <1>5, <1>6, <2>2 DEF CacheInv, FetchedIsAhead, AtWork
<1>11. CleanValuesAreSafe'
  <2> SUFFICES ASSUME NEW k \in Keys, Clean(k)'
               PROVE  Indexed(k)' /\ Listed(k)' /\ Ahead(k)'
    BY DEF CleanValuesAreSafe
  <2>1. Clean(k) /\ Indexed(k)' /\ Listed(k)' /\ Ahead(k)
    BY <1>6 DEF CacheInv, CleanValuesAreSafe, Clean, Indexed, Listed, Clears
  <2>2. ASSUME NEW u \in value[k].tags, NEW m \in Missed(value[k], u)'
        PROVE  [type |-> u, version |-> m] \in pending' \cup lost'
    <3>1. u \in Types
      BY <2>1 DEF CacheInv, TypeOK, Value, Clean
    <3>2. m \in Missed(value[k], u) \/ (u = t /\ m = n)
      BY <1>6, <1>9, <3>1 DEF Missed
    <3> QED BY <1>5, <2>1, <3>2 DEF Ahead
  <2> QED BY <1>6, <2>1, <2>2 DEF Ahead
<1> QED BY <1>6, <1>7, <1>10, <1>11 DEF CacheInv, BusyHaveJobs, CleanSetsAreAlone, StoredIsOwn,
         Clears, AtWork

(***************************************************************************)
(* Readers.                                                                *)
(***************************************************************************)
\* A step of one reader that leaves the cache and the workers alone.
LEMMA ReaderKeeps ==
    ASSUME CacheInv, NEW r \in Readers, NEW new \in Reader,
           reader' = [reader EXCEPT ![r] = new],
           UNCHANGED <<content, pending, lost, value, index, indexTtl, worker>>,
           new.phase # "stored",
           new.phase = "fetched" /\ new.clean =>
              /\ \A w \in Workers, t \in new.tags : ~Clears(w, t)
              /\ \A t \in new.tags : Missed(new, t) = {}
    PROVE  CacheInv'
<1>1. reader'[r] = new /\ \A s \in Readers \ {r} : reader'[s] = reader[s]
  BY DEF CacheInv, TypeOK
<1>2. TypeOK'
  BY DEF CacheInv, TypeOK
<1>3. CleanSetsAreAlone'
  BY <1>1 DEF CacheInv, CleanSetsAreAlone, AtWork, Clears
<1>4. StoredIsOwn'
  BY <1>1 DEF CacheInv, StoredIsOwn
<1>5. FetchedIsAhead'
  <2> SUFFICES ASSUME NEW s \in Readers, AtWork(s)', reader'[s].clean,
                      NEW t \in reader'[s].tags, NEW n \in Missed(reader'[s], t)
               PROVE  [type |-> t, version |-> n] \in pending' \cup lost'
    BY DEF FetchedIsAhead, Missed
  <2> QED BY <1>1 DEF CacheInv, FetchedIsAhead, AtWork
<1>6. CleanValuesAreSafe'
  BY DEF CacheInv, CleanValuesAreSafe, Clean, Indexed, Listed, Ahead, Missed, Clears
<1> QED BY <1>2, <1>3, <1>4, <1>5, <1>6 DEF CacheInv, BusyHaveJobs

LEMMA MissKeeps ==
    ASSUME CacheInv, NEW r \in Readers, NEW k \in Keys, Miss(r, k)
    PROVE  CacheInv'
<1> DEFINE new == [IdleReader EXCEPT !.phase = "missed", !.key = k]
<1>1. new \in Reader /\ new.phase = "missed"
  BY IdleReaderTyped DEF Reader
<1>2. reader' = [reader EXCEPT ![r] = new]
  BY DEF Miss
<1> HIDE DEF new
<1> QED BY <1>1, <1>2, ReaderKeeps DEF Miss

LEMMA GiveUpFillKeeps ==
    ASSUME CacheInv, NEW r \in Readers, GiveUpFill(r)
    PROVE  CacheInv'
BY IdleReaderTyped, ReaderKeeps DEF GiveUpFill

LEMMA FetchKeeps ==
    ASSUME CacheInv, NEW r \in Readers, Fetch(r)
    PROVE  CacheInv'
<1> DEFINE k == reader[r].key
           saw == [t \in Types |-> content[t].version]
           new == [reader[r] EXCEPT !.phase = "fetched", !.saw = saw, !.tags = TagsOf(k),
                                    !.clean = ~Invalidating(TagsOf(k))]
<1>1. k \in Keys /\ reader[r] \in Reader
  BY DEF CacheInv, TypeOK, Reader
<1>2. TagsOf(k) \subseteq Types /\ saw \in [Types -> 0 .. MaxVersion]
  BY <1>1, TagsAreTypes DEF CacheInv, TypeOK
<1>3. Invalidating(TagsOf(k)) \in BOOLEAN
  BY DEF Invalidating
<1>4. /\ new \in Reader /\ new.phase = "fetched" /\ new.saw = saw
      /\ new.tags = TagsOf(k) /\ new.clean = ~Invalidating(TagsOf(k))
  BY <1>1, <1>2, <1>3 DEF Reader
<1> HIDE DEF new
<1>5. reader' = [reader EXCEPT ![r] = new]
  BY DEF Fetch, CacheInv, TypeOK, new
<1>6. new.clean => \A w \in Workers, t \in new.tags : ~Clears(w, t)
  BY <1>4 DEF Invalidating, Clears
<1>7. \A t \in new.tags : Missed(new, t) = {}
  BY <1>2, <1>4 DEF Missed, CacheInv, TypeOK
<1> QED BY <1>4, <1>5, <1>6, <1>7, ReaderKeeps DEF Fetch

LEMMA StoreKeeps ==
    ASSUME CacheInv, NEW r \in Readers, Store(r)
    PROVE  CacheInv'
<1> DEFINE q == reader[r]
           k == q.key
           v == [saw |-> q.saw, tags |-> q.tags, ttl |-> Ttl, by |-> r, clean |-> FALSE]
<1>1. q \in Reader /\ k \in Keys /\ q.phase = "fetched"
  BY DEF CacheInv, TypeOK, Reader, Store
<1>2. v \in Value
  BY <1>1, TtlIsPositive DEF Value, Reader
<1>3. value'[k] = v /\ \A j \in Keys \ {k} : value'[j] = value[j]
  BY <1>1 DEF Store, CacheInv, TypeOK
<1>4. value' \in [Keys -> Value \cup {NoValue}]
  BY <1>1, <1>2 DEF Store, CacheInv, TypeOK
<1>5. /\ reader' \in [Readers -> Reader]
      /\ \A s \in Readers \ {r} : reader'[s] = reader[s]
      /\ reader'[r] \in {IdleReader, [q EXCEPT !.phase = "stored"]}
  <2>1. [q EXCEPT !.phase = "stored"] \in Reader
    BY <1>1 DEF Reader
  <2> QED BY <2>1, IdleReaderTyped DEF Store, CacheInv, TypeOK
<1>6. \/ reader'[r].phase = "idle"
      \/ /\ reader'[r].phase = "stored" /\ reader'[r].key = k
         /\ reader'[r].saw = q.saw /\ reader'[r].tags = q.tags
         /\ reader'[r].clean = q.clean
  BY <1>1, <1>5, IdleReaderTyped DEF Reader
<1>7. UNCHANGED <<content, pending, lost, index, indexTtl, worker>>
  BY DEF Store
<1>8. TypeOK'
  BY <1>4, <1>5, <1>7 DEF CacheInv, TypeOK
<1>9. CleanSetsAreAlone'
  BY <1>1, <1>5, <1>6, <1>7 DEF CacheInv, CleanSetsAreAlone, AtWork, Clears
<1>10. StoredIsOwn'
  <2> SUFFICES ASSUME NEW s \in Readers, reader'[s].phase = "stored",
                      value'[reader'[s].key] # NoValue, value'[reader'[s].key].by = s
               PROVE  /\ value'[reader'[s].key].saw = reader'[s].saw
                      /\ value'[reader'[s].key].tags = reader'[s].tags
    BY DEF StoredIsOwn
  <2>1. CASE s = r
    BY <1>3, <1>6, <2>1
  <2>2. CASE s # r
    <3>1. reader'[s] = reader[s] /\ reader[s].key \in Keys
      BY <1>5, <2>2 DEF CacheInv, TypeOK, Reader
    <3>2. reader[s].key # k
      BY <1>3, <2>2, <3>1
    <3> QED BY <1>3, <3>1, <3>2 DEF CacheInv, StoredIsOwn
  <2> QED BY <2>1, <2>2
<1>11. FetchedIsAhead'
  BY <1>1, <1>5, <1>6, <1>7 DEF CacheInv, FetchedIsAhead, AtWork, Missed
<1>12. \A j \in Keys : Clean(j)' => Clean(j) /\ value'[j] = value[j]
  BY <1>3 DEF Clean
<1>13. CleanValuesAreSafe'
  BY <1>7, <1>12 DEF CacheInv, CleanValuesAreSafe, Clean, Indexed, Listed, Ahead, Missed, Clears
<1> QED BY <1>7, <1>8, <1>9, <1>10, <1>11, <1>13 DEF CacheInv, BusyHaveJobs

\* What WriteIndex makes of the life of an index.
LEMMA IndexLifeIsRaised ==
    ASSUME TypeOK, NEW t \in Types
    PROVE  IndexLife(t) = Ttl /\ Ttl >= indexTtl[t] /\ Ttl > 0
<1>1. indexTtl[t] \in 0 .. Ttl
  BY DEF TypeOK
<1> QED BY <1>1, TtlIsPositive DEF IndexLife

LEMMA WriteIndexKeeps ==
    ASSUME CacheInv, NEW r \in Readers, WriteIndex(r)
    PROVE  CacheInv'
<1> PICK q \in Reader, k \in Keys : q = reader[r] /\ k = q.key
  BY DEF CacheInv, TypeOK, Reader
<1>1. q.phase = "stored" /\ q.tags \subseteq Types
  BY DEF Reader, WriteIndex
<1>2. \A t \in Types :
        /\ index'[t] = IF t \in q.tags THEN index[t] \cup {k} ELSE index[t]
        /\ indexTtl'[t] = IF t \in q.tags THEN Ttl ELSE indexTtl[t]
  BY IndexLifeIsRaised DEF WriteIndex, CacheInv
<1>3. /\ \A j \in Keys \ {k} : value'[j] = value[j]
      /\ \/ value'[k] = value[k] /\ (value[k] = NoValue \/ value[k].by # r)
         \/ /\ value[k] # NoValue /\ value[k].by = r
            /\ value'[k] = [value[k] EXCEPT !.clean = q.clean]
  BY <1>1 DEF WriteIndex, CacheInv, TypeOK
<1>4. \/ value'[k] = value[k] /\ (value[k] = NoValue \/ value[k].by # r)
      \/ /\ value[k] \in Value /\ value[k].saw = q.saw /\ value[k].tags = q.tags
         /\ value'[k] = [value[k] EXCEPT !.clean = q.clean]
  BY <1>1, <1>3 DEF CacheInv, TypeOK, StoredIsOwn
<1>5. \/ value'[k] = value[k] /\ (value[k] = NoValue \/ value[k].by # r)
      \/ /\ value'[k] \in Value /\ value'[k].saw = q.saw /\ value'[k].tags = q.tags
         /\ value[k] \in Value /\ value'[k].by = value[k].by
         /\ value[k].saw = q.saw /\ value[k].tags = q.tags
         /\ value'[k].clean = q.clean /\ value'[k].ttl \in 1 .. Ttl
  BY <1>1, <1>4 DEF Value, Reader
<1>6. /\ reader'[r] = IdleReader /\ \A s \in Readers \ {r} : reader'[s] = reader[s]
      /\ reader' \in [Readers -> Reader]
  BY IdleReaderTyped DEF WriteIndex, CacheInv, TypeOK
<1>7. UNCHANGED <<content, pending, lost, worker>>
  BY DEF WriteIndex
<1>8. value' \in [Keys -> Value \cup {NoValue}]
  BY <1>3, <1>5 DEF WriteIndex, CacheInv, TypeOK
<1>9. /\ index' \in [Types -> SUBSET Keys] /\ indexTtl' \in [Types -> 0 .. Ttl]
      /\ \A t \in Types : index'[t] # {} <=> indexTtl'[t] > 0
  <2>1. \A t \in Types : IndexLife(t) \in 0 .. Ttl
    BY IndexLifeIsRaised, TtlIsPositive DEF CacheInv
  <2>2. /\ index' = [t \in Types |-> IF t \in q.tags THEN index[t] \cup {k} ELSE index[t]]
        /\ indexTtl' = [t \in Types |-> IF t \in q.tags THEN IndexLife(t) ELSE indexTtl[t]]
    BY DEF WriteIndex
  <2>3. /\ \A t \in Types : index[t] \subseteq Keys /\ indexTtl[t] \in 0 .. Ttl
        /\ \A t \in Types : index[t] # {} <=> indexTtl[t] > 0
    BY DEF CacheInv, TypeOK
  <2>4. \A t \in Types : index'[t] # {} <=> indexTtl'[t] > 0
    <3> SUFFICES ASSUME NEW t \in Types PROVE index'[t] # {} <=> indexTtl'[t] > 0
      OBVIOUS
    <3>1. CASE t \in q.tags
      <4>1. k \in index'[t] /\ indexTtl'[t] = Ttl
        BY <1>2, <3>1
      <4> QED BY <4>1, TtlIsPositive
    <3>2. CASE t \notin q.tags
      BY <1>2, <2>3, <3>2
    <3> QED BY <3>1, <3>2
  <2> QED BY <2>1, <2>2, <2>3, <2>4
<1>10. TypeOK'
  BY <1>6, <1>7, <1>8, <1>9 DEF CacheInv, TypeOK
<1>11. CleanSetsAreAlone' /\ FetchedIsAhead'
  BY <1>6, <1>7, IdleReaderTyped
     DEF CacheInv, CleanSetsAreAlone, FetchedIsAhead, AtWork, Clears, Missed
<1>12. StoredIsOwn'
  <2> SUFFICES ASSUME NEW s \in Readers, reader'[s].phase = "stored",
                      value'[reader'[s].key] # NoValue, value'[reader'[s].key].by = s
               PROVE  /\ value'[reader'[s].key].saw = reader'[s].saw
                      /\ value'[reader'[s].key].tags = reader'[s].tags
    BY DEF StoredIsOwn
  <2>1. s # r /\ reader'[s] = reader[s] /\ reader[s].key \in Keys
    BY <1>6, IdleReaderTyped DEF CacheInv, TypeOK, Reader
  <2>2. value[reader[s].key].by = value'[reader[s].key].by
    BY <1>3, <1>5, <2>1
  <2>3. value[reader[s].key] = value'[reader[s].key]
    BY <1>3, <2>1, <2>2
  <2> QED BY <2>1, <2>3 DEF CacheInv, StoredIsOwn
<1>13. ASSUME Clean(k)', value'[k] # value[k]
       PROVE  Indexed(k)' /\ Listed(k)' /\ Ahead(k)'
  <2>1. /\ value'[k].saw = q.saw /\ value'[k].tags = q.tags /\ q.clean
        /\ value'[k].ttl <= Ttl
    <3>1. /\ value'[k].saw = q.saw /\ value'[k].tags = q.tags
          /\ value'[k].clean = q.clean /\ value'[k].ttl \in 1 .. Ttl
      BY <1>5, <1>13
    <3>2. value'[k].clean
      BY <1>13 DEF Clean
    <3>3. q.clean
      BY <3>1, <3>2, Zenon
    <3> QED BY <3>1, <3>3, TtlIsPositive
  <2>2. Indexed(k)'
    BY <1>1, <1>2, <2>1, TtlIsPositive DEF Indexed
  <2>3. \A w \in Workers, t \in value'[k].tags : ~Clears(w, t)'
    BY <1>1, <1>7, <2>1 DEF CacheInv, CleanSetsAreAlone, AtWork, Clears
  <2>4. Ahead(k)'
    BY <1>1, <1>7, <2>1 DEF CacheInv, FetchedIsAhead, AtWork, Ahead, Missed
  <2> QED BY <2>2, <2>3, <2>4 DEF Listed
<1>14. ASSUME NEW j \in Keys, Clean(j)', value'[j] = value[j]
       PROVE  Indexed(j)' /\ Listed(j)' /\ Ahead(j)'
  <2>1. Clean(j) /\ Indexed(j) /\ Listed(j) /\ Ahead(j)
    BY <1>14 DEF CacheInv, CleanValuesAreSafe, Clean
  <2>2. value[j].tags \subseteq Types /\ value[j].ttl \in 1 .. Ttl
    BY <2>1 DEF CacheInv, TypeOK, Value, Clean
  <2>3. Indexed(j)'
    <3> SUFFICES ASSUME NEW t \in value[j].tags
                 PROVE  j \in index'[t] /\ indexTtl'[t] >= value[j].ttl
      BY <1>14 DEF Indexed
    <3>1. t \in Types /\ j \in index[t] /\ indexTtl[t] >= value[j].ttl
      BY <2>1, <2>2 DEF Indexed
    <3>2. Ttl >= value[j].ttl
      BY <2>2, TtlIsPositive
    <3> QED BY <1>2, <3>1, <3>2
  <2> QED BY <1>7, <1>14, <2>1, <2>3 DEF Listed, Ahead, Clears, Missed
<1>15. CleanValuesAreSafe'
  BY <1>3, <1>13, <1>14 DEF CleanValuesAreSafe
<1>16. BusyHaveJobs'
  BY <1>7 DEF CacheInv, BusyHaveJobs
<1> QED BY <1>10, <1>11, <1>12, <1>15, <1>16 DEF CacheInv

(***************************************************************************)
(* Workers.                                                                *)
(***************************************************************************)
LEMMA TakeKeeps ==
    ASSUME CacheInv, NEW w \in Workers, NEW j \in Jobs, Take(w, j)
    PROVE  CacheInv'
<1> DEFINE new == [IdleWorker EXCEPT !.phase = "taken", !.job = j]
<1>1. new \in Worker /\ new.phase = "taken" /\ new.job = j
  BY DEF IdleWorker, Worker
<1>2. worker'[w] = new /\ \A x \in Workers \ {w} : worker'[x] = worker[x]
  BY DEF Take, CacheInv, TypeOK
<1>3. \A x \in Workers : \A t : Clears(x, t)' => Clears(x, t) /\ worker'[x] = worker[x]
  BY <1>1, <1>2 DEF Clears
<1>4. UNCHANGED <<content, pending, lost, value, index, indexTtl, reader>>
  BY DEF Take
<1>5. TypeOK' /\ BusyHaveJobs'
  BY <1>1, <1>2, <1>4 DEF Take, CacheInv, TypeOK, BusyHaveJobs
<1>6. CleanSetsAreAlone' /\ StoredIsOwn' /\ FetchedIsAhead'
  BY <1>3, <1>4 DEF CacheInv, CleanSetsAreAlone, StoredIsOwn, FetchedIsAhead, AtWork, Missed
<1>7. CleanValuesAreSafe'
  BY <1>3, <1>4 DEF CacheInv, CleanValuesAreSafe, Clean, Indexed, Listed, Ahead, Missed
<1> QED BY <1>5, <1>6, <1>7 DEF CacheInv

LEMMA ReadIndexKeeps ==
    ASSUME CacheInv, NEW w \in Workers, ReadIndex(w)
    PROVE  CacheInv'
<1> DEFINE q == worker[w]
           tag == q.job.type
           dirtied(r) == reader[r].phase \in {"fetched", "stored"} /\ tag \in reader[r].tags
<1>1. q \in Worker /\ q.phase = "taken" /\ q.job \in Jobs /\ tag \in Types
  BY DEF CacheInv, TypeOK, BusyHaveJobs, ReadIndex, Jobs
<1>2. /\ worker'[w] = [q EXCEPT !.phase = "read", !.members = index[tag]]
      /\ \A x \in Workers \ {w} : worker'[x] = worker[x]
      /\ worker' \in [Workers -> Worker]
  <2>1. worker' = [worker EXCEPT ![w] = [q EXCEPT !.phase = "read", !.members = index[tag]]]
    BY DEF ReadIndex, CacheInv, TypeOK
  <2>2. [q EXCEPT !.phase = "read", !.members = index[tag]] \in Worker
    BY <1>1 DEF Worker, CacheInv, TypeOK
  <2> QED BY <2>1, <2>2 DEF CacheInv, TypeOK
<1>3. worker'[w].phase = "read" /\ worker'[w].job = q.job /\ worker'[w].members = index[tag]
  BY <1>1, <1>2 DEF Worker
<1>4. \A r \in Readers :
        reader'[r] = IF dirtied(r) THEN [reader[r] EXCEPT !.clean = FALSE] ELSE reader[r]
  BY DEF ReadIndex
<1>5. \A r \in Readers : reader[r] \in Reader /\ [reader[r] EXCEPT !.clean = FALSE] \in Reader
  BY DEF CacheInv, TypeOK, Reader
<1>6. reader' \in [Readers -> Reader]
  BY <1>5 DEF ReadIndex
<1>7. \A r \in Readers :
        /\ reader'[r].phase = reader[r].phase /\ reader'[r].key = reader[r].key
        /\ reader'[r].saw = reader[r].saw /\ reader'[r].tags = reader[r].tags
        /\ reader'[r].clean => reader[r].clean /\ ~dirtied(r)
  <2> SUFFICES ASSUME NEW r \in Readers
               PROVE  /\ reader'[r].phase = reader[r].phase /\ reader'[r].key = reader[r].key
                      /\ reader'[r].saw = reader[r].saw /\ reader'[r].tags = reader[r].tags
                      /\ reader'[r].clean => reader[r].clean /\ ~dirtied(r)
    OBVIOUS
  <2> HIDE DEF dirtied
  <2>1. CASE dirtied(r)
    <3>1. reader'[r] = [reader[r] EXCEPT !.clean = FALSE] /\ reader[r] \in Reader
      BY <1>4, <1>5, <2>1
    <3> QED BY <3>1 DEF Reader
  <2>2. CASE ~dirtied(r)
    BY <1>4, <2>2
  <2> QED BY <2>1, <2>2
<1> HIDE DEF dirtied
<1>8. UNCHANGED <<content, pending, lost, value, index, indexTtl>>
  BY DEF ReadIndex
<1>9. TypeOK'
  BY <1>2, <1>6, <1>8 DEF CacheInv, TypeOK
<1>10. BusyHaveJobs'
  BY <1>1, <1>2, <1>3 DEF CacheInv, BusyHaveJobs
<1>11. \A x \in Workers : \A t : Clears(x, t)' => (Clears(x, t) /\ x # w) \/ (x = w /\ t = tag)
  BY <1>2, <1>3 DEF Clears
<1>12. CleanSetsAreAlone'
  BY <1>7, <1>11 DEF CacheInv, CleanSetsAreAlone, AtWork, dirtied
<1>13. StoredIsOwn' /\ FetchedIsAhead'
  BY <1>7, <1>8 DEF CacheInv, StoredIsOwn, FetchedIsAhead, AtWork, Missed
<1>14. CleanValuesAreSafe'
  <2> SUFFICES ASSUME NEW k \in Keys, Clean(k)'
               PROVE  Indexed(k)' /\ Listed(k)' /\ Ahead(k)'
    BY DEF CleanValuesAreSafe
  <2>1. Indexed(k) /\ Listed(k) /\ Ahead(k)
    BY <1>8 DEF CacheInv, CleanValuesAreSafe, Clean
  <2>2. ASSUME NEW x \in Workers, NEW t \in value[k].tags, Clears(x, t)'
        PROVE  k \in worker'[x].members
    <3>1. CASE x = w /\ t = tag
      BY <1>3, <2>1, <3>1 DEF Indexed
    <3>2. CASE x # w /\ Clears(x, t)
      BY <1>2, <2>1, <3>2 DEF Listed
    <3> QED BY <1>11, <2>2, <3>1, <3>2
  <2> QED BY <1>8, <2>1, <2>2 DEF Indexed, Listed, Ahead, Missed
<1> QED BY <1>9, <1>10, <1>12, <1>13, <1>14 DEF CacheInv

LEMMA RemoveKeeps ==
    ASSUME CacheInv, NEW w \in Workers, NEW k \in Keys, Remove(w, k)
    PROVE  CacheInv'
<1> PICK q \in Worker : q = worker[w]
  BY DEF CacheInv, TypeOK
<1>1. /\ worker'[w] = [q EXCEPT !.members = @ \ {k}]
      /\ \A x \in Workers \ {w} : worker'[x] = worker[x]
      /\ worker' \in [Workers -> Worker]
  <2>1. worker' = [worker EXCEPT ![w] = [q EXCEPT !.members = @ \ {k}]]
    BY DEF Remove, CacheInv, TypeOK
  <2>2. [q EXCEPT !.members = @ \ {k}] \in Worker
    BY DEF Worker
  <2> QED BY <2>1, <2>2 DEF CacheInv, TypeOK
<1>2. /\ worker'[w].phase = worker[w].phase /\ worker'[w].job = worker[w].job
      /\ worker'[w].members = worker[w].members \ {k}
  BY <1>1 DEF Worker
<1>3. value'[k] = NoValue /\ \A j \in Keys \ {k} : value'[j] = value[j]
  BY DEF Remove, CacheInv, TypeOK
<1>4. UNCHANGED <<content, pending, lost, index, indexTtl, reader>>
  BY DEF Remove
<1>5. \A x \in Workers : \A t : Clears(x, t)' <=> Clears(x, t)
  BY <1>1, <1>2 DEF Clears
<1>6. TypeOK'
  BY <1>1, <1>4 DEF Remove, CacheInv, TypeOK
<1>7. BusyHaveJobs'
  BY <1>1, <1>2 DEF CacheInv, BusyHaveJobs
<1>8. CleanSetsAreAlone' /\ FetchedIsAhead'
  BY <1>4, <1>5 DEF CacheInv, CleanSetsAreAlone, FetchedIsAhead, AtWork, Missed
<1>9. StoredIsOwn'
  <2>1. \A s \in Readers : reader[s].key \in Keys
    BY DEF CacheInv, TypeOK, Reader
  <2> QED BY <1>3, <1>4, <2>1 DEF CacheInv, StoredIsOwn
<1>10. CleanValuesAreSafe'
  <2> SUFFICES ASSUME NEW j \in Keys, Clean(j)'
               PROVE  Indexed(j)' /\ Listed(j)' /\ Ahead(j)'
    BY DEF CleanValuesAreSafe
  <2>1. j # k /\ value'[j] = value[j]
    BY <1>3 DEF Clean
  <2>2. Indexed(j) /\ Listed(j) /\ Ahead(j)
    BY <2>1 DEF CacheInv, CleanValuesAreSafe, Clean
  <2>3. Listed(j)'
    BY <1>1, <1>2, <1>5, <2>1, <2>2 DEF Listed
  <2> QED BY <1>4, <2>1, <2>2, <2>3 DEF Indexed, Ahead, Missed
<1> QED BY <1>6, <1>7, <1>8, <1>9, <1>10 DEF CacheInv

\* A step that ends the work of one worker.
Ends(w) ==
    /\ worker'[w] = IdleWorker
    /\ \A x \in Workers \ {w} : worker'[x] = worker[x]
    /\ worker' \in [Workers -> Worker]

LEMMA EndsClearing ==
    ASSUME NEW w \in Workers, Ends(w), BusyHaveJobs
    PROVE  /\ BusyHaveJobs'
           /\ \A x \in Workers : \A t : Clears(x, t)' =>
                 x # w /\ Clears(x, t) /\ worker'[x] = worker[x]
<1>1. worker'[w].phase = "idle"
  BY IdleWorkerTyped DEF Ends
<1> QED BY <1>1 DEF Ends, BusyHaveJobs, Clears

LEMMA DeleteIndexKeeps ==
    ASSUME CacheInv, NEW w \in Workers, DeleteIndex(w)
    PROVE  CacheInv'
<1> PICK job \in Jobs : job = worker[w].job
  BY DEF CacheInv, BusyHaveJobs, DeleteIndex
<1> DEFINE tag == job.type
<1>1. tag \in Types /\ Clears(w, tag) /\ worker[w].members = {}
  BY DEF DeleteIndex, AllRemoved, Clears, Jobs
<1>2. Ends(w)
  BY IdleWorkerTyped DEF DeleteIndex, Ends, CacheInv, TypeOK
<1>3. /\ index' = [index EXCEPT ![tag] = {}] /\ indexTtl' = [indexTtl EXCEPT ![tag] = 0]
      /\ pending' = pending \ {job}
      /\ UNCHANGED <<content, lost, value, reader>>
  BY DEF DeleteIndex
<1>4. /\ BusyHaveJobs'
      /\ \A x \in Workers : \A t : Clears(x, t)' => Clears(x, t) /\ worker'[x] = worker[x]
  BY <1>2, EndsClearing DEF CacheInv
<1>5. /\ index' \in [Types -> SUBSET Keys] /\ indexTtl' \in [Types -> 0 .. Ttl]
      /\ \A t \in Types : index'[t] # {} <=> indexTtl'[t] > 0
  <2>1. /\ index \in [Types -> SUBSET Keys] /\ indexTtl \in [Types -> 0 .. Ttl]
        /\ \A t \in Types : index[t] # {} <=> indexTtl[t] > 0
    BY DEF CacheInv, TypeOK
  <2> QED BY <1>1, <1>3, <2>1, TtlIsPositive
<1>6. TypeOK'
  BY <1>2, <1>3, <1>5 DEF Ends, CacheInv, TypeOK
<1>7. CleanSetsAreAlone' /\ StoredIsOwn'
  BY <1>3, <1>4 DEF CacheInv, CleanSetsAreAlone, StoredIsOwn, AtWork
<1>8. \A r \in Readers : AtWork(r) /\ reader[r].clean => tag \notin reader[r].tags
  BY <1>1 DEF CacheInv, CleanSetsAreAlone
<1>9. FetchedIsAhead'
  <2> SUFFICES ASSUME NEW r \in Readers, AtWork(r), reader[r].clean,
                      NEW t \in reader[r].tags, NEW n \in Missed(reader[r], t)
               PROVE  [type |-> t, version |-> n] \in pending' \cup lost'
    BY <1>3 DEF FetchedIsAhead, AtWork, Missed
  <2>1. t # tag
    BY <1>8
  <2>2. [type |-> t, version |-> n] # job
    BY <2>1
  <2> QED BY <1>3, <2>2 DEF CacheInv, FetchedIsAhead
<1>10. CleanValuesAreSafe'
  <2> SUFFICES ASSUME NEW k \in Keys, Clean(k)'
               PROVE  Indexed(k)' /\ Listed(k)' /\ Ahead(k)'
    BY DEF CleanValuesAreSafe
  <2>1. Indexed(k) /\ Listed(k) /\ Ahead(k)
    BY <1>3 DEF CacheInv, CleanValuesAreSafe, Clean
  <2>2. tag \notin value[k].tags
    BY <1>1, <2>1 DEF Listed
  <2>3. value[k].tags \subseteq Types
    BY <1>3 DEF CacheInv, TypeOK, Value, Clean
  <2>4. Indexed(k)'
    BY <1>3, <2>1, <2>2, <2>3 DEF Indexed, CacheInv, TypeOK
  <2>5. Listed(k)'
    BY <1>3, <1>4, <2>1 DEF Listed
  <2>6. \A t \in value[k].tags : \A n : [type |-> t, version |-> n] # job
    BY <2>2
  <2>7. Ahead(k)'
    BY <1>3, <2>1, <2>6 DEF Ahead, Missed
  <2> QED BY <2>4, <2>5, <2>7
<1> QED BY <1>4, <1>6, <1>7, <1>9, <1>10 DEF CacheInv

\* A step that makes workers idle, settles nothing, and leaves readers and cache alone.
LEMMA WorkersEndKeeps ==
    ASSUME CacheInv, worker' \in [Workers -> Worker],
           \A w \in Workers : worker'[w] \in {worker[w], IdleWorker},
           pending' \subseteq Jobs, lost' \subseteq Jobs,
           pending \cup lost \subseteq pending' \cup lost',
           reader' \in [Readers -> Reader],
           \A r \in Readers : reader'[r] \in {reader[r], IdleReader},
           UNCHANGED <<content, value, index, indexTtl>>
    PROVE  CacheInv'
<1>1. TypeOK'
  BY DEF CacheInv, TypeOK
<1>2. BusyHaveJobs'
  BY IdleWorkerTyped DEF CacheInv, BusyHaveJobs
<1>3. \A w \in Workers : \A t : Clears(w, t)' => Clears(w, t) /\ worker'[w] = worker[w]
  BY IdleWorkerTyped DEF Clears
<1>4. \A r \in Readers : reader'[r].phase # "idle" => reader'[r] = reader[r]
  BY IdleReaderTyped
<1>5. CleanSetsAreAlone'
  BY <1>3, <1>4 DEF CacheInv, CleanSetsAreAlone, AtWork
<1>6. StoredIsOwn'
  BY <1>4 DEF CacheInv, StoredIsOwn
<1>7. FetchedIsAhead'
  BY <1>4 DEF CacheInv, FetchedIsAhead, AtWork, Missed
<1>8. CleanValuesAreSafe'
  BY <1>3 DEF CacheInv, CleanValuesAreSafe, Clean, Indexed, Listed, Ahead, Missed
<1> QED BY <1>1, <1>2, <1>5, <1>6, <1>7, <1>8 DEF CacheInv

LEMMA FailDeliveryKeeps ==
    ASSUME CacheInv, NEW w \in Workers, FailDelivery(w)
    PROVE  CacheInv'
<1>1. worker[w].job \in Jobs
  BY DEF CacheInv, BusyHaveJobs, FailDelivery
<1>2. /\ worker' \in [Workers -> Worker]
      /\ \A x \in Workers : worker'[x] \in {worker[x], IdleWorker}
  BY IdleWorkerTyped DEF FailDelivery, CacheInv, TypeOK
<1>3. /\ pending' \subseteq Jobs /\ lost' \subseteq Jobs
      /\ pending \cup lost \subseteq pending' \cup lost'
  BY <1>1 DEF FailDelivery, CacheInv, TypeOK
<1>4. UNCHANGED <<content, value, index, indexTtl, reader>>
  BY DEF FailDelivery
<1> QED BY <1>2, <1>3, <1>4, WorkersEndKeeps DEF CacheInv, TypeOK

LEMMA CrashKeeps ==
    ASSUME CacheInv, Crash
    PROVE  CacheInv'
<1>1. /\ worker' \in [Workers -> Worker]
      /\ \A x \in Workers : worker'[x] \in {worker[x], IdleWorker}
      /\ reader' \in [Readers -> Reader]
      /\ \A r \in Readers : reader'[r] \in {reader[r], IdleReader}
  BY IdleWorkerTyped, IdleReaderTyped DEF Crash
<1> QED BY <1>1, WorkersEndKeeps DEF Crash, CacheInv, TypeOK

(***************************************************************************)
(* The clock.                                                              *)
(***************************************************************************)
LEMMA TickKeeps ==
    ASSUME CacheInv, Tick
    PROVE  CacheInv'
<1>1. \A k \in Keys : value'[k] = IF value[k] = NoValue THEN NoValue ELSE Aged(value[k])
  BY DEF Tick
<1>2. \A k \in Keys : value'[k] # NoValue =>
        /\ value[k] \in Value /\ value'[k] \in Value /\ value[k] # NoValue
        /\ value[k].ttl > 1 /\ value'[k].ttl = value[k].ttl - 1
        /\ value'[k].saw = value[k].saw /\ value'[k].tags = value[k].tags
        /\ value'[k].by = value[k].by /\ value'[k].clean = value[k].clean
  BY <1>1, AgedValue DEF CacheInv, TypeOK
<1>3. value' \in [Keys -> Value \cup {NoValue}]
  BY <1>2 DEF Tick
<1>4. \A t \in Types :
        /\ indexTtl[t] \in 0 .. Ttl /\ index[t] \subseteq Keys
        /\ index[t] # {} <=> indexTtl[t] > 0
        /\ indexTtl'[t] = IF indexTtl[t] = 0 THEN 0 ELSE indexTtl[t] - 1
        /\ index'[t] = IF indexTtl[t] <= 1 THEN {} ELSE index[t]
  BY DEF Tick, CacheInv, TypeOK
<1>5. /\ index' \in [Types -> SUBSET Keys] /\ indexTtl' \in [Types -> 0 .. Ttl]
      /\ \A t \in Types : index'[t] # {} <=> indexTtl'[t] > 0
  <2>1. \A t \in Types : indexTtl'[t] \in 0 .. Ttl
    BY <1>4, TtlIsPositive
  <2>2. \A t \in Types : index'[t] # {} <=> indexTtl'[t] > 0
    BY <1>4, TtlIsPositive
  <2>3. \A t \in Types : index'[t] \subseteq Keys
    BY <1>4
  <2> QED BY <2>1, <2>2, <2>3 DEF Tick
<1>6. UNCHANGED <<content, pending, lost, reader, worker>>
  BY DEF Tick
<1>7. TypeOK'
  BY <1>3, <1>5, <1>6 DEF CacheInv, TypeOK
<1>8. BusyHaveJobs' /\ CleanSetsAreAlone' /\ FetchedIsAhead'
  BY <1>6 DEF CacheInv, BusyHaveJobs, CleanSetsAreAlone, FetchedIsAhead, AtWork, Clears,
              Missed
<1>9. StoredIsOwn'
  <2>1. \A s \in Readers : reader[s].key \in Keys
    BY DEF CacheInv, TypeOK, Reader
  <2> QED BY <1>2, <1>6, <2>1 DEF CacheInv, StoredIsOwn
<1>10. CleanValuesAreSafe'
  <2> SUFFICES ASSUME NEW k \in Keys, Clean(k)'
               PROVE  Indexed(k)' /\ Listed(k)' /\ Ahead(k)'
    BY DEF CleanValuesAreSafe
  <2>1. /\ value[k] \in Value /\ value[k].ttl > 1 /\ value'[k].ttl = value[k].ttl - 1
        /\ value'[k].saw = value[k].saw /\ value'[k].tags = value[k].tags
        /\ Clean(k)
    BY <1>2 DEF Clean
  <2>2. Indexed(k) /\ Listed(k) /\ Ahead(k)
    BY <2>1 DEF CacheInv, CleanValuesAreSafe
  <2>3. Indexed(k)'
    <3> SUFFICES ASSUME NEW t \in value[k].tags
                 PROVE  k \in index'[t] /\ indexTtl'[t] >= value'[k].ttl
      BY <2>1 DEF Indexed
    <3>1. t \in Types /\ value[k].ttl \in 1 .. Ttl
      BY <2>1 DEF Value
    <3>2. k \in index[t] /\ indexTtl[t] >= value[k].ttl
      BY <2>2 DEF Indexed
    <3>3. indexTtl[t] > 1 /\ indexTtl'[t] = indexTtl[t] - 1 /\ index'[t] = index[t]
      BY <1>4, <2>1, <3>1, <3>2, TtlIsPositive
    <3> QED BY <1>4, <2>1, <3>1, <3>2, <3>3, TtlIsPositive
  <2> QED BY <1>6, <2>1, <2>2, <2>3 DEF Listed, Clears, Ahead, Missed
<1> QED BY <1>7, <1>8, <1>9, <1>10 DEF CacheInv

(***************************************************************************)
(* The theorems.                                                           *)
(***************************************************************************)
LEMMA StepKeeps ==
    ASSUME CacheInv, Next
    PROVE  CacheInv'
<1>1. CASE \E t \in Types : Change(t)
  BY <1>1, ChangeKeeps
<1>2. CASE \E r \in Readers, k \in Keys : Miss(r, k)
  BY <1>2, MissKeeps
<1>3. CASE \E r \in Readers : Fetch(r) \/ GiveUpFill(r) \/ Store(r) \/ WriteIndex(r)
  BY <1>3, FetchKeeps, GiveUpFillKeeps, StoreKeeps, WriteIndexKeeps
<1>4. CASE \E w \in Workers, j \in Jobs : Take(w, j)
  BY <1>4, TakeKeeps
<1>5. CASE \E w \in Workers : ReadIndex(w) \/ DeleteIndex(w) \/ FailDelivery(w)
  BY <1>5, ReadIndexKeeps, DeleteIndexKeeps, FailDeliveryKeeps
<1>6. CASE \E w \in Workers, k \in Keys : Remove(w, k)
  BY <1>6, RemoveKeeps
<1> QED BY <1>1, <1>2, <1>3, <1>4, <1>5, <1>6, CrashKeeps, TickKeeps DEF Next

LEMMA StutterKeeps == CacheInv /\ UNCHANGED vars => CacheInv'
BY DEF vars, CacheInv, TypeOK, BusyHaveJobs, CleanSetsAreAlone, StoredIsOwn,
       FetchedIsAhead, CleanValuesAreSafe, AtWork, Clears, Clean, Indexed, Listed, Ahead,
       Missed

\* Whatever fails, crashes or overlaps, a set() that no invalidation of its tags
\* overlaps leaves a value that the next one finds: indexed for as long as it lives,
\* and on the list of every worker that clears one of its tags.
THEOREM CacheInvariance == Spec => []CacheInv
<1>1. CacheInv /\ [Next]_vars => CacheInv'
  BY StepKeeps, StutterKeeps
<1> QED BY <1>1, InitKeeps, PTL DEF Spec

\* A delivery that is recorded as delivered has done its work: what a clean value is
\* missing is still to be invalidated, or was given up.
THEOREM NoChangeIsForgotten == Spec => []MissedChangesAreAhead
<1>1. CacheInv => MissedChangesAreAhead
  BY DEF CacheInv, CleanValuesAreSafe, Clean, Ahead, MissedChangesAreAhead
<1> QED BY <1>1, CacheInvariance, PTL

\* The reverse index of a tag outlives every value only it can clear.
THEOREM IndexIsLongLived == Spec => []IndexOutlivesValues
<1>1. CacheInv => IndexOutlivesValues
  BY DEF CacheInv, CleanValuesAreSafe, Clean, IndexOutlivesValues
<1> QED BY <1>1, CacheInvariance, PTL
=============================================================================
