----------------------- MODULE EntryPublicationProofs -----------------------
(***************************************************************************)
(* Proofs, for every value of the constants, of the properties of entries  *)
(* and their versions: first of those that hold however requests           *)
(* interleave, then of what holds of an entry on which requests take       *)
(* turns: its versions fill their slots, its archived ones are left alone, *)
(* and the store implements PublishedContent.                              *)
(***************************************************************************)
EXTENDS EntryPublication, TLAPS

\* A request in flight has what its transaction needs: a document to store, and
\* the ids its transition writes by.
PlansAreComplete ==
    \A r \in Requests :
        /\ req[r].op \in {"publish", "save"} => req[r].doc \in Data
        /\ req[r].op \in {"unpublish", "archive"} => req[r].pub \in Versions
        /\ req[r].op \in {"unarchive", "discard"} => req[r].draft \in Versions

\* The ids a request holds are those of its own entry, or of rows now gone: a
\* stale write never lands on another entry's version.
RequestsNameOwnRows ==
    \A r \in Requests, v \in Versions :
        req[r] # Idle /\ v \in {req[r].pub, req[r].draft} /\ rows[v] # NoRow
            => rows[v].entry = req[r].entry

IInv == /\ TypeOK
        /\ ForeignKey
        /\ PublishedHasTime
        /\ PlansAreComplete
        /\ RequestsNameOwnRows

(***************************************************************************)
(* Lookups: what versions.find returns is a version of the entry, or none. *)
(***************************************************************************)
LEMMA HavingOwn ==
    ASSUME TypeOK, NEW e \in Entries, NEW s \in Status,
           NEW v \in Having(VersionsOf(e), s)
    PROVE  /\ v \in Versions
           /\ rows[v] \in Row
           /\ rows[v].entry = e
           /\ rows[v].status = s
BY NullAssumption DEF TypeOK, Table, Row, NoRow, Having, VersionsOf, Status

LEMMA PublishedVersionOwn ==
    ASSUME TypeOK, NEW e \in Entries, NEW v \in PublishedVersion(VersionsOf(e)),
           v # NoVersion
    PROVE  v \in Versions /\ rows[v] \in Row /\ rows[v].entry = e
<1>1. "PUBLISHED" \in Status
  BY DEF Status
<1>2. v \in Having(VersionsOf(e), "PUBLISHED")
  BY DEF PublishedVersion, FindOr
<1> QED BY <1>1, <1>2, HavingOwn

LEMMA DraftVersionOwn ==
    ASSUME TypeOK, NEW e \in Entries, NEW v \in DraftVersion(VersionsOf(e)),
           v # NoVersion
    PROVE  v \in Versions /\ rows[v] \in Row /\ rows[v].entry = e
<1>1. "CHANGED" \in Status /\ "DRAFT" \in Status
  BY DEF Status
<1>2. v \in Having(VersionsOf(e), "CHANGED") \/ v \in Having(VersionsOf(e), "DRAFT")
  BY DEF DraftVersion, FindOr
<1> QED BY <1>1, <1>2, HavingOwn

(***************************************************************************)
(* Loading: a request that keeps a well-formed plan keeps the invariant.   *)
(***************************************************************************)
PlanOK(plan) ==
    /\ plan \in Request
    /\ plan.op \in {"publish", "save"} => plan.doc \in Data
    /\ plan.op \in {"unpublish", "archive"} => plan.pub \in Versions
    /\ plan.op \in {"unarchive", "discard"} => plan.draft \in Versions
    /\ \A v \in Versions : v \in {plan.pub, plan.draft} => rows[v].entry = plan.entry

LEMMA LoadKeeps ==
    ASSUME IInv, NEW r \in Requests, NEW plan, PlanOK(plan), Load(r, plan)
    PROVE  IInv'
<1>1. TypeOK'
  BY DEF IInv, TypeOK, Load, PlanOK
<1>2. ForeignKey' /\ PublishedHasTime'
  BY DEF IInv, ForeignKey, PublishedHasTime, Load, Live
<1>3. PlansAreComplete'
  BY DEF IInv, TypeOK, PlansAreComplete, Load, PlanOK
<1>4. RequestsNameOwnRows'
  BY DEF IInv, TypeOK, RequestsNameOwnRows, Load, PlanOK
<1> QED BY <1>1, <1>2, <1>3, <1>4 DEF IInv

LEMMA PublishPlanOK ==
    ASSUME IInv, NEW r \in Requests, NEW e \in Entries, NEW input \in Data \cup {NoData},
           NEW p \in PublishedVersion(VersionsOf(e)), NEW d \in DraftVersion(VersionsOf(e)),
           PlanPublish(r, e, p, d, input)
    PROVE  IInv'
<1> DEFINE doc == FirstPresent(input, FirstPresent(DataOf(d), DataOf(p)))
           plan == [op |-> "publish", entry |-> e, doc |-> doc,
                    pub |-> p, draft |-> d, at |-> TimeOf(p)]
<1>1. TypeOK
  BY DEF IInv
<1>2. p = NoVersion \/ (p \in Versions /\ rows[p] \in Row /\ rows[p].entry = e)
  BY <1>1, PublishedVersionOwn
<1>3. d = NoVersion \/ (d \in Versions /\ rows[d] \in Row /\ rows[d].entry = e)
  BY <1>1, DraftVersionOwn
<1>4. doc \in Data
  BY <1>2, <1>3 DEF PlanPublish, FirstPresent, DataOf, Row
<1>5. TimeOf(p) \in Times \cup {Never}
  BY <1>2 DEF TimeOf, Row
<1>6. plan \in Request
  BY <1>2, <1>3, <1>4, <1>5 DEF Request, Ops
<1>7. PlanOK(plan)
  BY <1>2, <1>3, <1>4, <1>6, NullAssumption DEF PlanOK
<1>8. Load(r, plan)
  BY DEF PlanPublish
<1> HIDE DEF plan
<1> QED BY <1>7, <1>8, LoadKeeps

LEMMA SavePlanOK ==
    ASSUME IInv, NEW r \in Requests, NEW e \in Entries, NEW input \in Data \cup {NoData},
           NEW p \in PublishedVersion(VersionsOf(e)), NEW d \in DraftVersion(VersionsOf(e)),
           PlanSave(r, e, p, d, input)
    PROVE  IInv'
<1> DEFINE doc == FirstPresent(input, DataOf(d))
           plan == [op |-> "save", entry |-> e, doc |-> doc,
                    pub |-> p, draft |-> d, at |-> Never]
<1>1. TypeOK
  BY DEF IInv
<1>2. p = NoVersion \/ (p \in Versions /\ rows[p] \in Row /\ rows[p].entry = e)
  BY <1>1, PublishedVersionOwn
<1>3. d = NoVersion \/ (d \in Versions /\ rows[d] \in Row /\ rows[d].entry = e)
  BY <1>1, DraftVersionOwn
<1>4. doc \in Data
  BY <1>3 DEF PlanSave, FirstPresent, DataOf, Row
<1>5. plan \in Request
  BY <1>2, <1>3, <1>4 DEF Request, Ops
<1>6. PlanOK(plan)
  BY <1>2, <1>3, <1>4, <1>5, NullAssumption DEF PlanOK
<1>7. Load(r, plan)
  BY DEF PlanSave
<1> HIDE DEF plan
<1> QED BY <1>6, <1>7, LoadKeeps

\* A patch laid over a document, or over nothing, is a document.
LEMMA MergeIsData ==
    ASSUME NEW base \in Data \cup {NoData}, NEW patch \in Patches
    PROVE  Merge(base, patch) \in Data
<1>1. PICK S \in SUBSET Fields : patch \in [S -> Values]
  BY DEF Patches
<1> QED BY <1>1, NullAssumption DEF Merge, Data

LEMMA ReadKeeps ==
    ASSUME IInv, NEW r \in Requests, Read(r)
    PROVE  IInv'
<1> PICK e \in Entries :
        \/ \E d \in Data \cup {NoData} : ReadPut(r, e, d)
        \/ \E p \in Patches : ReadPatch(r, e, p)
        \/ ReadBulkPublish(r, e)
        \/ ReadUnpublish(r, e)
        \/ ReadArchive(r, e)
        \/ ReadUnarchive(r, e)
        \/ ReadRepublish(r, e)
        \/ ReadDiscard(r, e)
        \/ ReadDelete(r, e)
  BY DEF Read
<1> USE NullAssumption
<1>t. TypeOK
  BY DEF IInv
<1>s. "PUBLISHED" \in Status /\ "CHANGED" \in Status /\ "ARCHIVED" \in Status
  BY DEF Status
<1>h. \A s \in Status : \A v \in Having(VersionsOf(e), s) :
          v \in Versions /\ rows[v] \in Row /\ rows[v].entry = e
  BY <1>t, HavingOwn
<1>p. \A v \in PublishedVersion(VersionsOf(e)) :
          v = NoVersion \/ (v \in Versions /\ rows[v] \in Row /\ rows[v].entry = e)
  BY <1>t, PublishedVersionOwn
<1>d. \A v \in DraftVersion(VersionsOf(e)) :
          v = NoVersion \/ (v \in Versions /\ rows[v] \in Row /\ rows[v].entry = e)
  BY <1>t, DraftVersionOwn
<1>1. CASE \E d \in Data \cup {NoData} : ReadPut(r, e, d)
  BY <1>1, PublishPlanOK, SavePlanOK DEF ReadPut
<1>2. CASE \E p \in Patches : ReadPatch(r, e, p)
  <2> PICK patch \in Patches : ReadPatch(r, e, patch)
    BY <1>2
  <2> PICK p \in PublishedVersion(VersionsOf(e)), d \in DraftVersion(VersionsOf(e)) :
        \/ PlanPublish(r, e, p, d, Merge(FirstPresent(DataOf(d), DataOf(p)), patch))
        \/ PlanSave(r, e, p, d, Merge(FirstPresent(DataOf(d), DataOf(p)), patch))
    BY DEF ReadPatch
  <2>1. FirstPresent(DataOf(d), DataOf(p)) \in Data \cup {NoData}
    BY <1>p, <1>d DEF FirstPresent, DataOf, Row
  <2>2. Merge(FirstPresent(DataOf(d), DataOf(p)), patch) \in Data
    BY <2>1, MergeIsData
  <2> QED BY <2>2, PublishPlanOK, SavePlanOK
<1>3. CASE ReadBulkPublish(r, e)
  BY <1>3, PublishPlanOK DEF ReadBulkPublish
<1>4. CASE ReadUnpublish(r, e)
  <2> PICK p \in Having(VersionsOf(e), "PUBLISHED"),
           d \in FindOr(Having(VersionsOf(e), "CHANGED"), {NoVersion}) :
        Load(r, [op |-> "unpublish", entry |-> e, doc |-> DataOf(p),
                 pub |-> p, draft |-> d, at |-> Never])
    BY <1>4 DEF ReadUnpublish
  <2> DEFINE plan == [op |-> "unpublish", entry |-> e, doc |-> DataOf(p),
                      pub |-> p, draft |-> d, at |-> Never]
  <2>1. p \in Versions /\ rows[p] \in Row /\ rows[p].entry = e
    BY <1>h, <1>s
  <2>2. d = NoVersion \/ (d \in Versions /\ rows[d].entry = e)
    BY <1>h, <1>s DEF FindOr
  <2>3. PlanOK(plan)
    BY <2>1, <2>2 DEF PlanOK, Request, Ops, DataOf, Row
  <2>4. Load(r, plan)
    OBVIOUS
  <2> HIDE DEF plan
  <2> QED BY <2>3, <2>4, LoadKeeps
<1>5. CASE ReadArchive(r, e)
  <2> PICK p \in Having(VersionsOf(e), "PUBLISHED") :
        Load(r, [op |-> "archive", entry |-> e, doc |-> DataOf(p),
                 pub |-> p, draft |-> NoVersion, at |-> Never])
    BY <1>5 DEF ReadArchive
  <2> DEFINE plan == [op |-> "archive", entry |-> e, doc |-> DataOf(p),
                      pub |-> p, draft |-> NoVersion, at |-> Never]
  <2>1. PlanOK(plan)
    BY <1>h, <1>s DEF PlanOK, Request, Ops, DataOf, Row
  <2>2. Load(r, plan)
    OBVIOUS
  <2> HIDE DEF plan
  <2> QED BY <2>1, <2>2, LoadKeeps
<1>6. CASE ReadUnarchive(r, e)
  <2> PICK a \in Having(VersionsOf(e), "ARCHIVED") :
        Load(r, [op |-> "unarchive", entry |-> e, doc |-> NoData,
                 pub |-> NoVersion, draft |-> a, at |-> Never])
    BY <1>6 DEF ReadUnarchive
  <2> DEFINE plan == [op |-> "unarchive", entry |-> e, doc |-> NoData,
                      pub |-> NoVersion, draft |-> a, at |-> Never]
  <2>1. PlanOK(plan)
    BY <1>h, <1>s DEF PlanOK, Request, Ops
  <2>2. Load(r, plan)
    OBVIOUS
  <2> HIDE DEF plan
  <2> QED BY <2>1, <2>2, LoadKeeps
<1>7. CASE ReadRepublish(r, e)
  <2> PICK p \in Having(VersionsOf(e), "PUBLISHED") :
        Load(r, [op |-> "republish", entry |-> e, doc |-> DataOf(p),
                 pub |-> NoVersion, draft |-> NoVersion, at |-> Never])
    BY <1>7 DEF ReadRepublish
  <2> DEFINE plan == [op |-> "republish", entry |-> e, doc |-> DataOf(p),
                      pub |-> NoVersion, draft |-> NoVersion, at |-> Never]
  <2>1. PlanOK(plan)
    BY <1>h, <1>s DEF PlanOK, Request, Ops, DataOf, Row
  <2>2. Load(r, plan)
    OBVIOUS
  <2> HIDE DEF plan
  <2> QED BY <2>1, <2>2, LoadKeeps
<1>8. CASE ReadDiscard(r, e)
  <2> PICK d \in DraftVersion(VersionsOf(e)) \ {NoVersion} :
        Load(r, [op |-> "discard", entry |-> e, doc |-> NoData,
                 pub |-> NoVersion, draft |-> d, at |-> Never])
    BY <1>8 DEF ReadDiscard
  <2> DEFINE plan == [op |-> "discard", entry |-> e, doc |-> NoData,
                      pub |-> NoVersion, draft |-> d, at |-> Never]
  <2>1. PlanOK(plan)
    BY <1>d DEF PlanOK, Request, Ops
  <2>2. Load(r, plan)
    OBVIOUS
  <2> HIDE DEF plan
  <2> QED BY <2>1, <2>2, LoadKeeps
<1>9. CASE ReadDelete(r, e)
  <2> PICK p \in PublishedVersion(VersionsOf(e)) :
        Load(r, [op |-> "delete", entry |-> e, doc |-> DataOf(p),
                 pub |-> NoVersion, draft |-> NoVersion, at |-> Never])
    BY <1>9 DEF ReadDelete
  <2> DEFINE plan == [op |-> "delete", entry |-> e, doc |-> DataOf(p),
                      pub |-> NoVersion, draft |-> NoVersion, at |-> Never]
  <2>1. PlanOK(plan)
    BY <1>p DEF PlanOK, Request, Ops, DataOf, Row
  <2>2. Load(r, plan)
    OBVIOUS
  <2> HIDE DEF plan
  <2> QED BY <2>1, <2>2, LoadKeeps
<1> QED BY <1>1, <1>2, <1>3, <1>4, <1>5, <1>6, <1>7, <1>8, <1>9

(***************************************************************************)
(* Committing: a transaction may drop rows, rewrite rows under their owner *)
(* and insert fresh ones; requests may end.  Nothing else is needed.       *)
(***************************************************************************)
RowsStayPut ==
    \A v \in Versions : rows'[v] # NoRow =>
        \/ rows[v] # NoRow /\ rows'[v].entry = rows[v].entry
        \/ v \in FreshVersions

LEMMA CommitKeeps ==
    ASSUME IInv, TypeOK', ForeignKey', PublishedHasTime', RowsStayPut,
           \A r \in Requests : req'[r] \in {req[r], Idle}
    PROVE  IInv'
<1>1. PlansAreComplete'
  BY DEF IInv, PlansAreComplete, Idle
<1>2. RequestsNameOwnRows'
  BY DEF IInv, RequestsNameOwnRows, RowsStayPut, FreshVersions
<1> QED BY <1>1, <1>2 DEF IInv

\* What a transaction of entry e may do to the table and to the outbox.
OwnWritesOnly(e) ==
    \A v \in Versions : rows'[v] # rows[v] =>
        rows[v].entry \in {e, NoEntry} /\ rows'[v].entry \in {e, NoEntry}

NothingNewPublished ==
    \A v \in Versions : rows'[v].status = "PUBLISHED" => rows'[v] = rows[v]

Announces(e) ==
    /\ event'.entry = e
    /\ \/ NothingNewPublished
       \/ /\ event'.kind = "ENTRY_PUBLISHED"
          /\ \E v \in Versions : /\ rows'[v].entry = e
                                 /\ rows'[v].status = "PUBLISHED"
                                 /\ event'.data = rows'[v].data

\* What holds of any step that commits request r, from the invariant.
LEMMA InFlight ==
    ASSUME IInv, NEW r \in Requests, req[r].op \in Ops
    PROVE  /\ req[r] \in Request
           /\ req[r] # Idle
           /\ \A v \in Versions : v \in {req[r].pub, req[r].draft} /\ rows[v] # NoRow
                => rows[v] \in Row /\ rows[v].entry = req[r].entry
<1>1. "idle" \notin Ops
  BY DEF Ops
<1> QED BY <1>1 DEF IInv, TypeOK, RequestsNameOwnRows, Table, Idle

LEMMA PublishKeeps ==
    ASSUME IInv, NEW r \in Requests, Publish(r)
    PROVE  IInv' /\ OwnWritesOnly(req[r].entry) /\ Announces(req[r].entry)
<1> DEFINE q == req[r]
<1>1. q.op \in Ops
  BY DEF Publish, Ops
<1>2. /\ q \in Request /\ q # Idle
      /\ \A v \in Versions : v \in {q.pub, q.draft} /\ rows[v] # NoRow
            => rows[v] \in Row /\ rows[v].entry = q.entry
  BY <1>1, InFlight
<1>3. q.doc \in Data
  BY DEF IInv, PlansAreComplete, Publish
<1>4. PICK t \in Target(q.draft), now \in Times : rows' = Promoted(q, t, now)
  BY DEF Publish
<1>5. PublishedAt(q.at, now) \in Times
  BY <1>2, NullAssumption DEF PublishedAt, Request
<1>6. t \in FreshVersions \/ (t = q.draft /\ t \in Versions /\ rows[t] # NoRow)
  BY <1>2 DEF Target, Publish, PresentOrNone, Present, Request
<1>7. t \in Versions
  BY <1>6 DEF FreshVersions
<1>8. [entry |-> q.entry, status |-> "PUBLISHED", data |-> q.doc,
       publishedAt |-> PublishedAt(q.at, now)] \in Row
  BY <1>2, <1>3, <1>5 DEF Row, Status, Request
<1>9. rows' \in Table
  BY <1>4, <1>7, <1>8 DEF Promoted, Table, IInv, TypeOK
<1>10. PICK v \in Versions : /\ rows'[v].entry = q.entry
                             /\ rows'[v].status = "PUBLISHED"
                             /\ event' = [kind |-> "ENTRY_PUBLISHED", entry |-> q.entry,
                                          data |-> rows'[v].data]
  BY DEF Publish, Enqueued
<1>11. event' \in Event
  <2>1. rows'[v] \in Row
    BY <1>9, <1>10 DEF Table, NoRow
  <2> QED BY <1>2, <1>10, <2>1 DEF Event, EventKinds, Row, Request
<1>12. envelope' \in [Entries -> Data \cup {NoData}]
  BY <1>2, <1>3 DEF Publish, IInv, TypeOK, Request
<1>13. req' = [req EXCEPT ![r] = Idle]
  BY DEF Publish, Done
<1>14. TypeOK'
  BY <1>9, <1>11, <1>12, <1>13 DEF TypeOK, IInv
<1>15. envelope' = [envelope EXCEPT ![q.entry] = q.doc]
  BY DEF Publish
<1>16. ForeignKey'
  BY <1>2, <1>3, <1>4, <1>15, NullAssumption
     DEF ForeignKey, IInv, TypeOK, Live, Promoted, Table, Row, NoRow, Request
<1>17. PublishedHasTime'
  BY <1>4, <1>5, NullAssumption DEF PublishedHasTime, IInv, Promoted, NoRow
<1>18. RowsStayPut
  BY <1>2, <1>4, <1>6 DEF RowsStayPut, Promoted, Request
<1>19. IInv'
  BY <1>13, <1>14, <1>16, <1>17, <1>18, CommitKeeps DEF IInv, TypeOK
<1>20. OwnWritesOnly(q.entry)
  BY <1>2, <1>4, <1>6 DEF OwnWritesOnly, Promoted, FreshVersions, NoRow, Request
<1>21. Announces(q.entry)
  BY <1>10 DEF Announces
<1> QED BY <1>19, <1>20, <1>21

LEMMA SaveKeeps ==
    ASSUME IInv, NEW r \in Requests, Save(r)
    PROVE  IInv' /\ OwnWritesOnly(req[r].entry) /\ Announces(req[r].entry)
<1> DEFINE q == req[r]
<1>1. q.op \in Ops
  BY DEF Save, Ops
<1>2. /\ q \in Request /\ q # Idle
      /\ \A v \in Versions : v \in {q.pub, q.draft} /\ rows[v] # NoRow
            => rows[v] \in Row /\ rows[v].entry = q.entry
  BY <1>1, InFlight
<1>3. q.doc \in Data
  BY DEF IInv, PlansAreComplete, Save
<1>4. PICK t \in Target(q.draft) : rows' = [rows EXCEPT ![t] =
        [entry |-> q.entry, status |-> SavedStatus(q.pub), data |-> q.doc,
         publishedAt |-> rows[t].publishedAt]]
  BY DEF Save
<1>5. t \in FreshVersions \/ (t = q.draft /\ t \in Versions /\ rows[t] # NoRow)
  BY <1>2 DEF Target, Save, PresentOrNone, Present, Request
<1>6. t \in Versions
  BY <1>5 DEF FreshVersions
<1>7. rows[t].publishedAt \in Times \cup {Never}
  BY <1>6 DEF IInv, TypeOK, Table, Row, NoRow
<1>8. SavedStatus(q.pub) \in {"CHANGED", "DRAFT"}
  BY DEF SavedStatus
<1>9. rows' \in Table
  BY <1>2, <1>3, <1>4, <1>6, <1>7, <1>8 DEF Table, IInv, TypeOK, Row, Status, Request
<1>10. event' \in Event
  BY <1>2 DEF Save, Enqueued, Event, EventKinds, Request
<1>11. envelope' = [envelope EXCEPT ![q.entry] = q.doc]
  BY DEF Save
<1>12. req' = [req EXCEPT ![r] = Idle]
  BY DEF Save, Done
<1>13. TypeOK'
  BY <1>2, <1>3, <1>9, <1>10, <1>11, <1>12 DEF TypeOK, IInv, Request
<1>14. ForeignKey'
  BY <1>2, <1>3, <1>4, <1>6, <1>11, NullAssumption
     DEF ForeignKey, IInv, TypeOK, Live, Table, Row, NoRow, Request
<1>15. PublishedHasTime'
  BY <1>4, <1>6, <1>8 DEF PublishedHasTime, IInv, TypeOK, Table
<1>16. RowsStayPut
  BY <1>2, <1>4, <1>5, <1>6 DEF RowsStayPut, Request, IInv, TypeOK, Table
<1>17. IInv'
  BY <1>12, <1>13, <1>14, <1>15, <1>16, CommitKeeps DEF IInv, TypeOK
<1>18. OwnWritesOnly(q.entry)
  BY <1>2, <1>4, <1>5, <1>6 DEF OwnWritesOnly, FreshVersions, NoRow, Request, IInv, TypeOK, Table
<1>19. Announces(q.entry)
  BY <1>4, <1>6, <1>8 DEF Announces, NothingNewPublished, Save, Enqueued, IInv, TypeOK, Table
<1> QED BY <1>17, <1>18, <1>19

\* The commits that insert nothing and publish nothing: each row stays, goes, or
\* is rewritten under its owner to a status that is not PUBLISHED.
LEMMA RetireKeeps ==
    ASSUME IInv, NEW r \in Requests, NEW e \in Entries,
           Done(r), UNCHANGED envelope,
           event' \in Event, event'.entry = e,
           rows' \in [Versions -> Row \cup {NoRow}],
           \A v \in Versions : rows'[v] # rows[v] =>
               /\ rows[v] # NoRow /\ rows[v].entry = e
               /\ \/ rows'[v] = NoRow
                  \/ rows'[v].entry = e /\ rows'[v].status # "PUBLISHED"
    PROVE  IInv' /\ OwnWritesOnly(e) /\ Announces(e)
<1>1. req' = [req EXCEPT ![r] = Idle]
  BY DEF Done
<1>2. TypeOK'
  BY <1>1 DEF IInv, TypeOK, Table
<1>3. ForeignKey'
  BY DEF IInv, ForeignKey, Live
<1>4. PublishedHasTime'
  BY DEF IInv, PublishedHasTime, NoRow
<1>5. RowsStayPut
  BY DEF RowsStayPut
<1>6. IInv'
  BY <1>1, <1>2, <1>3, <1>4, <1>5, CommitKeeps DEF IInv, TypeOK
<1>7. OwnWritesOnly(e)
  BY DEF OwnWritesOnly, NoRow
<1>8. Announces(e)
  BY DEF Announces, NothingNewPublished, NoRow
<1> QED BY <1>6, <1>7, <1>8

LEMMA UnpublishKeeps ==
    ASSUME IInv, NEW r \in Requests, Unpublish(r)
    PROVE  IInv' /\ OwnWritesOnly(req[r].entry) /\ Announces(req[r].entry)
<1> DEFINE q == req[r]
           kept == IF q.draft # NoVersion THEN q.draft ELSE q.pub
<1>1. q.op \in Ops
  BY DEF Unpublish, Ops
<1>2. /\ q \in Request /\ q # Idle
      /\ \A v \in Versions : v \in {q.pub, q.draft} /\ rows[v] # NoRow
            => rows[v] \in Row /\ rows[v].entry = q.entry
  BY <1>1, InFlight
<1>3. q.pub \in Versions
  BY DEF Unpublish, IInv, PlansAreComplete
<1>4. kept \in Versions /\ kept \in {q.pub, q.draft} /\ rows[kept] # NoRow
  BY <1>2, <1>3 DEF Unpublish, Present, PresentOrNone, Request
<1>5. rows' = [v \in Versions |->
          IF v = kept THEN BackToDraft(rows[v])
          ELSE IF v = q.pub THEN NoRow ELSE rows[v]]
  BY DEF Unpublish
<1>6. rows[q.pub] # NoRow /\ event' = [kind |-> "ENTRY_UNPUBLISHED", entry |-> q.entry,
                                       data |-> q.doc]
      /\ Done(r) /\ UNCHANGED envelope
  BY DEF Unpublish, Present, Enqueued
<1> HIDE DEF kept
<1>7. BackToDraft(rows[kept]) \in Row
      /\ BackToDraft(rows[kept]).entry = q.entry
      /\ BackToDraft(rows[kept]).status = "DRAFT"
  BY <1>2, <1>4 DEF BackToDraft, Row, Status
<1>8. event' \in Event /\ event'.entry = q.entry
  BY <1>2, <1>6 DEF Event, EventKinds, Request
<1>9. rows' \in [Versions -> Row \cup {NoRow}]
  BY <1>5, <1>7 DEF IInv, TypeOK, Table
<1>10. \A v \in Versions : rows'[v] # rows[v] =>
          /\ rows[v] # NoRow /\ rows[v].entry = q.entry
          /\ \/ rows'[v] = NoRow
             \/ rows'[v].entry = q.entry /\ rows'[v].status # "PUBLISHED"
  BY <1>2, <1>3, <1>4, <1>5, <1>6, <1>7
<1>11. q.entry \in Entries
  BY <1>2 DEF Request
<1> HIDE DEF q
<1> QED BY <1>6, <1>8, <1>9, <1>10, <1>11, RetireKeeps DEF q

LEMMA OneRowKeeps ==
    ASSUME IInv, NEW r \in Requests, req[r].op \in Ops, NEW v \in Versions,
           v \in {req[r].pub, req[r].draft}, rows[v] # NoRow,
           NEW row, rows' = [rows EXCEPT ![v] = row],
           \/ row = NoRow
           \/ row \in Row /\ row.entry = rows[v].entry /\ row.status # "PUBLISHED",
           NEW k \in EventKinds, NEW d \in Data \cup {NoData},
           Enqueued(k, req[r].entry, d), Done(r), UNCHANGED envelope
    PROVE  IInv' /\ OwnWritesOnly(req[r].entry) /\ Announces(req[r].entry)
<1>1. req[r] \in Request /\ rows[v] \in Row /\ rows[v].entry = req[r].entry
  BY InFlight
<1>2. event' \in Event /\ event'.entry = req[r].entry
  BY <1>1 DEF Event, Enqueued, Request
<1>3. rows' \in [Versions -> Row \cup {NoRow}]
  BY DEF IInv, TypeOK, Table
<1>4. \A w \in Versions : rows'[w] # rows[w] =>
          /\ rows[w] # NoRow /\ rows[w].entry = req[r].entry
          /\ \/ rows'[w] = NoRow
             \/ rows'[w].entry = req[r].entry /\ rows'[w].status # "PUBLISHED"
  BY <1>1 DEF IInv, TypeOK, Table
<1>5. req[r].entry \in Entries
  BY <1>1 DEF Request
<1> QED BY <1>2, <1>3, <1>4, <1>5, RetireKeeps

LEMMA ArchiveKeeps ==
    ASSUME IInv, NEW r \in Requests, Archive(r)
    PROVE  IInv' /\ OwnWritesOnly(req[r].entry) /\ Announces(req[r].entry)
<1> DEFINE v == req[r].pub
           row == [rows[v] EXCEPT !.status = "ARCHIVED"]
<1>1. v \in Versions /\ rows[v] # NoRow /\ req[r].op \in Ops
  BY DEF Archive, IInv, PlansAreComplete, Present, Ops
<1>2. rows[v] \in Row /\ req[r].doc \in Data \cup {NoData}
  BY <1>1 DEF IInv, TypeOK, Table, Request, Idle
<1>3. row \in Row /\ row.entry = rows[v].entry /\ row.status # "PUBLISHED"
  BY <1>2 DEF Row, Status
<1>4. rows' = [rows EXCEPT ![v] = row]
  BY DEF Archive
<1>5. Enqueued("ENTRY_UNPUBLISHED", req[r].entry, req[r].doc) /\ Done(r) /\ UNCHANGED envelope
  BY DEF Archive
<1>6. "ENTRY_UNPUBLISHED" \in EventKinds
  BY DEF EventKinds
<1> HIDE DEF row
<1> QED BY <1>1, <1>2, <1>3, <1>4, <1>5, <1>6, OneRowKeeps

LEMMA UnarchiveKeeps ==
    ASSUME IInv, NEW r \in Requests, Unarchive(r)
    PROVE  IInv' /\ OwnWritesOnly(req[r].entry) /\ Announces(req[r].entry)
<1> DEFINE v == req[r].draft
           row == BackToDraft(rows[v])
<1>1. v \in Versions /\ rows[v] # NoRow /\ req[r].op \in Ops
  BY DEF Unarchive, IInv, PlansAreComplete, Present, Ops
<1>2. rows[v] \in Row
  BY <1>1 DEF IInv, TypeOK, Table
<1>3. row \in Row /\ row.entry = rows[v].entry /\ row.status # "PUBLISHED"
  BY <1>2 DEF Row, Status, BackToDraft
<1>4. rows' = [rows EXCEPT ![v] = row]
  BY DEF Unarchive
<1>5. Enqueued("ENTRY_DRAFT_SYNC", req[r].entry, NoData) /\ Done(r) /\ UNCHANGED envelope
  BY DEF Unarchive
<1>6. "ENTRY_DRAFT_SYNC" \in EventKinds
  BY DEF EventKinds
<1> HIDE DEF row
<1> QED BY <1>1, <1>3, <1>4, <1>5, <1>6, OneRowKeeps

LEMMA DiscardKeeps ==
    ASSUME IInv, NEW r \in Requests, Discard(r)
    PROVE  IInv' /\ OwnWritesOnly(req[r].entry) /\ Announces(req[r].entry)
<1>1. req[r].draft \in Versions /\ rows[req[r].draft] # NoRow /\ req[r].op \in Ops
  BY DEF Discard, IInv, PlansAreComplete, Present, Ops
<1>2. rows' = [rows EXCEPT ![req[r].draft] = NoRow]
  BY DEF Discard
<1>3. Enqueued("ENTRY_DRAFT_SYNC", req[r].entry, NoData) /\ Done(r) /\ UNCHANGED envelope
  BY DEF Discard
<1>4. "ENTRY_DRAFT_SYNC" \in EventKinds
  BY DEF EventKinds
<1> QED BY <1>1, <1>2, <1>3, <1>4, OneRowKeeps

LEMMA RepublishKeeps ==
    ASSUME IInv, NEW r \in Requests, Republish(r)
    PROVE  IInv' /\ OwnWritesOnly(req[r].entry) /\ Announces(req[r].entry)
<1>1. req[r] \in Request
  BY InFlight DEF Republish, Ops
<1>2. event' \in Event /\ event'.entry = req[r].entry
  BY <1>1 DEF Republish, Enqueued, Event, EventKinds, Request
<1>3. rows' \in [Versions -> Row \cup {NoRow}]
  BY DEF Republish, IInv, TypeOK, Table
<1>4. req[r].entry \in Entries
  BY <1>1 DEF Request
<1> QED BY <1>2, <1>3, <1>4, RetireKeeps DEF Republish

LEMMA DeleteKeeps ==
    ASSUME IInv, NEW r \in Requests, Delete(r)
    PROVE  IInv' /\ OwnWritesOnly(req[r].entry) /\ Announces(req[r].entry)
<1> DEFINE e == req[r].entry
<1>1. req[r] \in Request /\ e \in Entries
  BY InFlight DEF Delete, Ops, Request
<1>2. rows' = [v \in Versions |-> IF rows[v].entry = e THEN NoRow ELSE rows[v]]
  BY DEF Delete, Cascade
<1>3. envelope' = [envelope EXCEPT ![e] = NoData] /\ req' = [req EXCEPT ![r] = Idle]
  BY DEF Delete, Done
<1>4. event' \in Event /\ event'.entry = e
  BY <1>1 DEF Delete, Enqueued, Event, EventKinds, Request
<1>5. TypeOK'
  BY <1>2, <1>3, <1>4 DEF IInv, TypeOK, Table
<1>6. ForeignKey'
  BY <1>1, <1>2, <1>3 DEF IInv, TypeOK, Table, ForeignKey, Live, Row, NoRow
<1>7. PublishedHasTime'
  BY <1>2 DEF IInv, PublishedHasTime, NoRow
<1>8. RowsStayPut
  BY <1>2 DEF RowsStayPut
<1>9. IInv'
  BY <1>3, <1>5, <1>6, <1>7, <1>8, CommitKeeps DEF IInv, TypeOK
<1>10. OwnWritesOnly(e)
  BY <1>2 DEF OwnWritesOnly, NoRow
<1>11. Announces(e)
  BY <1>2, <1>4 DEF Announces, NothingNewPublished, NoRow
<1> QED BY <1>9, <1>10, <1>11

LEMMA CreateKeeps ==
    ASSUME IInv, NEW e \in Entries, NEW doc \in Data, NEW status \in Status,
           NEW now \in Times, Create(e, doc, status, now)
    PROVE  IInv' /\ OwnWritesOnly(e) /\ Announces(e)
<1> DEFINE row == [entry |-> e, status |-> status, data |-> doc,
                   publishedAt |-> IF status = "PUBLISHED" THEN now ELSE Never]
<1>1. PICK v \in FreshVersions : rows' = [rows EXCEPT ![v] = row]
  BY DEF Create
<1>2. v \in Versions /\ rows[v] = NoRow
  BY DEF FreshVersions
<1>3. row \in Row
  BY DEF Row
<1>4. envelope' = [envelope EXCEPT ![e] = doc] /\ req' = req
  BY DEF Create
<1>5. event' \in Event /\ event'.entry = e
  BY DEF Create, Enqueued, Event, EventKinds
<1>6. rows' \in Table
  BY <1>1, <1>2, <1>3 DEF IInv, TypeOK, Table
<1>7. TypeOK'
  BY <1>4, <1>5, <1>6 DEF IInv, TypeOK
<1>8. ForeignKey'
  BY <1>1, <1>2, <1>4, NullAssumption DEF IInv, TypeOK, Table, ForeignKey, Live, Row, NoRow
<1>9. PublishedHasTime'
  BY <1>1, <1>2, NullAssumption DEF IInv, TypeOK, Table, PublishedHasTime
<1>10. RowsStayPut
  BY <1>1 DEF RowsStayPut, IInv, TypeOK, Table
<1>11. IInv'
  BY <1>4, <1>7, <1>8, <1>9, <1>10, CommitKeeps DEF IInv, TypeOK
<1>12. OwnWritesOnly(e)
  BY <1>1, <1>2 DEF OwnWritesOnly, IInv, TypeOK, Table, NoRow
<1>13. rows'[v] = row
  BY <1>1, <1>2 DEF IInv, TypeOK, Table
<1>14. Announces(e)
  <2>1. CASE status = "PUBLISHED"
    <3>1. event' = [kind |-> "ENTRY_PUBLISHED", entry |-> e, data |-> doc]
      BY <2>1 DEF Create, Enqueued
    <3> QED BY <1>2, <1>13, <2>1, <3>1 DEF Announces
  <2>2. CASE status # "PUBLISHED"
    BY <1>1, <1>2, <1>5, <2>2 DEF Announces, NothingNewPublished, IInv, TypeOK, Table
  <2> QED BY <2>1, <2>2
<1> QED BY <1>11, <1>12, <1>14

LEMMA AbortKeeps ==
    ASSUME IInv, NEW r \in Requests, Abort(r)
    PROVE  IInv' /\ UNCHANGED rows
<1>1. req' = [req EXCEPT ![r] = Idle] /\ UNCHANGED <<rows, envelope>> /\ event' = NoEvent
  BY DEF Abort, Done
<1>2. TypeOK'
  BY <1>1 DEF IInv, TypeOK
<1>3. ForeignKey' /\ PublishedHasTime' /\ RowsStayPut
  BY <1>1 DEF IInv, ForeignKey, PublishedHasTime, RowsStayPut, Live
<1> QED BY <1>1, <1>2, <1>3, CommitKeeps DEF IInv, TypeOK

(***************************************************************************)
(* The theorems.                                                           *)
(***************************************************************************)

\* Every step keeps the invariant, and either leaves the versions alone or
\* writes those of one entry and announces it.
LEMMA StepKeeps ==
    ASSUME IInv, Next
    PROVE  /\ IInv'
           /\ \/ UNCHANGED rows
              \/ \E e \in Entries : OwnWritesOnly(e) /\ Announces(e)
<1>1. CASE \E r \in Requests : Read(r)
  <2> PICK r \in Requests : Read(r)
    BY <1>1
  <2>1. IInv'
    BY ReadKeeps
  <2>2. UNCHANGED rows
    BY DEF Read, ReadPut, ReadPatch, ReadBulkPublish, ReadUnpublish, ReadArchive,
           ReadUnarchive, ReadRepublish, ReadDiscard, ReadDelete,
           PlanPublish, PlanSave, Load
  <2> QED BY <2>1, <2>2
<1>2. CASE \E r \in Requests : Commit(r)
  <2> PICK r \in Requests : Commit(r)
    BY <1>2
  <2>1. IInv' /\ OwnWritesOnly(req[r].entry) /\ Announces(req[r].entry)
    BY PublishKeeps, SaveKeeps, UnpublishKeeps, ArchiveKeeps, UnarchiveKeeps,
       RepublishKeeps, DiscardKeeps, DeleteKeeps DEF Commit
  <2>2. req[r].op \in Ops
    BY DEF Commit, Publish, Save, Unpublish, Archive, Unarchive, Republish,
           Discard, Delete, Ops
  <2>3. req[r].entry \in Entries
    BY <2>2, InFlight DEF Request
  <2> QED BY <2>1, <2>3
<1>3. CASE \E r \in Requests : Abort(r)
  BY <1>3, AbortKeeps
<1>4. CASE \E e \in Entries, d \in Data, s \in Status, t \in Times : Create(e, d, s, t)
  BY <1>4, CreateKeeps
<1> QED BY <1>1, <1>2, <1>3, <1>4 DEF Next

LEMMA InitKeeps == Init => IInv
BY NullAssumption
   DEF Init, IInv, TypeOK, Table, EmptyTable, ForeignKey, PublishedHasTime,
       PlansAreComplete, RequestsNameOwnRows, Idle, NoRow

LEMMA StutterKeeps == IInv /\ UNCHANGED vars => IInv'
BY DEF vars, IInv, TypeOK, ForeignKey, PublishedHasTime, Live, PlansAreComplete,
       RequestsNameOwnRows

\* The inductive invariant holds of every reachable state.
THEOREM Invariance == Spec => []IInv
<1>1. IInv /\ [Next]_vars => IInv'
  BY StepKeeps, StutterKeeps
<1> QED BY <1>1, InitKeeps, PTL DEF Spec

\* The tables are well formed, no version ever outlives its entry, whatever races
\* a delete, and whatever is served to the public carries its publication time.
THEOREM TableRegular == Spec => []TableIsRegular
<1>1. IInv => TableIsRegular
  BY DEF IInv, TableIsRegular
<1> QED BY <1>1, Invariance, PTL

\* Stale requests can overwrite each other's work within an entry, and never
\* anything outside it.
THEOREM StaleWritesStayInEntry == Spec => []RequestsNameOwnRows
<1>1. IInv => RequestsNameOwnRows
  BY DEF IInv
<1> QED BY <1>1, Invariance, PTL

LEMMA OthersUntouched ==
    ASSUME IInv, IInv', NEW e \in Entries, OwnWritesOnly(e),
           NEW f \in Entries, f # e
    PROVE  VersionsOf(f)' = VersionsOf(f)
<1>1. \A v \in Versions : (rows'[v].entry = f \/ rows[v].entry = f) => rows'[v] = rows[v]
  BY NullAssumption DEF OwnWritesOnly
<1> QED BY <1>1 DEF VersionsOf

\* However requests interleave, a change of an entry's versions is enqueued for
\* that entry in the same transaction.
THEOREM OutboxComplete == Spec => ChangesAreAnnounced
<1>1. IInv /\ IInv' /\ [Next]_vars =>
        [\A e \in Entries : VersionsOf(e)' # VersionsOf(e) => event'.entry = e]_vars
  <2> SUFFICES ASSUME IInv, IInv', Next, NEW f \in Entries,
                      VersionsOf(f)' # VersionsOf(f)
               PROVE  event'.entry = f
    OBVIOUS
  <2>1. ~ UNCHANGED rows
    BY DEF VersionsOf
  <2>2. PICK e \in Entries : OwnWritesOnly(e) /\ Announces(e)
    BY <2>1, StepKeeps
  <2>3. f = e
    BY <2>2, OthersUntouched
  <2> QED BY <2>2, <2>3 DEF Announces
<1> QED BY <1>1, Invariance, PTL DEF Spec, ChangesAreAnnounced

\* However requests interleave, nothing becomes public without an
\* ENTRY_PUBLISHED that carries public content of that entry.
THEOREM NothingPublishedSilently == Spec => NewContentIsPublishedByEvent
<1>1. IInv /\ IInv' /\ [Next]_vars =>
        [\A e \in Entries : ~(PublicData(e)' \subseteq PublicData(e)) =>
             /\ event'.kind = "ENTRY_PUBLISHED"
             /\ event'.entry = e
             /\ event'.data \in PublicData(e)']_vars
  <2> SUFFICES ASSUME IInv, IInv', Next, NEW f \in Entries,
                      ~(PublicData(f)' \subseteq PublicData(f))
               PROVE  /\ event'.kind = "ENTRY_PUBLISHED"
                      /\ event'.entry = f
                      /\ event'.data \in PublicData(f)'
    OBVIOUS
  <2>1. PICK v \in Versions : /\ rows'[v].entry = f
                              /\ rows'[v].status = "PUBLISHED"
                              /\ rows'[v] # rows[v]
    BY DEF PublicData, Having, VersionsOf, NoRow
  <2>2. PICK e \in Entries : OwnWritesOnly(e) /\ Announces(e)
    BY <2>1, StepKeeps
  <2>3. f = e
    BY <2>1, <2>2, NullAssumption DEF OwnWritesOnly
  <2>4. ~ NothingNewPublished
    BY <2>1 DEF NothingNewPublished
  <2>5. event'.data \in PublicData(f)'
    BY <2>2, <2>3, <2>4 DEF Announces, PublicData, Having, VersionsOf
  <2> QED BY <2>2, <2>3, <2>4, <2>5 DEF Announces
<1> QED BY <1>1, Invariance, PTL DEF Spec, NewContentIsPublishedByEvent

\* Both together: the outbox misses nothing, whichever requests race.
THEOREM OutboxIsFaithful == Spec => OutboxKeepsUp
BY OutboxComplete, NothingPublishedSilently DEF OutboxKeepsUp

(***************************************************************************)
(* Requests that take turns.                                               *)
(***************************************************************************)
\* Row v of a table is a version of e in one of these states.
Is(table, v, e, S) == v \in Versions /\ table[v].entry = e /\ table[v].status \in S

Drafts == {"DRAFT", "CHANGED"}

NonePublic(table, e) == \A v \in Versions : ~Is(table, v, e, {"PUBLISHED"})

\* What a table shows the public of an entry.
PublicOf(table, e) ==
    {[data |-> table[v].data, at |-> table[v].publishedAt] :
        v \in {w \in Versions : Is(table, w, e, {"PUBLISHED"})}}

\* The slots of one entry.
InSlots(table, live, e) ==
    /\ \A v, w \in Versions :
         Is(table, v, e, {"PUBLISHED"}) /\ Is(table, w, e, {"PUBLISHED"}) => v = w
    /\ live => \E v \in Versions : table[v].entry = e
    /\ \A v \in Versions : Is(table, v, e, Drafts) => table[v].publishedAt = Never

\* What a request decided on is still so: the rows it found are there, in the state
\* it found them in, and where it found none there is none.
UpToDate(q, table, live) ==
    /\ live
    /\ q.op \in {"publish", "save"} =>
         /\ IF q.pub = NoVersion THEN NonePublic(table, q.entry)
            ELSE Is(table, q.pub, q.entry, {"PUBLISHED"})
         /\ q.draft # NoVersion => Is(table, q.draft, q.entry, Drafts)
    /\ q.op = "publish" =>
         q.at = IF q.pub = NoVersion THEN Never ELSE table[q.pub].publishedAt
    /\ q.op \in {"unpublish", "archive"} =>
         Is(table, q.pub, q.entry, {"PUBLISHED"}) /\ q.doc = table[q.pub].data
    /\ q.op = "unpublish" /\ q.draft # NoVersion => Is(table, q.draft, q.entry, Drafts)
    /\ q.op = "unarchive" => Is(table, q.draft, q.entry, {"ARCHIVED"})
    /\ q.op = "discard" => /\ Is(table, q.draft, q.entry, Drafts)
                           /\ ~NonePublic(table, q.entry)
    /\ q.op \in {"republish", "delete"} =>
         \/ \E v \in Versions : Is(table, v, q.entry, {"PUBLISHED"}) /\ q.doc = table[v].data
         \/ q.op = "delete" /\ q.doc = NoData /\ NonePublic(table, q.entry)

SlotsAreFilled == \A e \in Entries \ contested : InSlots(rows, Live(e), e)

\* Requests take turns on an entry that is not contested.
TurnsAreTaken == \A e \in Entries \ contested : \A r, s \in AtWork(e) : r = s

\* As long as they do, nobody changes what one of them has read.
ReadsAreUpToDate ==
    \A r \in Requests : req[r] # Idle /\ req[r].entry \notin contested =>
        UpToDate(req[r], rows, Live(req[r].entry))

StoreInv == IInv /\ SlotsAreFilled /\ TurnsAreTaken /\ ReadsAreUpToDate

(***************************************************************************)
(* What a table shows of an entry.                                         *)
(***************************************************************************)
LEMMA OnePublicRow ==
    ASSUME NEW table, NEW e, NEW v \in Versions, Is(table, v, e, {"PUBLISHED"}),
           \A w \in Versions : Is(table, w, e, {"PUBLISHED"}) => w = v
    PROVE  PublicOf(table, e) = {[data |-> table[v].data, at |-> table[v].publishedAt]}
BY DEF PublicOf

LEMMA NoPublicRow ==
    ASSUME NEW table, NEW e, NonePublic(table, e)
    PROVE  PublicOf(table, e) = {}
BY DEF PublicOf, NonePublic

LEMMA SamePublicRows ==
    ASSUME NEW table, NEW after, NEW e,
           \A v \in Versions :
              Is(table, v, e, {"PUBLISHED"}) \/ Is(after, v, e, {"PUBLISHED"})
                  => after[v] = table[v]
    PROVE  PublicOf(after, e) = PublicOf(table, e)
BY DEF PublicOf, Is

\* An entry's rows are all that its slots and its requests depend on.
SameRows(table, after, e) ==
    \A v \in Versions : table[v].entry = e \/ after[v].entry = e => after[v] = table[v]

LEMMA SlotsDependOnRows ==
    ASSUME NEW table, NEW after, NEW e, NEW live, SameRows(table, after, e),
           InSlots(table, live, e)
    PROVE  InSlots(after, live, e)
BY DEF SameRows, InSlots, Is

LEMMA ReadsDependOnRows ==
    ASSUME NEW table, NEW after, NEW q, NEW live, SameRows(table, after, q.entry),
           UpToDate(q, table, live)
    PROVE  UpToDate(q, after, live)
<1> DEFINE e == q.entry
<1>1. \A v, S : Is(table, v, e, S) => Is(after, v, e, S) /\ after[v] = table[v]
  BY DEF SameRows, Is
<1>2. \A v, S : Is(after, v, e, S) => Is(table, v, e, S) /\ after[v] = table[v]
  BY DEF SameRows, Is
<1>3. NonePublic(after, e) <=> NonePublic(table, e)
  BY <1>1, <1>2 DEF NonePublic
<1> QED BY <1>1, <1>2, <1>3 DEF UpToDate

LEMMA PublicRowsAreOfTable ==
    ASSUME NEW e \in Entries
    PROVE  PublicRows(e) = PublicOf(rows, e) /\ PublicRows(e)' = PublicOf(rows', e)
<1>1. Having(VersionsOf(e), "PUBLISHED") = {w \in Versions : Is(rows, w, e, {"PUBLISHED"})}
  BY DEF Having, VersionsOf, Is, NoRow
<1>2. Having(VersionsOf(e), "PUBLISHED")'
        = {w \in Versions : Is(rows', w, e, {"PUBLISHED"})}
  BY DEF Having, VersionsOf, Is, NoRow
<1> QED BY <1>1, <1>2 DEF PublicRows, PublicOf

(***************************************************************************)
(* Reading: a plan is up to date when it is made.                          *)
(***************************************************************************)
LEMMA Found ==
    ASSUME NEW e \in Entries, NEW s \in Status, NEW v
    PROVE  v \in Having(VersionsOf(e), s) <=> Is(rows, v, e, {s})
BY DEF Having, VersionsOf, Is, NoRow, Status

LEMMA FoundPublished ==
    ASSUME NEW e \in Entries, NEW p \in PublishedVersion(VersionsOf(e))
    PROVE  IF p = NoVersion THEN NonePublic(rows, e) ELSE Is(rows, p, e, {"PUBLISHED"})
<1>1. "PUBLISHED" \in Status
  BY DEF Status
<1>2. \A v : v \in Having(VersionsOf(e), "PUBLISHED") <=> Is(rows, v, e, {"PUBLISHED"})
  BY <1>1, Found
<1>3. CASE Having(VersionsOf(e), "PUBLISHED") = {}
  BY <1>2, <1>3 DEF PublishedVersion, FindOr, NonePublic
<1>4. CASE Having(VersionsOf(e), "PUBLISHED") # {}
  BY <1>2, <1>4, NullAssumption DEF PublishedVersion, FindOr, Is
<1> QED BY <1>3, <1>4

LEMMA FoundDraft ==
    ASSUME NEW e \in Entries, NEW d \in DraftVersion(VersionsOf(e)), d # NoVersion
    PROVE  Is(rows, d, e, Drafts)
<1>1. "CHANGED" \in Status /\ "DRAFT" \in Status
  BY DEF Status
<1>2. d \in Having(VersionsOf(e), "CHANGED") \/ d \in Having(VersionsOf(e), "DRAFT")
  BY DEF DraftVersion, FindOr
<1>3. Is(rows, d, e, {"CHANGED"}) \/ Is(rows, d, e, {"DRAFT"})
  BY <1>1, <1>2, Found
<1> QED BY <1>3 DEF Is, Drafts

\* What Read keeps.
Reads(r) == \E plan \in Request : Load(r, plan) /\ UpToDate(plan, rows, Live(plan.entry))

LEMMA PublishReads ==
    ASSUME IInv, NEW r \in Requests, NEW e \in Entries, NEW input \in Data \cup {NoData},
           NEW p \in PublishedVersion(VersionsOf(e)), NEW d \in DraftVersion(VersionsOf(e)),
           PlanPublish(r, e, p, d, input)
    PROVE  Reads(r)
<1> DEFINE doc == FirstPresent(input, FirstPresent(DataOf(d), DataOf(p)))
           plan == [op |-> "publish", entry |-> e, doc |-> doc,
                    pub |-> p, draft |-> d, at |-> TimeOf(p)]
<1>1. TypeOK
  BY DEF IInv
<1>2. IF p = NoVersion THEN NonePublic(rows, e) ELSE Is(rows, p, e, {"PUBLISHED"})
  BY FoundPublished
<1>3. d # NoVersion => Is(rows, d, e, Drafts)
  BY FoundDraft
<1>4. /\ p = NoVersion \/ (p \in Versions /\ rows[p] \in Row)
      /\ d = NoVersion \/ (d \in Versions /\ rows[d] \in Row)
  BY <1>1, PublishedVersionOwn, DraftVersionOwn
<1>5. plan \in Request
  BY <1>4 DEF PlanPublish, FirstPresent, DataOf, TimeOf, Row, Request, Ops
<1>6. Load(r, plan)
  BY DEF PlanPublish
<1>7. UpToDate(plan, rows, Live(plan.entry))
  BY <1>2, <1>3, <1>6 DEF UpToDate, TimeOf, Load
<1> HIDE DEF plan
<1> QED BY <1>5, <1>6, <1>7 DEF Reads

LEMMA SaveReads ==
    ASSUME IInv, NEW r \in Requests, NEW e \in Entries, NEW input \in Data \cup {NoData},
           NEW p \in PublishedVersion(VersionsOf(e)), NEW d \in DraftVersion(VersionsOf(e)),
           PlanSave(r, e, p, d, input)
    PROVE  Reads(r)
<1> DEFINE doc == FirstPresent(input, DataOf(d))
           plan == [op |-> "save", entry |-> e, doc |-> doc,
                    pub |-> p, draft |-> d, at |-> Never]
<1>1. TypeOK
  BY DEF IInv
<1>2. IF p = NoVersion THEN NonePublic(rows, e) ELSE Is(rows, p, e, {"PUBLISHED"})
  BY FoundPublished
<1>3. d # NoVersion => Is(rows, d, e, Drafts)
  BY FoundDraft
<1>4. /\ p = NoVersion \/ (p \in Versions /\ rows[p] \in Row)
      /\ d = NoVersion \/ (d \in Versions /\ rows[d] \in Row)
  BY <1>1, PublishedVersionOwn, DraftVersionOwn
<1>5. plan \in Request
  BY <1>4 DEF PlanSave, FirstPresent, DataOf, Row, Request, Ops
<1>6. Load(r, plan)
  BY DEF PlanSave
<1>7. UpToDate(plan, rows, Live(plan.entry))
  BY <1>2, <1>3, <1>6 DEF UpToDate, Load
<1> HIDE DEF plan
<1> QED BY <1>5, <1>6, <1>7 DEF Reads

LEMMA ReadsAreMadeUpToDate ==
    ASSUME IInv, NEW r \in Requests, Read(r)
    PROVE  Reads(r)
<1> PICK e \in Entries :
        \/ \E d \in Data \cup {NoData} : ReadPut(r, e, d)
        \/ \E p \in Patches : ReadPatch(r, e, p)
        \/ ReadBulkPublish(r, e)
        \/ ReadUnpublish(r, e)
        \/ ReadArchive(r, e)
        \/ ReadUnarchive(r, e)
        \/ ReadRepublish(r, e)
        \/ ReadDiscard(r, e)
        \/ ReadDelete(r, e)
  BY DEF Read
<1>t. TypeOK
  BY DEF IInv
<1>f. \A s \in Status : \A v \in Having(VersionsOf(e), s) :
          Is(rows, v, e, {s}) /\ v \in Versions /\ rows[v] \in Row
  BY <1>t, HavingOwn, Found
<1>s. "PUBLISHED" \in Status /\ "CHANGED" \in Status /\ "ARCHIVED" \in Status
  BY DEF Status
<1>1. CASE \E d \in Data \cup {NoData} : ReadPut(r, e, d)
  BY <1>1, PublishReads, SaveReads DEF ReadPut
<1>2. CASE \E p \in Patches : ReadPatch(r, e, p)
  <2> PICK patch \in Patches : ReadPatch(r, e, patch)
    BY <1>2
  <2> PICK p \in PublishedVersion(VersionsOf(e)), d \in DraftVersion(VersionsOf(e)) :
        \/ PlanPublish(r, e, p, d, Merge(FirstPresent(DataOf(d), DataOf(p)), patch))
        \/ PlanSave(r, e, p, d, Merge(FirstPresent(DataOf(d), DataOf(p)), patch))
    BY DEF ReadPatch
  <2>1. FirstPresent(DataOf(d), DataOf(p)) \in Data \cup {NoData}
    BY <1>t, PublishedVersionOwn, DraftVersionOwn DEF FirstPresent, DataOf, Row
  <2>2. Merge(FirstPresent(DataOf(d), DataOf(p)), patch) \in Data
    BY <2>1, MergeIsData
  <2> QED BY <2>2, PublishReads, SaveReads
<1>3. CASE ReadBulkPublish(r, e)
  BY <1>3, PublishReads DEF ReadBulkPublish
<1>4. CASE ReadUnpublish(r, e)
  <2> PICK p \in Having(VersionsOf(e), "PUBLISHED"),
           d \in FindOr(Having(VersionsOf(e), "CHANGED"), {NoVersion}) :
        Load(r, [op |-> "unpublish", entry |-> e, doc |-> DataOf(p),
                 pub |-> p, draft |-> d, at |-> Never])
    BY <1>4 DEF ReadUnpublish
  <2> DEFINE plan == [op |-> "unpublish", entry |-> e, doc |-> DataOf(p),
                      pub |-> p, draft |-> d, at |-> Never]
  <2>1. Is(rows, p, e, {"PUBLISHED"}) /\ p \in Versions /\ rows[p] \in Row
    BY <1>f, <1>s
  <2>2. d # NoVersion => Is(rows, d, e, {"CHANGED"})
    BY <1>f, <1>s DEF FindOr
  <2>3. Load(r, plan) /\ Live(e)
    BY DEF Load
  <2>4. plan \in Request
    BY <2>1, <2>2 DEF Request, Ops, DataOf, Row, Is
  <2>5. UpToDate(plan, rows, Live(plan.entry))
    BY <2>1, <2>2, <2>3, NullAssumption DEF UpToDate, DataOf, Is, Drafts
  <2> HIDE DEF plan
  <2> QED BY <2>3, <2>4, <2>5 DEF Reads
<1>5. CASE ReadArchive(r, e)
  <2> PICK p \in Having(VersionsOf(e), "PUBLISHED") :
        Load(r, [op |-> "archive", entry |-> e, doc |-> DataOf(p),
                 pub |-> p, draft |-> NoVersion, at |-> Never])
    BY <1>5 DEF ReadArchive
  <2> DEFINE plan == [op |-> "archive", entry |-> e, doc |-> DataOf(p),
                      pub |-> p, draft |-> NoVersion, at |-> Never]
  <2>1. Is(rows, p, e, {"PUBLISHED"}) /\ p \in Versions /\ rows[p] \in Row
    BY <1>f, <1>s
  <2>2. Load(r, plan) /\ Live(e)
    BY DEF Load
  <2>3. plan \in Request
    BY <2>1 DEF Request, Ops, DataOf, Row
  <2>4. UpToDate(plan, rows, Live(plan.entry))
    BY <2>1, <2>2, NullAssumption DEF UpToDate, DataOf
  <2> HIDE DEF plan
  <2> QED BY <2>2, <2>3, <2>4 DEF Reads
<1>6. CASE ReadUnarchive(r, e)
  <2> PICK a \in Having(VersionsOf(e), "ARCHIVED") :
        Load(r, [op |-> "unarchive", entry |-> e, doc |-> NoData,
                 pub |-> NoVersion, draft |-> a, at |-> Never])
    BY <1>6 DEF ReadUnarchive
  <2> DEFINE plan == [op |-> "unarchive", entry |-> e, doc |-> NoData,
                      pub |-> NoVersion, draft |-> a, at |-> Never]
  <2>1. Is(rows, a, e, {"ARCHIVED"}) /\ a \in Versions
    BY <1>f, <1>s
  <2>2. Load(r, plan) /\ Live(e)
    BY DEF Load
  <2>3. plan \in Request
    BY <2>1 DEF Request, Ops
  <2>4. UpToDate(plan, rows, Live(plan.entry))
    BY <2>1, <2>2 DEF UpToDate
  <2> HIDE DEF plan
  <2> QED BY <2>2, <2>3, <2>4 DEF Reads
<1>7. CASE ReadRepublish(r, e)
  <2> PICK p \in Having(VersionsOf(e), "PUBLISHED") :
        Load(r, [op |-> "republish", entry |-> e, doc |-> DataOf(p),
                 pub |-> NoVersion, draft |-> NoVersion, at |-> Never])
    BY <1>7 DEF ReadRepublish
  <2> DEFINE plan == [op |-> "republish", entry |-> e, doc |-> DataOf(p),
                      pub |-> NoVersion, draft |-> NoVersion, at |-> Never]
  <2>1. Is(rows, p, e, {"PUBLISHED"}) /\ p \in Versions /\ rows[p] \in Row
    BY <1>f, <1>s
  <2>2. Load(r, plan) /\ Live(e)
    BY DEF Load
  <2>3. plan \in Request
    BY <2>1 DEF Request, Ops, DataOf, Row
  <2>4. UpToDate(plan, rows, Live(plan.entry))
    BY <2>1, <2>2, NullAssumption DEF UpToDate, DataOf
  <2> HIDE DEF plan
  <2> QED BY <2>2, <2>3, <2>4 DEF Reads
<1>8. CASE ReadDiscard(r, e)
  <2> PICK d \in DraftVersion(VersionsOf(e)) \ {NoVersion} :
        Load(r, [op |-> "discard", entry |-> e, doc |-> NoData,
                 pub |-> NoVersion, draft |-> d, at |-> Never])
    BY <1>8 DEF ReadDiscard
  <2> DEFINE plan == [op |-> "discard", entry |-> e, doc |-> NoData,
                      pub |-> NoVersion, draft |-> d, at |-> Never]
  <2>1. Is(rows, d, e, Drafts) /\ d \in Versions
    BY FoundDraft DEF Is
  <2>2. ~NonePublic(rows, e)
    BY <1>8, <1>f, <1>s DEF ReadDiscard, NonePublic
  <2>3. Load(r, plan) /\ Live(e)
    BY DEF Load
  <2>4. plan \in Request
    BY <2>1 DEF Request, Ops
  <2>5. UpToDate(plan, rows, Live(plan.entry))
    BY <2>1, <2>2, <2>3 DEF UpToDate
  <2> HIDE DEF plan
  <2> QED BY <2>3, <2>4, <2>5 DEF Reads
<1>9. CASE ReadDelete(r, e)
  <2> PICK p \in PublishedVersion(VersionsOf(e)) :
        Load(r, [op |-> "delete", entry |-> e, doc |-> DataOf(p),
                 pub |-> NoVersion, draft |-> NoVersion, at |-> Never])
    BY <1>9 DEF ReadDelete
  <2> DEFINE plan == [op |-> "delete", entry |-> e, doc |-> DataOf(p),
                      pub |-> NoVersion, draft |-> NoVersion, at |-> Never]
  <2>1. IF p = NoVersion THEN NonePublic(rows, e) ELSE Is(rows, p, e, {"PUBLISHED"})
    BY FoundPublished
  <2>2. p = NoVersion \/ (p \in Versions /\ rows[p] \in Row)
    BY <1>t, PublishedVersionOwn
  <2>3. Load(r, plan) /\ Live(e)
    BY DEF Load
  <2>4. plan \in Request
    BY <2>2 DEF Request, Ops, DataOf, Row
  <2>5. UpToDate(plan, rows, Live(plan.entry))
    BY <2>1, <2>2, <2>3 DEF UpToDate, DataOf
  <2> HIDE DEF plan
  <2> QED BY <2>3, <2>4, <2>5 DEF Reads
<1> QED BY <1>1, <1>2, <1>3, <1>4, <1>5, <1>6, <1>7, <1>8, <1>9

(***************************************************************************)
(* Committing: what a transaction that takes its turn does to its entry.   *)
(* The four things PublishedContent knows of, of the tables.               *)
(***************************************************************************)
Tells(k, e, d) == event' = [kind |-> k, entry |-> e, data |-> d]

Published(e) ==
    \E d \in Data, t \in Times :
        /\ Tells("ENTRY_PUBLISHED", e, d)
        /\ PublicOf(rows', e) = {[data |-> d, at |-> t]}
        /\ PublicOf(rows, e) = {} \/ \E p \in PublicOf(rows, e) : p.at = t

Republished(e) ==
    \E d \in Data :
        /\ Tells("ENTRY_PUBLISHED", e, d)
        /\ \E p \in PublicOf(rows, e) : p.data = d
        /\ PublicOf(rows', e) = PublicOf(rows, e)

Withdrawn(e) ==
    \E d \in Data, k \in {"ENTRY_UNPUBLISHED", "ENTRY_DELETED"} :
        /\ Tells(k, e, d)
        /\ \E p \in PublicOf(rows, e) : p.data = d
        /\ PublicOf(rows', e) = {}

Edited(e) ==
    /\ Tells("ENTRY_DRAFT_SYNC", e, NoData)
    /\ PublicOf(rows', e) = PublicOf(rows, e)

Promised(e) == Published(e) \/ Republished(e) \/ Withdrawn(e) \/ Edited(e)

LiveAfter(e) == envelope'[e] # NoData

\* An archived version stays, unless it is the one row that is unarchived or the
\* entry goes.
HistoryKept(e) ==
    \A v \in Versions :
        Is(rows, v, e, {"ARCHIVED"}) /\ rows'[v] # rows[v] =>
            \/ ~LiveAfter(e)
            \/ /\ rows'[v] = [rows[v] EXCEPT !.status = "DRAFT", !.publishedAt = Never]
               /\ \A w \in Versions \ {v} : rows'[w] = rows[w]

OnTime(r) ==
    LET e == req[r].entry IN
    /\ UpToDate(req[r], rows, Live(e))
    /\ InSlots(rows, Live(e), e)

TurnKept(e) == InSlots(rows', LiveAfter(e), e) /\ Promised(e) /\ HistoryKept(e)

LEMMA PublishTakesTurn ==
    ASSUME IInv, NEW r \in Requests, OnTime(r), Publish(r)
    PROVE  TurnKept(req[r].entry)
<1> DEFINE q == req[r]
           e == q.entry
<1>1. q \in Request /\ q.doc \in Data /\ q.op = "publish"
  BY InFlight DEF Publish, Ops, IInv, PlansAreComplete
<1>2. /\ IF q.pub = NoVersion THEN NonePublic(rows, e) ELSE Is(rows, q.pub, e, {"PUBLISHED"})
      /\ q.draft # NoVersion => Is(rows, q.draft, e, Drafts)
      /\ q.at = IF q.pub = NoVersion THEN Never ELSE rows[q.pub].publishedAt
  BY <1>1 DEF OnTime, UpToDate
<1>3. InSlots(rows, Live(e), e)
  BY DEF OnTime
<1>4. PICK t \in Target(q.draft), now \in Times : rows' = Promoted(q, t, now)
  BY DEF Publish
<1> DEFINE at == PublishedAt(q.at, now)
<1>5. at \in Times
  BY <1>1, NullAssumption DEF PublishedAt, Request
<1>6. t \in Versions /\ (rows[t] = NoRow \/ (t = q.draft /\ Is(rows, t, e, Drafts)))
  BY <1>1, <1>2 DEF Target, FreshVersions, Request
<1>7. rows[t].status # "PUBLISHED" /\ rows[t].status # "ARCHIVED"
  BY <1>6 DEF NoRow, Is, Drafts
<1>8. /\ rows'[t].entry = e /\ rows'[t].status = "PUBLISHED"
      /\ rows'[t].data = q.doc /\ rows'[t].publishedAt = at
      /\ \A v \in Versions \ {t} : rows'[v] = IF v = q.pub THEN NoRow ELSE rows[v]
  BY <1>4, <1>6 DEF Promoted
<1> HIDE DEF at
<1>9. \A w \in Versions : Is(rows', w, e, {"PUBLISHED"}) => w = t
  BY <1>2, <1>3, <1>8 DEF InSlots, Is, NonePublic, NoRow
<1>10. Is(rows', t, e, {"PUBLISHED"})
  BY <1>6, <1>8 DEF Is
<1>11. PublicOf(rows', e) = {[data |-> q.doc, at |-> at]}
  BY <1>6, <1>8, <1>9, <1>10, OnePublicRow
<1>12. Tells("ENTRY_PUBLISHED", e, q.doc)
  BY <1>8, <1>9 DEF Publish, Enqueued, Tells, Is
<1>13. PublicOf(rows, e) = {} \/ \E p \in PublicOf(rows, e) : p.at = at
  <2>1. CASE q.pub = NoVersion
    BY <1>2, <2>1, NoPublicRow
  <2>2. CASE q.pub # NoVersion
    <3>1. q.pub \in Versions /\ Is(rows, q.pub, e, {"PUBLISHED"})
      BY <1>2, <2>2 DEF Is
    <3>2. rows[q.pub].publishedAt # Never
      BY <3>1 DEF IInv, PublishedHasTime, Is
    <3>3. at = rows[q.pub].publishedAt
      BY <1>2, <2>2, <3>2 DEF PublishedAt, at
    <3>4. [data |-> rows[q.pub].data, at |-> rows[q.pub].publishedAt] \in PublicOf(rows, e)
      BY <3>1 DEF PublicOf
    <3> QED BY <3>3, <3>4
  <2> QED BY <2>1, <2>2
<1>14. Published(e)
  BY <1>1, <1>5, <1>11, <1>12, <1>13 DEF Published
<1>15. InSlots(rows', LiveAfter(e), e)
  BY <1>3, <1>6, <1>8, <1>9 DEF InSlots, Is, Drafts, NoRow
<1>16. HistoryKept(e)
  BY <1>2, <1>7, <1>8, NullAssumption DEF HistoryKept, Is
<1> QED BY <1>14, <1>15, <1>16 DEF TurnKept, Promised

LEMMA SaveTakesTurn ==
    ASSUME IInv, NEW r \in Requests, OnTime(r), Save(r)
    PROVE  TurnKept(req[r].entry)
<1> DEFINE q == req[r]
           e == q.entry
<1>1. q \in Request /\ q.op = "save"
  BY InFlight DEF Save, Ops
<1>2. q.draft # NoVersion => Is(rows, q.draft, e, Drafts)
  BY <1>1 DEF OnTime, UpToDate
<1>3. InSlots(rows, Live(e), e)
  BY DEF OnTime
<1>4. PICK t \in Target(q.draft) : rows' = [rows EXCEPT ![t] =
        [entry |-> q.entry, status |-> SavedStatus(q.pub), data |-> q.doc,
         publishedAt |-> rows[t].publishedAt]]
  BY DEF Save
<1>5. t \in Versions /\ (rows[t] = NoRow \/ Is(rows, t, e, Drafts))
  BY <1>1, <1>2 DEF Target, FreshVersions, Request
<1>6. /\ rows[t].status # "PUBLISHED" /\ rows[t].status # "ARCHIVED"
      /\ rows[t].publishedAt = Never
  BY <1>3, <1>5 DEF NoRow, Is, Drafts, InSlots
<1>7. /\ rows'[t].entry = e /\ rows'[t].status \in Drafts /\ rows'[t].publishedAt = Never
      /\ \A v \in Versions \ {t} : rows'[v] = rows[v]
  BY <1>4, <1>5, <1>6 DEF SavedStatus, Drafts, IInv, TypeOK, Table
<1>8. PublicOf(rows', e) = PublicOf(rows, e)
  BY <1>6, <1>7, SamePublicRows DEF Is, Drafts
<1>9. Edited(e)
  BY <1>8 DEF Edited, Save, Enqueued, Tells
<1>10. InSlots(rows', LiveAfter(e), e)
  BY <1>3, <1>5, <1>6, <1>7 DEF InSlots, Is, Drafts
<1>11. HistoryKept(e)
  BY <1>6, <1>7 DEF HistoryKept, Is
<1> QED BY <1>9, <1>10, <1>11 DEF TurnKept, Promised

LEMMA UnpublishTakesTurn ==
    ASSUME IInv, NEW r \in Requests, OnTime(r), Unpublish(r)
    PROVE  TurnKept(req[r].entry)
<1> DEFINE q == req[r]
           e == q.entry
           kept == IF q.draft # NoVersion THEN q.draft ELSE q.pub
<1>1. q \in Request /\ q.op = "unpublish"
  BY InFlight DEF Unpublish, Ops
<1>2. /\ Is(rows, q.pub, e, {"PUBLISHED"}) /\ q.pub \in Versions
      /\ q.doc = rows[q.pub].data
      /\ q.draft # NoVersion => Is(rows, q.draft, e, Drafts)
  BY <1>1 DEF OnTime, UpToDate, Is
<1>3. InSlots(rows, Live(e), e)
  BY DEF OnTime
<1>4. rows[q.pub] \in Row
  BY <1>2 DEF Unpublish, Present, IInv, TypeOK, Table
<1>5. kept \in Versions /\ rows[kept].entry = e /\ rows[kept].status # "ARCHIVED"
  BY <1>2 DEF Is, Drafts
<1>6. rows[kept] \in Row
  BY <1>4, <1>5 DEF Unpublish, Present, PresentOrNone, IInv, TypeOK, Table
<1>7. /\ rows'[kept] = BackToDraft(rows[kept])
      /\ \A v \in Versions \ {kept} : rows'[v] = IF v = q.pub THEN NoRow ELSE rows[v]
  BY <1>5 DEF Unpublish
<1> HIDE DEF kept
<1>8. rows'[kept].entry = e /\ rows'[kept].status = "DRAFT" /\ rows'[kept].publishedAt = Never
  BY <1>5, <1>6, <1>7 DEF BackToDraft, Row
<1>9. NonePublic(rows', e)
  BY <1>2, <1>3, <1>7, <1>8 DEF InSlots, NonePublic, Is, NoRow
<1>10. PublicOf(rows', e) = {}
  BY <1>9, NoPublicRow
<1>11. [data |-> q.doc, at |-> rows[q.pub].publishedAt] \in PublicOf(rows, e)
  BY <1>2 DEF PublicOf
<1>12. Withdrawn(e)
  BY <1>2, <1>4, <1>10, <1>11 DEF Withdrawn, Unpublish, Enqueued, Tells, Row
<1>13. InSlots(rows', LiveAfter(e), e)
  BY <1>3, <1>5, <1>7, <1>8, <1>9 DEF InSlots, Is, Drafts, NoRow, NonePublic
<1>14. HistoryKept(e)
  BY <1>2, <1>5, <1>7 DEF HistoryKept, Is
<1> QED BY <1>12, <1>13, <1>14 DEF TurnKept, Promised

LEMMA ArchiveTakesTurn ==
    ASSUME IInv, NEW r \in Requests, OnTime(r), Archive(r)
    PROVE  TurnKept(req[r].entry)
<1> DEFINE q == req[r]
           e == q.entry
<1>1. q.op = "archive"
  BY DEF Archive
<1>2. /\ Is(rows, q.pub, e, {"PUBLISHED"}) /\ q.pub \in Versions
      /\ q.doc = rows[q.pub].data
  BY <1>1 DEF OnTime, UpToDate, Is
<1>3. InSlots(rows, Live(e), e)
  BY DEF OnTime
<1>4. rows[q.pub] \in Row
  BY <1>2 DEF Archive, Present, IInv, TypeOK, Table
<1>5. /\ rows'[q.pub] = [rows[q.pub] EXCEPT !.status = "ARCHIVED"]
      /\ \A v \in Versions \ {q.pub} : rows'[v] = rows[v]
  BY <1>2 DEF Archive, IInv, TypeOK, Table
<1>6. rows'[q.pub].entry = e /\ rows'[q.pub].status = "ARCHIVED"
  BY <1>2, <1>4, <1>5 DEF Row, Is
<1>7. NonePublic(rows', e)
  BY <1>2, <1>3, <1>5, <1>6 DEF InSlots, NonePublic, Is
<1>8. PublicOf(rows', e) = {}
  BY <1>7, NoPublicRow
<1>9. [data |-> q.doc, at |-> rows[q.pub].publishedAt] \in PublicOf(rows, e)
  BY <1>2 DEF PublicOf
<1>10. Withdrawn(e)
  BY <1>2, <1>4, <1>8, <1>9 DEF Withdrawn, Archive, Enqueued, Tells, Row
<1>11. InSlots(rows', LiveAfter(e), e)
  BY <1>2, <1>3, <1>5, <1>6, <1>7, ZenonT(40) DEF InSlots, Is, Drafts, NonePublic
<1>12. HistoryKept(e)
  BY <1>2, <1>5 DEF HistoryKept, Is
<1> QED BY <1>10, <1>11, <1>12 DEF TurnKept, Promised

LEMMA UnarchiveTakesTurn ==
    ASSUME IInv, NEW r \in Requests, OnTime(r), Unarchive(r)
    PROVE  TurnKept(req[r].entry)
<1> DEFINE q == req[r]
           e == q.entry
<1>1. q.op = "unarchive"
  BY DEF Unarchive
<1>2. Is(rows, q.draft, e, {"ARCHIVED"}) /\ q.draft \in Versions
  BY <1>1 DEF OnTime, UpToDate, Is
<1>3. InSlots(rows, Live(e), e)
  BY DEF OnTime
<1>4. rows[q.draft] \in Row
  BY <1>2 DEF Unarchive, Present, IInv, TypeOK, Table
<1>5. /\ rows'[q.draft] = [rows[q.draft] EXCEPT !.status = "DRAFT", !.publishedAt = Never]
      /\ \A v \in Versions \ {q.draft} : rows'[v] = rows[v]
  BY <1>2 DEF Unarchive, BackToDraft, IInv, TypeOK, Table
<1>6. /\ rows'[q.draft].entry = e /\ rows'[q.draft].status = "DRAFT"
      /\ rows'[q.draft].publishedAt = Never
      /\ \A v \in Versions \ {q.draft} : rows'[v] = rows[v]
  BY <1>2, <1>4, <1>5 DEF Row, Is
<1>7. PublicOf(rows', e) = PublicOf(rows, e)
  BY <1>2, <1>6, SamePublicRows DEF Is
<1>8. Edited(e)
  BY <1>7 DEF Edited, Unarchive, Enqueued, Tells
<1>9. InSlots(rows', LiveAfter(e), e)
  BY <1>2, <1>3, <1>6 DEF InSlots, Is, Drafts, LiveAfter, Live, Unarchive
<1>10. HistoryKept(e)
  BY <1>5 DEF HistoryKept
<1> QED BY <1>8, <1>9, <1>10 DEF TurnKept, Promised

LEMMA DiscardTakesTurn ==
    ASSUME IInv, NEW r \in Requests, OnTime(r), Discard(r)
    PROVE  TurnKept(req[r].entry)
<1> DEFINE q == req[r]
           e == q.entry
<1>1. q.op = "discard"
  BY DEF Discard
<1>2. Is(rows, q.draft, e, Drafts) /\ q.draft \in Versions /\ ~NonePublic(rows, e)
  BY <1>1 DEF OnTime, UpToDate, Is
<1>3. InSlots(rows, Live(e), e)
  BY DEF OnTime
<1>4. rows'[q.draft] = NoRow /\ \A v \in Versions \ {q.draft} : rows'[v] = rows[v]
  BY <1>2 DEF Discard, IInv, TypeOK, Table
<1>5. PublicOf(rows', e) = PublicOf(rows, e)
  BY <1>2, <1>4, SamePublicRows DEF Is, Drafts, NoRow
<1>6. Edited(e)
  BY <1>5 DEF Edited, Discard, Enqueued, Tells
<1>7. \E v \in Versions : rows'[v].entry = e
  BY <1>2, <1>4 DEF NonePublic, Is, Drafts
<1>8. InSlots(rows', LiveAfter(e), e)
  BY <1>3, <1>4, <1>7 DEF InSlots, Is, Drafts, NoRow
<1>9. HistoryKept(e)
  BY <1>2, <1>4 DEF HistoryKept, Is, Drafts
<1> QED BY <1>6, <1>8, <1>9 DEF TurnKept, Promised

LEMMA RepublishTakesTurn ==
    ASSUME IInv, NEW r \in Requests, OnTime(r), Republish(r)
    PROVE  TurnKept(req[r].entry)
<1> DEFINE q == req[r]
           e == q.entry
<1>1. q.op = "republish"
  BY DEF Republish
<1>2. PICK v \in Versions : Is(rows, v, e, {"PUBLISHED"}) /\ q.doc = rows[v].data
  BY <1>1 DEF OnTime, UpToDate
<1>3. rows' = rows /\ LiveAfter(e) = Live(e) /\ Tells("ENTRY_PUBLISHED", e, q.doc)
  BY DEF Republish, Enqueued, Tells, Live, LiveAfter
<1>4. [data |-> q.doc, at |-> rows[v].publishedAt] \in PublicOf(rows, e)
  BY <1>2 DEF PublicOf
<1>5. q.doc \in Data
  BY <1>2, NullAssumption DEF Is, IInv, TypeOK, Table, Row, NoRow
<1>6. Republished(e)
  BY <1>3, <1>4, <1>5 DEF Republished
<1>7. InSlots(rows', LiveAfter(e), e) /\ HistoryKept(e)
  BY <1>3 DEF OnTime, HistoryKept
<1> QED BY <1>6, <1>7 DEF TurnKept, Promised

LEMMA DeleteTakesTurn ==
    ASSUME IInv, NEW r \in Requests, OnTime(r), Delete(r)
    PROVE  TurnKept(req[r].entry)
<1> DEFINE q == req[r]
           e == q.entry
<1>1. q \in Request /\ e \in Entries /\ q.op = "delete"
  BY InFlight DEF Delete, Ops, Request
<1>2. \A v \in Versions : rows'[v] = IF rows[v].entry = e THEN NoRow ELSE rows[v]
  BY DEF Delete, Cascade
<1>3. \A v \in Versions : rows'[v].entry # e
  BY <1>1, <1>2, NullAssumption DEF NoRow
<1>4. ~LiveAfter(e)
  BY <1>1 DEF Delete, LiveAfter, IInv, TypeOK
<1>5. InSlots(rows', LiveAfter(e), e)
  BY <1>3, <1>4 DEF InSlots, Is
<1>6. PublicOf(rows', e) = {}
  BY <1>3, NoPublicRow DEF NonePublic, Is
<1>7. HistoryKept(e)
  BY <1>4 DEF HistoryKept
<1>8. CASE \E v \in Versions : Is(rows, v, e, {"PUBLISHED"}) /\ q.doc = rows[v].data
  <2> PICK v \in Versions : Is(rows, v, e, {"PUBLISHED"}) /\ q.doc = rows[v].data
    BY <1>8
  <2>1. q.doc \in Data
    BY NullAssumption DEF Is, IInv, TypeOK, Table, Row, NoRow
  <2>2. [data |-> q.doc, at |-> rows[v].publishedAt] \in PublicOf(rows, e)
    BY DEF PublicOf
  <2>3. Withdrawn(e)
    BY <1>6, <2>1, <2>2, NullAssumption DEF Withdrawn, Delete, Enqueued, Tells
  <2> QED BY <1>5, <1>7, <2>3 DEF TurnKept, Promised
<1>9. CASE q.doc = NoData /\ NonePublic(rows, e)
  <2>1. PublicOf(rows, e) = {}
    BY <1>9, NoPublicRow
  <2>2. Edited(e)
    BY <1>6, <1>9, <2>1 DEF Edited, Delete, Enqueued, Tells
  <2> QED BY <1>5, <1>7, <2>2 DEF TurnKept, Promised
<1> QED BY <1>1, <1>8, <1>9 DEF OnTime, UpToDate

LEMMA CreateTakesTurn ==
    ASSUME IInv, NEW e \in Entries, NEW doc \in Data, NEW status \in Status,
           NEW now \in Times, Create(e, doc, status, now)
    PROVE  TurnKept(e)
<1> DEFINE row == [entry |-> e, status |-> status, data |-> doc,
                   publishedAt |-> IF status = "PUBLISHED" THEN now ELSE Never]
<1>1. PICK v \in FreshVersions : rows' = [rows EXCEPT ![v] = row]
  BY DEF Create
<1>2. v \in Versions /\ rows[v] = NoRow
  BY DEF FreshVersions
<1>3. rows'[v] = row /\ \A w \in Versions \ {v} : rows'[w] = rows[w]
  BY <1>1, <1>2 DEF IInv, TypeOK, Table
<1>4. \A w \in Versions : rows[w].entry # e
  BY NullAssumption DEF Create, FreshEntries, IInv, TypeOK, Table, ForeignKey, NoRow, Row
<1>5. InSlots(rows', LiveAfter(e), e)
  BY <1>2, <1>3, <1>4 DEF InSlots, Is, Drafts
<1>6. PublicOf(rows, e) = {}
  BY <1>4, NoPublicRow DEF NonePublic, Is
<1>7. HistoryKept(e)
  BY <1>4 DEF HistoryKept, Is
<1>8. CASE status = "PUBLISHED"
  <2>1. PublicOf(rows', e) = {[data |-> doc, at |-> now]}
    BY <1>2, <1>3, <1>4, <1>8, OnePublicRow DEF Is
  <2>2. Published(e)
    BY <1>6, <1>8, <2>1 DEF Published, Create, Enqueued, Tells
  <2> QED BY <1>5, <1>7, <2>2 DEF TurnKept, Promised
<1>9. CASE status # "PUBLISHED"
  <2>1. PublicOf(rows', e) = {}
    BY <1>3, <1>4, <1>9, NoPublicRow DEF NonePublic, Is
  <2>2. Edited(e)
    BY <1>6, <1>9, <2>1 DEF Edited, Create, Enqueued, Tells
  <2> QED BY <1>5, <1>7, <2>2 DEF TurnKept, Promised
<1> QED BY <1>8, <1>9

(***************************************************************************)
(* A step of the whole store.                                              *)
(***************************************************************************)
\* A step that writes no version: a request is read, refused, or fails.
Quiet ==
    /\ UNCHANGED rows
    /\ event' = NoEvent
    /\ contested' = contested \/ \E e \in Entries : contested' = contested \cup {e}

\* A step that commits a transaction of entry e.
Wrote(e) ==
    /\ OwnWritesOnly(e)
    /\ contested' = contested
    /\ event' \in Event /\ event'.entry = e
    /\ e \notin contested => Promised(e) /\ HistoryKept(e)

NowContested ==
    contested' = contested \cup {e \in Entries : \E r \in AtWork(e)', s \in AtWork(e)' : r # s}

LEMMA TurnsStayTaken ==
    ASSUME NowContested
    PROVE  TurnsAreTaken'
BY DEF NowContested, TurnsAreTaken

\* Requests that end make no entry contested.
LEMMA EndingContestsNothing ==
    ASSUME TypeOK, TurnsAreTaken, NowContested,
           \A s \in Requests : req'[s] \in {req[s], Idle}
    PROVE  contested' = contested
<1>1. \A e \in Entries : \A s \in AtWork(e)' : s \in AtWork(e)
  BY NullAssumption DEF AtWork, Idle
<1>2. \A e \in Entries : \A r \in AtWork(e)', s \in AtWork(e)' : r # s => e \in contested
  BY <1>1 DEF TurnsAreTaken
<1> QED BY <1>2 DEF NowContested

LEMMA ReadStep ==
    ASSUME StoreInv, IInv', NEW r \in Requests, Reads(r), NowContested
    PROVE  StoreInv' /\ Quiet
<1>1. PICK plan \in Request : Load(r, plan) /\ UpToDate(plan, rows, Live(plan.entry))
  BY DEF Reads
<1>2. /\ rows' = rows /\ envelope' = envelope /\ event' = NoEvent
      /\ req[r] = Idle /\ req' = [req EXCEPT ![r] = plan] /\ plan.entry \in Entries
  BY <1>1 DEF Load, Request
<1>3. req'[r] = plan /\ \A s \in Requests \ {r} : req'[s] = req[s]
  BY <1>2 DEF StoreInv, IInv, TypeOK
<1>4. contested \subseteq contested' /\ contested' \subseteq contested \cup {plan.entry}
  <2>1. \A f \in Entries \ {plan.entry} : \A s \in AtWork(f)' : s \in AtWork(f)
    BY <1>3 DEF AtWork
  <2>2. \A f \in Entries \ {plan.entry} : \A q \in AtWork(f)', s \in AtWork(f)' :
            q # s => f \in contested
    BY <2>1 DEF StoreInv, TurnsAreTaken
  <2> QED BY <2>2 DEF NowContested
<1>5. Quiet
  BY <1>2, <1>4 DEF Quiet
<1>6. SlotsAreFilled'
  BY <1>2, <1>4 DEF StoreInv, SlotsAreFilled, Live
<1>7. ReadsAreUpToDate'
  BY <1>1, <1>2, <1>3, <1>4 DEF StoreInv, ReadsAreUpToDate, Live
<1> QED BY <1>5, <1>6, <1>7, TurnsStayTaken DEF StoreInv

LEMMA AbortStep ==
    ASSUME StoreInv, IInv', NEW r \in Requests, Abort(r), NowContested
    PROVE  StoreInv' /\ Quiet
<1>1. /\ rows' = rows /\ envelope' = envelope /\ event' = NoEvent
      /\ \A s \in Requests : req'[s] \in {req[s], Idle}
  BY DEF Abort, Done, StoreInv, IInv, TypeOK
<1>2. contested' = contested
  BY <1>1, EndingContestsNothing DEF StoreInv, IInv
<1>3. SlotsAreFilled' /\ ReadsAreUpToDate'
  BY <1>1, <1>2 DEF StoreInv, SlotsAreFilled, ReadsAreUpToDate, Live
<1> QED BY <1>1, <1>2, <1>3, TurnsStayTaken DEF StoreInv, Quiet

\* A transaction of e leaves the rows of every other entry alone.
LEMMA OtherRowsStay ==
    ASSUME NEW e \in Entries, OwnWritesOnly(e), NEW f \in Entries, f # e
    PROVE  SameRows(rows, rows', f)
BY NullAssumption DEF OwnWritesOnly, SameRows

LEMMA WriteStep ==
    ASSUME StoreInv, IInv', NEW e \in Entries, OwnWritesOnly(e), event'.entry = e,
           \A s \in Requests : req'[s] \in {req[s], Idle},
           \A s \in Requests : req'[s] # Idle /\ req'[s].entry = e => e \in contested,
           \A f \in Entries \ {e} : envelope'[f] = envelope[f],
           e \notin contested => TurnKept(e),
           NowContested
    PROVE  StoreInv' /\ Wrote(e)
<1>1. contested' = contested
  BY EndingContestsNothing DEF StoreInv, IInv
<1>2. SlotsAreFilled'
  <2>1. SUFFICES ASSUME NEW f \in Entries \ contested
                 PROVE  InSlots(rows', LiveAfter(f), f)
    BY <1>1 DEF SlotsAreFilled, Live, LiveAfter
  <2>2. CASE f = e
    BY <2>2 DEF TurnKept
  <2>3. CASE f # e
    <3>1. InSlots(rows, Live(f), f) /\ LiveAfter(f) = Live(f)
      BY <2>3 DEF StoreInv, SlotsAreFilled, Live, LiveAfter
    <3>2. InSlots(rows', Live(f), f)
      BY <2>3, <3>1, OtherRowsStay, SlotsDependOnRows
    <3> QED BY <3>1, <3>2
  <2> QED BY <2>2, <2>3
<1>3. ReadsAreUpToDate'
  <2>1. SUFFICES ASSUME NEW s \in Requests, req'[s] # Idle, req'[s].entry \notin contested
                 PROVE  UpToDate(req'[s], rows', LiveAfter(req'[s].entry))
    BY <1>1 DEF ReadsAreUpToDate, Live, LiveAfter
  <2> DEFINE q == req[s]
  <2>2. req'[s] = q /\ q \in Request /\ q.entry \in Entries /\ q.entry # e
    BY <2>1 DEF StoreInv, IInv, TypeOK, Request
  <2>3. UpToDate(q, rows, Live(q.entry)) /\ LiveAfter(q.entry) = Live(q.entry)
    BY <2>1, <2>2 DEF StoreInv, ReadsAreUpToDate, Live, LiveAfter
  <2> HIDE DEF q
  <2>4. UpToDate(q, rows', Live(q.entry))
    BY <2>2, <2>3, OtherRowsStay, ReadsDependOnRows
  <2> QED BY <2>2, <2>3, <2>4
<1>4. event' \in Event
  BY NullAssumption DEF IInv, TypeOK, NoEvent
<1> QED BY <1>1, <1>2, <1>3, <1>4, TurnsStayTaken DEF StoreInv, Wrote, TurnKept

LEMMA CommitStep ==
    ASSUME StoreInv, IInv', NEW r \in Requests, Commit(r), NowContested
    PROVE  StoreInv' /\ \E e \in Entries : Wrote(e)
<1> DEFINE e == req[r].entry
<1>1. req[r].op \in Ops
  BY DEF Commit, Publish, Save, Unpublish, Archive, Unarchive, Republish, Discard, Delete, Ops
<1>2. req[r] \in Request /\ req[r] # Idle /\ e \in Entries
  BY <1>1, InFlight DEF StoreInv, Request
<1>3. OwnWritesOnly(e) /\ Announces(e)
  BY PublishKeeps, SaveKeeps, UnpublishKeeps, ArchiveKeeps, UnarchiveKeeps,
     RepublishKeeps, DiscardKeeps, DeleteKeeps DEF Commit, StoreInv
<1>4. req' = [req EXCEPT ![r] = Idle]
  BY DEF Commit, Publish, Save, Unpublish, Archive, Unarchive, Republish, Discard, Delete,
         Done
<1>5. req'[r] = Idle /\ \A s \in Requests \ {r} : req'[s] = req[s]
  BY <1>4 DEF StoreInv, IInv, TypeOK
<1>6. \A s \in Requests : req'[s] # Idle /\ req'[s].entry = e => e \in contested
  BY <1>2, <1>5 DEF StoreInv, TurnsAreTaken, AtWork
<1>7. \A f \in Entries \ {e} : envelope'[f] = envelope[f]
  BY DEF Commit, Publish, Save, Unpublish, Archive, Unarchive, Republish, Discard, Delete,
         StoreInv, IInv, TypeOK
<1>8. e \notin contested => TurnKept(e)
  <2> SUFFICES ASSUME e \notin contested PROVE TurnKept(e)
    OBVIOUS
  <2>1. OnTime(r)
    BY <1>2 DEF OnTime, StoreInv, SlotsAreFilled, ReadsAreUpToDate
  <2> QED BY <2>1, PublishTakesTurn, SaveTakesTurn, UnpublishTakesTurn, ArchiveTakesTurn,
             UnarchiveTakesTurn, RepublishTakesTurn, DiscardTakesTurn, DeleteTakesTurn
             DEF Commit, StoreInv
<1> HIDE DEF e
<1> QED BY <1>2, <1>3, <1>5, <1>6, <1>7, <1>8, WriteStep DEF Announces

LEMMA CreateStep ==
    ASSUME StoreInv, IInv', NEW e \in Entries, NEW doc \in Data, NEW status \in Status,
           NEW now \in Times, Create(e, doc, status, now), NowContested
    PROVE  StoreInv' /\ Wrote(e)
<1>1. OwnWritesOnly(e) /\ Announces(e)
  BY CreateKeeps DEF StoreInv
<1>2. \A s \in Requests : req'[s] = req[s] /\ req[s].entry # e
  BY DEF Create, FreshEntries
<1>3. \A f \in Entries \ {e} : envelope'[f] = envelope[f]
  BY DEF Create, StoreInv, IInv, TypeOK
<1>4. TurnKept(e)
  BY CreateTakesTurn DEF StoreInv
<1> QED BY <1>1, <1>2, <1>3, <1>4, WriteStep DEF Announces

LEMMA StoreStep ==
    ASSUME StoreInv, CNext
    PROVE  StoreInv' /\ (Quiet \/ \E e \in Entries : Wrote(e))
<1>1. NowContested /\ Next
  BY DEF CNext, NowContested
<1>2. IInv'
  BY <1>1, StepKeeps DEF StoreInv
<1>3. CASE \E r \in Requests : Read(r)
  BY <1>1, <1>2, <1>3, ReadsAreMadeUpToDate, ReadStep DEF StoreInv
<1>4. CASE \E r \in Requests : Commit(r)
  BY <1>1, <1>2, <1>4, CommitStep
<1>5. CASE \E r \in Requests : Abort(r)
  BY <1>1, <1>2, <1>5, AbortStep
<1>6. CASE \E e \in Entries, d \in Data, s \in Status, t \in Times : Create(e, d, s, t)
  BY <1>1, <1>2, <1>6, CreateStep
<1> QED BY <1>1, <1>3, <1>4, <1>5, <1>6 DEF Next

(***************************************************************************)
(* The theorems.                                                           *)
(***************************************************************************)
\* However requests interleave, what StoreInv says of an entry stays true until two
\* of them overlap on it: its slots are filled, and what the one request at work on
\* it has read is still so.
THEOREM StoreInvariance == CSpec => []StoreInv
<1>1. CInit => StoreInv
  <2> SUFFICES ASSUME CInit PROVE StoreInv
    OBVIOUS
  <2>1. IInv
    BY InitKeeps DEF CInit
  <2>2. \A e \in Entries : InSlots(rows, Live(e), e)
    BY NullAssumption DEF CInit, Init, EmptyTable, NoRow, InSlots, Is, Drafts, Live
  <2>3. \A r \in Requests : req[r] = Idle
    BY DEF CInit, Init
  <2>4. TurnsAreTaken /\ ReadsAreUpToDate
    BY <2>3, NullAssumption DEF TurnsAreTaken, ReadsAreUpToDate, AtWork, Idle
  <2> QED BY <2>1, <2>2, <2>4 DEF StoreInv, SlotsAreFilled
<1>2. StoreInv /\ [CNext]_<<vars, contested>> => StoreInv'
  <2> SUFFICES ASSUME StoreInv, [CNext]_<<vars, contested>> PROVE StoreInv'
    OBVIOUS
  <2>1. CASE CNext
    BY <2>1, StoreStep
  <2>2. CASE UNCHANGED <<vars, contested>>
    <3>1. IInv'
      BY <2>2, StutterKeeps DEF StoreInv, vars
    <3>2. /\ rows' = rows /\ envelope' = envelope /\ req' = req /\ event' = event
          /\ contested' = contested
      BY <2>2 DEF vars
    <3>3. SlotsAreFilled' /\ TurnsAreTaken' /\ ReadsAreUpToDate'
      BY <3>2 DEF StoreInv, SlotsAreFilled, TurnsAreTaken, ReadsAreUpToDate, AtWork, Live
    <3> QED BY <3>1, <3>3 DEF StoreInv
  <2> QED BY <2>1, <2>2
<1> QED BY <1>1, <1>2, PTL DEF CSpec

\* An entry on which requests take turns has one public version at most, keeps a
\* version as long as it lives, and its drafts were never published.
THEOREM SlotsFilled == CSpec => []VersionsFillTheirSlots
<1>1. StoreInv => VersionsFillTheirSlots
  <2> SUFFICES ASSUME StoreInv, NEW e \in Entries \ contested
               PROVE  /\ \A v, w \in Having(VersionsOf(e), "PUBLISHED") : v = w
                      /\ Live(e) => \E v \in Versions : rows[v].entry = e
                      /\ \A v \in Versions :
                           rows[v].entry = e /\ rows[v].status \in {"DRAFT", "CHANGED"} =>
                              rows[v].publishedAt = Never
    BY DEF VersionsFillTheirSlots
  <2>1. InSlots(rows, Live(e), e)
    BY DEF StoreInv, SlotsAreFilled
  <2>2. "PUBLISHED" \in Status
    BY DEF Status
  <2>3. \A v \in Having(VersionsOf(e), "PUBLISHED") :
           v \in Versions /\ Is(rows, v, e, {"PUBLISHED"})
    BY <2>2, Found DEF Is
  <2> QED BY <2>1, <2>3 DEF InSlots, Is, Drafts
<1> QED BY <1>1, StoreInvariance, PTL

\* Where requests take turns, an archived version is left alone until it is
\* unarchived, by itself, or its entry is deleted.
THEOREM ArchivedStay == CSpec => ArchivedIsHistory
<1> DEFINE Stays == \A e \in Entries \ contested, v \in Versions :
         /\ rows[v].status = "ARCHIVED"
         /\ rows[v].entry = e
         /\ rows'[v] # rows[v]
         => \/ ~Live(e)'
            \/ /\ rows'[v] = [rows[v] EXCEPT !.status = "DRAFT", !.publishedAt = Never]
               /\ \A w \in Versions \ {v} : rows'[w] = rows[w]
<1>1. StoreInv /\ [CNext]_<<vars, contested>> => [Stays]_<<vars, contested>>
  <2> SUFFICES ASSUME StoreInv, CNext, NEW e \in Entries \ contested, NEW v \in Versions,
                      rows[v].status = "ARCHIVED", rows[v].entry = e, rows'[v] # rows[v]
               PROVE  \/ ~Live(e)'
                      \/ /\ rows'[v] = [rows[v] EXCEPT !.status = "DRAFT",
                                                       !.publishedAt = Never]
                         /\ \A w \in Versions \ {v} : rows'[w] = rows[w]
    OBVIOUS
  <2>1. PICK f \in Entries : Wrote(f)
    BY StoreStep DEF Quiet
  <2>2. f = e
    BY <2>1, NullAssumption DEF Wrote, OwnWritesOnly
  <2>3. HistoryKept(e) /\ Is(rows, v, e, {"ARCHIVED"})
    BY <2>1, <2>2 DEF Wrote, Is
  <2> QED BY <2>3 DEF HistoryKept, LiveAfter, Live
<1> QED BY <1>1, StoreInvariance, PTL DEF CSpec, ArchivedIsHistory

(***************************************************************************)
(* The store implements PublishedContent.                                  *)
(***************************************************************************)
Public == [e \in Entries |-> IF e \in contested THEN Contested ELSE PublicRows(e)]

\* What is public of an entry is content, not the mark of a contested one.
LEMMA PublicIsContent ==
    ASSUME IInv, NEW e \in Entries
    PROVE  PublicOf(rows, e) # Contested
<1>1. PublicOf(rows, e) \in SUBSET [data : Data, at : Times \cup {Never}]
  BY NullAssumption DEF PublicOf, Is, IInv, TypeOK, Table, Row, NoRow
<1> QED BY <1>1, ContestedIsNoContent

LEMMA PublicAt ==
    ASSUME NEW e \in Entries
    PROVE  /\ e \notin contested => Public[e] = PublicOf(rows, e)
           /\ e \in contested => Public[e] = Contested
BY PublicRowsAreOfTable DEF Public

\* Public after a step, from what the step does to the table and to contested.
LEMMA PublicAfter ==
    ASSUME NEW e \in Entries, contested' = contested,
           \A f \in Entries \ {e} : PublicOf(rows', f) = PublicOf(rows, f)
    PROVE  Public' = [Public EXCEPT ![e] = IF e \in contested THEN Contested
                                           ELSE PublicOf(rows', e)]
BY PublicRowsAreOfTable DEF Public

LEMMA QuietIsSilent ==
    ASSUME Quiet
    PROVE  Promise!Next
<1>1. \A e \in Entries : PublicRows(e)' = PublicRows(e)
  BY PublicRowsAreOfTable DEF Quiet
<1>2. CASE contested' = contested
  <2>1. Public' = Public
    BY <1>1, <1>2 DEF Public
  <2> QED BY <2>1 DEF Quiet, Public, Promise!Next, Promise!Silent
<1>3. CASE \E e \in Entries : contested' = contested \cup {e}
  <2> PICK e \in Entries : contested' = contested \cup {e}
    BY <1>3
  <2>1. Public' = [Public EXCEPT ![e] = Contested]
    BY <1>1 DEF Public
  <2>2. Promise!Overlap(e)
    BY <2>1 DEF Quiet, Public, Promise!Overlap
  <2> QED BY <2>2 DEF Promise!Next
<1> QED BY <1>2, <1>3 DEF Quiet

LEMMA WroteIsPromised ==
    ASSUME StoreInv, NEW e \in Entries, Wrote(e)
    PROVE  Promise!Next
<1>1. \A f \in Entries \ {e} : PublicOf(rows', f) = PublicOf(rows, f)
  <2> SUFFICES ASSUME NEW f \in Entries \ {e}
               PROVE  PublicOf(rows', f) = PublicOf(rows, f)
    OBVIOUS
  <2>1. SameRows(rows, rows', f)
    BY OtherRowsStay DEF Wrote
  <2> QED BY <2>1, SamePublicRows DEF SameRows, Is
<1>2. Public' = [Public EXCEPT ![e] = IF e \in contested THEN Contested
                                      ELSE PublicOf(rows', e)]
  BY <1>1, PublicAfter DEF Wrote
<1>3. Public \in [Entries -> {Public[f] : f \in Entries}] /\ DOMAIN Public = Entries
  BY DEF Public
<1>4. CASE e \in contested
  <2>1. Public[e] = Contested /\ Public' = Public
    BY <1>2, <1>3, <1>4, PublicAt
  <2>2. \E k \in EventKinds, d \in Data \cup {NoData} :
           event' = [kind |-> k, entry |-> e, data |-> d]
    BY DEF Wrote, Event
  <2>3. Promise!Unpromised(e)
    BY <2>1, <2>2 DEF EventKinds, Promise!Unpromised, Promise!Tell, Public
  <2> QED BY <2>3 DEF Promise!Next
<1>5. CASE e \notin contested
  <2>1. Public[e] = PublicOf(rows, e) /\ Public[e] # Contested
    BY <1>5, PublicAt, PublicIsContent DEF StoreInv
  <2>2. Public' = [Public EXCEPT ![e] = PublicOf(rows', e)]
    BY <1>2, <1>5
  <2>3. PublicOf(rows', e) = PublicOf(rows, e) => Public' = Public
    BY <1>3, <2>1, <2>2
  <2>4. CASE Published(e)
    <3> PICK d \in Data, t \in Times :
          /\ Tells("ENTRY_PUBLISHED", e, d)
          /\ PublicOf(rows', e) = {[data |-> d, at |-> t]}
          /\ PublicOf(rows, e) = {} \/ \E p \in PublicOf(rows, e) : p.at = t
      BY <2>4 DEF Published
    <3>1. t \in IF Public[e] = {} THEN Times ELSE {p.at : p \in Public[e]}
      BY <2>1
    <3>2. Public' = [Public EXCEPT ![e] = {[data |-> d, at |-> t]}]
      BY <2>2
    <3>3. Promise!Publish(e, d)
      BY <2>1, <3>1, <3>2 DEF Tells, Promise!Publish, Promise!Tell, Public
    <3> QED BY <3>3 DEF Promise!Next
  <2>5. CASE Republished(e)
    <3> PICK d \in Data : /\ Tells("ENTRY_PUBLISHED", e, d)
                          /\ \E p \in PublicOf(rows, e) : p.data = d
                          /\ PublicOf(rows', e) = PublicOf(rows, e)
      BY <2>5 DEF Republished
    <3>1. Promise!Republish(e, d)
      BY <2>1, <2>3 DEF Tells, Promise!Republish, Promise!Tell, Public
    <3> QED BY <3>1 DEF Promise!Next
  <2>6. CASE Withdrawn(e)
    <3> PICK d \in Data, k \in {"ENTRY_UNPUBLISHED", "ENTRY_DELETED"} :
          /\ Tells(k, e, d)
          /\ \E p \in PublicOf(rows, e) : p.data = d
          /\ PublicOf(rows', e) = {}
      BY <2>6 DEF Withdrawn
    <3>1. Public' = [Public EXCEPT ![e] = {}]
      BY <2>2
    <3>2. Promise!Withdraw(e, d)
      BY <2>1, <3>1 DEF Tells, Promise!Withdraw, Promise!Tell, Public
    <3> QED BY <3>2 DEF Promise!Next
  <2>7. CASE Edited(e)
    <3>1. Promise!Edit(e)
      BY <2>1, <2>3, <2>7 DEF Edited, Tells, Promise!Edit, Promise!Tell, Public
    <3> QED BY <3>1 DEF Promise!Next
  <2> QED BY <1>5, <2>4, <2>5, <2>6, <2>7 DEF Wrote, Promised
<1> QED BY <1>4, <1>5

\* Every behaviour of the store, seen through what it makes public and what it puts
\* in the outbox, is one of the abstract store.
THEOREM StorePublishesContent == CSpec => PublishesContent
<1>1. CInit => Promise!Init
  <2> SUFFICES ASSUME CInit PROVE Promise!Init
    OBVIOUS
  <2>1. \A e \in Entries : NonePublic(rows, e)
    BY DEF CInit, Init, EmptyTable, NoRow, NonePublic, Is
  <2>2. \A e \in Entries : PublicRows(e) = {}
    BY <2>1, NoPublicRow, PublicRowsAreOfTable
  <2> QED BY <2>2 DEF CInit, Init, Promise!Init
<1>2. StoreInv /\ [CNext]_<<vars, contested>> => [Promise!Next]_(Promise!vars)
  <2> SUFFICES ASSUME StoreInv, [CNext]_<<vars, contested>>
               PROVE  Promise!Next \/ UNCHANGED Promise!vars
    OBVIOUS
  <2>1. CASE CNext
    BY <2>1, StoreStep, QuietIsSilent, WroteIsPromised
  <2>2. CASE UNCHANGED <<vars, contested>>
    <3>1. rows' = rows /\ event' = event /\ contested' = contested
      BY <2>2 DEF vars
    <3>2. \A e \in Entries : PublicRows(e)' = PublicRows(e)
      BY <3>1, PublicRowsAreOfTable
    <3> QED BY <3>1, <3>2 DEF Promise!vars
  <2> QED BY <2>1, <2>2
<1> QED BY <1>1, <1>2, StoreInvariance, PTL DEF CSpec, PublishesContent, Promise!Spec
=============================================================================
