--------------------------- MODULE EntryVersions ---------------------------
(***************************************************************************)
(* The content store of the CMS: entry envelopes (ContentEntry), the       *)
(* versions they own (ContentEntryVersion), and the handlers that write    *)
(* them.  Every handler loads the entry with its versions OUTSIDE any      *)
(* transaction, decides, and only then opens the transaction that writes   *)
(* rows by id.  A request is therefore two steps: Read* remembers the rows *)
(* as they were, and the commit action applies the decision to whatever    *)
(* the table holds by then.  A transaction is one step: its writes are     *)
(* keyed by row id and hold row locks until commit, so concurrent          *)
(* transactions take effect in commit order.                               *)
(*                                                                         *)
(* Ids are UUIDs.  A fresh id is one that no row and no request in flight  *)
(* names; reusing such an id is indistinguishable from drawing a new one   *)
(* and keeps the instances finite.                                         *)
(***************************************************************************)
EXTENDS Naturals, FiniteSets

CONSTANTS Entries,    \* entry ids
          Versions,   \* version row ids
          Requests,   \* request handlers that can be in flight at once
          Fields,     \* field identifiers of the content type
          Values,     \* field values
          Unset,      \* the value of a field nobody filled in
          Times,      \* readings of the clock (publishedAt)
          NoEntry, NoVersion, NoData, Never

Data == [Fields -> Values]

ASSUME NullAssumption ==
    /\ NoEntry \notin Entries
    /\ NoVersion \notin Versions
    /\ NoData \notin Data
    /\ Never \notin Times
    /\ Unset \in Values

VARIABLES rows,      \* the ContentEntryVersion table, by row id
          envelope,  \* the ContentEntry table: the document slug and title come from
          req,       \* the requests in flight
          event      \* what the last step put in the outbox

vars == <<rows, envelope, req, event>>

Status == {"DRAFT", "CHANGED", "PUBLISHED", "ARCHIVED"}
Ops == {"publish", "save", "unpublish", "archive", "unarchive", "republish",
        "discard", "delete"}
EventKinds == {"ENTRY_PUBLISHED", "ENTRY_UNPUBLISHED", "ENTRY_DELETED",
               "ENTRY_DRAFT_SYNC"}

Row == [entry : Entries, status : Status, data : Data,
        publishedAt : Times \cup {Never}]
NoRow == [entry |-> NoEntry, status |-> "NONE", data |-> NoData,
          publishedAt |-> Never]
Table == [Versions -> Row \cup {NoRow}]
EmptyTable == [v \in Versions |-> NoRow]

\* What a handler remembers of the rows it read: the ids it will write by, the
\* document it will store or announce, the publishedAt it will keep.
Request == [op : Ops, entry : Entries, doc : Data \cup {NoData},
            pub : Versions \cup {NoVersion}, draft : Versions \cup {NoVersion},
            at : Times \cup {Never}]
Idle == [op |-> "idle", entry |-> NoEntry, doc |-> NoData,
         pub |-> NoVersion, draft |-> NoVersion, at |-> Never]

Event == [kind : EventKinds, entry : Entries, data : Data \cup {NoData}]
NoEvent == [kind |-> "NONE", entry |-> NoEntry, data |-> NoData]

(***************************************************************************)
(* Reading a set of versions.                                              *)
(***************************************************************************)
Having(table, s) == {v \in Versions : table[v].status = s}

\* versions.find(...) over rows the database returns in no stated order.
FindOr(S, otherwise) == IF S # {} THEN S ELSE otherwise

PublishedVersion(table) == FindOr(Having(table, "PUBLISHED"), {NoVersion})

\* Mutant: the lookup falls through to the archived version when there is no draft.
DraftVersionElseArchived(table) ==
    FindOr(Having(table, "CHANGED"),
           FindOr(Having(table, "DRAFT") \cup Having(table, "ARCHIVED"), {NoVersion}))

DraftVersion(table) ==
    FindOr(Having(table, "CHANGED"), FindOr(Having(table, "DRAFT"), {NoVersion}))

DataOf(v) == IF v = NoVersion THEN NoData ELSE rows[v].data
TimeOf(v) == IF v = NoVersion THEN Never ELSE rows[v].publishedAt

FirstPresent(a, b) == IF a # NoData THEN a ELSE b

\* The versions of one entry, as findUnique({include: {versions}}) returns them.
VersionsOf(e) == [v \in Versions |-> IF rows[v].entry = e THEN rows[v] ELSE NoRow]

\* What the public surface serves of entry e.
PublicData(e) == {rows[v].data : v \in Having(VersionsOf(e), "PUBLISHED")}

Live(e) == envelope[e] # NoData

FreshEntries == {e \in Entries : ~Live(e) /\ \A r \in Requests : req[r].entry # e}
FreshVersions == {v \in Versions :
    rows[v] = NoRow /\ \A r \in Requests : v \notin {req[r].pub, req[r].draft}}

\* insertDeliveries, with the caller's transaction.
Enqueued(k, e, d) == event' = [kind |-> k, entry |-> e, data |-> d]

(***************************************************************************)
(* The first half of a request: load the entry, check, keep what was read. *)
(* A check that fails answers 4xx and changes nothing: the request never   *)
(* leaves idle.                                                            *)
(***************************************************************************)
Load(r, plan) ==
    /\ req[r] = Idle
    /\ Live(plan.entry)
    /\ req' = [req EXCEPT ![r] = plan]
    /\ event' = NoEvent
    /\ UNCHANGED <<rows, envelope>>

\* publishEntry up to its transaction, given the published version p and the
\* draft d it found: the document is the request's or, if there is none
\* (NoData), the draft's, or the published one's.
PlanPublish(r, e, p, d, input) ==
    LET doc == FirstPresent(input, FirstPresent(DataOf(d), DataOf(p))) IN
    /\ doc # NoData
    /\ Load(r, [op |-> "publish", entry |-> e, doc |-> doc,
                pub |-> p, draft |-> d, at |-> TimeOf(p)])

\* upsertEntryDraft up to its transaction.  No document re-saves the draft's.
PlanSave(r, e, p, d, input) ==
    LET doc == FirstPresent(input, DataOf(d)) IN
    /\ doc # NoData
    /\ Load(r, [op |-> "save", entry |-> e, doc |-> doc,
                pub |-> p, draft |-> d, at |-> Never])

\* PUT, publishing or not, with a document or (NoData) without.
ReadPut(r, e, input) ==
    \E p \in PublishedVersion(VersionsOf(e)), d \in DraftVersion(VersionsOf(e)) :
        PlanPublish(r, e, p, d, input) \/ PlanSave(r, e, p, d, input)

\* PATCH overlays the given fields on the working version and goes on as PUT.

Merge(base, patch) ==
    [f \in Fields |-> IF f \in DOMAIN patch THEN patch[f]
                      ELSE IF base = NoData THEN Unset ELSE base[f]]

ReadPatch(r, e, patch) ==
    \E p \in PublishedVersion(VersionsOf(e)), d \in DraftVersion(VersionsOf(e)) :
        LET doc == Merge(FirstPresent(DataOf(d), DataOf(p)), patch) IN
        PlanPublish(r, e, p, d, doc) \/ PlanSave(r, e, p, d, doc)

\* One round of the bulk-publish loop: the stored document, published as it is.
ReadBulkPublish(r, e) ==
    \E p \in PublishedVersion(VersionsOf(e)), d \in DraftVersion(VersionsOf(e)) :
        PlanPublish(r, e, p, d, NoData)

\* planTransition: its error branches are guards, its plan is what Load keeps.
ReadUnpublish(r, e) ==
    \E p \in Having(VersionsOf(e), "PUBLISHED"),
       d \in FindOr(Having(VersionsOf(e), "CHANGED"), {NoVersion}) :
        Load(r, [op |-> "unpublish", entry |-> e, doc |-> DataOf(p),
                 pub |-> p, draft |-> d, at |-> Never])

ReadArchive(r, e) ==
    /\ Having(VersionsOf(e), "CHANGED") = {}
    /\ \E p \in Having(VersionsOf(e), "PUBLISHED") :
        Load(r, [op |-> "archive", entry |-> e, doc |-> DataOf(p),
                 pub |-> p, draft |-> NoVersion, at |-> Never])

ReadUnarchive(r, e) ==
    \E a \in Having(VersionsOf(e), "ARCHIVED") :
        Load(r, [op |-> "unarchive", entry |-> e, doc |-> NoData,
                 pub |-> NoVersion, draft |-> a, at |-> Never])

ReadRepublish(r, e) ==
    \E p \in Having(VersionsOf(e), "PUBLISHED") :
        Load(r, [op |-> "republish", entry |-> e, doc |-> DataOf(p),
                 pub |-> NoVersion, draft |-> NoVersion, at |-> Never])

\* "Cannot discard the only version": a draft and a published one are needed.
ReadDiscard(r, e) ==
    /\ Having(VersionsOf(e), "PUBLISHED") # {}
    /\ \E d \in DraftVersion(VersionsOf(e)) \ {NoVersion} :
        Load(r, [op |-> "discard", entry |-> e, doc |-> NoData,
                 pub |-> NoVersion, draft |-> d, at |-> Never])

\* The snapshot of the published version, if any, is what will be announced.
ReadDelete(r, e) ==
    \E p \in PublishedVersion(VersionsOf(e)) :
        Load(r, [op |-> "delete", entry |-> e, doc |-> DataOf(p),
                 pub |-> NoVersion, draft |-> NoVersion, at |-> Never])

(***************************************************************************)
(* The second half: one transaction.  A write to a row that is gone throws *)
(* (P2025) and rolls everything back, so the row's presence is a guard of  *)
(* the commit and Abort is what happens without it.                        *)
(***************************************************************************)
Present(v) == rows[v] # NoRow
PresentOrNone(v) == v # NoVersion => Present(v)

\* The row an upsert writes: the one that was read, or a new one.
Target(v) == IF v # NoVersion THEN {v} ELSE FreshVersions

Done(r) == req' = [req EXCEPT ![r] = Idle]

\* Mutant: the time is always the clock's.
PublishedAtNow(at, now) == now

\* published?.publishedAt ?? now
PublishedAt(at, now) == IF at # Never THEN at ELSE now

\* Mutant: the old published row stays.
PromotedBesideOld(q, t, now) ==
    [rows EXCEPT ![t] = [entry |-> q.entry, status |-> "PUBLISHED", data |-> q.doc,
                         publishedAt |-> PublishedAt(q.at, now)]]

\* The rows after publishing q into row t: the old published row is gone.
Promoted(q, t, now) ==
    [v \in Versions |->
        IF v = t THEN [entry |-> q.entry, status |-> "PUBLISHED", data |-> q.doc,
                       publishedAt |-> PublishedAt(q.at, now)]
        ELSE IF v = q.pub THEN NoRow ELSE rows[v]]

\* publishEntry: delete the published row that was read, promote the draft
\* that was read (or insert a row), and announce a PUBLISHED row of the entry.
Publish(r) ==
    LET q == req[r] IN
    /\ q.op = "publish"
    /\ Live(q.entry)
    /\ PresentOrNone(q.pub)
    /\ PresentOrNone(q.draft)
    /\ \E t \in Target(q.draft), now \in Times : rows' = Promoted(q, t, now)
    /\ envelope' = [envelope EXCEPT ![q.entry] = q.doc]
    /\ \E v \in Versions : /\ rows'[v].entry = q.entry
                           /\ rows'[v].status = "PUBLISHED"
                           /\ Enqueued("ENTRY_PUBLISHED", q.entry, rows'[v].data)
    /\ Done(r)

\* Mutant: an edit of a published entry goes live at once.
SavedStatusLive(pub) == IF pub # NoVersion THEN "PUBLISHED" ELSE "DRAFT"

\* targetStatus
SavedStatus(pub) == IF pub # NoVersion THEN "CHANGED" ELSE "DRAFT"

\* upsertEntryDraft: write the draft row that was read (or insert one) with
\* the status that what was read calls for; publishedAt is left as it is.
Save(r) ==
    LET q == req[r] IN
    /\ q.op = "save"
    /\ Live(q.entry)
    /\ PresentOrNone(q.draft)
    /\ \E t \in Target(q.draft) :
         rows' = [rows EXCEPT ![t] =
            [entry |-> q.entry,
             status |-> SavedStatus(q.pub),
             data |-> q.doc, publishedAt |-> rows[t].publishedAt]]
    /\ envelope' = [envelope EXCEPT ![q.entry] = q.doc]
    /\ Enqueued("ENTRY_DRAFT_SYNC", q.entry, NoData)
    /\ Done(r)

\* The update-status mutation with publishedAt: null.
BackToDraft(row) == [row EXCEPT !.status = "DRAFT", !.publishedAt = Never]

\* unpublish: with a CHANGED draft the published row goes and the draft
\* becomes DRAFT; without one the published row itself becomes the draft.
Unpublish(r) ==
    LET q    == req[r]
        kept == IF q.draft # NoVersion THEN q.draft ELSE q.pub
    IN
    /\ q.op = "unpublish"
    /\ Present(q.pub)
    /\ PresentOrNone(q.draft)
    /\ rows' = [v \in Versions |->
          IF v = kept THEN BackToDraft(rows[v])
          ELSE IF v = q.pub THEN NoRow ELSE rows[v]]
    /\ Enqueued("ENTRY_UNPUBLISHED", q.entry, q.doc)
    /\ Done(r)
    /\ UNCHANGED envelope

\* archive: the published row becomes ARCHIVED and keeps its publishedAt.
Archive(r) ==
    LET q == req[r] IN
    /\ q.op = "archive"
    /\ Present(q.pub)
    /\ rows' = [rows EXCEPT ![q.pub].status = "ARCHIVED"]
    /\ Enqueued("ENTRY_UNPUBLISHED", q.entry, q.doc)
    /\ Done(r)
    /\ UNCHANGED envelope

\* unarchive: the archived row becomes a draft again.
Unarchive(r) ==
    LET q == req[r] IN
    /\ q.op = "unarchive"
    /\ Present(q.draft)
    /\ rows' = [rows EXCEPT ![q.draft] = BackToDraft(rows[q.draft])]
    /\ Enqueued("ENTRY_DRAFT_SYNC", q.entry, NoData)
    /\ Done(r)
    /\ UNCHANGED envelope

\* republish writes no version: it announces the published row that was read.
Republish(r) ==
    /\ req[r].op = "republish"
    /\ Enqueued("ENTRY_PUBLISHED", req[r].entry, req[r].doc)
    /\ Done(r)
    /\ UNCHANGED <<rows, envelope>>

\* DELETE .../draft removes the draft row that was read.
Discard(r) ==
    LET q == req[r] IN
    /\ q.op = "discard"
    /\ Present(q.draft)
    /\ rows' = [rows EXCEPT ![q.draft] = NoRow]
    /\ Enqueued("ENTRY_DRAFT_SYNC", q.entry, NoData)
    /\ Done(r)
    /\ UNCHANGED envelope

\* Mutant: the versions stay behind.
CascadeNothing(e) == rows

\* ON DELETE CASCADE from ContentEntry to its versions.
Cascade(e) == [v \in Versions |-> IF rows[v].entry = e THEN NoRow ELSE rows[v]]

\* deleteEntry removes the envelope; its versions go with it, whatever
\* they are by now.
Delete(r) ==
    LET q == req[r] IN
    /\ q.op = "delete"
    /\ Live(q.entry)
    /\ rows' = Cascade(q.entry)
    /\ envelope' = [envelope EXCEPT ![q.entry] = NoData]
    /\ IF q.doc # NoData
       THEN Enqueued("ENTRY_DELETED", q.entry, q.doc)
       ELSE Enqueued("ENTRY_DRAFT_SYNC", q.entry, NoData)
    /\ Done(r)

\* A request ends without writing: validation or a unique constraint rejects
\* it, a row it needs is gone, the database rolls back, the process dies.
Abort(r) ==
    /\ req[r] # Idle
    /\ Done(r)
    /\ event' = NoEvent
    /\ UNCHANGED <<rows, envelope>>

\* createEntry: envelope and first version in one transaction, with any of the
\* four statuses (the admin endpoint accepts them all).
Create(e, doc, status, now) ==
    /\ e \in FreshEntries
    /\ \E v \in FreshVersions :
         rows' = [rows EXCEPT ![v] =
            [entry |-> e, status |-> status, data |-> doc,
             publishedAt |-> IF status = "PUBLISHED" THEN now ELSE Never]]
    /\ envelope' = [envelope EXCEPT ![e] = doc]
    /\ IF status = "PUBLISHED"
       THEN Enqueued("ENTRY_PUBLISHED", e, doc)
       ELSE Enqueued("ENTRY_DRAFT_SYNC", e, NoData)
    /\ UNCHANGED req

Patches == UNION {[S -> Values] : S \in SUBSET Fields}

Read(r) ==
    \E e \in Entries :
        \/ \E d \in Data \cup {NoData} : ReadPut(r, e, d)
        \/ \E p \in Patches : ReadPatch(r, e, p)
        \/ ReadBulkPublish(r, e)
        \/ ReadUnpublish(r, e)
        \/ ReadArchive(r, e)
        \/ ReadUnarchive(r, e)
        \/ ReadRepublish(r, e)
        \/ ReadDiscard(r, e)
        \/ ReadDelete(r, e)

Commit(r) ==
    \/ Publish(r)
    \/ Save(r)
    \/ Unpublish(r)
    \/ Archive(r)
    \/ Unarchive(r)
    \/ Republish(r)
    \/ Discard(r)
    \/ Delete(r)

Init ==
    /\ rows = EmptyTable
    /\ envelope = [e \in Entries |-> NoData]
    /\ req = [r \in Requests |-> Idle]
    /\ event = NoEvent

Next ==
    \/ \E r \in Requests : Read(r) \/ Commit(r) \/ Abort(r)
    \/ \E e \in Entries, d \in Data, s \in Status, t \in Times : Create(e, d, s, t)

Spec == Init /\ [][Next]_vars

(***************************************************************************)
(* Properties that hold however requests interleave.                       *)
(***************************************************************************)

\* Every variable holds what the code can put there.
TypeOK ==
    /\ rows \in Table
    /\ envelope \in [Entries -> Data \cup {NoData}]
    /\ req \in [Requests -> Request \cup {Idle}]
    /\ event \in Event \cup {NoEvent}

\* Every version belongs to a live entry (the foreign key of ContentEntryVersion).
ForeignKey == \A v \in Versions : rows[v] # NoRow => Live(rows[v].entry)

\* A row served to the public always carries the time it was first published,
\* even when the write that made or kept it PUBLISHED was decided on rows that
\* have changed since (publishEntry.ts:64, entryTransitions.ts:92-113).
PublishedHasTime ==
    \A v \in Versions : rows[v].status = "PUBLISHED" => rows[v].publishedAt # Never

\* The table holds what its schema promises and what the public surface relies on,
\* whichever requests race (contentEntry.prisma, deleteEntry.ts:52,
\* publishEntry.ts:64).
TableIsRegular == TypeOK /\ ForeignKey /\ PublishedHasTime

\* No transaction changes an entry's versions without enqueueing, in the same
\* transaction, an event for that entry: the search index and the public cache
\* hear of every change, whichever requests race.
ChangesAreAnnounced ==
    [][\A e \in Entries : VersionsOf(e)' # VersionsOf(e) => event'.entry = e]_vars

\* Content becomes public only together with an ENTRY_PUBLISHED for that entry
\* which carries content that is public after the step.
NewContentIsPublishedByEvent ==
    [][\A e \in Entries : ~(PublicData(e)' \subseteq PublicData(e)) =>
         /\ event'.kind = "ENTRY_PUBLISHED"
         /\ event'.entry = e
         /\ event'.data \in PublicData(e)']_vars

\* The outbox keeps up with the table: what changes is announced, and what becomes
\* public is announced as published, whichever requests race (insertDeliveries in
\* every transaction of entryTransitions.ts, publishEntry.ts, upsertEntryDraft.ts).
OutboxKeepsUp == ChangesAreAnnounced /\ NewContentIsPublishedByEvent
============================================================================
