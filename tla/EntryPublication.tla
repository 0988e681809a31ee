-------------------------- MODULE EntryPublication --------------------------
(***************************************************************************)
(* EntryVersions with the history of who worked on what at the same time:  *)
(* an entry is contested from the moment two requests that loaded it are   *)
(* in flight together.  Of the others, the store implements                *)
(* PublishedContent.                                                       *)
(***************************************************************************)
EXTENDS EntryVersions

CONSTANT Contested      \* what is public of an entry of which nothing is promised

ASSUME ContestedIsNoContent ==
    \A S \in SUBSET [data : Data, at : Times \cup {Never}] : S # Contested

VARIABLE contested      \* history: the entries requests have overlapped on

AtWork(e) == {r \in Requests : req[r].entry = e}

CInit == Init /\ contested = {}

CNext ==
    /\ Next
    /\ contested' = contested \cup
         {e \in Entries : \E r \in AtWork(e)', s \in AtWork(e)' : r # s}

CSpec == CInit /\ [][CNext]_<<vars, contested>>

----------------------------------------------------------------------------
(* Properties.                                                             *)

\* What the public surface serves of an entry, and since when.
PublicRows(e) ==
    {[data |-> rows[v].data, at |-> rows[v].publishedAt] :
        v \in Having(VersionsOf(e), "PUBLISHED")}

Promise == INSTANCE PublishedContent WITH
    public <- [e \in Entries |-> IF e \in contested THEN Contested ELSE PublicRows(e)]

\* Requests that take turns on an entry publish, edit and withdraw it as the
\* abstract store does: one document at a time, a publication time that does not
\* move while it stays public, and events that tell the truth (publishEntry.ts,
\* upsertEntryDraft.ts, entryTransitions.ts, deleteEntry.ts).
PublishesContent == Promise!Spec

\* An entry on which requests take turns has at most one PUBLISHED version
\* (apps/cms/README.md:195), is never left without a version ("Cannot discard the
\* only version", draft.delete.ts:39), and its drafts carry no publication time:
\* unpublish and unarchive really take it back to "never published".
VersionsFillTheirSlots ==
    \A e \in Entries \ contested :
        /\ \A v, w \in Having(VersionsOf(e), "PUBLISHED") : v = w
        /\ Live(e) => \E v \in Versions : rows[v].entry = e
        /\ \A v \in Versions :
             rows[v].entry = e /\ rows[v].status \in {"DRAFT", "CHANGED"} =>
                rows[v].publishedAt = Never

\* Archived versions are history: as long as requests take turns, only unarchive,
\* of one version at a time, or deleting the whole entry ever touches one
\* (entryTransitions.ts 115-166).
ArchivedIsHistory ==
    [][\A e \in Entries \ contested, v \in Versions :
         /\ rows[v].status = "ARCHIVED"
         /\ rows[v].entry = e
         /\ rows'[v] # rows[v]
         => \/ ~Live(e)'
            \/ /\ rows'[v] = [rows[v] EXCEPT !.status = "DRAFT", !.publishedAt = Never]
               /\ \A w \in Versions \ {v} : rows'[w] = rows[w]]_<<vars, contested>>
=============================================================================
