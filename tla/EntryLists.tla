----------------------------- MODULE EntryLists -----------------------------
(* The lists of entries: the server's bidirectional keyset pages over       *)
(* (updatedAt DESC, id ASC), read in two queries (listEntries.ts,           *)
(* entries.get.ts, all-content.get.ts, public/entries.get.ts), and the      *)
(* admin page that shows them: its URL, filter, fetches, row selection and  *)
(* bulk publish (pages/content-types/[id]/entries/index.vue, pages/index.vue*)
(* and their composables).  While a reader walks the pages, entries are     *)
(* saved, published, archived, created and deleted by others.               *)
(*                                                                          *)
(* An entry's id is its rank among the UUIDs; its versions are the set of   *)
(* their statuses.  Search hits come from the engine (SearchSync); here     *)
(* they are any of HitLists.                                                *)
EXTENDS Integers, Sequences, FiniteSets, SequencesExt

CONSTANTS Entries,        \* ids, numbers in the order of their UUIDs
          Types,          \* content types
          AllTypes,       \* the scope of the page that lists all content
          TypeOf,         \* entry -> its content type
          PerPage,        \* entries a page holds
          HitLists,       \* the hit lists a search can return
          Starts,         \* the tables and pages a reader can start with, each
                          \* with the bound on what may then be done
          MaxTime,        \* bound: the last instant of the clock
          MaxInFlight     \* bound: requests of one fetch in flight

ASSUME PageAssumption == PerPage \in Nat \ {0} /\ Entries \subseteq Nat
ASSUME ScopeAssumption == AllTypes \notin Types /\ TypeOf \in [Entries -> Types]
ASSUME EntriesAssumption == IsFiniteSet(Entries) /\ Entries # {} /\ MaxTime \in Nat

VARIABLES table,      \* entry -> [there, at, has]
          clock,      \* the database's time
          surface,    \* "admin" or "public": who is reading
          scope,      \* the page's path: a content type, or all content
          url,        \* its query: [after, before, query]
          filter,     \* the archive filter of the page
          resetting,  \* the filter changed, the cursors are not yet dropped
          fetches,    \* channel -> requests in flight, the newest last
          shown,      \* channel -> the answer displayed
          ticked,     \* [ids, anchor]: the selection
          bulk,       \* the bulk publish in flight
          walk,       \* history: [seen, still] of the walk from the first page
          fresh,      \* history: entries a bulk publish published, untouched since
          left        \* what may still be done: [writes, clicks, keys]

db == <<table, clock>>
page == <<surface, scope, url, filter, resetting, fetches, shown, ticked, bulk>>
vars == <<db, page, walk, fresh, left>>

----------------------------------------------------------------------------
(* Cursors and pages.                                                       *)

NoCursor == <<>>
NoQuery == [q |-> "", filters |-> <<>>]
Filters == {"active", "archived", "all"}
Channels == {"browse", "search"}
Statuses == {"DRAFT", "CHANGED", "PUBLISHED", "ARCHIVED"}

Here == {e \in Entries : table[e].there}
CursorOf(e) == <<table[e].at, e>>

(* updatedAt DESC, id ASC: c is listed before d.                            *)
Before(c, d) == c[1] > d[1] \/ (c[1] = d[1] /\ c[2] < d[2])

(* Mutant: the tie on updatedAt is not broken by the id.                    *)
BeforeInTime(c, d) == c[1] > d[1]

(* Mutant: the keyset compares the times only.                              *)
BeyondInTime(c, e, backward) ==
  \/ c = NoCursor
  \/ IF backward THEN BeforeInTime(CursorOf(e), c) ELSE BeforeInTime(c, CursorOf(e))

(* Beyond(c, e, backward): e lies past the cursor, in the direction read.   *)
Beyond(c, e, backward) ==
  \/ c = NoCursor
  \/ IF backward THEN Before(CursorOf(e), c) ELSE Before(c, CursorOf(e))

(* buildEntryListWhere                                                      *)
Matches(e, who, f) ==
  LET has == table[e].has
  IN  /\ table[e].there
      /\ scope \in {AllTypes, TypeOf[e]}
      /\ IF who = "public" THEN "PUBLISHED" \in has
         ELSE /\ f = "archived" => "ARCHIVED" \in has
              /\ f = "active" => "ARCHIVED" \notin has

Listed(who, f) == {e \in Entries : Matches(e, who, f)}

(* The first of the ways a status is looked for that the entry has.         *)
FirstOf(has, order) ==
  IF \E i \in DOMAIN order : order[i] \in has
  THEN LET i == CHOOSE i \in DOMAIN order :
                  order[i] \in has /\ \A j \in 1..i - 1 : order[j] \notin has
       IN  order[i]
  ELSE "none"

(* resolveDisplayVersion over getVersionForContext                          *)
DisplayStatus(has, who, f) ==
  FirstOf(has, IF who = "public" THEN <<"PUBLISHED">>
               ELSE CASE f = "archived" -> <<"ARCHIVED">>
                      [] f = "all"      -> <<"CHANGED", "DRAFT", "PUBLISHED", "ARCHIVED">>
                      [] OTHER          -> <<"CHANGED", "DRAFT", "PUBLISHED">>)

(* S in a row, each element at its place.                                   *)
InPlaces(S, place) == [k \in 1..Cardinality(S) |-> CHOOSE e \in S : place[e] = k]

(* The entries of S in the order of the query: as many precede an entry as  *)
(* are listed up to it.                                                     *)
Precedes(d, e, backward) == IF backward THEN Before(CursorOf(e), CursorOf(d))
                                        ELSE Before(CursorOf(d), CursorOf(e))
UpTo(e, S, backward) == {d \in S : d = e \/ Precedes(d, e, backward)}
InOrder(S, backward) == InPlaces(S, [e \in S |-> Cardinality(UpTo(e, S, backward))])

EmptyPageInfo == [next |-> FALSE, prev |-> FALSE, start |-> NoCursor, end |-> NoCursor]

(* keysetPage: perPage + 1 rows past the cursor; the far edge is probed,    *)
(* the near one inferred from the cursor.                                   *)
KeysetPage(who, f, after, before) ==
  LET backward == before # NoCursor /\ after = NoCursor
      cursor   == IF backward THEN before ELSE after
      matching == InOrder({e \in Listed(who, f) : Beyond(cursor, e, backward)}, backward)
      fetched  == SubSeq(matching, 1, IF Len(matching) > PerPage THEN PerPage + 1
                                                                 ELSE Len(matching))
      extra    == Len(fetched) > PerPage
      kept     == IF extra THEN SubSeq(fetched, 1, PerPage) ELSE fetched
      rows     == IF backward THEN Reverse(kept) ELSE kept
  IN  [rows |-> rows,
       info |-> [next  |-> IF backward THEN TRUE ELSE extra,
                 prev  |-> IF backward THEN extra ELSE after # NoCursor,
                 start |-> IF rows = <<>> THEN NoCursor ELSE CursorOf(rows[1]),
                 end   |-> IF rows = <<>> THEN NoCursor ELSE CursorOf(Last(rows))]]

----------------------------------------------------------------------------
(* The page: what it asks for and what it shows.                            *)

Blank == [rows |-> <<>>, info |-> EmptyPageInfo, ask |-> <<>>]   \* data = null
IsSearchMode == url.query # NoQuery
Mode == IF IsSearchMode THEN "search" ELSE "browse"

NoBulk == [busy |-> FALSE, ids |-> {}, todo |-> {}, done |-> {}]

(* activeRows: the rows of the table on screen.                             *)
ActiveRows == shown[Mode].rows
IdsOf(rows) == {rows[i].id : i \in DOMAIN rows}

BrowseAsk(u, f) == [filter |-> f, after |-> u.after, before |-> u.before]
SearchAsk(u) == [query |-> u.query]

Unread == [rows |-> <<>>, info |-> EmptyPageInfo]
Request(ask) ==
  [ask |-> ask, read |-> FALSE, found |-> Unread, still |-> {}, late |-> FALSE]

(* What an overtaken request finds no longer matters.                       *)
Overtaken(rs) == [i \in DOMAIN rs |-> [Request(rs[i].ask) EXCEPT !.late = TRUE]]

(* useAuthedFetch asks again: the newest request is the one that counts.    *)
Ask(fs, ch, ask) == [fs EXCEPT ![ch] = Append(Overtaken(@), Request(ask))]

(* Mutant: the rows that change leave the ticks in place.                   *)
ClearedNever(t) == t

(* selection.clear                                                          *)
Cleared(t) == [ids |-> {}, anchor |-> 0]

(* watch(rows) of useBulkPublish: rows that are computed anew clear the     *)
(* selection, before the reader can do anything else.                       *)
OnRows(changed) == ticked' = IF changed THEN Cleared(ticked) ELSE ticked

(* The route becomes u, the filter f: each fetch that watches what changed  *)
(* asks again, and the table on screen may be another.                      *)
Navigate(u, f) ==
  LET browse == IF BrowseAsk(u, f) # BrowseAsk(url, filter)
                THEN Ask(fetches, "browse", BrowseAsk(u, f)) ELSE fetches
  IN  /\ url' = u
      /\ filter' = f
      /\ fetches' = IF u # url /\ u.query # NoQuery
                    THEN Ask(browse, "search", SearchAsk(u)) ELSE browse
      /\ OnRows((u.query # NoQuery) # IsSearchMode)

Spends(kind) ==
  /\ left[kind] > 0
  /\ left' = [left EXCEPT ![kind] = @ - 1]
Room == \A ch \in Channels : Len(fetches[ch]) < MaxInFlight
Click ==
  /\ Spends("clicks")
  /\ Room
  /\ UNCHANGED <<db, surface, scope>>

(* goNext, and the next call of a client of the public API.                 *)
GoNext ==
  /\ Click
  /\ ~IsSearchMode
  /\ shown["browse"].info.next
  /\ shown["browse"].info.end # NoCursor
  /\ Navigate([url EXCEPT !.after = shown["browse"].info.end, !.before = NoCursor], filter)
  /\ UNCHANGED <<resetting, shown, bulk, walk, fresh>>

(* goPrev                                                                   *)
GoPrev ==
  /\ Click
  /\ surface = "admin"
  /\ ~IsSearchMode
  /\ shown["browse"].info.prev
  /\ shown["browse"].info.start # NoCursor
  /\ Navigate([url EXCEPT !.before = shown["browse"].info.start, !.after = NoCursor], filter)
  /\ UNCHANGED <<resetting, shown, bulk, walk, fresh>>

(* The archive filter: the fetch runs at once with the cursors of the old   *)
(* list; the watcher then drops them from the URL.                          *)
SetFilter(f) ==
  /\ Click
  /\ surface = "admin"
  /\ ~IsSearchMode
  /\ f # filter
  /\ Navigate(url, f)
  /\ resetting' = TRUE
  /\ walk' = [walk EXCEPT !.still = {}]
  /\ UNCHANGED <<shown, bulk, fresh>>

WithoutCursors(u) == [u EXCEPT !.after = NoCursor, !.before = NoCursor]

(* resetCursor                                                              *)
ResetCursor ==
  /\ resetting
  /\ Room
  /\ resetting' = FALSE
  /\ Navigate(WithoutCursors(url), filter)
  /\ UNCHANGED <<db, surface, scope, shown, bulk, walk, fresh, left>>

(* A search is run: the page of its scope, with its query and no cursor.    *)
(* The page of another path is mounted anew.                                *)
SearchUrl(query) == [after |-> NoCursor, before |-> NoCursor, query |-> query]

Mount(to, query) ==
  /\ scope' = to
  /\ url' = SearchUrl(query)
  /\ filter' = "active"
  /\ resetting' = FALSE
  /\ fetches' = [ch \in Channels |->
        IF ch = "browse" THEN <<Request(BrowseAsk(SearchUrl(query), "active"))>>
        ELSE IF query # NoQuery THEN <<Request(SearchAsk(SearchUrl(query)))>> ELSE <<>>]
  /\ shown' = [ch \in Channels |-> Blank]
  /\ ticked' = Cleared(ticked)
  /\ bulk' = NoBulk
  /\ walk' = [seen |-> {}, still |-> {}]
  /\ fresh' = {}

Search(to, query) ==
  IF to = scope
  THEN /\ Navigate(SearchUrl(query), filter)
       /\ UNCHANGED <<scope, resetting, shown, bulk, walk, fresh>>
  ELSE Mount(to, query)

(* onClear                                                                  *)
ClearSearch ==
  /\ Click
  /\ IsSearchMode
  /\ Navigate(SearchUrl(NoQuery), filter)
  /\ UNCHANGED <<resetting, shown, bulk, walk, fresh>>

----------------------------------------------------------------------------
(* The server answers.                                                      *)

(* keysetPage's query for the i-th request of the browse fetch.             *)
ReadPage(i) ==
  LET r == fetches["browse"][i]
  IN  /\ i \in DOMAIN fetches["browse"]
      /\ ~r.read /\ ~r.late
      /\ fetches' = [fetches EXCEPT !["browse"][i] =
                       [r EXCEPT !.read  = TRUE,
                                 !.found = KeysetPage(surface, r.ask.filter,
                                                      r.ask.after, r.ask.before),
                                 !.still = Listed(surface, r.ask.filter)]]
      /\ UNCHANGED <<db, surface, scope, url, filter, resetting, shown, ticked, bulk,
                     walk, fresh, left>>

(* resolveAndFlattenEntries: the versions are read by a second query; a row *)
(* that has none to show any more is dropped.                               *)
StatusOf(e, f) == IF table[e].there THEN DisplayStatus(table[e].has, surface, f) ELSE "none"
Resolved(rows, f) ==
  LET live  == {i \in DOMAIN rows : StatusOf(rows[i], f) # "none"}
      order == InPlaces(live, [i \in live |-> Cardinality({j \in live : j <= i})])
  IN  [k \in DOMAIN order |-> [id |-> rows[order[k]], status |-> StatusOf(rows[order[k]], f)]]

(* Mutant: a request that was overtaken still fills the table.              *)
CountsAnyway(ch, i) == TRUE

(* useFetch keeps the answer of the newest request only.                    *)
Counts(ch, i) == ~fetches[ch][i].late

Display(ch, i, answer) ==
  /\ fetches' = [fetches EXCEPT ![ch] = RemoveAt(@, i)]
  /\ shown' = IF Counts(ch, i) THEN [shown EXCEPT ![ch] = answer] ELSE shown
  /\ OnRows(Counts(ch, i) /\ ch = Mode)
  /\ UNCHANGED <<db, surface, scope, url, filter, resetting, bulk, fresh, left>>

(* History: a first page starts a walk, a later one continues it.           *)
Walked(r, ids) ==
  IF r.ask.after = NoCursor /\ r.ask.before = NoCursor
  THEN [seen |-> ids, still |-> r.still]
  ELSE [walk EXCEPT !.seen = @ \cup ids]

AnswerBrowse(i) ==
  LET r    == fetches["browse"][i]
      rows == Resolved(r.found.rows, r.ask.filter)
  IN  /\ i \in DOMAIN fetches["browse"]
      /\ r.read \/ r.late
      /\ Display("browse", i, [rows |-> rows, info |-> r.found.info, ask |-> r.ask])
      /\ walk' = IF ~r.late THEN Walked(r, IdsOf(rows)) ELSE walk

(* useEntrySearch: the hits of the engine.                                  *)
AnswerSearch(i) ==
  /\ i \in DOMAIN fetches["search"]
  /\ \E hits \in HitLists :
       Display("search", i, [rows |-> hits, info |-> EmptyPageInfo,
                             ask |-> fetches["search"][i].ask])
  /\ UNCHANGED walk

(* A request fails: 400, 500, or 503 from the engine; data becomes null.    *)
Fail(ch, i) ==
  /\ i \in DOMAIN fetches[ch]
  /\ ~fetches[ch][i].late
  /\ Display(ch, i, Blank)
  /\ UNCHANGED walk

----------------------------------------------------------------------------
(* Selection and bulk publish.                                              *)

Toggled(id) == IF id \in ticked.ids THEN ticked.ids \ {id} ELSE ticked.ids \cup {id}
Between(a, b) == {i \in DOMAIN ActiveRows : (a <= i /\ i <= b) \/ (b <= i /\ i <= a)}

(* toggle: a plain click flips the row and moves the anchor, a shift click  *)
(* turns on the range from the anchor.                                      *)
Toggle(index, shift) ==
  /\ Click
  /\ surface = "admin"
  /\ index \in DOMAIN ActiveRows
  /\ ticked' = IF shift /\ ticked.anchor # 0
               THEN [ticked EXCEPT !.ids = @ \cup {ActiveRows[i].id :
                                                   i \in Between(ticked.anchor, index)}]
               ELSE [ids |-> Toggled(ActiveRows[index].id), anchor |-> index]
  /\ UNCHANGED <<url, filter, resetting, fetches, shown, bulk, walk, fresh>>

(* toggleAll                                                                *)
ToggleAll ==
  /\ Click
  /\ surface = "admin"
  /\ LET ids == IdsOf(ActiveRows)
         all == ids # {} /\ ids \subseteq ticked.ids
     IN  ticked' = [ids |-> IF all THEN {} ELSE ids, anchor |-> 0]
  /\ UNCHANGED <<url, filter, resetting, fetches, shown, bulk, walk, fresh>>

(* The bar's "Clear selection".                                             *)
ClearTicks ==
  /\ Click
  /\ ticked.ids # {}
  /\ ~bulk.busy
  /\ ticked' = Cleared(ticked)
  /\ UNCHANGED <<url, filter, resetting, fetches, shown, bulk, walk, fresh>>

(* publish: the ticked ids are posted.                                      *)
PostBulk ==
  /\ Click
  /\ ticked.ids # {}
  /\ ~bulk.busy
  /\ bulk' = [busy |-> TRUE, ids |-> ticked.ids, todo |-> ticked.ids, done |-> {}]
  /\ UNCHANGED <<url, filter, resetting, fetches, shown, ticked, walk, fresh>>

(* A write by anyone else than this reader's bulk publish.                  *)
Without(r, e) == [r EXCEPT !.still = @ \ {e}]
Unstill(e) ==
  /\ fetches' = [fetches EXCEPT !["browse"] = [i \in DOMAIN @ |-> Without(@[i], e)]]
  /\ walk' = [walk EXCEPT !.still = @ \ {e}]

Ticks == {t \in {clock, clock + 1} : t <= MaxTime}
Put(e, has, t) ==
  /\ clock' = t
  /\ table' = [table EXCEPT ![e] = [there |-> TRUE, at |-> t, has |-> has]]

(* bulk-publish.post.ts: one entry after the other; an entry that is gone   *)
(* or has nothing to publish fails alone.                                   *)
BulkPublishOne(e) ==
  /\ e \in bulk.todo
  /\ IF table[e].there /\ table[e].has # {"ARCHIVED"}
     THEN /\ \E t \in Ticks : Put(e, {"PUBLISHED"}, t)
          /\ Unstill(e)
          /\ bulk' = [bulk EXCEPT !.todo = @ \ {e}, !.done = @ \cup {e}]
     ELSE /\ bulk' = [bulk EXCEPT !.todo = @ \ {e}]
          /\ UNCHANGED <<db, fetches, walk>>
  /\ UNCHANGED <<surface, scope, url, filter, resetting, shown, ticked, fresh, left>>

(* refreshSearch or refreshBrowse, by the mode the page is in.              *)
Refresh(fs) == Ask(fs, Mode, IF IsSearchMode THEN SearchAsk(url) ELSE BrowseAsk(url, filter))

(* The answer: the selection is cleared and the table on screen read again. *)
BulkAnswered ==
  /\ bulk.busy
  /\ bulk.todo = {}
  /\ Room
  /\ fetches' = Refresh(fetches)
  /\ ticked' = Cleared(ticked)
  /\ fresh' = IF IsSearchMode THEN fresh ELSE bulk.done
  /\ bulk' = NoBulk
  /\ UNCHANGED <<db, surface, scope, url, filter, resetting, shown, walk, left>>

(* The call fails or its answer is lost: the selection stays.               *)
BulkFailed ==
  /\ bulk.busy
  /\ bulk.todo \in {{}, bulk.ids}
  /\ bulk' = NoBulk
  /\ UNCHANGED <<db, surface, scope, url, filter, resetting, fetches, shown, ticked,
                 walk, fresh, left>>

----------------------------------------------------------------------------
(* Others write (EntryVersions): a save, a publish and a creation set       *)
(* updatedAt, an archive and an unarchive touch the version rows only.      *)

Saved(has) == IF "PUBLISHED" \in has THEN {"PUBLISHED", "CHANGED"} ELSE {"DRAFT"}

Write(e) ==
  /\ Spends("writes")
  /\ LET has == table[e].has
         there == table[e].there
     IN  \/ /\ there
            /\ "ARCHIVED" \notin has
            /\ \E t \in Ticks : Put(e, Saved(has), t) \/ Put(e, {"PUBLISHED"}, t)
         \/ /\ there
            /\ table' = [table EXCEPT ![e].has =
                           IF "ARCHIVED" \in has THEN {"DRAFT"} ELSE {"ARCHIVED"}]
            /\ UNCHANGED clock
         \/ /\ there
            /\ table' = [table EXCEPT ![e].there = FALSE]
            /\ UNCHANGED clock
         \/ /\ ~there
            /\ \E t \in Ticks : Put(e, {"DRAFT"}, t) \/ Put(e, {"PUBLISHED"}, t)
  /\ Unstill(e)
  /\ fresh' = fresh \ {e}
  /\ bulk' = [bulk EXCEPT !.done = @ \ {e}]
  /\ UNCHANGED <<surface, scope, url, filter, resetting, shown, ticked>>

----------------------------------------------------------------------------
Rows == [there : BOOLEAN, at : 0..MaxTime, has : (SUBSET Statuses) \ {{}}]
ASSUME StartAssumption == \A start \in Starts : start.table \in [Entries -> Rows]

(* The engine answers a page of hits.                                       *)
ASSUME HitsAssumption ==
  \A hits \in HitLists : /\ hits \in Seq([id : Entries, status : Statuses])
                        /\ Len(hits) <= PerPage

Init ==
  \E start \in Starts :
    /\ table = start.table
    /\ clock = Max({table[e].at : e \in Entries})
    /\ surface = start.surface
    /\ scope = start.scope
    /\ url = SearchUrl(start.query)
    /\ filter = "active"
    /\ resetting = FALSE
    /\ fetches = [ch \in Channels |->
          IF ch = "browse" THEN <<Request(BrowseAsk(url, "active"))>>
          ELSE IF IsSearchMode THEN <<Request(SearchAsk(url))>> ELSE <<>>]
    /\ shown = [ch \in Channels |-> Blank]
    /\ ticked = [ids |-> {}, anchor |-> 0]
    /\ bulk = NoBulk
    /\ walk = [seen |-> {}, still |-> {}]
    /\ fresh = {}
    /\ left = start.left

Next ==
  \/ GoNext \/ GoPrev \/ ResetCursor \/ ClearSearch
  \/ \E f \in Filters : SetFilter(f)
  \/ \E i \in 1..MaxInFlight : ReadPage(i) \/ AnswerBrowse(i) \/ AnswerSearch(i)
  \/ \E ch \in Channels, i \in 1..MaxInFlight : Fail(ch, i)
  \/ \E i \in 1..PerPage, shift \in BOOLEAN : Toggle(i, shift)
  \/ ToggleAll \/ ClearTicks \/ PostBulk \/ BulkAnswered \/ BulkFailed
  \/ \E e \in Entries : BulkPublishOne(e) \/ Write(e)

----------------------------------------------------------------------------
Cursors == {NoCursor} \cup (0..MaxTime) \X Entries
Infos == [next : BOOLEAN, prev : BOOLEAN, start : Cursors, end : Cursors]

(* The variables keep their types; the selection's anchor is a row that     *)
(* exists or none.                                                          *)
ListsTypeOK ==
  /\ table \in [Entries -> Rows]
  /\ clock \in 0..MaxTime
  /\ {url.after, url.before} \subseteq Cursors
  /\ \A ch \in Channels : shown[ch].info \in Infos /\ Len(shown[ch].rows) <= PerPage
  /\ ticked.ids \subseteq Entries
  /\ ticked.anchor \in 0..Len(ActiveRows)
  /\ bulk.todo \cup bulk.done \subseteq bulk.ids

(* A reader who walks from the first page, forth and back, until a page     *)
(* says there is no next one has been shown every entry that was listed     *)
(* when the walk began and that nobody has written since, whatever was      *)
(* saved, created, archived or deleted meanwhile, and though entries share  *)
(* an updatedAt (keysetPage).                                               *)
WalkSeesEveryStillRow ==
  (shown["browse"].ask # <<>> /\ ~shown["browse"].info.next) => walk.still \subseteq walk.seen

Settled(ch) == fetches[ch] = <<>> /\ ~resetting

(* A table with no request in flight shows the answer to what its URL and   *)
(* filter ask for, or nothing after a failure: an overtaken answer, or one  *)
(* made with the cursors of another filter, does not stay on screen.        *)
SettledPageAnswersTheUrl ==
  /\ Settled("browse") =>
       shown["browse"] = Blank \/ shown["browse"].ask = BrowseAsk(url, filter)
  /\ (Settled("search") /\ IsSearchMode) =>
       shown["search"] = Blank \/ shown["search"].ask = SearchAsk(url)

(* Only rows on screen are ticked, so a bulk publish sends what the reader  *)
(* sees: the selection does not survive a page, a mode or a refresh         *)
(* (useRowSelection leaves that to its consumer).                           *)
TickedRowsAreOnScreen == ticked.ids \subseteq IdsOf(ActiveRows)

(* Once the table was read again after a bulk publish, the entries it       *)
(* published and nobody wrote since are shown as published.                 *)
SettledPageShowsTheBulk ==
  Settled("browse") =>
    \A i \in DOMAIN shown["browse"].rows :
      shown["browse"].rows[i].id \in fresh => shown["browse"].rows[i].status = "PUBLISHED"

(* A table that has settled is the answer to its URL, and up to date with   *)
(* the reader's own bulk publish (entries/index.vue, useBulkPublish.ts).    *)
SettledPageIsCurrent == SettledPageAnswersTheUrl /\ SettledPageShowsTheBulk
=============================================================================
