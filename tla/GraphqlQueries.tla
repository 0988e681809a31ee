--------------------------- MODULE GraphqlQueries ---------------------------
(***************************************************************************)
(* What the resolvers of the generated GraphQL schema answer               *)
(* (server/graphql/dynamicTypes.ts, jsonbFilters.ts).  A request holds the *)
(* schema that getSchema gave it, which may be older than the content      *)
(* types; each of its resolvers reads the entries as they are when it      *)
(* runs.  An entry is reached on two paths: the lists compile their `where`*)
(* to SQL over the published rows, with an EXISTS for each nested relation *)
(* filter, and the other resolvers follow identifiers through Prisma and   *)
(* pass what they find through flattenToShape, which tells the response    *)
(* cache what the answer was made of.                                      *)
(*                                                                         *)
(* Every content type has a title, a number, one relation, one             *)
(* multirelation and one rich text body; a version of an entry has the     *)
(* content the constants give it.                                          *)
(***************************************************************************)
EXTENDS GraphqlSchemaCache, Sequences, FiniteSets, SequencesExt

CONSTANTS
    TypeIds,        \* content types that exist at some time
    TypesAt,        \* the types, and the targets of their relations, by version
    Entries,
    TypeOf,         \* the content type of each entry
    LastVersion,    \* bound: the versions each entry goes through
    ContentOf,      \* the content of each version of each entry
    Nobody,         \* the empty reference
    NoNumber,       \* the number that is not there
    NoFilter,
    MaxFilterDepth, \* MAX_RELATION_FILTER_DEPTH
    Wheres          \* the `where` arguments that clients send

ASSUME VersionsHaveTypes == \A n \in 0 .. MaxTypes : DOMAIN TypesAt[n] \subseteq TypeIds

VARIABLE
    entries         \* the published and the draft version of each entry

gvars == <<vars, entries>>

----------------------------------------------------------------------------
(* The entries.                                                            *)

\* 0 for no version; an entry without either does not exist.
Stages(x) == [live : 0 .. LastVersion[x], draft : 0 .. LastVersion[x]]

Absent == [live |-> 0, draft |-> 0]

Tables == {tab \in [Entries -> UNION {Stages(x) : x \in Entries}] :
             \A x \in Entries : tab[x] \in Stages(x)}

GInit ==
    /\ Init
    /\ entries \in {tab \in Tables : \A x \in Entries :
                      tab[x] = Absent \/ (TypeOf[x] \in DOMAIN TypesAt[0]
                                          /\ tab[x] = [live |-> 0, draft |-> 1])}

Become(x, stage) == entries' = [entries EXCEPT ![x] = stage] /\ UNCHANGED vars

\* An entry is created with a draft; its type must exist.
Create(x) ==
    /\ entries[x] = Absent
    /\ TypeOf[x] \in DOMAIN TypesAt[db.types]
    /\ Become(x, [live |-> 0, draft |-> 1])

\* A save writes the draft, or starts one beside the published version.
SaveDraft(x) ==
    LET s    == entries[x]
        next == (IF s.draft # 0 THEN s.draft ELSE s.live) + 1
    IN  s # Absent /\ next <= LastVersion[x] /\ Become(x, [s EXCEPT !.draft = next])

Publish(x) ==
    /\ entries[x].draft # 0
    /\ Become(x, [live |-> entries[x].draft, draft |-> 0])

Unpublish(x) ==
    LET s == entries[x]
    IN  s.live # 0 /\ Become(x, [live |-> 0,
                                 draft |-> IF s.draft # 0 THEN s.draft ELSE s.live])

Delete(x) == entries[x] # Absent /\ Become(x, Absent)

\* A content type that has entries is not deleted.
NoTypeIsTornOff == \A x \in Entries :
    entries[x] # Absent => TypeOf[x] \in DOMAIN TypesAt[db.types]

GNext ==
    \/ Next /\ UNCHANGED entries /\ NoTypeIsTornOff'
    \/ \E x \in Entries : Create(x) \/ SaveDraft(x) \/ Publish(x) \/ Unpublish(x)
                          \/ Delete(x)

GSpec == GInit /\ [][GNext]_gvars /\ Fairness

----------------------------------------------------------------------------
(* What the schema of a version of the content types offers.  `st` maps    *)
(* each of its types to the targets of the relation fields.                *)

\* A filter on the target's fields is offered when there is one target and the
\* schema has it.
Targets(st, t, f) == {g \in st[t][f] : Cardinality(st[t][f]) = 1 /\ g \in DOMAIN st}

\* A relation field is in the schema when one of its targets is.
Exposed(st, t, f) == st[t][f] \cap DOMAIN st # {}

\* The operators of the filter input of each field.
Comparisons == {"equals", "gt", "gte", "lt", "lte"}

FilterOps ==
    [status |-> {"equals"}, entryKey |-> {"equals", "in"}, createdAt |-> Comparisons,
     title |-> {"equals", "contains"}, number |-> Comparisons,
     one |-> {"equals", "in", "isNull"},
     many |-> {"contains", "containsAny", "containsAll", "isEmpty"}]

\* ... and of a relation with one target.
NestedOps == [one |-> "is", many |-> "some"]

IsNested(op) == op \in {"is", "some"}

RECURSIVE Offered(_, _, _)
Offered(st, t, where) == \A <<f, op, arg>> \in where :
    \/ op \in FilterOps[f]
    \/ /\ f \in DOMAIN NestedOps /\ op = NestedOps[f]
       /\ \E g \in Targets(st, t, f) : Offered(st, g, arg)

----------------------------------------------------------------------------
(* The conditions of a `where`: <<field, operator, argument>>.             *)

\* A list operator without members is ignored.
Compiled(where) ==
    {c \in where : c[2] \in {"in", "containsAny", "containsAll"} => c[3] # {}}

Compares(n, op, m) ==
    \/ op = "equals" /\ n = m
    \/ op = "gt" /\ n > m
    \/ op = "gte" /\ n >= m
    \/ op = "lt" /\ n < m
    \/ op = "lte" /\ n <= m

\* NULL compares with nothing.
NumberTest(n, op, m) == n # NoNumber /\ Compares(n, op, m)

\* The times of the version's row.
DateTest(at, op, m) == Compares(at, op, m)

\* "contains" takes the set of the titles that contain its argument.
TitleTest(title, op, arg) ==
    \/ op = "equals" /\ title = arg
    \/ op = "contains" /\ title \in arg

KeyTest(x, op, arg) ==
    \/ op = "equals" /\ x = arg
    \/ op = "in" /\ x \in arg

OneTest(ref, op, arg) ==
    \/ op = "equals" /\ ref = arg
    \/ op = "in" /\ ref \in arg
    \/ op = "isNull" /\ arg = (ref = Nobody)

ManyTest(refs, op, arg) ==
    \/ op = "contains" /\ arg \in refs
    \/ op = "containsAny" /\ arg \cap refs # {}
    \/ op = "containsAll" /\ arg \subseteq refs
    \/ op = "isEmpty" /\ arg = (refs = {})

\* One condition on the row of version n of x.
FieldTest(tab, x, n, f, op, arg) ==
    LET v == ContentOf[x][n]
    IN  \/ f = "status" /\ arg = IF n = tab[x].live THEN "PUBLISHED" ELSE "DRAFT"
        \/ f = "entryKey" /\ KeyTest(x, op, arg)
        \/ f = "createdAt" /\ DateTest(v.at, op, arg)
        \/ f = "title" /\ TitleTest(v.title, op, arg)
        \/ f = "number" /\ NumberTest(v.number, op, arg)
        \/ f = "one" /\ OneTest(v.one, op, arg)
        \/ f = "many" /\ ManyTest(Range(v.many), op, arg)

\* The published row, if there is one.
PublishedRow(tab, x) == {tab[x].live} \ {0}

\* Mutant: the EXISTS joins every version of the target.
EveryRow(tab, y) == {tab[y].live, tab[y].draft} \ {0}

\* The rows of the target that the EXISTS of a nested filter joins.
TargetRow(tab, y) == PublishedRow(tab, y)

\* Mutant: the EXISTS does not look at the type of the entry.
OfAnyType(x, t) == TRUE

OfType(x, t) == TypeOf[x] = t

\* The entries a nested filter ranges over.
RefsOf(v, f) == IF f = "one" THEN {v.one} \ {Nobody} ELSE Range(v.many)

\* buildEntryConditions: a nested filter is an EXISTS over the entries of the
\* target, with the conditions on the target's own row.
RECURSIVE Matches(_, _, _, _, _, _)
Matches(st, tab, t, x, n, where) ==
    \A <<f, op, arg>> \in Compiled(where) :
        IF ~IsNested(op) THEN FieldTest(tab, x, n, f, op, arg)
        ELSE \E g \in Targets(st, t, f), y \in RefsOf(ContentOf[x][n], f) :
               /\ OfType(y, g)
               /\ \E k \in TargetRow(tab, y) : Matches(st, tab, g, y, k, arg)

\* Nesting beyond the limit is an error of the whole list.
RECURSIVE Nesting(_)
Nesting(where) ==
    Max({0} \cup {1 + Nesting(c[3]) : c \in {d \in where : IsNested(d[2])}})

TooDeep(where) == Nesting(where) > MaxFilterDepth

Where(st, t) == {w \in Wheres : Offered(st, t, w) /\ ~TooDeep(w)}

----------------------------------------------------------------------------
(* The resolvers.  An answer is the sequence of its entries, and the       *)
(* entries the response cache is told of.                                  *)

\* The set the collection scope has gathered.
Recorded(xs) == Range(xs)

\* The entries go through flattenToShape.
Flattened(xs) == [nodes |-> xs, harvest |-> Recorded(xs)]

\* The rows of a raw query are handed on as they are.
Raw(xs) == [nodes |-> xs, harvest |-> {}]

IfPublished(tab, xs) == SelectSeq(xs, LAMBDA x : PublishedRow(tab, x) # {})

\* Published rows, the newest version first.
NewestFirst(tab, xs) ==
    SetToSortSeq(xs, LAMBDA x, y :
        ContentOf[x][tab[x].live].at > ContentOf[y][tab[y].live].at)

\* `<type>List`.
List(st, tab, t, where) ==
    Raw(NewestFirst(tab, {x \in Entries :
          /\ TypeOf[x] = t
          /\ \E n \in PublishedRow(tab, x) : Matches(st, tab, t, x, n, where)}))

\* `contentEntryList`: a name the schema does not know, or a part of a name that
\* none has, gives nothing; without one the entries of unknown types are met too.
AllEntries(st, tab, name, names) ==
    IF name \notin DOMAIN st \cup {NoFilter} \/ names \cap DOMAIN st = {} THEN Raw(<<>>)
    ELSE Raw(NewestFirst(tab, {x \in Entries :
               /\ PublishedRow(tab, x) # {}
               /\ name # NoFilter => TypeOf[x] = name
               /\ names # TypeIds => TypeOf[x] \in names \cap DOMAIN st}))

\* `<type>(id)`, `<type>BySlug` and `<type>ByEntryKey`.
One(tab, t, x) == Flattened(IF TypeOf[x] = t THEN IfPublished(tab, <<x>>) ELSE <<>>)

\* A relation of the published version of x; the type of the target is not asked.
Relation(tab, x) ==
    LET ref == ContentOf[x][tab[x].live].one
    IN  Flattened(IF ref = Nobody THEN <<>> ELSE IfPublished(tab, <<ref>>))

\* A page of a multirelation: the window is cut out of the references, and then
\* those that are not published are left out.
Connection(tab, x, offset, limit) ==
    LET refs == ContentOf[x][tab[x].live].many
    IN  Flattened(IfPublished(tab, SubSeq(refs, offset + 1, Min({offset + limit, Len(refs)}))))

\* The pairs of type and entry in a document, each once.
Collected(body) ==
    FoldLeft(LAMBDA acc, r : IF r \in Range(acc) THEN acc ELSE Append(acc, r), <<>>, body)

\* `references` of a rich text: entries of types the schema does not know are
\* left out.
References(st, tab, x) ==
    LET refs == Collected(ContentOf[x][tab[x].live].body)
        ids  == [i \in 1 .. Len(refs) |-> refs[i][2]]
    IN  Flattened(IfPublished(tab, SelectSeq(ids, LAMBDA y : TypeOf[y] \in DOMAIN st)))

----------------------------------------------------------------------------
(* What a request may ask of the schema it holds.  The parent of a nested  *)
(* resolver is an entry some other resolver has answered.                  *)

Parents(st, tab) ==
    {x \in Entries : TypeOf[x] \in DOMAIN st /\ PublishedRow(tab, x) # {}}

Asked(st, tab) ==
    (UNION {{<<"list", t, w>> : w \in Where(st, t)} : t \in DOMAIN st})
    \cup {<<"all", t, ts>> : t \in TypeIds \cup {NoFilter}, ts \in SUBSET TypeIds}
    \cup {<<"one", t, x>> : t \in DOMAIN st, x \in Entries}
    \cup {<<"relation", x>> : x \in {y \in Parents(st, tab) : Exposed(st, TypeOf[y], "one")}}
    \cup {<<"connection", x, i, n>> :
            x \in {y \in Parents(st, tab) : Exposed(st, TypeOf[y], "many")},
            i \in 0 .. 1, n \in 1 .. 2}
    \cup {<<"references", x>> : x \in Parents(st, tab)}

Answered(st, tab, q) ==
    CASE q[1] = "list"       -> List(st, tab, q[2], q[3])
      [] q[1] = "all"        -> AllEntries(st, tab, q[2], q[3])
      [] q[1] = "one"        -> One(tab, q[2], q[3])
      [] q[1] = "relation"   -> Relation(tab, q[2])
      [] q[1] = "connection" -> Connection(tab, q[2], q[3], q[4])
      [] q[1] = "references" -> References(st, tab, q[2])

----------------------------------------------------------------------------
(* Properties.                                                             *)

\* What the properties say of one schema and one table, for every pair of them.
Everywhere(Good(_, _)) ==
    {<<n, tab, Good(TypesAt[n], tab)>> : n \in 0 .. MaxTypes, tab \in Tables}

\* ... and of the schema an answered request holds and the present table.
Holding(good) == \A c \in Clients :
    client[c].phase = "answered" =>
        <<client[c].got.content.types, entries, TRUE>> \in good

WithoutDrafts(tab) == [x \in Entries |-> [tab[x] EXCEPT !.draft = 0]]

SameWithoutDrafts(st, tab) == \A q \in Asked(st, tab) :
    Answered(st, tab, q) = Answered(st, WithoutDrafts(tab), q)

DraftFree == Everywhere(SameWithoutDrafts)

\* A public answer says nothing of drafts: whatever is asked, at whatever depth it
\* is filtered, the answer is the one a table without any draft would give
\* (dynamicTypes.ts 491-792, jsonbFilters.ts 354-436, 486-494).
DraftsDoNotShow == Holding(DraftFree)

\* The entries a client can walk to from x along a relation field.
Reached(st, tab, x, f) ==
    IF f = "one" THEN Range(Relation(tab, x).nodes)
    ELSE UNION {Range(Connection(tab, x, i, 1).nodes) : i \in 0 .. Len(ContentOf[x][tab[x].live].many)}

PathsAgree(st, tab) ==
    \A t \in DOMAIN st, f \in {"one", "many"}, w \in Wheres :
        LET nested == {<<f, NestedOps[f], w>>}
        IN  Offered(st, t, nested) /\ ~TooDeep(nested) =>
              \A x \in Range(List(st, tab, t, {}).nodes), g \in Targets(st, t, f) :
                 x \in Range(List(st, tab, t, nested).nodes) <=>
                   Reached(st, tab, x, f) \cap Range(List(st, tab, g, w).nodes) # {}

Agreeing == Everywhere(PathsAgree)

\* The two paths to an entry agree: an article is listed under a filter on its
\* author exactly when the author its `author` field resolves to is listed under
\* that filter, although one is an EXISTS in SQL and the other a lookup by
\* identifier, and whatever the schema, the targets and the drafts have become
\* since (dynamicTypes.ts 491-505, 602-627; jsonbFilters.ts 329-365, 397-439).
FiltersAgreeWithTraversals == Holding(Agreeing)

HarvestComplete(st, tab) == \A q \in Asked(st, tab) :
    Range(Answered(st, tab, q).nodes) \subseteq Answered(st, tab, q).harvest

Harvesting == Everywhere(HarvestComplete)

\* "`flattenToShape` (the single chokepoint every resolved entry passes through)"
\* (entryTagCollector.ts 6): the response cache is told of every entry of an answer.
EveryAnswerIsHarvested == Holding(Harvesting)
=============================================================================
