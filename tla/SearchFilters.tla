---------------------------- MODULE SearchFilters ----------------------------
(* From the data of an entry to the hits of a search: the documents the     *)
(* index holds of it (searchDocument.ts, buildEntrySearchDocument.ts), the  *)
(* clauses a filter is compiled to (compileSearchFilter.ts, operators.ts,   *)
(* systemFields.ts), the two callers and their gates (search.get.ts,        *)
(* searchQuery.ts, searchEntries.ts), the cells of the columns they show    *)
(* (projectEntryColumns.ts, hydrateRelationColumns.ts), and the UTC days a  *)
(* filter on a date is made of (dateFilter.ts).                             *)
(*                                                                          *)
(* A stored value is [json, items]: a string, number, boolean or relation   *)
(* has one item, an array of relations several, a missing value none; a     *)
(* relation is the id of its target, "" when malformed.  A value of a       *)
(* document is [is, items].  Every item is a text.                          *)
EXTENDS Integers, Sequences, FiniteSets, SequencesExt

CONSTANTS FieldsOf,      \* content type -> [field identifier -> field type]
          NumberOf,      \* the texts that are numbers -> their values
          Days, DayMs,   \* the calendar, and the length of a day
          Iso,           \* day -> its first and last instant as ISO texts
          EpochOf,       \* the texts that are dates -> their instants
          MonthOf,       \* day -> its month
          Within,        \* <<t, u>>: the text u contains t
          Leads,         \* <<t, u>>: the text u starts with t
          TitleOf        \* the entries there are -> their titles

System == {"$status", "$id", "$entryKey"}

(* FIELD_IDENTIFIER_RE: an identifier begins with a letter.                 *)
ASSUME FieldsAssumption ==
  \A type \in DOMAIN FieldsOf : DOMAIN FieldsOf[type] \cap (System \cup {"$none"}) = {}

(* Date: the days from 1970 on, and the first and the last instant of each; *)
(* an empty text is no date.                                                *)
ASSUME DayAssumption ==
  /\ DayMs \in Nat \ {0}
  /\ IsFiniteSet(Days) /\ Days = 0..Cardinality(Days) - 1
  /\ "" \notin DOMAIN EpochOf /\ \A text \in DOMAIN EpochOf : EpochOf[text] \in Int
  /\ \A d \in Days : /\ {Iso[d].start, Iso[d].end} \subseteq DOMAIN EpochOf
                     /\ EpochOf[Iso[d].start] = d * DayMs
                     /\ EpochOf[Iso[d].end] = d * DayMs + DayMs - 1

(* An empty text contains and starts with nothing but itself.               *)
ASSUME TextAssumption == \A pair \in Within \cup Leads : pair[2] = "" => pair[1] = ""

Numbers == DOMAIN NumberOf

(* filter: what a sequence has at some of its places, in their order.       *)
Kept(seq, places) ==
  [k \in 1..Cardinality(places) |->
     seq[CHOOSE i \in places : Cardinality({j \in places : j <= i}) = k]]

----------------------------------------------------------------------------
(* operators.ts, systemFields.ts                                            *)

NullaryOps == {"isSet", "isNotSet"}
RangeOps == {"between"}
ListOps == {"in", "containsAny", "containsAll"}
operatorArity(op) ==
  CASE op \in NullaryOps -> "zero" [] op \in RangeOps -> "two"
    [] op \in ListOps -> "many" [] OTHER -> "one"

(* REGISTRY: the operators of a field type.                                 *)
OperatorsOf(type) ==
  CASE type = "TEXT"          -> {"eq", "neq", "contains", "startsWith"} \cup NullaryOps
    [] type = "TEXTAREA"      -> {"eq", "contains"} \cup NullaryOps
    [] type = "SLUG"          -> {"eq", "startsWith"} \cup NullaryOps
    [] type = "ENTRY_TITLE"   -> {"eq", "neq", "contains", "startsWith"}
    [] type = "NUMBER"        -> {"eq", "neq", "gt", "gte", "lt", "lte"} \cup NullaryOps
    [] type = "BOOLEAN"       -> {"eq"} \cup NullaryOps
    [] type = "DATETIME"      -> {"before", "after", "between"} \cup NullaryOps
    [] type = "SELECT"        -> {"eq", "neq", "in"} \cup NullaryOps
    [] type = "RELATION"      -> {"eq", "neq"} \cup NullaryOps
    [] type = "MULTIRELATION" -> {"eq", "containsAny", "containsAll"} \cup NullaryOps
    [] OTHER                  -> {}

FilterableTypes == {"TEXT", "TEXTAREA", "SLUG", "ENTRY_TITLE", "NUMBER", "BOOLEAN",
                    "DATETIME", "SELECT", "RELATION", "MULTIRELATION"}

UnscopedSystem == {"$status", "$id"}
SystemType(f) == CASE f = "$status" -> "SELECT" [] f = "$id" -> "TEXT" [] OTHER -> "SLUG"
EnginePath(f) == CASE f = "$status" -> "status" [] f = "$id" -> "entryId" [] OTHER -> "entryKey"

(* The palette enables every kind of operator; a system field is always set *)
(* and is offered no presence operator.                                     *)
availableOperators(f, type) ==
  OperatorsOf(type) \ (IF f \in System THEN NullaryOps ELSE {})

valueInputKind(type, op) ==
  CASE type = "SELECT"        -> IF op = "in" THEN "multiSelect" ELSE "select"
    [] type = "MULTIRELATION" -> IF op \in ListOps THEN "multiEntry" ELSE "entry"
    [] type = "DATETIME"      -> IF op = "between" THEN "dateRange" ELSE "date"
    [] type = "NUMBER"        -> "number"
    [] type = "BOOLEAN"       -> "boolean"
    [] type = "RELATION"      -> "entry"
    [] OTHER                  -> "text"

(* resolveQueryField and resolveContentTypeFieldTypes: the fields of the    *)
(* scoped type, then the system fields; no scope has no fields.             *)
Scoped(type) == type \in DOMAIN FieldsOf
Fields(type) == IF Scoped(type) THEN DOMAIN FieldsOf[type] ELSE {}
Known(type, f) == f \in Fields(type) \cup System
FieldType(type, f) == IF f \in Fields(type) THEN FieldsOf[type][f] ELSE SystemType(f)

----------------------------------------------------------------------------
(* dateFilter.ts, DateEditor.vue, DateRangeEditor.vue                       *)

(* before is from the start of the picked day, after from its end.          *)
Edge(op) == IF op = "after" THEN "end" ELSE "start"
DayValue(d, op) == Iso[d][Edge(op)]
RangeValue(d, e) == <<Iso[d].start, Iso[e].end>>

(* presetRange: the first and the last day of a preset.                     *)
Presets == {"today", "yesterday", "last7", "last30", "thisMonth"}
PresetDays(preset, today) ==
  LET month == {d \in Days : MonthOf[d] = MonthOf[today]}
  IN  CASE preset = "today"     -> <<today, today>>
        [] preset = "yesterday" -> <<today - 1, today - 1>>
        [] preset = "last7"     -> <<today - 6, today>>
        [] preset = "last30"    -> <<today - 29, today>>
        [] OTHER -> <<CHOOSE d \in month : \A e \in month : d <= e,
                      CHOOSE d \in month : \A e \in month : d >= e>>

----------------------------------------------------------------------------
(* The documents of an entry.  An entry is [id, key, type, versions], its   *)
(* versions a function of their statuses, each [title, data].               *)

Missing == [json |-> "missing", items |-> <<>>]
NoValue == [is |-> "null", items |-> <<>>]
Value(kind, items) == [is |-> kind, items |-> items]

datetimeToEpoch(v) ==
  IF v.json = "string" /\ v.items[1] \in DOMAIN EpochOf THEN Value("instant", v.items) ELSE NoValue
relationEntryId(v) ==
  IF v.json = "object" /\ v.items # <<"">> THEN Value("text", v.items) ELSE NoValue
WellFormed(items) == Kept(items, {i \in DOMAIN items : items[i] # ""})

(* The plain text of a document, kept as its one item.                      *)
richtextToPlainText(v) == Value("text", IF v.json = "doc" THEN v.items ELSE <<"">>)

(* toSearchDocument: a value that does not fit its field is no value.       *)
Indexed(type, v) ==
  CASE type \in {"TEXT", "TEXTAREA", "SLUG", "SELECT"} ->
         IF v.json = "string" THEN Value("text", v.items) ELSE NoValue
    [] type = "DATETIME"      -> datetimeToEpoch(v)
    [] type = "NUMBER"        -> IF v.json = "number" THEN Value("number", v.items) ELSE NoValue
    [] type = "BOOLEAN"       -> IF v.json = "boolean" THEN Value("text", v.items) ELSE NoValue
    [] type = "RICHTEXT"      -> richtextToPlainText(v)
    [] type = "RELATION"      -> relationEntryId(v)
    [] type = "MULTIRELATION" ->
         Value("list", IF v.json = "array" THEN WellFormed(v.items) ELSE <<>>)

StoredIn(data, f) == IF f \in DOMAIN data THEN data[f] ELSE Missing

(* buildEntrySearchDocuments: the version the editor works on.              *)
IndexableStatuses == {"DRAFT", "CHANGED", "PUBLISHED"}
Working(e) ==
  LET has == DOMAIN e.versions
  IN  IF "CHANGED" \in has THEN "CHANGED" ELSE IF "DRAFT" \in has THEN "DRAFT" ELSE "PUBLISHED"

toSearchDocument(e, status) ==
  LET types   == FieldsOf[e.type]
      version == e.versions[status]
      shown   == {f \in DOMAIN types : types[f] \notin {"ENTRY_TITLE", "IMAGE"}}
  IN  [entryId |-> e.id, status |-> status, isWorkingVersion |-> status = Working(e),
       entryKey |-> e.key, contentType |-> e.type, entryTitle |-> version.title,
       fields |-> [f \in shown |-> Indexed(types[f], StoredIn(version.data, f))]]

DocumentsOf(e) ==
  {toSearchDocument(e, status) : status \in DOMAIN e.versions \cap IndexableStatuses}

----------------------------------------------------------------------------
(* compileSearchFilter.  A filter is [field, op, values]; a clause is       *)
(* [field, path, sym, lits].                                                *)

RightCount(op, n) ==
  CASE operatorArity(op) = "zero" -> n = 0
    [] operatorArity(op) = "one"  -> n = 1
    [] operatorArity(op) = "two"  -> n = 2
    [] OTHER                      -> n >= 1

(* The literals a type takes: numbers, dates, true and false, any text.     *)
Literals(type, values) ==
  /\ type = "NUMBER"   => Range(values) \subseteq Numbers
  /\ type = "DATETIME" => Range(values) \subseteq DOMAIN EpochOf
  /\ type = "BOOLEAN"  => Range(values) \subseteq {"true", "false"}

(* textClause, dateClause, enumClause, multirelationClause, NUMBER_SYMBOL   *)
Symbol(op) ==
  CASE op = "eq" -> "=" [] op = "neq" -> "!=" [] op = "contains" -> "CONTAINS"
    [] op = "startsWith" -> "STARTS WITH" [] op \in {"gt", "after"} -> ">" [] op = "gte" -> ">="
    [] op \in {"lt", "before"} -> "<" [] op = "lte" -> "<=" [] op = "between" -> "TO"
    [] op \in {"in", "containsAny"} -> "IN" [] op = "containsAll" -> "ALL"
    [] op = "isSet" -> "SET" [] op = "isNotSet" -> "NOT SET"

PathOf(type, f) ==
  IF f \in System THEN EnginePath(f)
  ELSE IF Known(type, f) /\ FieldType(type, f) = "ENTRY_TITLE" THEN "entryTitle"
  ELSE "fields"

compileSearchFilter(type, t) ==
  LET kind     == FieldType(type, t.field)
      accepted == IF ~Known(type, t.field)
                  THEN t.field \notin System /\ t.op = "eq" /\ Len(t.values) = 1
                  ELSE /\ t.op \in OperatorsOf(kind)
                       /\ RightCount(t.op, Len(t.values))
                       /\ t.field \in System => t.op \notin NullaryOps
                       /\ Literals(kind, t.values)
  IN  IF accepted
      THEN {[field |-> t.field, path |-> PathOf(type, t.field), sym |-> Symbol(t.op),
             lits |-> t.values]}
      ELSE {}

----------------------------------------------------------------------------
(* What the engine makes of a clause.                                       *)

(* Numbers and instants are compared as numbers, the rest as texts.         *)
Measured == {"number", "instant"}
Measure(is, text) == IF is = "number" THEN NumberOf[text] ELSE EpochOf[text]
Same(v, lit) ==
  \/ v.is \in Measured /\ Measure(v.is, v.items[1]) = Measure(v.is, lit)
  \/ v.is \notin Measured /\ lit \in Range(v.items)

ValueAt(doc, clause) ==
  CASE clause.path = "fields" ->
         IF clause.field \in DOMAIN doc.fields THEN doc.fields[clause.field] ELSE NoValue
    [] clause.path = "status"     -> Value("text", <<doc.status>>)
    [] clause.path = "entryId"    -> Value("text", <<doc.entryId>>)
    [] clause.path = "entryKey"   -> Value("text", <<doc.entryKey>>)
    [] clause.path = "entryTitle" -> Value("text", <<doc.entryTitle>>)

Holds(clause, doc) ==
  LET v       == ValueAt(doc, clause)
      lit     == clause.lits[1]
      sym     == clause.sym
      of(text) == Measure(v.is, text)
      m       == of(v.items[1])
      present == v.items \notin {<<>>, <<"">>}
  IN  \/ sym = "="           /\ Same(v, lit)
      \/ sym = "!="          /\ ~Same(v, lit)
      \/ sym = "CONTAINS"    /\ v.is = "text" /\ <<lit, v.items[1]>> \in Within
      \/ sym = "STARTS WITH" /\ v.is = "text" /\ <<lit, v.items[1]>> \in Leads
      \/ /\ v.is \in Measured
         /\ \/ sym = ">"  /\ m > of(lit)
            \/ sym = ">=" /\ m >= of(lit)
            \/ sym = "<"  /\ m < of(lit)
            \/ sym = "<=" /\ m <= of(lit)
            \/ sym = "TO" /\ of(lit) <= m /\ m <= of(clause.lits[2])
      \/ sym = "IN"          /\ \E l \in Range(clause.lits) : Same(v, l)
      \/ sym = "ALL"         /\ \A l \in Range(clause.lits) : Same(v, l)
      \/ sym = "SET"         /\ present
      \/ sym = "NOT SET"     /\ ~present

----------------------------------------------------------------------------
(* search.get.ts and searchQuery.ts over runSearch.                         *)

Refused == [answer |-> 400, hits |-> {}]

(* runSearch over the documents its caller may see.                         *)
runSearch(type, filters, documents) ==
  LET clauses == [i \in DOMAIN filters |-> compileSearchFilter(type, filters[i])]
  IN  IF {} \in Range(clauses) THEN Refused
      ELSE [answer |-> 200,
            hits |-> {doc \in documents :
                        /\ Scoped(type) => doc.contentType = type
                        /\ \A c \in UNION Range(clauses) : Holds(c, doc)}]

Published(documents) == {doc \in documents : doc.status = "PUBLISHED"}
WithoutStatus(filters) == Kept(filters, {i \in DOMAIN filters : filters[i].field # "$status"})

(* The status gate: a session sees each entry once, as its editor does.     *)
Seen(session, documents) ==
  IF session THEN {doc \in documents : doc.isWorkingVersion} ELSE Published(documents)

(* GET /api/search: the bare request is refused before the gate.            *)
search(session, type, q, filters, documents) ==
  IF q = "" /\ ~Scoped(type) /\ filters = <<>> THEN Refused
  ELSE runSearch(type, IF session THEN filters ELSE WithoutStatus(filters),
                 Seen(session, documents))

(* searchEntries of the public GraphQL API.                                 *)
searchEntries(type, filters, documents) ==
  runSearch(type, WithoutStatus(filters), Published(documents))

----------------------------------------------------------------------------
(* The columns of a table: searchColumns.ts, and the two sources of a cell. *)

ColumnableTypes ==
  {"TEXT", "SLUG", "NUMBER", "BOOLEAN", "SELECT", "DATETIME", "RELATION", "MULTIRELATION"}

filterColumnableColumns(type, requested) ==
  {f \in requested \cap Fields(type) : FieldsOf[type][f] \in ColumnableTypes}

(* The search: projectColumns of the document's fields.                     *)
projectColumns(doc, columns) ==
  [f \in columns |-> IF f \in DOMAIN doc.fields THEN doc.fields[f] ELSE NoValue]

(* The list: projectEntryDataColumns of the version's data.                 *)
projectEntryDataColumns(type, data, columns) ==
  LET cell(f, v) ==
        CASE FieldsOf[type][f] = "DATETIME" -> datetimeToEpoch(v)
          [] FieldsOf[type][f] = "NUMBER"   ->
               IF v.json = "number" THEN Value("number", v.items) ELSE NoValue
          [] FieldsOf[type][f] = "BOOLEAN"  ->
               IF v.json = "boolean" THEN Value("text", v.items) ELSE NoValue
          [] FieldsOf[type][f] = "RELATION" -> relationEntryId(v)
          [] FieldsOf[type][f] = "MULTIRELATION" ->
               Value("list", IF v.json = "array" THEN WellFormed(v.items) ELSE <<>>)
          [] OTHER -> IF v.json = "string" THEN Value("text", v.items) ELSE NoValue
  IN  [f \in columns |-> cell(f, StoredIn(data, f))]

(* hydrateRelationColumns: the targets with their titles, null when gone.   *)
Titled(id) == [entryId |-> id, entryTitle |-> IF id \in DOMAIN TitleOf THEN TitleOf[id] ELSE ""]
hydrateRelationColumns(type, cells) ==
  [f \in DOMAIN cells |->
     IF FieldsOf[type][f] \in {"RELATION", "MULTIRELATION"}
     THEN [cell |-> cells[f].is, of |-> [i \in DOMAIN cells[f].items |-> Titled(cells[f].items[i])]]
     ELSE [cell |-> cells[f].is, of |-> cells[f].items]]

----------------------------------------------------------------------------
(* What a filter says of a version's data, in the palette's words.          *)

Fits(type, v) ==
  \/ type \in {"TEXT", "TEXTAREA", "SLUG", "SELECT", "ENTRY_TITLE"} /\ v.json = "string"
  \/ type = "DATETIME" /\ v.json = "string" /\ v.items[1] \in DOMAIN EpochOf
  \/ type = "NUMBER" /\ v.json = "number"
  \/ type = "BOOLEAN" /\ v.json = "boolean"
  \/ type = "RELATION" /\ v.json = "object"
  \/ type = "MULTIRELATION" /\ v.json = "array"

DayOf(text) == EpochOf[text] \div DayMs

Says(type, op, values, v) ==
  LET has  == Fits(type, v) /\ \E i \in DOMAIN v.items : v.items[i] # ""
      item == v.items[1]
      want == values[1]
      same == \/ type = "NUMBER" /\ has /\ NumberOf[item] = NumberOf[want]
              \/ type # "NUMBER" /\ Fits(type, v) /\ want \in Range(v.items)
  IN  \/ op = "isNotSet" /\ ~has
      \/ op = "eq"  /\ same
      \/ op = "neq" /\ ~same
      \/ /\ has
         /\ \/ op = "isSet"
            \/ op = "contains"   /\ <<want, item>> \in Within
            \/ op = "startsWith" /\ <<want, item>> \in Leads
            \/ op = "gt"      /\ NumberOf[item] > NumberOf[want]
            \/ op = "gte"     /\ NumberOf[item] >= NumberOf[want]
            \/ op = "lt"      /\ NumberOf[item] < NumberOf[want]
            \/ op = "lte"     /\ NumberOf[item] <= NumberOf[want]
            \/ op = "before"  /\ DayOf(item) < DayOf(want)
            \/ op = "after"   /\ DayOf(item) > DayOf(want)
            \/ op = "between" /\ DayOf(item) \in DayOf(want)..DayOf(values[2])
      \/ op \in {"in", "containsAny"} /\ Fits(type, v) /\ Range(values) \cap Range(v.items) # {}
      \/ op = "containsAll" /\ Fits(type, v) /\ Range(values) \subseteq Range(v.items)

(* The value of a filter's field in a version of an entry.                  *)
Reads(e, status, f) ==
  LET text(t) == [json |-> "string", items |-> <<t>>]
  IN  CASE f = "$status"   -> text(status)
        [] f = "$id"       -> text(e.id)
        [] f = "$entryKey" -> text(e.key)
        [] f \notin System /\ FieldsOf[e.type][f] = "ENTRY_TITLE" -> text(e.versions[status].title)
        [] OTHER           -> StoredIn(e.versions[status].data, f)
=============================================================================
