---------------------------- MODULE QueryBuilder ----------------------------
(* The search palette over the lists of entries: the state machine of its   *)
(* query builder (utils/queryBuilder/machine.ts) behind the keys and chips  *)
(* of QueryBuilder.vue, the URL its queries become (compile.ts,             *)
(* navigation.ts), and the server that reads that URL back and compiles it  *)
(* for the engine (search.get.ts, compileSearchFilter.ts).                  *)
(*                                                                          *)
(* A value is [list, items]: a scalar has one item, null and undefined      *)
(* none.  A URL token is [field, op, raw], raw being the pieces between the *)
(* commas; a piece holds no comma.                                          *)
EXTENDS EntryLists, SearchFilters

CONSTANTS Options,       \* field identifier -> what its dropdown offers
          PickedDays,    \* days the user picks
          Today,
          Typed,         \* texts the user types
          Samples        \* entries the index holds, see SearchFilters

(* The editor of a value offers something for every field it is used for;   *)
(* the days the user picks and those of the presets are in the calendar.    *)
ASSUME OptionsAssumption ==
  /\ DOMAIN FieldsOf = Types
  /\ \A type \in Types \cup {AllTypes} : \A f \in Fields(type) \cup System :
       LET kind == FieldType(type, f)
       IN  /\ kind \in {"RELATION", "MULTIRELATION"} => "" \notin Options[f]
           /\ kind = "BOOLEAN" => Options[f] \subseteq {"true", "false"}
ASSUME PickedAssumption == Today \in Int /\ PickedDays \cup Today - 29..Today \subseteq Days

(* A stored version has the values its JSON can hold: a number is a text    *)
(* that is one, an array has any items.                                     *)
IsStored(v) ==
  \/ v = Missing
  \/ v.json = "array" /\ v.items \in Seq(Range(v.items))
  \/ /\ v.json \in {"string", "number", "boolean", "object", "doc"}
     /\ v.items = <<v.items[1]>>
     /\ v.json = "number" => v.items[1] \in Numbers \ {""}
     /\ v.json = "boolean" => v.items[1] \in {"true", "false"}
ASSUME SamplesAssumption ==
  /\ IsFiniteSet(Samples)
  /\ \A d, e \in Samples : d.id = e.id => d = e
  /\ \A e \in Samples :
       /\ e.type \in Types /\ DOMAIN e.versions \subseteq Statuses
       /\ \A status \in DOMAIN e.versions :
            \A f \in DOMAIN e.versions[status].data : IsStored(e.versions[status].data[f])

VARIABLES builder,   \* the palette: BuilderState of machine.ts, open or not
          opened,    \* history: the filter that is being re-edited
          ran        \* history: the last query run from the palette

builderVars == <<builder, opened, ran>>

----------------------------------------------------------------------------
(* Values, filters and the URL.                                             *)

Null == [list |-> FALSE, items |-> <<>>]
Scalar(v) == [list |-> FALSE, items |-> <<v>>]
List(items) == [list |-> TRUE, items |-> items]
Text(v) == IF v.items = <<>> THEN "" ELSE v.items[1]

serializeFilter(f) == [field |-> f.field, op |-> f.op, raw |-> f.value.items]

Split(raw) == IF raw = <<>> THEN <<"">> ELSE raw
Joined(raw) == IF raw = <<>> THEN "" ELSE raw[1]

(* parseFilter                                                              *)
parseFilter(t) ==
  [field |-> t.field, op |-> t.op,
   value |-> CASE operatorArity(t.op) = "zero" -> Null
               [] operatorArity(t.op) = "one"  -> Scalar(Joined(t.raw))
               [] OTHER                        -> List(Split(t.raw))]

Mapped(F(_), seq) == [i \in DOMAIN seq |-> F(seq[i])]

(* compileQuery, routeToSearchQuery                                         *)
compileQuery(q, filters) == [q |-> q, filters |-> Mapped(serializeFilter, filters)]
ChipsOf(query) == Mapped(parseFilter, query.filters)

(* planNavigation: a filter on a type's field does not survive without it.  *)
Survives(type, filters) ==
  IF type \in Types THEN filters ELSE Kept(filters, {i \in DOMAIN filters : filters[i].field \in System})

(* search.get.ts parseFilters: the values the server reads.                 *)
ParsedValues(t) ==
  CASE operatorArity(t.op) = "zero" -> <<>>
    [] operatorArity(t.op) = "one"  -> <<Joined(t.raw)>>
    [] OTHER                        -> Split(t.raw)

Parsed(t) == [field |-> t.field, op |-> t.op, values |-> ParsedValues(t)]

(* The filters the palette makes in a scope: a field its dropdown offers,   *)
(* an operator of the field's type, and the values its editor gives; behind *)
(* a presence operator any of them.                                         *)
IsDraft(type, f) ==
  LET kind == FieldType(type, f.field)
  IN  /\ f = [field |-> f.field, op |-> f.op, value |-> f.value]
      /\ f.value = [list |-> f.value.list, items |-> f.value.items]
      /\ Known(type, f.field) /\ kind \in FilterableTypes
      /\ f.op \in availableOperators(f.field, kind)
      /\ f.value.list \in BOOLEAN /\ f.value.items \in Seq(Range(f.value.items))
      /\ kind \in {"RELATION", "MULTIRELATION"} => "" \notin Range(f.value.items)

Gives(kind, op, items) ==
  /\ RightCount(op, Len(items))
  /\ kind = "BOOLEAN" => items[1] \in {"true", "false"}
  /\ kind = "DATETIME" =>
       IF op = "between" THEN \E d, e \in Days : items = RangeValue(d, e)
       ELSE \E d \in Days : items = <<DayValue(d, op)>>
  /\ valueInputKind(kind, op) = "text" => items[1] # ""

IsChip(type, f) ==
  /\ IsDraft(type, f)
  /\ f.op \notin NullaryOps =>
       /\ f.value.list = (operatorArity(f.op) # "one")
       /\ Gives(FieldType(type, f.field), f.op, f.value.items)

AreChips(type, chips) == \A i \in DOMAIN chips : IsChip(type, chips[i])

(* A reader starts with the URL of a query the palette made.                *)
ASSUME QueryAssumption ==
  \A start \in Starts :
    /\ start.scope \in Types \cup {AllTypes}
    /\ start.query.filters \in Seq(Range(start.query.filters))
    /\ AreChips(start.scope, ChipsOf(start.query))

----------------------------------------------------------------------------
(* The machine.  editing is the index of the filter being re-edited, 0 for  *)
(* null; op and value belong to the draft, which exists when field does.    *)

NoField == "$none"   \* no identifier begins with a dollar
NoDraft == [field |-> NoField, op |-> "eq", value |-> Null]
Closed == [open |-> FALSE, step |-> "contentType", scope |-> AllTypes, q |-> "",
           filters |-> <<>>, draft |-> NoDraft, editing |-> 0, text |-> "",
           locked |-> FALSE]

HomeStep(type) == IF type \in Types THEN "field" ELSE "contentType"
b == builder
Drafting == b.draft.field # NoField
DraftKind == valueInputKind(FieldType(b.scope, b.draft.field), b.draft.op)
Free(kind) == kind \in {"text", "number"}

(* initState from the route: a type's page locks the scope.                 *)
initState ==
  [Closed EXCEPT !.open = TRUE, !.step = HomeStep(scope), !.scope = scope,
                 !.q = url.query.q, !.filters = ChipsOf(url.query),
                 !.locked = scope \in Types]

(* commitDraftFilter                                                        *)
commitDraftFilter(s, f) ==
  [s EXCEPT !.filters = IF s.editing # 0 THEN [@ EXCEPT ![s.editing] = f] ELSE Append(@, f),
            !.draft = NoDraft, !.editing = 0, !.text = "", !.step = HomeStep(s.scope)]

(* Mutant: the index of the edited filter is kept.                          *)
EditingUnshifted(editing, removed) == editing

(* removeFilter keeps editingIndex on the same filter.                      *)
EditingAfter(editing, removed) ==
  IF editing # 0 /\ removed < editing THEN editing - 1 ELSE editing

(* A key or a click in the open palette.                                    *)
Key(s) ==
  /\ b.open
  /\ Spends("keys")
  /\ builder' = s
  /\ UNCHANGED <<db, page, walk, fresh, ran>>

Keeps == UNCHANGED opened

(* setFreeText: the input of the step is typed into.                        *)
Type(t) ==
  /\ t # b.text
  /\ (b.step = "value") => DraftKind \notin {"date", "dateRange"}
  /\ Key([b EXCEPT !.text = t])
  /\ Keeps

(* pickContentType                                                          *)
PickContentType(c) ==
  /\ b.step = "contentType"
  /\ Key([b EXCEPT !.step = "field", !.text = "", !.draft = NoDraft, !.editing = 0,
                   !.scope = c])
  /\ Keeps

(* pickField, from the fields the dropdown offers; one operator skips the   *)
(* operator step.                                                           *)
Offered ==
  CASE b.step = "contentType" -> UnscopedSystem
    [] b.step = "field"       -> System \cup {f \in Fields(b.scope) :
                                   FieldsOf[b.scope][f] \in FilterableTypes}
    [] OTHER                  -> {}

FirstOperator(f, type) ==
  IF type = "DATETIME" THEN "before" ELSE "eq"

PickField(f) ==
  LET type == FieldType(b.scope, f)
  IN  /\ f \in Offered
      /\ Key([b EXCEPT !.text = "",
                !.draft = [field |-> f, op |-> FirstOperator(f, type), value |-> Null],
                !.step = IF Cardinality(availableOperators(f, type)) <= 1
                         THEN "value" ELSE "operator"])
      /\ Keeps

(* pickOperator: a presence operator commits at once, another leads to the  *)
(* value, prefilled when it is typed.                                       *)
PickOperator(op) ==
  LET type == FieldType(b.scope, b.draft.field)
  IN  /\ b.step = "operator" /\ Drafting
      /\ op \in availableOperators(b.draft.field, type)
      /\ IF op \in NullaryOps
         THEN Key(commitDraftFilter(b, [b.draft EXCEPT !.op = op, !.value = Null]))
         ELSE Key([b EXCEPT !.draft.op = op, !.step = "value",
                            !.text = IF Free(valueInputKind(type, op))
                                     THEN Text(b.draft.value) ELSE ""])
      /\ Keeps

(* setValue and commitValue: a choice, an entry, a day, a range of days or  *)
(* one of the presets.                                                      *)
Choose(v) ==
  /\ b.step = "value" /\ Drafting
  /\ DraftKind \in {"boolean", "select", "entry"}
  /\ v \in Options[b.draft.field]
  /\ Key(commitDraftFilter(b, [b.draft EXCEPT !.value = Scalar(v)]))
  /\ Keeps

PickDay(d) ==
  /\ b.step = "value" /\ Drafting /\ DraftKind = "date"
  /\ Key(commitDraftFilter(b, [b.draft EXCEPT !.value = Scalar(DayValue(d, b.draft.op))]))
  /\ Keeps

PickRange(d, e) ==
  /\ b.step = "value" /\ Drafting /\ DraftKind = "dateRange"
  /\ Key(commitDraftFilter(b, [b.draft EXCEPT !.value = List(RangeValue(d, e))]))
  /\ Keeps

(* commitTypedValue: Tab, the right arrow or the confirm row.               *)
EnterTyped ==
  /\ b.step = "value" /\ Drafting
  /\ Free(DraftKind) /\ b.text # ""
  /\ Key(commitDraftFilter(b, [b.draft EXCEPT !.value = Scalar(b.text)]))
  /\ Keeps

(* toggleValue                                                              *)
Items == IF b.draft.value.list THEN b.draft.value.items ELSE <<>>
ToggleValue(v) ==
  /\ b.step = "value" /\ Drafting
  /\ DraftKind \in {"multiSelect", "multiEntry"}
  /\ v \in Options[b.draft.field]
  /\ Key([b EXCEPT !.draft.value =
            List(IF v \in Range(Items) THEN Kept(Items, {i \in DOMAIN Items : Items[i] # v})
                 ELSE Append(Items, v))])
  /\ Keeps

(* Tab at a list: an empty one is not committed.                            *)
CommitList ==
  /\ b.step = "value" /\ Drafting
  /\ DraftKind \in {"multiSelect", "multiEntry"}
  /\ b.draft.value.list /\ b.draft.value.items # <<>>
  /\ Key(commitDraftFilter(b, b.draft))
  /\ Keeps

(* editFilter: the chip of another filter than the one being edited.        *)
EditFilter(i, segment) ==
  LET f == b.filters[i]
  IN  /\ i \in DOMAIN b.filters /\ i # b.editing
      /\ Known(b.scope, f.field)
      /\ Key([b EXCEPT !.draft = f, !.editing = i,
                !.step = IF segment = "operator" THEN "operator" ELSE "value",
                !.text = IF segment = "value"
                            /\ Free(valueInputKind(FieldType(b.scope, f.field), f.op))
                         THEN Text(f.value) ELSE ""])
      /\ opened' = f

(* editDraft                                                                *)
EditDraft ==
  /\ Drafting /\ b.step # "operator"
  /\ Key([b EXCEPT !.step = "operator", !.text = ""])
  /\ Keeps

(* editFreeText, removeFreeText                                             *)
EditFreeText ==
  /\ b.q # ""
  /\ Key([b EXCEPT !.text = b.q, !.q = "", !.step = HomeStep(b.scope)])
  /\ Keeps

RemoveFreeText ==
  /\ b.q # ""
  /\ Key([b EXCEPT !.q = ""])
  /\ Keeps

(* removeFilter: the cross of a chip.                                       *)
RemoveFilter(i) ==
  /\ i \in DOMAIN b.filters /\ i # b.editing
  /\ Key([b EXCEPT !.filters = RemoveAt(@, i), !.editing = EditingAfter(@, i)])
  /\ Keeps

(* removeContentType, unlocked                                              *)
RemoveContentType ==
  /\ b.scope \in Types /\ ~b.locked
  /\ Key([b EXCEPT !.step = "contentType", !.draft = NoDraft, !.editing = 0,
                   !.text = "", !.scope = AllTypes, !.filters = <<>>])
  /\ Keeps

(* backspace in an empty input: the draft, then the text, then a filter.    *)
Backspace ==
  /\ b.text = ""
  /\ \/ /\ Drafting
        /\ Key([b EXCEPT !.draft = NoDraft, !.editing = 0, !.step = HomeStep(b.scope)])
     \/ /\ ~Drafting /\ b.q # ""
        /\ Key([b EXCEPT !.q = ""])
     \/ /\ ~Drafting /\ b.q = "" /\ b.filters # <<>>
        /\ Key([b EXCEPT !.filters = Front(@)])
  /\ Keeps

----------------------------------------------------------------------------
(* Opening, running and leaving the palette.                                *)

(* Bound: the palette is opened on a page that has settled, before anything *)
(* else is done there, and nothing else happens while it is open.           *)
OpenPalette ==
  /\ ~b.open
  /\ surface = "admin"
  /\ left.keys > 0
  /\ \A ch \in Channels : fetches[ch] = <<>>
  /\ ~resetting /\ ~bulk.busy /\ ticked.ids = {}
  /\ builder' = initState
  /\ UNCHANGED <<db, page, walk, fresh, left, opened, ran>>

ClosePalette ==
  /\ b.open
  /\ builder' = Closed
  /\ UNCHANGED <<db, page, walk, fresh, left, opened, ran>>

(* submit: what is pending at the step is committed before the query runs.  *)
TicksPending ==
  /\ b.step = "value" /\ Drafting /\ DraftKind \in {"multiSelect", "multiEntry"}
  /\ b.draft.value.list /\ b.draft.value.items # <<>>
TextPending == b.step = "value" /\ Drafting /\ Free(DraftKind) /\ b.text # ""
Submitted ==
  CASE TicksPending -> commitDraftFilter(b, b.draft)
    [] TextPending -> commitDraftFilter(b, [b.draft EXCEPT !.value = Scalar(b.text)])
    [] b.step # "value" /\ b.text # "" -> [b EXCEPT !.q = b.text, !.text = ""]
    [] OTHER -> b

(* navigate: the palette closes and the route becomes the compiled query.   *)
Leave(to, q, filters) ==
  /\ builder' = Closed
  /\ Search(to, compileQuery(q, Survives(to, filters)))
  /\ UNCHANGED <<db, surface, opened>>

Submit ==
  /\ b.open
  /\ Spends("keys")
  /\ Leave(Submitted.scope, Submitted.q, Submitted.filters)
  /\ ran' = [scope |-> Submitted.scope, q |-> Submitted.q,
             chips |-> Survives(Submitted.scope, Submitted.filters)]

(* removeContentType on a locked scope: search everything for the same text.*)
Broaden ==
  /\ b.open /\ b.locked
  /\ Spends("keys")
  /\ Leave(AllTypes, b.q, <<>>)
  /\ ran' = [scope |-> AllTypes, q |-> b.q, chips |-> <<>>]

NothingRan == [scope |-> AllTypes, q |-> "", chips |-> <<>>]

(* onRemoveFilter of the results page: the cross of a chip in its bar.      *)
DropChip(i) ==
  LET chips == ChipsOf(url.query)
  IN  /\ Click
      /\ ~b.open
      /\ i \in DOMAIN chips
      /\ Navigate(SearchUrl(compileQuery(url.query.q, RemoveAt(chips, i))), filter)
      /\ ran' = NothingRan
      /\ UNCHANGED <<resetting, shown, bulk, walk, fresh, builder, opened>>

----------------------------------------------------------------------------
SearchInit ==
  /\ Init
  /\ builder = Closed
  /\ opened = NoDraft
  /\ ran = NothingRan

Values == UNION {Options[f] : f \in DOMAIN Options}
KeyPress ==
  \/ \E t \in Typed \cup {""} : Type(t)
  \/ \E c \in Types : PickContentType(c)
  \/ \E f \in Offered : PickField(f)
  \/ \E op \in OperatorsOf(FieldType(b.scope, b.draft.field)) : PickOperator(op)
  \/ \E v \in Values : Choose(v) \/ ToggleValue(v)
  \/ \E d \in PickedDays : PickDay(d)
  \/ \E d, e \in PickedDays : PickRange(d, e)
  \/ \E preset \in Presets : PickRange(PresetDays(preset, Today)[1], PresetDays(preset, Today)[2])
  \/ \E i \in DOMAIN b.filters :
       RemoveFilter(i) \/ \E segment \in {"operator", "value"} : EditFilter(i, segment)
  \/ EnterTyped \/ CommitList \/ EditDraft \/ EditFreeText \/ RemoveFreeText
  \/ RemoveContentType \/ Backspace

SearchNext ==
  \/ /\ ~b.open
     /\ Next
     /\ ran' = IF url' = url THEN ran ELSE NothingRan
     /\ UNCHANGED <<builder, opened>>
  \/ KeyPress
  \/ OpenPalette \/ ClosePalette \/ Submit \/ Broaden
  \/ \E i \in DOMAIN url.query.filters : DropChip(i)

SearchSpec == SearchInit /\ [][SearchNext]_<<vars, builderVars>>

----------------------------------------------------------------------------
Steps == {"contentType", "field", "operator", "value"}

(* The variables keep their types; an edited filter exists, and a value or  *)
(* an operator is asked for a draft only.                                   *)
TypeOK ==
  /\ ListsTypeOK
  /\ b.step \in Steps
  /\ b.editing \in 0..Len(b.filters)
  /\ b.open /\ b.step \in {"operator", "value"} => Drafting
  /\ b.scope \in Types \cup {AllTypes}
  /\ b.locked => b.scope \in Types

(* While a filter is being re-edited, its index still points at it: the     *)
(* chips removed and edited meanwhile do not make the commit replace        *)
(* another filter (machine.ts, removeFilter).                               *)
EditingPointsAtOpened ==
  b.editing # 0 => b.editing \in DOMAIN b.filters /\ b.filters[b.editing] = opened

(* What a chip says: a presence operator has no value, though one can be    *)
(* chosen behind the field segment of its chip.                             *)
Meaning(f) == IF f.op \in NullaryOps THEN [f EXCEPT !.value = Null] ELSE f
Meanings(chips) == [i \in DOMAIN chips |-> Meaning(chips[i])]

(* What is run is what the chips say: on the page the search leads to, the  *)
(* server reads the values of each chip from the URL and its compiler takes *)
(* them (unless a number field was given a text), and the page and a        *)
(* palette opened there show the same chips.                                *)
SearchRunsTheChips ==
  ran # NothingRan =>
    /\ scope = ran.scope /\ url.query.q = ran.q
    /\ Meanings(ChipsOf(url.query)) = Meanings(ran.chips)
    /\ \A i \in DOMAIN ran.chips :
         LET t == Parsed(url.query.filters[i])
         IN  /\ t.values = Meaning(ran.chips[i]).value.items
             /\ \/ compileSearchFilter(scope, t) # {}
                \/ FieldType(scope, t.field) = "NUMBER" /\ t.values[1] \notin Numbers

(* What a search finds: under a session the entries on whose working        *)
(* version every chip is true, each once; under a key, and through GraphQL, *)
(* those published with data on which every chip but the one on the status  *)
(* is true, whatever their drafts hold; and a cell of the results is the cell    *)
(* the list shows of that version.  It is read when the search is answered. *)
SeenAs(session, e) ==
  IF session THEN DOMAIN e.versions \cap IndexableStatuses \cap {Working(e)}
  ELSE DOMAIN e.versions \cap {"PUBLISHED"}

Described(session, e, chips) ==
  \E status \in SeenAs(session, e) :
    /\ scope \in Types => e.type = scope
    /\ \A f \in chips : \/ ~session /\ f.field = "$status"
                        \/ Says(FieldType(scope, f.field), f.op, Meaning(f).value.items,
                                Reads(e, status, f.field))

Indexes == UNION {DocumentsOf(e) : e \in Samples}

CellsAgree ==
  \A e \in Samples : \A doc \in DocumentsOf(e) :
    LET columns == filterColumnableColumns(e.type, Fields(e.type))
        data    == e.versions[doc.status].data
    IN  hydrateRelationColumns(e.type, projectColumns(doc, columns))
          = hydrateRelationColumns(e.type, projectEntryDataColumns(e.type, data, columns))

AnsweredBy(session) ==
  LET filters == Mapped(Parsed, url.query.filters)
  IN  {search(session, scope, url.query.q, filters, Indexes)}
        \cup (IF session THEN {} ELSE {searchEntries(scope, filters, Indexes)})

SearchFindsWhatTheChipsSay ==
  ran # NothingRan /\ (\E i \in DOMAIN fetches.search : ~fetches.search[i].read) =>
    /\ CellsAgree
    /\ \A session \in BOOLEAN : \A found \in AnsweredBy(session) :
         found.answer = 200 =>
           /\ {doc.entryId : doc \in found.hits}
                = {e.id : e \in {e \in Samples : Described(session, e, Range(ran.chips))}}
           /\ Cardinality(found.hits) = Cardinality({doc.entryId : doc \in found.hits})

(* The palette's state is regular, its chips are edited in place, what runs *)
(* is what they say, and what is found is what they describe (machine.ts,   *)
(* compile.ts, compileSearchFilter.ts, searchDocument.ts).                  *)
ChipsMeanWhatTheySay ==
  TypeOK /\ EditingPointsAtOpened /\ SearchRunsTheChips /\ SearchFindsWhatTheChipsSay
=============================================================================
