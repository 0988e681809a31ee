----------------------------- MODULE SchemaApply -----------------------------
(***************************************************************************)
(* Content types and their fields, and everything that changes them: the   *)
(* handlers of /api/content-types (each reads and checks before the         *)
(* transaction it writes in), and applySchema, which plans a bundle against *)
(* a snapshot of the database, plans again against a second snapshot,       *)
(* compares the two plans and executes the first.  Callers of applySchema   *)
(* are POST /api/schema/apply (the CLI, which retries once when the schema  *)
(* changed under it) and the container's boot.                              *)
(*                                                                         *)
(* A row's id is what it was created as and the number of the transaction   *)
(* that created it, so ids are never reused.  Names of fields, descriptions *)
(* and the wording of errors are left out; a field's options are a set: the *)
(* choices of a SELECT, the targets of a RELATION or a RICHTEXT (type ids   *)
(* in the database, type identifiers in a bundle).                          *)
(***************************************************************************)
EXTENDS Integers, Sequences, FiniteSets

CONSTANTS
  Idents,        \* identifiers of content types
  FieldIdents,   \* identifiers of fields
  Names,         \* names of content types, unique in the database
  Choices,       \* choices of SELECT fields, and the text values of entries
  NoValue,       \* a field without a value, and a bundle element without an id
  InitTypes, InitFields, InitEntries,   \* what the system starts from
  Bundles,       \* the bundle files at hand
  NewTypes,      \* bodies of POST /api/content-types
  NewFields,     \* bodies of POST .../fields
  FieldEdits,    \* bodies of PUT .../fields/[fieldId]: attribute -> new value
  Appliers,      \* applies in progress at once, the CLI's or a boot's
  BootDir,       \* the bundle files of BOJECT_SCHEMA_DIR, in order
  ReadOnly,      \* BOJECT_SCHEMA_READONLY
  Handlers,      \* concurrent requests to the content-type handlers
  MaxTx          \* bound: transactions that write

ASSUME SchemaConstants ==
  /\ IsFiniteSet(Idents) /\ IsFiniteSet(FieldIdents)
  /\ NoValue \notin Idents \cup FieldIdents \cup Choices
  /\ ReadOnly \in BOOLEAN /\ MaxTx \in Nat \ {0}
  /\ (Choices \cup Idents \cup {NoValue}) \cap (Idents \X (0 .. MaxTx)) = {}

VARIABLES
  types,      \* rows of ContentType
  fields,     \* rows of ContentTypeField
  entries,    \* rows of ContentEntry, each with the data of its live version
  tx,         \* transactions that wrote so far
  announced,  \* types for which the last of them enqueued schema_changed
  req,        \* per handler: the write it is about to make, or NoValue
  run         \* per applier: how far the apply has got that it works on

vars == <<types, fields, entries, tx, announced, req, run>>

Kinds == {"ENTRY_TITLE", "SLUG", "TEXT", "SELECT", "RELATION", "RICHTEXT"}

TypeId(t) == <<t.ident, t.born>>
FieldId(f) == <<f.type, f.ident, f.born>>
TypeIds == Idents \X (0 .. MaxTx)
FieldsOf(id) == {f \in fields : f.type = id}

\* What the tables hold.
DataValues == Choices \cup TypeIds \cup {NoValue}
                \cup ({"ENTRY_TITLE", "SLUG"} \X (0 .. MaxTx))

ContentType == [ident : Idents, born : 0 .. MaxTx, name : Names]
ContentTypeField == [type : TypeIds, ident : FieldIdents, born : 0 .. MaxTx,
                     kind : Kinds, required : BOOLEAN, unique : BOOLEAN, order : Nat,
                     opts : SUBSET (Choices \cup Idents \cup TypeIds)]
ContentEntry == [type : TypeIds, born : 0 .. MaxTx, live : BOOLEAN,
                 data : [FieldIdents -> DataValues]]

\* A field and a type as a bundle or the body of a request describe them.
IsField(bf) ==
  /\ bf.ident \in FieldIdents /\ bf.kind \in Kinds /\ bf.order \in Nat
  /\ bf.required \in BOOLEAN /\ bf.unique \in BOOLEAN \cup {NoValue}
  /\ bf.opts \subseteq (IF bf.kind \in {"RELATION", "RICHTEXT"} THEN Idents ELSE Choices)

IsType(bt) ==
  /\ bt.ident \in Idents /\ bt.name \in Names
  /\ IsFiniteSet(bt.fields) /\ \A bf \in bt.fields : IsField(bf)

Files == Bundles \cup {BootDir[i] : i \in DOMAIN BootDir}

ASSUME FilesAreBundles ==
  /\ BootDir # << >> /\ DOMAIN BootDir = 1 .. Len(BootDir) /\ Len(BootDir) \in Nat
  /\ \A b \in Files : IsFiniteSet(b) /\ \A bt \in b : IsType(bt)

\* Ids in files are of rows the system started with: nobody can foretell an id.
ASSUME IdsInFilesAreOld ==
  /\ NoValue \notin TypeIds \X FieldIdents \X (0 .. MaxTx)
  /\ \A b \in Files : \A bt \in b :
       /\ bt.id = NoValue \/ bt.id \in Idents \X {0}
       /\ \A bf \in bt.fields : bf.id = NoValue \/ bf.id \in TypeIds \X FieldIdents \X {0}

\* A request that changes the kind of a field brings no options of either kind.
ASSUME BodiesAreValid ==
  /\ \A body \in NewTypes :
       IsType(body) /\ \A bf \in body.fields : bf.unique \in BOOLEAN
  /\ \A body \in NewFields : IsField(body) /\ body.unique \in BOOLEAN
  /\ \A edit \in FieldEdits :
       /\ DOMAIN edit \subseteq {"kind", "required", "unique", "opts"}
       /\ "kind" \in DOMAIN edit => edit["kind"] \in Kinds /\ "opts" \notin DOMAIN edit
       /\ \A k \in DOMAIN edit \cap {"required", "unique"} : edit[k] \in BOOLEAN
       /\ "opts" \in DOMAIN edit => edit["opts"] \subseteq Choices \cup Idents

\* The system starts from tables that respect the constraints of the database.
ASSUME InitialTables ==
  /\ InitTypes \subseteq ContentType /\ IsFiniteSet(InitTypes)
  /\ InitFields \subseteq ContentTypeField /\ IsFiniteSet(InitFields)
  /\ InitEntries \subseteq ContentEntry /\ IsFiniteSet(InitEntries)
  /\ \A t, u \in InitTypes : t.ident = u.ident => t = u
  /\ \A f, g \in InitFields : f.type = g.type /\ f.ident = g.ident => f = g
  /\ \A r \in InitFields \cup InitEntries : \E t \in InitTypes : TypeId(t) = r.type
  /\ \A r \in InitTypes \cup InitFields : r.born = 0
  /\ \A f \in InitFields : f.opts \cap TypeIds \subseteq Idents \X {0}

\* Mutant: the stored ids stay ids.
SnapOptsM(f, ts) == f.opts

\* A snapshot's view of a field's options: the targets of a relation become
\* identifiers, those of a type that is gone are dropped; other kinds keep
\* what the row holds.
SnapOpts(f, ts) ==
  IF f.kind = "RELATION"
  THEN {t.ident : t \in {u \in ts : TypeId(u) \in f.opts}}
  ELSE f.opts

\* Entries of a type whose live version has a value for the field.
Uses(s, t, f) ==
  {e \in s.entries : e.type = TypeId(t) /\ e.live /\ e.data[f.ident] # NoValue}

CountOf(s, t) ==
  IF TypeId(t) \in DOMAIN s.counts THEN s.counts[TypeId(t)] ELSE 0

Counts(es) ==
  [id \in {e.type : e \in es} |-> Cardinality({e \in es : e.type = id})]

\* A bundle may leave `unique` out.
EffectiveUnique(bf) == bf.kind \in {"ENTRY_TITLE", "SLUG"} \/ bf.unique = TRUE

-----------------------------------------------------------------------------
(* Validation of a bundle.                                                 *)

ValidField(bf) ==
  /\ bf.kind = "SELECT" => bf.opts # {}
  /\ bf.kind = "RELATION" => bf.opts # {}

ValidBundle(b) ==
  \A bt \in b :
    /\ Cardinality({bf \in bt.fields : bf.kind = "ENTRY_TITLE"}) = 1
    /\ Cardinality({bf \in bt.fields : bf.kind = "SLUG"}) <= 1
    /\ \A bf \in bt.fields : ValidField(bf)

-----------------------------------------------------------------------------
(* The planner.                                                            *)

RenamingTypes(b, s) ==
  {bt \in b : \E t \in s.types : bt.id = TypeId(t) /\ bt.ident # t.ident}

TypePairs(b, s) ==
  {p \in (b \ RenamingTypes(b, s)) \X s.types : p[1].ident = p[2].ident}

UnwantedTypes(b, s) ==
  {t \in s.types : /\ \A bt \in b : bt.ident # t.ident
                   /\ \A bt \in RenamingTypes(b, s) : bt.id # TypeId(t)}

SnapFields(s, t) == {f \in s.fields : f.type = TypeId(t)}

RenamingFields(bt, t, s) ==
  {bf \in bt.fields : \E f \in s.fields :
     bf.id = FieldId(f) /\ f.type = TypeId(t) /\ bf.ident # f.ident}

\* Pairs of a bundle field and the row it is the wanted form of.
FieldPairs(b, s) ==
  UNION {{<<p[2], q[1], q[2]>> :
            q \in {q \in (p[1].fields \ RenamingFields(p[1], p[2], s))
                           \X SnapFields(s, p[2]) : q[1].ident = q[2].ident}}
         : p \in TypePairs(b, s)}

NewFieldPairs(b, s) ==
  UNION {LET rows == SnapFields(s, p[2])
             renaming == RenamingFields(p[1], p[2], s)
         IN  {<<p[2], bf>> : bf \in {bf \in p[1].fields \ renaming :
                                       \A f \in rows : f.ident # bf.ident}}
         : p \in TypePairs(b, s)}

UnwantedFields(b, s) ==
  UNION {LET renaming == RenamingFields(p[1], p[2], s)
         IN  {<<p[2], f>> : f \in {f \in SnapFields(s, p[2]) :
                                     /\ \A bf \in p[1].fields : bf.ident # f.ident
                                     /\ \A bf \in renaming : bf.id # FieldId(f)}}
         : p \in TypePairs(b, s)}

RemovedInUse(s, t, bf, f) ==
  LET gone == SnapOpts(f, s.types) \ bf.opts
  IN  CASE bf.kind = "SELECT" ->
             \E e \in Uses(s, t, f) : e.data[f.ident] \in gone
        [] bf.kind = "RELATION" ->
             \E e \in Uses(s, t, f), u \in s.types :
               e.data[f.ident] = TypeId(u) /\ u.ident \in gone
        [] OTHER -> FALSE

\* Mutant: the subtraction the wrong way round.
MissingValuesM(s, t, bf, f) ==
  /\ bf.required /\ ~f.required
  /\ Cardinality(Uses(s, t, f)) > CountOf(s, t)

MissingValues(s, t, bf, f) ==
  /\ bf.required /\ ~f.required
  /\ CountOf(s, t) > Cardinality(Uses(s, t, f))

DuplicateValues(s, t, bf, f) ==
  /\ EffectiveUnique(bf) /\ ~f.unique
  /\ bf.kind = "TEXT"
  /\ \E d, e \in Uses(s, t, f) : d # e /\ d.data[f.ident] = e.data[f.ident]

\* The sparse change of one field: the attributes that differ, and their new
\* values.
FieldChanges(s, bf, f) ==
  LET new == [required |-> bf.required, unique |-> EffectiveUnique(bf),
              order |-> bf.order, opts |-> bf.opts]
      old == [required |-> f.required, unique |-> f.unique,
              order |-> f.order, opts |-> SnapOpts(f, s.types)]
  IN  [k \in {k \in DOMAIN new : new[k] # old[k]} |-> new[k]]

Blockers(b, s, allow) ==
  LET renaming == RenamingTypes(b, s)
      unwanted == UnwantedTypes(b, s)
      pairs == FieldPairs(b, s)
      same == {p \in pairs : p[2].kind = p[3].kind}
      name(p) == <<p[1].ident, p[2].ident>>
  IN  {<<"CONTENT_TYPE_IDENTIFIER_CHANGE", bt.ident>> : bt \in renaming}
      \cup {<<"CONTENT_TYPE_REMOVAL_WITH_ENTRIES", t.ident>> :
              t \in {t \in unwanted : CountOf(s, t) > 0}}
      \cup {<<"CONTENT_TYPE_REMOVAL_NEEDS_FLAG", t.ident>> :
              t \in {t \in unwanted : CountOf(s, t) = 0 /\ ~allow}}
      \cup (UNION {{<<"FIELD_IDENTIFIER_CHANGE", p[1].ident, bf.ident>> :
                      bf \in RenamingFields(p[1], p[2], s)} : p \in TypePairs(b, s)})
      \cup {<<"FIELD_REMOVAL_NEEDS_FLAG", name(p)>> :
              p \in {p \in UnwantedFields(b, s) : ~allow}}
      \cup {<<"FIELD_TYPE_CHANGE", name(p)>> : p \in pairs \ same}
      \cup {<<"OPTIONAL_TO_REQUIRED_HAS_NULLS", name(p)>> :
              p \in {p \in same : MissingValues(s, p[1], p[2], p[3])}}
      \cup {<<"UNIQUE_CONFLICT", name(p)>> :
              p \in {p \in same : DuplicateValues(s, p[1], p[2], p[3])}}
      \cup {<<"REMOVED_IN_USE", name(p)>> :
              p \in {p \in same : RemovedInUse(s, p[1], p[2], p[3])}}
      \cup (UNION {{<<"RELATION_TARGET_NOT_FOUND", bt.ident, bf.ident>> :
                      bf \in {bf \in bt.fields : bf.kind = "RELATION"
                                /\ ~ (bf.opts \subseteq {u.ident : u \in b \cup s.types})}}
                    : bt \in b})

\* What the operator is warned of.  The counts are part of the messages, so a
\* plan made before an entry was saved differs from the plan made after.
Warnings(b, s, allow) ==
  {<<"NEW_REQUIRED_FIELD_WITH_ENTRIES", p[1].ident, p[2].ident, CountOf(s, p[1])>> :
     p \in {p \in NewFieldPairs(b, s) : p[2].required /\ CountOf(s, p[1]) > 0}}
  \cup {<<"FIELD_REMOVAL_DATA_LOSS", p[1].ident, p[2].ident,
          Cardinality(Uses(s, p[1], p[2]))>> :
          p \in {p \in UnwantedFields(b, s) : allow /\ Uses(s, p[1], p[2]) # {}}}

PlanSchema(b, s, allow) ==
  [createTypes |-> {bt \in b \ RenamingTypes(b, s) :
                      \A t \in s.types : t.ident # bt.ident},
   updateTypes |-> {<<TypeId(p[2]), p[1].name>> :
                      p \in {p \in TypePairs(b, s) : p[1].name # p[2].name}},
   removeTypes |-> {TypeId(t) : t \in {t \in UnwantedTypes(b, s) :
                                         CountOf(s, t) = 0 /\ allow}},
   createFields |-> {<<TypeId(p[1]), p[2]>> : p \in NewFieldPairs(b, s)},
   updateFields |-> {<<FieldId(p[3]), p[2].kind, FieldChanges(s, p[2], p[3])>> :
                       p \in {p \in FieldPairs(b, s) :
                                /\ p[2].kind = p[3].kind
                                /\ DOMAIN FieldChanges(s, p[2], p[3]) # {}}},
   removeFields |-> {<<FieldId(p[2]), Cardinality(Uses(s, p[1], p[2]))>> :
                       p \in {p \in UnwantedFields(b, s) : allow}},
   warnings |-> Warnings(b, s, allow),
   blockers |-> Blockers(b, s, allow)]

IsPlanNonEmpty(plan) ==
  \/ plan.createTypes # {} \/ plan.updateTypes # {} \/ plan.removeTypes # {}
  \/ plan.createFields # {} \/ plan.updateFields # {} \/ plan.removeFields # {}

\* Lists are sorted and keys ordered before the plans are compared as text.
PlansEqual(p, q) == p = q

EmptySnapshot == [types |-> {}, fields |-> {}, entries |-> {}, counts |-> << >>]

\* The copies the command line carries: of the check of a bundle's shape, and
\* of the planner, which it runs against an empty snapshot, where every type is
\* new and only a target nobody declares can block.
VendoredValidBundle(b) ==
  /\ \A bt \in b : \E bf \in bt.fields :
       bf.kind = "ENTRY_TITLE" /\ \A other \in bt.fields \ {bf} : other.kind # "ENTRY_TITLE"
  /\ \A bt \in b : \A bf, other \in {f \in bt.fields : f.kind = "SLUG"} : bf = other
  /\ \A bt \in b : \A bf \in bt.fields : bf.kind \in {"SELECT", "RELATION"} => bf.opts # {}

VendoredPlanOfNothing(b) ==
  [createTypes |-> b,
   blockers |-> {<<p[1].ident, p[2].ident>> : p \in
                   {p \in b \X UNION {bt.fields : bt \in b} :
                      /\ p[2] \in p[1].fields /\ p[2].kind = "RELATION"
                      /\ \E target \in p[2].opts : \A u \in b : u.ident # target}}]

\* `boject schema validate`: the shape, then the blockers.
ValidateSchemaBundle(b) ==
  VendoredValidBundle(b) /\ VendoredPlanOfNothing(b).blockers = {}

\* What the two snapshots of an apply would hold if nothing changed meanwhile.
Snapshot == [types |-> types, fields |-> fields, entries |-> entries,
             counts |-> Counts(entries)]

\* GET /api/schema/export (`boject schema pull`): the portable form has
\* identifiers only, the other also carries the ids.
ExportOpts(f) ==
  IF f.kind \in {"RELATION", "RICHTEXT"}
  THEN {t.ident : t \in {u \in types : TypeId(u) \in f.opts}}
       \cup {id \in f.opts : \A u \in types : TypeId(u) # id}
  ELSE f.opts

ExportSchema(portable) ==
  {[id |-> IF portable THEN NoValue ELSE TypeId(t),
    ident |-> t.ident, name |-> t.name,
    fields |-> {[id |-> IF portable THEN NoValue ELSE FieldId(f),
                 ident |-> f.ident, kind |-> f.kind, required |-> f.required,
                 unique |-> f.unique, order |-> f.order, opts |-> ExportOpts(f)]
                : f \in FieldsOf(TypeId(t))}]
   : t \in types}

\* `boject schema check`: the identifiers of types and of their fields that
\* only one of the two bundles has.
DiffBundles(b, r) ==
  LET idents(c) == {bt.ident : bt \in c}
      members(c) == UNION {{<<bt.ident, bf.ident>> : bf \in bt.fields} :
                             bt \in {bt \in c : bt.ident \in idents(b) \cap idents(r)}}
      apart(S, T) == (S \ T) \cup (T \ S)
  IN  apart(idents(b), idents(r)) \cup apart(members(b), members(r))

SchemaCheckPasses(b) == DiffBundles(b, ExportSchema(TRUE)) = {}

-----------------------------------------------------------------------------
(* Entries, as far as the planner can tell them apart.                     *)

ValidValue(f, v) ==
  CASE f.kind = "SELECT" -> v \in Choices /\ (f.opts = {} \/ v \in f.opts)
    [] f.kind = "TEXT" -> /\ v \in Choices
                          /\ f.unique => \A e \in entries :
                               e.type = f.type => e.data[f.ident] # v
    [] f.kind = "RELATION" -> /\ f.opts = {} \/ v \in f.opts
                              /\ \E e \in entries : e.type = v
    [] f.kind \in {"ENTRY_TITLE", "SLUG"} -> v = <<f.kind, tx + 1>>
    [] OTHER -> FALSE

\* Data for a new entry of the type: every field that must have a value has a
\* valid one, every other field has none or a valid one.
ValidData(id) ==
  LET own == FieldsOf(id)
      values == Choices \cup TypeIds \cup ({"ENTRY_TITLE", "SLUG"} \X {tx + 1})
      may == [i \in FieldIdents |->
                {v \in values : \E f \in own : f.ident = i /\ ValidValue(f, v)}]
      must == {f.ident : f \in {f \in own : f.required \/ f.kind \in {"ENTRY_TITLE", "SLUG"}}}
  IN  {d \in [FieldIdents -> (UNION {may[i] : i \in FieldIdents}) \cup {NoValue}] :
         \A i \in FieldIdents :
           d[i] \in may[i] \/ (d[i] = NoValue /\ i \notin must)}

\* A client sends what it means to write while the bound leaves room for it.
Room == tx < MaxTx

Write ==
  /\ Room
  /\ tx' = tx + 1

CreateEntry ==
  /\ Write
  /\ \E t \in types : \E d \in ValidData(TypeId(t)) :
       entries' = entries \cup {[type |-> TypeId(t), born |-> tx + 1,
                                 live |-> TRUE, data |-> d]}
  /\ announced' = {}
  /\ UNCHANGED <<types, fields, req, run>>

\* An archived entry keeps its row; it has no live version any more.
ArchiveEntry ==
  /\ Write
  /\ \E e \in entries : /\ e.live
                        /\ entries' = (entries \ {e}) \cup {[e EXCEPT !.live = FALSE]}
  /\ announced' = {}
  /\ UNCHANGED <<types, fields, req, run>>

DeleteEntry ==
  /\ Write
  /\ \E e \in entries : entries' = entries \ {e}
  /\ announced' = {}
  /\ UNCHANGED <<types, fields, req, run>>

-----------------------------------------------------------------------------
(* The content-type handlers.  What a handler reads before it writes is a  *)
(* step of its own: Ask... checks and keeps the write it decided on, and    *)
(* Commit makes it, or fails on a constraint of the database.              *)

IdsFor(idents) == {TypeId(t) : t \in {u \in types : u.ident \in idents}}

\* Identifiers of a request body resolved by the client that sends it.
StoredBody(kind, opts) ==
  IF kind \in {"RELATION", "RICHTEXT"} THEN IdsFor(opts) ELSE opts

ResolveUnique(kind, wanted) == kind \in {"ENTRY_TITLE", "SLUG"} \/ wanted
UniqueAllowed(kind) == kind \in {"ENTRY_TITLE", "SLUG", "TEXT"}

ValidNewType(body) ==
  /\ Cardinality({bf \in body.fields : bf.kind = "ENTRY_TITLE"}) = 1
  /\ Cardinality({bf \in body.fields : bf.kind = "SLUG"}) <= 1
  /\ \A bf \in body.fields :
       /\ bf.kind = "RELATION" => bf.opts # {}
       /\ bf.unique => UniqueAllowed(bf.kind)

\* The unique index over the identifiers of types, and of the fields of a type.
NoRepeats(rows) == \A f, g \in rows : f.ident = g.ident => f = g

\* Every handler that changes the schema begins with this guard.
SchemaEditable == ~ReadOnly

\* POST /api/content-types: checks its body only, and writes in one statement.
CreateType ==
  /\ SchemaEditable
  /\ Write
  /\ \E body \in NewTypes :
       /\ ValidNewType(body)
       /\ \A t \in types : t.ident # body.ident /\ t.name # body.name
       /\ NoRepeats(body.fields)
       /\ types' = types \cup {[ident |-> body.ident, born |-> tx + 1,
                                name |-> body.name]}
       /\ fields' = fields \cup
            {[type |-> <<body.ident, tx + 1>>, ident |-> bf.ident,
              born |-> tx + 1, kind |-> bf.kind, required |-> bf.required,
              unique |-> ResolveUnique(bf.kind, bf.unique), order |-> bf.order,
              opts |-> StoredBody(bf.kind, bf.opts)] : bf \in body.fields}
  /\ announced' = {}
  /\ UNCHANGED <<entries, req, run>>

MayAsk(h) == SchemaEditable /\ req[h] = NoValue /\ Room

Ask(h, write) ==
  /\ req' = [req EXCEPT ![h] = write]
  /\ UNCHANGED <<types, fields, entries, tx, announced, run>>

\* PUT /api/content-types/[id]
AskRename(h) ==
  /\ MayAsk(h)
  /\ \E t \in types, n \in Names :
       Ask(h, [op |-> "rename", id |-> TypeId(t), name |-> n])

\* DELETE /api/content-types/[id]: counts the entries, then deletes.
AskDeleteType(h) ==
  /\ MayAsk(h)
  /\ \E t \in types :
       /\ \A e \in entries : e.type # TypeId(t)
       /\ Ask(h, [op |-> "deleteType", id |-> TypeId(t)])

HasKind(id, kind) == \E f \in FieldsOf(id) : f.kind = kind
NextOrder(id) ==
  IF FieldsOf(id) = {} THEN 0
  ELSE 1 + CHOOSE n \in {f.order : f \in FieldsOf(id)} :
             \A f \in FieldsOf(id) : f.order <= n

\* POST .../fields
AskField(h) ==
  /\ MayAsk(h)
  /\ \E t \in types, body \in NewFields :
       LET id == TypeId(t)
       IN  /\ body.kind = "RELATION" => body.opts # {}
           /\ body.kind \in {"RELATION", "RICHTEXT"} =>
                body.opts \subseteq {u.ident : u \in types}
           /\ body.kind \in {"ENTRY_TITLE", "SLUG"} => ~HasKind(id, body.kind)
           /\ body.unique => UniqueAllowed(body.kind)
           /\ Ask(h, [op |-> "field", id |-> id,
                      body |-> [ident |-> body.ident, kind |-> body.kind,
                                required |-> body.required,
                                unique |-> ResolveUnique(body.kind, body.unique),
                                order |-> NextOrder(id),
                                opts |-> StoredBody(body.kind, body.opts)]])

\* PUT .../fields/[fieldId]: the stored options of a field whose type changes
\* are the other kind's, which reads as none.  The search for duplicates looks
\* at the latest version of every entry, archived ones too.
AskEdit(h) ==
  /\ MayAsk(h)
  /\ \E f \in fields, edit \in FieldEdits :
       LET now(k) == IF k \in DOMAIN edit THEN edit[k] ELSE f[k]
           kind == now("kind")
           opts == IF "opts" \in DOMAIN edit THEN StoredBody(f.kind, edit["opts"]) ELSE {}
           written == DOMAIN edit \cup (IF kind = f.kind THEN {} ELSE {"opts"})
       IN  /\ "opts" \in DOMAIN edit /\ f.kind = "RELATION" =>
                edit["opts"] # {} /\ edit["opts"] \subseteq {u.ident : u \in types}
           /\ "unique" \in DOMAIN edit =>
                IF edit["unique"]
                THEN /\ UniqueAllowed(f.kind)
                     /\ ~f.unique /\ f.kind = "TEXT" =>
                          \A d, e \in {e \in entries : e.type = f.type
                                                 /\ e.data[f.ident] # NoValue} :
                            d.data[f.ident] = e.data[f.ident] => d = e
                ELSE f.kind \notin {"ENTRY_TITLE", "SLUG"}
           /\ "kind" \in DOMAIN edit => \A e \in entries : e.type # f.type
           /\ Ask(h, [op |-> "edit", id |-> FieldId(f),
                      changes |-> [k \in written |->
                                     IF k = "opts" THEN opts ELSE edit[k]]])

\* DELETE .../fields/[fieldId]: counts the ENTRY_TITLE fields, then deletes.
AskDeleteField(h) ==
  /\ MayAsk(h)
  /\ \E f \in fields :
       /\ f.kind = "ENTRY_TITLE" =>
            Cardinality({g \in FieldsOf(f.type) : g.kind = "ENTRY_TITLE"}) > 1
       /\ Ask(h, [op |-> "deleteField", id |-> FieldId(f)])

\* PUT .../fields/reorder, here for two fields that change places.
AskReorder(h) ==
  /\ MayAsk(h)
  /\ \E f, g \in fields :
       /\ f # g /\ f.type = g.type
       /\ Ask(h, [op |-> "reorder", id |-> f.type,
                  order |-> [i \in {FieldId(f), FieldId(g)} |->
                               IF i = FieldId(f) THEN g.order ELSE f.order]])

Rename(id, name) ==
  /\ \E t \in types : TypeId(t) = id
  /\ \A t \in types : t.name = name => TypeId(t) = id
  /\ types' = {IF TypeId(t) = id THEN [t EXCEPT !.name = name] ELSE t : t \in types}
  /\ announced' = {}
  /\ UNCHANGED fields

\* Mutant: entries without a foreign key.
DeleteTypeM(id) ==
  /\ \E t \in types : TypeId(t) = id
  /\ types' = {t \in types : TypeId(t) # id}
  /\ fields' = fields \ FieldsOf(id)
  /\ announced' = {}

\* The foreign key of the entries refuses; the fields go with their type.
DeleteType(id) ==
  /\ \E t \in types : TypeId(t) = id
  /\ \A e \in entries : e.type # id
  /\ types' = {t \in types : TypeId(t) # id}
  /\ fields' = fields \ FieldsOf(id)
  /\ announced' = {}

AddField(id, body) ==
  /\ \E t \in types : TypeId(t) = id
  /\ \A f \in FieldsOf(id) : f.ident # body.ident
  /\ fields' = fields \cup
       {[type |-> id, ident |-> body.ident, born |-> tx + 1, kind |-> body.kind,
         required |-> body.required, unique |-> body.unique,
         order |-> body.order, opts |-> body.opts]}
  /\ announced' = {id}
  /\ UNCHANGED types

Changed(f, changes) ==
  [k \in DOMAIN f |-> IF k \in DOMAIN changes THEN changes[k] ELSE f[k]]

EditField(id, changes) ==
  /\ \E f \in fields : FieldId(f) = id
  /\ fields' = {IF FieldId(f) = id THEN Changed(f, changes) ELSE f : f \in fields}
  /\ announced' = {id[1]}
  /\ UNCHANGED types

DeleteField(id) ==
  /\ \E f \in fields : FieldId(f) = id
  /\ fields' = {f \in fields : FieldId(f) # id}
  /\ announced' = {id[1]}
  /\ UNCHANGED types

Reorder(id, order) ==
  /\ DOMAIN order \subseteq {FieldId(f) : f \in fields}
  /\ fields' = {IF FieldId(f) \in DOMAIN order
                THEN [f EXCEPT !.order = order[FieldId(f)]] ELSE f : f \in fields}
  /\ announced' = {id}
  /\ UNCHANGED types

Commit(h) ==
  /\ req[h] # NoValue
  /\ Write
  /\ LET w == req[h]
     IN  CASE w.op = "rename" -> Rename(w.id, w.name)
           [] w.op = "deleteType" -> DeleteType(w.id)
           [] w.op = "field" -> AddField(w.id, w.body)
           [] w.op = "edit" -> EditField(w.id, w.changes)
           [] w.op = "deleteField" -> DeleteField(w.id)
           [] w.op = "reorder" -> Reorder(w.id, w.order)
  /\ req' = [req EXCEPT ![h] = NoValue]
  /\ UNCHANGED <<entries, run>>

\* A 404, 409 or 400 from the constraint, or a database that went away.
CommitFails(h) ==
  /\ req[h] # NoValue
  /\ req' = [req EXCEPT ![h] = NoValue]
  /\ UNCHANGED <<types, fields, entries, tx, announced, run>>

-----------------------------------------------------------------------------
(* applySchema.                                                            *)

\* `done` counts the files a booting container has applied so far.
Idle(done) == [pc |-> "idle", done |-> done]

Finish(p, ok) ==
  run' = [run EXCEPT ![p] = Idle(IF ok /\ @.boot THEN (@.done + 1) % Len(BootDir)
                                 ELSE 0)]

Begin(p, b, allow, boot) ==
  run' = [run EXCEPT ![p] =
            IF ValidBundle(b)
            THEN [pc |-> "types", boot |-> boot, done |-> @.done, retried |-> FALSE,
                  bundle |-> b, allow |-> allow, snap |-> EmptySnapshot,
                  plan |-> NoValue, known |-> {}, since |-> 0]
            ELSE Idle(0)]

\* `boject schema apply`: one of the files at hand.
ClientApplies(p) ==
  /\ SchemaEditable
  /\ run[p] = Idle(0)
  /\ \E b \in Bundles, allow \in BOOLEAN : Begin(p, b, allow, FALSE)
  /\ UNCHANGED <<types, fields, entries, tx, announced, req>>

\* The container applies the files of its directory in order and stops at the
\* first that fails; started again, it begins with the first file.
BootApplies(p) ==
  /\ run[p].pc = "idle"
  /\ \E allow \in BOOLEAN : Begin(p, BootDir[run[p].done + 1], allow, TRUE)
  /\ UNCHANGED <<types, fields, entries, tx, announced, req>>

\* A snapshot is three queries, each of which sees what is committed by then.
ReadTypes(p) ==
  /\ run[p].pc \in {"types", "types2"}
  /\ run' = [run EXCEPT
       ![p].pc = IF @ = "types" THEN "counts" ELSE "counts2",
       ![p].snap = [EmptySnapshot EXCEPT !.types = types, !.fields = fields],
       ![p].since = tx]
  /\ UNCHANGED <<types, fields, entries, tx, announced, req>>

ReadCounts(p) ==
  /\ run[p].pc \in {"counts", "counts2"}
  /\ run' = [run EXCEPT ![p].pc = IF @ = "counts" THEN "entries" ELSE "entries2",
                        ![p].snap.counts = Counts(entries)]
  /\ UNCHANGED <<types, fields, entries, tx, announced, req>>

Planned(p) ==
  PlanSchema(run[p].bundle, [run[p].snap EXCEPT !.entries = entries], run[p].allow)

\* The third query, and the plan.  A blocker ends the apply, and so does a plan
\* with nothing to do.
Plan(p) ==
  /\ run[p].pc = "entries"
  /\ \E plan \in {Planned(p)} :
       IF plan.blockers # {} THEN Finish(p, FALSE)
       ELSE IF ~IsPlanNonEmpty(plan) THEN Finish(p, TRUE)
       ELSE run' = [run EXCEPT ![p].pc = "types2", ![p].plan = plan,
                               ![p].known = run[p].snap.types,
                               ![p].snap = EmptySnapshot]
  /\ UNCHANGED <<types, fields, entries, tx, announced, req>>

\* The second plan must equal the first.  The CLI sends the request a second
\* time when it does not; the boot and a second refusal give up.
Replan(p) ==
  /\ run[p].pc = "entries2"
  /\ IF PlansEqual(run[p].plan, Planned(p))
     THEN run' = [run EXCEPT ![p].pc = "execute", ![p].snap = EmptySnapshot]
     ELSE IF ~run[p].boot /\ ~run[p].retried
     THEN run' = [run EXCEPT ![p].pc = "types", ![p].retried = TRUE,
                             ![p].snap = EmptySnapshot, ![p].plan = NoValue,
                             ![p].known = {}]
     ELSE Finish(p, FALSE)
  /\ UNCHANGED <<types, fields, entries, tx, announced, req>>

CreatedRows(plan) ==
  {[ident |-> bt.ident, born |-> tx + 1, name |-> bt.name] : bt \in plan.createTypes}

\* Identifiers become ids: of the first snapshot, or of a type just created.
ResolveOptions(p, kind, opts) ==
  IF kind \in {"RELATION", "RICHTEXT"}
  THEN {TypeId(t) : t \in {t \in run[p].known \cup CreatedRows(run[p].plan) :
                             t.ident \in opts}}
  ELSE opts

FieldRow(p, id, bf) ==
  [type |-> id, ident |-> bf.ident, born |-> tx + 1, kind |-> bf.kind,
   required |-> bf.required, unique |-> EffectiveUnique(bf), order |-> bf.order,
   opts |-> ResolveOptions(p, bf.kind, bf.opts)]

\* The statements the database accepts: no duplicate identifier or name, every
\* row the plan names is still there, and a removed type has no entries.
CanExecute(plan) ==
  LET ids == {TypeId(t) : t \in types}
      kept == {t \in types : \A u \in plan.updateTypes : u[1] # TypeId(t)}
  IN  /\ NoRepeats(plan.createTypes)
      /\ \A bt \in plan.createTypes :
           /\ NoRepeats(bt.fields)
           /\ \A t \in types : t.ident # bt.ident /\ t.name # bt.name
           /\ \A u \in plan.createTypes \ {bt} : u.name # bt.name
      /\ \A u \in plan.updateTypes :
           /\ u[1] \in ids
           /\ \A t \in kept \cup CreatedRows(plan) : t.name # u[2]
           /\ \A v \in plan.updateTypes \ {u} : v[2] # u[2]
      /\ \A id \in plan.removeTypes :
           id \in ids /\ \A e \in entries : e.type # id
      /\ \A c \in plan.createFields :
           /\ c[1] \in ids /\ \A f \in FieldsOf(c[1]) : f.ident # c[2].ident
           /\ NoRepeats({d[2] : d \in {d \in plan.createFields : d[1] = c[1]}})
      /\ \A u \in plan.updateFields \cup plan.removeFields :
           \E f \in fields : FieldId(f) = u[1]

Renamed(plan, t) ==
  IF \E u \in plan.updateTypes : u[1] = TypeId(t)
  THEN [t EXCEPT !.name = (CHOOSE u \in plan.updateTypes : u[1] = TypeId(t))[2]]
  ELSE t

Updated(p, plan, f) ==
  IF \E u \in plan.updateFields : u[1] = FieldId(f)
  THEN LET u == CHOOSE u \in plan.updateFields : u[1] = FieldId(f)
       IN  Changed(f, [k \in DOMAIN u[3] |->
                         IF k = "opts" THEN ResolveOptions(p, u[2], u[3][k])
                         ELSE u[3][k]])
  ELSE f

\* Mutant: created fields only.
FieldChangedTypesM(plan) == {c[1] : c \in plan.createFields}

\* Existing types whose fields the plan changes; types it creates have no
\* entries, and those it removes are left out.
FieldChangedTypes(plan) ==
  {c[1] : c \in plan.createFields}
  \cup {u[1][1] : u \in plan.updateFields \cup plan.removeFields}

\* The boot runs without the server's modules and enqueues nothing.
Announce(p, plan) == IF run[p].boot THEN {} ELSE FieldChangedTypes(plan)

Execute(p) ==
  LET plan == run[p].plan
  IN  /\ run[p].pc = "execute"
      /\ CanExecute(plan)
      /\ Write
      /\ types' = {Renamed(plan, t) : t \in {t \in types :
                                              TypeId(t) \notin plan.removeTypes}}
                  \cup CreatedRows(plan)
      /\ fields' =
           {Updated(p, plan, f) : f \in
              {f \in fields : /\ f.type \notin plan.removeTypes
                              /\ \A r \in plan.removeFields : r[1] # FieldId(f)}}
           \cup {FieldRow(p, c[1], c[2]) : c \in plan.createFields}
           \cup UNION {{FieldRow(p, <<bt.ident, tx + 1>>, bf) : bf \in bt.fields}
                       : bt \in plan.createTypes}
      /\ announced' = Announce(p, plan)
      /\ Finish(p, TRUE)
      /\ UNCHANGED <<entries, req>>

\* A dry run makes the same statements and rolls them back.  Whether the caller
\* asked for one tells two applies apart only here, so it is chosen here.
DryRun(p) ==
  /\ run[p].pc = "execute"
  /\ ~run[p].boot
  /\ CanExecute(run[p].plan)
  /\ Finish(p, TRUE)
  /\ UNCHANGED <<types, fields, entries, tx, announced, req>>

\* A statement is refused, or the connection is lost: everything rolls back.
ExecuteFails(p) ==
  /\ run[p].pc = "execute"
  /\ Finish(p, FALSE)
  /\ UNCHANGED <<types, fields, entries, tx, announced, req>>

Apply(p) ==
  \/ ClientApplies(p)
  \/ BootApplies(p)
  \/ ReadTypes(p)
  \/ ReadCounts(p)
  \/ Plan(p)
  \/ Replan(p)
  \/ Execute(p)
  \/ DryRun(p)
  \/ ExecuteFails(p)

Handle(h) ==
  \/ AskRename(h)
  \/ AskDeleteType(h)
  \/ AskField(h)
  \/ AskEdit(h)
  \/ AskDeleteField(h)
  \/ AskReorder(h)
  \/ Commit(h)
  \/ CommitFails(h)

Init ==
  /\ types = InitTypes
  /\ fields = InitFields
  /\ entries = InitEntries
  /\ tx = 0
  /\ announced = {}
  /\ req = [h \in Handlers |-> NoValue]
  /\ run = [p \in Appliers |-> Idle(0)]

Next ==
  \/ CreateEntry
  \/ ArchiveEntry
  \/ DeleteEntry
  \/ CreateType
  \/ \E h \in Handlers : Handle(h)
  \/ \E p \in Appliers : Apply(p)

Spec == Init /\ [][Next]_vars

-----------------------------------------------------------------------------
(* Properties.                                                             *)

TypeOK ==
  /\ types \subseteq ContentType /\ fields \subseteq ContentTypeField /\ entries \subseteq ContentEntry
  /\ tx \in 0 .. MaxTx
  /\ announced \subseteq TypeIds
  /\ DOMAIN req = Handlers /\ DOMAIN run = Appliers

\* No entry and no field is left without its content type, whatever a handler
\* counted before it deleted and whatever a plan was made from.
RowsHaveTypes ==
  LET ids == {TypeId(t) : t \in types}
  IN  /\ TypeOK
      /\ \A e \in entries : e.type \in ids
      /\ \A f \in fields : f.type \in ids

Applies(p) == run[p].pc = "execute" /\ run'[p].pc = "idle" /\ tx' # tx

\* Nothing was written between the second snapshot and the statements, and no
\* type was deleted and created anew between the two snapshots: the plans are
\* compared, not the ids that references will be resolved to.
Uncontested(p) ==
  /\ run[p].since = tx
  /\ \A t \in types, u \in run[p].known : t.ident = u.ident => TypeId(t) = TypeId(u)

\* What an apply does to a row that stays fits the entries there are: a field
\* becomes required only when every entry has a value, unique only without
\* duplicates, and loses no choice and no existing target an entry still uses.
FitsTheData(f, g) ==
  LET of == {e \in entries : e.type = f.type}
      value == {e \in of : e.live /\ e.data[f.ident] # NoValue}
  IN  /\ g.kind = f.kind
      /\ g.required /\ ~f.required => of = value
      /\ g.unique /\ ~f.unique /\ f.kind = "TEXT" =>
           \A d, e \in value : d.data[f.ident] = e.data[f.ident] => d = e
      /\ f.kind = "SELECT" => \A e \in value : e.data[f.ident] \notin f.opts \ g.opts
      /\ f.kind = "RELATION" => \A e \in value, t \in types :
           e.data[f.ident] = TypeId(t) => TypeId(t) \notin f.opts \ g.opts

\* An apply nobody interfered with does nothing the data of the entries speaks
\* against, and removes a type or a field only when it was told it may.
ApplyFitsTheData(p) ==
  /\ \A f \in fields, g \in fields' :
       FieldId(f) = FieldId(g) => FitsTheData(f, g)
  /\ \/ run[p].allow
     \/ /\ {FieldId(f) : f \in fields} \subseteq {FieldId(f) : f \in fields'}
        /\ {TypeId(t) : t \in types} \subseteq {TypeId(t) : t \in types'}

\* Relations stay inside the bundle, and no rich text field names its targets.
Closed(b) ==
  \A bt \in b : \A bf \in bt.fields :
    /\ bf.kind = "RELATION" => bf.opts \subseteq {u.ident : u \in b}
    /\ bf.kind = "RICHTEXT" => bf.opts = {}

Settled(b, allow) ==
  \E plan \in {PlanSchema(b, Snapshot, allow)} :
    ~IsPlanNonEmpty(plan) /\ plan.blockers = {}

\* Names every type once, and every field of a type.  Nothing checks that.
NamesThingsOnce(b) == NoRepeats(b) /\ \A bt \in b : NoRepeats(bt.fields)

\* "Idempotent schema apply" (applySchema.ts:3): after an apply nobody
\* interfered with, the same bundle has nothing left to do, and neither has
\* `boject schema check` anything to report.
ApplyConverges(p) ==
  Closed(run[p].bundle) /\ NamesThingsOnce(run[p].bundle) =>
    \E b \in {run[p].bundle}, allow \in {run[p].allow} :
      Settled(b, allow)' /\ SchemaCheckPasses(b)'

\* Both of every apply nobody interfered with (planSchema.ts, applySchema.ts).
UncontestedApplyIsSound ==
  [][\A p \in Appliers : Applies(p) /\ Uncontested(p) =>
       ApplyFitsTheData(p) /\ ApplyConverges(p)]_vars

\* Every change of the fields of a type that stays is announced to the search
\* index and the cache in the transaction that makes it, the boot's excepted.
FieldChangesAreAnnounced ==
  [][\A t \in types :
       (\E u \in types' : TypeId(u) = TypeId(t))
         /\ FieldsOf(TypeId(t)) # {f \in fields' : f.type = TypeId(t)}
         => TypeId(t) \in announced'
              \/ \E p \in Appliers : run[p].pc = "execute" /\ run[p].boot /\ Applies(p)]_vars

\* A PUT that turns a field into a title or a slug leaves the flag as it was,
\* and the planner then wants it on: such a schema has one change to apply.
TitlesAreUnique ==
  \A f \in fields : f.kind \in {"ENTRY_TITLE", "SLUG"} => f.unique

\* A schema pulled while nobody is working on it passes `boject schema
\* validate` and has nothing to apply, even where destruction is allowed
\* (export.get.ts, planSchema.ts).
PulledSchemaIsInStep ==
  /\ \A h \in Handlers : req[h] = NoValue
  /\ \A p \in Appliers : run[p] = Idle(0)
  /\ TitlesAreUnique
  => \A portable \in BOOLEAN :
      LET b == ExportSchema(portable)
      IN  ValidBundle(b) /\ Closed(b) => Settled(b, TRUE) /\ ValidateSchemaBundle(b)
=============================================================================
