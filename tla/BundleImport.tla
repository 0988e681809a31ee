---------------------------- MODULE BundleImport ----------------------------
(***************************************************************************)
(* Content bundles: exportBundle, importBundle and the callers of both - the *)
(* content-bundle command (with its assets directory or tarball), the HTTP   *)
(* endpoints behind `boject entries`, and the starter imported at boot -     *)
(* while authors keep creating and deleting.                                 *)
(*                                                                         *)
(* An export reads types, then entries, in two queries; the command then     *)
(* reads the image fields and the bytes.  An import restores bytes first and *)
(* then runs one transaction at READ COMMITTED: what it reads at its start   *)
(* (ImportReads) may have changed by the time it writes (ImportWrites).      *)
(*                                                                         *)
(* A field's value is the references in it and the image it names.  A       *)
(* reference is by ids in the database and, once encoded, by identifier and  *)
(* entry key; `node` says whether it is a relation (RELATION and             *)
(* MULTIRELATION alike) or a cmsEmbed or cmsLink node of a rich text.        *)
(* Titles, slugs, names, text values, attribution and counters are left out. *)
(***************************************************************************)
EXTENDS Integers, FiniteSets

CONSTANTS
  Idents,       \* identifiers of content types
  FieldIdents,  \* identifiers of fields
  Keys,         \* entry keys
  Images,       \* storage keys
  NoValue,      \* an absent id, image, assets directory or bundle
  Worlds,       \* systems to start from: [types, entries, blobs]
  Files,        \* bundle files that may be there at the start
  NewTypes,     \* bodies of POST /api/content-types: [ident, fields]
  NewData,      \* data of the entries authors create
  Exports,      \* exports asked for: [from, mode, portable, publishedOnly,
                \* contentType, target, noAssets]
  Imports,      \* imports asked for: [from, mode, onConflict, dryRun]
  Starter,      \* the bundle BOJECT_INITIAL_STARTER names, or NoValue
  Ops,          \* exports and imports in progress at once
  MaxTx         \* bound: transactions that write

ASSUME BundleConstants ==
  /\ MaxTx \in Nat \ {0}
  /\ NoValue \notin Idents \cup FieldIdents \cup Keys \cup Images

VARIABLES
  types,    \* rows of ContentType: [id, ident, fields]
  entries,  \* rows of ContentEntry: [id, type, key, versions]
  blobs,    \* storage keys that have bytes in images:originals
  file,     \* the bundle on disk: [kind, bundle, assets]
  tx,       \* transactions that wrote so far
  job,      \* per operation: how far it has got
  synced    \* types for which the last of them enqueued CONTENT_BULK_SYNC

vars == <<types, entries, blobs, file, tx, job, synced>>

Idle == [at |-> "idle"]

TypeBy(ts, ident) == CHOOSE t \in ts : t.ident = ident
HasType(ts, ident) == \E t \in ts : t.ident = ident
EntryBy(es, id) == CHOOSE e \in es : e.id = id
HasEntry(es, id) == \E e \in es : e.id = id
KindOf(fields, f) == IF f \in DOMAIN fields THEN fields[f].kind ELSE "NONE"

-----------------------------------------------------------------------------
(* References: encodeDataRefs, decodeDataRefs and their walkers.           *)

IsPortable(r) == "key" \in DOMAIN r.to

\* Nodes of a field of this kind that the portable form rewrites.
Rewritten(kind, r) ==
  \/ kind = "RELATION"
  \/ kind = "RICHTEXT" /\ r.node = "cmsEmbed"

CanEncode(r, ts, es) ==
  /\ \E t \in ts : t.id = r.to.type
  /\ \E e \in es : e.id = r.to.entry /\ e.type = r.to.type

EncodeRef(r, ts, es) ==
  [r EXCEPT !.to = [ident |-> (CHOOSE t \in ts : t.id = r.to.type).ident,
                    key   |-> EntryBy(es, r.to.entry).key]]

CanEncodeData(data, fields, ts, es) ==
  \A f \in FieldIdents : \A r \in data[f].refs :
    Rewritten(KindOf(fields, f), r) /\ ~IsPortable(r) => CanEncode(r, ts, es)

EncodeData(data, fields, ts, es) ==
  [f \in FieldIdents |->
     [data[f] EXCEPT !.refs =
        {IF Rewritten(KindOf(fields, f), r) /\ ~IsPortable(r)
         THEN EncodeRef(r, ts, es) ELSE r : r \in @}]]

\* `ids` maps the identifiers and keys an import knows to ids.
CanDecodeData(data, fields, ids) ==
  \A f \in FieldIdents : \A r \in data[f].refs :
    Rewritten(KindOf(fields, f), r) /\ IsPortable(r) =>
      \E m \in ids : m.ident = r.to.ident /\ m.key = r.to.key

DecodeRef(r, ids) ==
  LET m == CHOOSE m \in ids : m.ident = r.to.ident /\ m.key = r.to.key
  IN  [r EXCEPT !.to = [type |-> m.type, entry |-> m.id]]

\* Mutant: only relations are decoded, embeds keep the bundle's keys.
DecodeDataM(data, fields, ids) ==
  [f \in FieldIdents |->
     [data[f] EXCEPT !.refs =
        {IF KindOf(fields, f) = "RELATION" /\ IsPortable(r)
         THEN DecodeRef(r, ids) ELSE r : r \in @}]]

DecodeData(data, fields, ids) ==
  [f \in FieldIdents |->
     [data[f] EXCEPT !.refs =
        {IF Rewritten(KindOf(fields, f), r) /\ IsPortable(r)
         THEN DecodeRef(r, ids) ELSE r : r \in @}]]

\* Embeds and links alike, when they carry ids.
RichtextRefs(v) == {r \in v.refs : r.node \in {"cmsEmbed", "cmsLink"} /\ ~IsPortable(r)}

\* What collectEntryRefs finds in stored data.
RefsIn(data, fields) ==
  (UNION {{r \in data[f].refs : ~IsPortable(r)} :
            f \in {f \in FieldIdents : KindOf(fields, f) = "RELATION"}})
  \cup (UNION {RichtextRefs(data[f]) :
            f \in {f \in FieldIdents : KindOf(fields, f) = "RICHTEXT"}})

-----------------------------------------------------------------------------
(* exportBundle.                                                           *)

ExportType(t, ts, portable) ==
  [id |-> IF portable THEN NoValue ELSE t.id, ident |-> t.ident,
   fields |-> [f \in DOMAIN t.fields |->
     [kind    |-> t.fields[f].kind,
      targets |-> {u.ident : u \in {u \in ts : u.id \in t.fields[f].targets}},
      ids     |-> IF portable THEN {} ELSE t.fields[f].targets]]]

ExportEntry(e, ts, es, portable, publishedOnly) ==
  LET t == CHOOSE t \in ts : t.id = e.type
  IN  [id |-> IF portable THEN NoValue ELSE e.id,
       ident |-> t.ident, key |-> e.key,
       versions |->
         {[status |-> v.status,
           data |-> IF portable THEN EncodeData(v.data, t.fields, ts, es)
                                ELSE v.data] :
            v \in {v \in e.versions : publishedOnly => v.status = "PUBLISHED"}}]

\* An entry whose type came after the types were read goes out under the id of
\* its type; no import takes it.  Only entries of known types are shown here.
Selected(o, ts, es) ==
  {e \in es : \E t \in ts : /\ t.id = e.type
                            /\ o.contentType \in {NoValue, t.ident}}

CanExport(o, ts, es) ==
  o.portable =>
    \A e \in Selected(o, ts, es) :
      \A v \in {v \in e.versions : o.publishedOnly => v.status = "PUBLISHED"} :
        CanEncodeData(v.data, (CHOOSE t \in ts : t.id = e.type).fields, ts, es)

Bundle(o, ts, es) ==
  [portable |-> o.portable,
   types |-> IF o.mode \in {"schema", "all"}
             THEN {ExportType(t, ts, o.portable) : t \in ts} ELSE NoValue,
   entries |->
     IF o.mode \in {"entries", "all"}
     THEN {be \in {ExportEntry(e, ts, es, o.portable, o.publishedOnly) :
                     e \in Selected(o, ts, es)} : be.versions # {}}
     ELSE NoValue]

\* The content types a bundle carries; the entries it carries.
TypesOf(b) == IF b.types = NoValue THEN {} ELSE b.types
EntriesOf(b) == IF b.entries = NoValue THEN {} ELSE b.entries

ImageFields(ts) ==
  {<<p[1].ident, p[2]>> :
     p \in {p \in ts \X FieldIdents : KindOf(p[1].fields, p[2]) = "IMAGE"}}

\* The storage keys in those fields, over every version.
CollectKeys(b, imageFields) ==
  {k \in Images :
     \E be \in EntriesOf(b) : \E v \in be.versions : \E f \in FieldIdents :
       <<be.ident, f>> \in imageFields /\ v.data[f].image = k}

-----------------------------------------------------------------------------
(* validateBundle, as far as entries go, and planEntryImport.              *)

ValidBundle(b) ==
  \A be \in EntriesOf(b) :
    /\ be.versions # {}
    /\ Cardinality({v \in be.versions : v.status = "PUBLISHED"}) <= 1
    /\ Cardinality({v \in be.versions : v.status \in {"DRAFT", "CHANGED"}}) <= 1
    /\ b.portable => be.id = NoValue

\* What the import knows of the target: (identifier, key) -> ids.
KnownIds(ts, es) ==
  {[ident |-> (CHOOSE t \in ts : t.id = e.type).ident, key |-> e.key,
    type |-> e.type, id |-> e.id] :
     e \in {e \in es : \E t \in ts : t.id = e.type}}

Match(known, be) == {m \in known : m.ident = be.ident /\ m.key = be.key}

PlanFails(known, b, idents, onConflict) ==
  \E be \in EntriesOf(b) :
    \/ be.ident \notin idents
    \/ onConflict = "fail" /\ Match(known, be) # {}

PlanAction(known, be, onConflict) ==
  IF Match(known, be) = {} THEN "create"
  ELSE IF onConflict = "skip" THEN "skip" ELSE "update"

-----------------------------------------------------------------------------
(* What the transaction of an import writes, from what it read (j.types and *)
(* j.entries) and the bundle.                                              *)

WantsSchema(j) == j.opts.mode \in {"schema", "all"}
WantsEntries(j) == j.opts.mode \in {"entries", "all"}

NewTypeId(b, bt) ==
  IF b.portable \/ bt.id = NoValue THEN <<bt.ident, tx + 1>> ELSE bt.id

\* Pass 1 creates every type; pass 2 turns the targets of a portable bundle
\* into ids, now that every type of the bundle has one.
TypeIdOf(j, ident) ==
  IF HasType(j.types, ident) THEN TypeBy(j.types, ident).id
  ELSE NewTypeId(j.bundle, TypeBy(TypesOf(j.bundle), ident))

CreatedTypes(j) ==
  IF ~WantsSchema(j) THEN {}
  ELSE {[id |-> NewTypeId(j.bundle, bt), ident |-> bt.ident,
         fields |-> [f \in DOMAIN bt.fields |->
           [kind |-> bt.fields[f].kind,
            targets |-> IF j.bundle.portable
                        THEN {TypeIdOf(j, i) : i \in bt.fields[f].targets}
                        ELSE bt.fields[f].ids]]] : bt \in TypesOf(j.bundle)}

SchemaFails(j) ==
  WantsSchema(j) /\
    \/ \E bt \in TypesOf(j.bundle) : HasType(j.types, bt.ident)
    \/ j.bundle.portable /\
         \E bt \in TypesOf(j.bundle) : \E f \in DOMAIN bt.fields :
           \E i \in bt.fields[f].targets :
             ~HasType(j.types \cup TypesOf(j.bundle), i)

\* The types the entries may belong to: the target's and the created ones.
ImportTypes(j) == j.types \cup CreatedTypes(j)

Pending(j, action) ==
  IF ~WantsEntries(j) THEN {}
  ELSE {be \in EntriesOf(j.bundle) :
          PlanAction(KnownIds(j.types, j.entries), be, j.opts.onConflict) = action}

EntryIdOf(j, be) ==
  LET m == Match(KnownIds(j.types, j.entries), be)
  IN  IF m # {} THEN (CHOOSE x \in m : TRUE).id
      ELSE IF j.bundle.portable \/ be.id = NoValue
      THEN <<be.ident, be.key, tx + 1>> ELSE be.id

\* The map pass 2 looks references up in: what was there and every entry of
\* the bundle, the skipped ones under the id they already have.
SeededIds(j) ==
  KnownIds(j.types, j.entries) \cup
  {[ident |-> be.ident, key |-> be.key,
    type |-> TypeBy(ImportTypes(j), be.ident).id, id |-> EntryIdOf(j, be)] :
     be \in Pending(j, "create")}

FieldsOf(j, be) == TypeBy(ImportTypes(j), be.ident).fields

Row(j, be) ==
  [id |-> EntryIdOf(j, be), type |-> TypeBy(ImportTypes(j), be.ident).id,
   key |-> be.key,
   versions |->
     {[status |-> v.status,
       data |-> IF j.bundle.portable
                THEN DecodeData(v.data, FieldsOf(j, be), SeededIds(j))
                ELSE v.data] : v \in be.versions}]

\* Mutant: pass 2 visits the created entries only; a replaced one keeps the
\* nulls of pass 1.
RowsM(j) ==
  {Row(j, be) : be \in Pending(j, "create")} \cup
  {[Row(j, be) EXCEPT !.versions =
      {[v EXCEPT !.data = [f \in FieldIdents |->
          IF KindOf(FieldsOf(j, be), f) = "RELATION"
          THEN [v.data[f] EXCEPT !.refs = {}] ELSE v.data[f]]] : v \in @}] :
     be \in Pending(j, "update")}

Rows(j) == {Row(j, be) : be \in Pending(j, "create") \cup Pending(j, "update")}

RefsResolve(j) ==
  \A be \in Pending(j, "create") \cup Pending(j, "update") :
    IF j.bundle.portable
    THEN \A v \in be.versions :
           CanDecodeData(v.data, FieldsOf(j, be), SeededIds(j))
    ELSE \A v \in be.versions : \A r \in RefsIn(v.data, FieldsOf(j, be)) :
           HasEntry(entries \cup Rows(j), r.to.entry)

\* Mutant: entry keys are not unique within a type.
AcceptedM(j) ==
  /\ \A t \in CreatedTypes(j) : \A u \in types : u.id # t.id /\ u.ident # t.ident
  /\ \A be \in Pending(j, "create") : ~HasEntry(entries, EntryIdOf(j, be))
  /\ \A be \in Pending(j, "update") : HasEntry(entries, EntryIdOf(j, be))

\* The database's unique and foreign keys, and `update` of a row that is gone.
Accepted(j) ==
  /\ \A t \in CreatedTypes(j) :
       ~HasType(types, t.ident) /\ \A u \in types : u.id # t.id
  /\ \A be \in Pending(j, "create") :
       /\ ~HasEntry(entries, EntryIdOf(j, be))
       /\ \E t \in types \cup CreatedTypes(j) :
            t.id = TypeBy(ImportTypes(j), be.ident).id
       /\ \A e \in entries :
            ~(e.type = TypeBy(ImportTypes(j), be.ident).id /\ e.key = be.key)
  /\ \A be \in Pending(j, "update") : HasEntry(entries, EntryIdOf(j, be))

\* Mutant: a replaced entry is not counted as written.
AffectedM(j) == {e.type : e \in {Row(j, be) : be \in Pending(j, "create")}}

Affected(j) == {e.type : e \in Rows(j)}

-----------------------------------------------------------------------------
(* Exports.                                                                *)

Wrote(ts, es, syncs) ==
  /\ tx < MaxTx /\ tx' = tx + 1
  /\ types' = ts /\ entries' = es /\ synced' = syncs

Set(o, j) == job' = [job EXCEPT ![o] = j]

Ask(o, opts) ==
  /\ job[o] = Idle
  /\ Set(o, [at |-> "export", opts |-> opts, types |-> types])
  /\ UNCHANGED <<types, entries, blobs, file, tx, synced>>

CommandExport(o) == \E opts \in Exports : opts.from = "cli" /\ Ask(o, opts)

\* GET /api/content-bundle/export for `boject entries export`.
RemoteExport(o) ==
  \E opts \in Exports :
    /\ opts.from = "http" /\ opts.mode = "entries" /\ opts.target = "json"
    /\ Ask(o, opts)

ExportReads(o) ==
  /\ job[o].at = "export"
  /\ LET opts == job[o].opts
     IN  /\ CanExport(opts, job[o].types, entries)
         /\ Set(o, [at |-> IF opts.target = "json" \/ opts.noAssets
                           THEN "save" ELSE "collect",
                    opts |-> opts, todo |-> {}, assets |-> {},
                    bundle |-> Bundle(opts, job[o].types, entries)])
  /\ UNCHANGED <<types, entries, blobs, file, tx, synced>>

\* The image fields are read from the database again.
ImageFieldsFromDb == ImageFields(types)

\* A tarball needs every byte at once; one that is missing ends the export.
CollectForTarball(o) ==
  /\ job[o].at = "collect" /\ job[o].opts.target = "tar"
  /\ LET keys == CollectKeys(job[o].bundle, ImageFieldsFromDb)
     IN  /\ keys \subseteq blobs
         /\ Set(o, [job[o] EXCEPT !.at = "save", !.assets = keys])
  /\ UNCHANGED <<types, entries, blobs, file, tx, synced>>

CollectForDirectory(o) ==
  /\ job[o].at = "collect" /\ job[o].opts.target = "dir"
  /\ LET keys == CollectKeys(job[o].bundle, ImageFieldsFromDb)
     IN  Set(o, [job[o] EXCEPT !.at = IF keys = {} THEN "save" ELSE "copy",
                               !.todo = keys])
  /\ UNCHANGED <<types, entries, blobs, file, tx, synced>>

\* What is in the directory's assets/ already: earlier exports, or this one.
DirAssets == IF file.kind = "dir" /\ file.assets # NoValue THEN file.assets ELSE {}

\* Assets go to disk one by one, before the bundle.
CopyAsset(o) ==
  /\ job[o].at = "copy"
  /\ \E k \in job[o].todo \cap blobs :
       /\ Set(o, [job[o] EXCEPT !.todo = @ \ {k},
                 !.at = IF job[o].todo = {k} THEN "save" ELSE "copy"])
       /\ file' = [kind |-> "dir", assets |-> DirAssets \cup {k},
                   bundle |-> IF file.kind = "dir" THEN file.bundle ELSE NoValue]
  /\ UNCHANGED <<types, entries, blobs, tx, synced>>

Save(o, kind, assets) ==
  /\ job[o].at = "save" /\ job[o].opts.target = kind
  /\ file' = [kind |-> kind, bundle |-> job[o].bundle, assets |-> assets]
  /\ Set(o, Idle)
  /\ UNCHANGED <<types, entries, blobs, tx, synced>>

\* With --no-assets too: a tarball without a single asset.
SaveTarball(o) == Save(o, "tar", job[o].assets)

SaveDirectory(o) == Save(o, "dir", IF DirAssets = {} THEN NoValue ELSE DirAssets)

SaveJson(o) == Save(o, "json", NoValue)

-----------------------------------------------------------------------------
(* Imports.                                                                *)

\* The bytes that come with a source: those of a directory that has assets/,
\* and those of a tarball, even if there are none.
AssetSource(f) == IF f.kind = "json" THEN NoValue ELSE f.assets

Load(o, opts, at, assets) ==
  /\ job[o] = Idle /\ file.bundle # NoValue
  /\ Set(o, [at |-> at, opts |-> opts, bundle |-> file.bundle, assets |-> assets,
             todo |-> {}, since |-> tx, types |-> {}, entries |-> {}])
  /\ UNCHANGED <<types, entries, blobs, file, tx, synced>>

CommandImport(o) ==
  \E opts \in Imports :
    /\ opts.from = "cli"
    /\ Load(o, opts, IF AssetSource(file) = NoValue THEN "import" ELSE "restore",
            AssetSource(file))

\* `boject entries import` sends the JSON alone, POST /api/content-bundle/import
\* takes the entries of it.
RemoteImport(o) ==
  \E opts \in Imports :
    /\ opts.from = "http" /\ opts.mode = "entries" /\ file.kind # "tar"
    /\ Load(o, opts, "import", NoValue)

AssetsComplete(j) ==
  CollectKeys(j.bundle, ImageFields(TypesOf(j.bundle)) \cup ImageFieldsFromDb)
    \subseteq j.assets

RestoreAssets(o) ==
  /\ job[o].at = "restore"
  /\ IF job[o].opts.dryRun
     THEN Set(o, [job[o] EXCEPT !.at = "import"])
     ELSE /\ AssetsComplete(job[o])
          /\ Set(o, [job[o] EXCEPT !.todo = job[o].assets,
                    !.at = IF job[o].assets = {} THEN "import" ELSE "put"])
  /\ UNCHANGED <<types, entries, blobs, file, tx, synced>>

PutAsset(o) ==
  /\ job[o].at = "put"
  /\ \E k \in job[o].todo :
       /\ blobs' = blobs \cup {k}
       /\ Set(o, [job[o] EXCEPT !.todo = @ \ {k},
                 !.at = IF job[o].todo = {k} THEN "import" ELSE "put"])
  /\ UNCHANGED <<types, entries, file, tx, synced>>

ImportReads(o) ==
  /\ job[o].at = "import"
  /\ ValidBundle(job[o].bundle)
  /\ Set(o, [job[o] EXCEPT !.at = "write", !.types = types, !.entries = entries])
  /\ UNCHANGED <<types, entries, blobs, file, tx, synced>>

CanImport(j) ==
  /\ ~SchemaFails(j)
  /\ WantsEntries(j) =>
       /\ ~PlanFails(KnownIds(j.types, j.entries), j.bundle,
                     {t.ident : t \in ImportTypes(j)}, j.opts.onConflict)
       /\ RefsResolve(j)
  /\ Accepted(j)

\* At boot the server's code is not on disk, so nothing is enqueued.
ImportWrites(o) ==
  /\ job[o].at = "write"
  /\ LET j == job[o]
         replaced == {e \in entries : \E be \in Pending(j, "update") :
                                        e.id = EntryIdOf(j, be)}
     IN  /\ ~j.opts.dryRun
         /\ CanImport(j)
         /\ Wrote(types \cup CreatedTypes(j), (entries \ replaced) \cup Rows(j),
                  IF j.opts.from = "boot" THEN {} ELSE Affected(j))
  /\ Set(o, Idle)
  /\ UNCHANGED <<blobs, file>>

\* The container imports its starter into an empty system.
BootStarter(o) ==
  /\ job[o] = Idle /\ Starter # NoValue /\ types = {}
  /\ Set(o, [at |-> "import",
             opts |-> [from |-> "boot", mode |-> "all", onConflict |-> "fail",
                       dryRun |-> FALSE],
             bundle |-> Starter, assets |-> NoValue, todo |-> {}, since |-> tx,
             types |-> {}, entries |-> {}])
  /\ UNCHANGED <<types, entries, blobs, file, tx, synced>>

\* An error, the rollback of a dry run, or the end of the process.
Stops(o) ==
  /\ job[o] # Idle
  /\ Set(o, Idle)
  /\ UNCHANGED <<types, entries, blobs, file, tx, synced>>

-----------------------------------------------------------------------------
(* Authors.                                                                *)

CreateType ==
  /\ \E body \in NewTypes :
       /\ ~HasType(types, body.ident)
       /\ Wrote(types \cup {[id |-> <<body.ident, tx + 1>>, ident |-> body.ident,
                             fields |-> body.fields]}, entries, {})
  /\ UNCHANGED <<blobs, file, job>>

DeleteType ==
  /\ \E t \in types :
       /\ \A e \in entries : e.type # t.id
       /\ Wrote(types \ {t}, entries, {})
  /\ UNCHANGED <<blobs, file, job>>

CreateEntry ==
  /\ \E t \in types, k \in Keys, d \in NewData :
       /\ \A e \in entries : ~(e.type = t.id /\ e.key = k)
       /\ Wrote(types, entries \cup
            {[id |-> <<t.ident, k, tx + 1>>, type |-> t.id, key |-> k,
              versions |-> {[status |-> "DRAFT", data |-> d]}]}, {})
  /\ UNCHANGED <<blobs, file, job>>

\* Nothing asks who refers to the entry: its references are left dangling.
DeleteEntry ==
  /\ \E e \in entries : Wrote(types, entries \ {e}, {})
  /\ UNCHANGED <<blobs, file, job>>

Upload ==
  /\ \E k \in Images \ blobs : blobs' = blobs \cup {k}
  /\ UNCHANGED <<types, entries, file, tx, job, synced>>

-----------------------------------------------------------------------------

Init ==
  /\ \E w \in Worlds : types = w.types /\ entries = w.entries /\ blobs = w.blobs
  /\ file \in Files
  /\ tx = 0 /\ synced = {}
  /\ job = [o \in Ops |-> Idle]

Authoring == CreateType \/ DeleteType \/ CreateEntry \/ DeleteEntry \/ Upload

Exporting(o) ==
  \/ CommandExport(o) \/ RemoteExport(o) \/ ExportReads(o)
  \/ CollectForTarball(o) \/ CollectForDirectory(o) \/ CopyAsset(o)
  \/ SaveTarball(o) \/ SaveDirectory(o) \/ SaveJson(o)

Importing(o) ==
  \/ CommandImport(o) \/ RemoteImport(o) \/ RestoreAssets(o) \/ PutAsset(o)
  \/ ImportReads(o) \/ ImportWrites(o) \/ BootStarter(o)

Next == Authoring \/ \E o \in Ops : Exporting(o) \/ Importing(o) \/ Stops(o)

Spec == Init /\ [][Next]_vars

-----------------------------------------------------------------------------
(* Properties.                                                             *)

\* Ids and keys are unique, every entry has its type, and an operation is at a
\* step of an export or an import.
TypeOK ==
  /\ \A t, u \in types : t.id = u.id \/ t.ident = u.ident => t = u
  /\ \A e, d \in entries : e.id = d.id \/ (e.type = d.type /\ e.key = d.key) => e = d
  /\ \A e \in entries : (\E t \in types : t.id = e.type) /\ e.versions # {}
  /\ blobs \subseteq Images /\ tx \in 0 .. MaxTx
  /\ \A o \in Ops : job[o].at \in {"idle", "export", "collect", "copy", "save",
                                   "restore", "put", "import", "write"}

\* The import o commits in this step, and nothing else was written since it
\* was asked for.
Commits(o) == job[o].at = "write" /\ tx' # tx /\ job'[o] = Idle
Uncontested(o) == Commits(o) /\ job[o].since = tx

ImportedEntries(j) ==
  IF WantsEntries(j) THEN EntriesOf(j.bundle) ELSE {}

\* After an import nobody interfered with, the system holds what the bundle
\* says: exporting an imported entry gives the bundle's entry back, an entry
\* that was to be skipped and every other entry is as it was, and a replaced
\* entry has kept its id.
\* import.ts:286 passes over the plans twice, and every later entry, skipped
\* entry and cycle must be in the map by the time references are decoded.
ImportMatchesBundle ==
  [][\A o \in Ops : Uncontested(o) =>
       LET j == job[o]
           before(be) == {e \in entries : \E t \in types :
                            t.id = e.type /\ t.ident = be.ident /\ e.key = be.key}
           after(be) == {e \in entries' : \E t \in types' :
                            t.id = e.type /\ t.ident = be.ident /\ e.key = be.key}
           mine == UNION {after(be) : be \in ImportedEntries(j)}
       IN  /\ \A be \in ImportedEntries(j) :
                IF before(be) # {} /\ j.opts.onConflict = "skip"
                THEN after(be) = before(be)
                ELSE \A e \in after(be) :
                       /\ before(be) # {} => {d.id : d \in before(be)} = {e.id}
                       /\ LET x == ExportEntry(e, types', entries', j.bundle.portable, FALSE)
                          IN  [x EXCEPT !.id = be.id] = be
           /\ \A be \in ImportedEntries(j) : Cardinality(after(be)) = 1
           /\ entries' \ mine = {e \in entries : \A be \in ImportedEntries(j) : e \notin before(be)}
    ]_vars

\* The references of these nodes that an uncontested import wrote lead to
\* entries that exist.
WrittenRefsResolve(o, nodes) ==
  \A e \in entries' \ entries :
    LET t == CHOOSE t \in types' : t.id = e.type
    IN  \A v \in e.versions : \A f \in DOMAIN t.fields : \A r \in v.data[f].refs :
          /\ r.node \in nodes
          /\ t.fields[f].kind = IF r.node = "relation" THEN "RELATION" ELSE "RICHTEXT"
          => ~IsPortable(r) /\ HasEntry(entries', r.to.entry)

\* No image was written whose bytes are not in storage.
WrittenImagesHaveBytes ==
  \A e \in entries' \ entries :
    LET t == CHOOSE t \in types' : t.id = e.type
    IN  \A v \in e.versions : \A f \in FieldIdents :
          KindOf(t.fields, f) = "IMAGE" => v.data[f].image \in blobs \cup {NoValue}

\* Relations and embeds written by an import that nobody interfered with lead
\* to entries that exist, whichever instance the bundle came from (JSON columns
\* have no foreign keys; decodeDataRefs and assertNonPortableRefsResolve do it),
\* and its images have their bytes when its source has assets, even when it died
\* and was run again or the directory was exported to twice: bytes are restored
\* and checked before the transaction.
ImportedEntriesAreWhole ==
  [][\A o \in Ops : Uncontested(o) =>
       /\ WrittenRefsResolve(o, {"relation", "cmsEmbed"})
       /\ job[o].opts.from = "cli" /\ job[o].assets # NoValue => WrittenImagesHaveBytes]_vars

\* An import that changed what the entries of a type hold has enqueued one bulk
\* synchronisation of that type in the same transaction (search and caches
\* learn of it no other way); a boot's import has nothing to tell.
ReplacedContentIsAnnounced ==
  [][\A o \in Ops : Commits(o) /\ job[o].opts.from # "boot" =>
       {e.type : e \in (entries' \ entries) \cup (entries \ entries')} \subseteq synced']_vars
=============================================================================
