-------------------------- MODULE SchemaApplyProofs --------------------------
(***************************************************************************)
(* What holds of SchemaApply for any number of types, fields, entries,     *)
(* handlers, applies and bundles: the tables respect the constraints of    *)
(* the database, every change of a field is announced, an apply nobody     *)
(* interfered with fits the entries and leaves its bundle nothing to do,   *)
(* and a schema pulled from the server is in step with it.                 *)
(***************************************************************************)
EXTENDS SchemaApply, FiniteSetTheorems, TLAPS

(***************************************************************************)
(* The invariant: the tables, what handlers mean to write, and how far     *)
(* applies have got.                                                       *)
(***************************************************************************)
Options == Choices \cup Idents \cup TypeIds

\* The type ids among them were given out in the first n transactions.
OldAt(n, ids) == ids \cap TypeIds \subseteq Idents \X (0 .. n)

TablesAreKeyed ==
  /\ NoRepeats(types)
  /\ \A f, g \in fields : f.type = g.type /\ f.ident = g.ident => f = g

EntriesAreFinite == IsFiniteSet(entries)

IdsAreOld ==
  /\ \A t \in types : t.born <= tx
  /\ \A f \in fields : f.born <= tx /\ OldAt(tx, f.opts)

\* New values of attributes of a field, as the n-th transaction may write them.
IsChange(n, changes) ==
  /\ DOMAIN changes \subseteq {"kind", "required", "unique", "order", "opts"}
  /\ "kind" \in DOMAIN changes => changes["kind"] \in Kinds
  /\ "required" \in DOMAIN changes => changes["required"] \in BOOLEAN
  /\ "unique" \in DOMAIN changes => changes["unique"] \in BOOLEAN
  /\ "order" \in DOMAIN changes => changes["order"] \in Nat
  /\ "opts" \in DOMAIN changes =>
       changes["opts"] \subseteq Options /\ OldAt(n, changes["opts"])

\* What a handler keeps between its checks and its write.
IsWrite(n, w) ==
  /\ w.op \in {"rename", "deleteType", "field", "edit", "deleteField", "reorder"}
  /\ w.op = "rename" => w.name \in Names
  /\ w.op = "field" =>
       /\ w.body.ident \in FieldIdents /\ w.body.kind \in Kinds /\ w.body.order \in Nat
       /\ w.body.required \in BOOLEAN /\ w.body.unique \in BOOLEAN
       /\ w.body.opts \subseteq Options /\ OldAt(n, w.body.opts)
  /\ w.op = "edit" => IsChange(n, w.changes)
  /\ w.op = "reorder" =>
       w.id \in TypeIds /\ \A i \in DOMAIN w.order : i[1] = w.id /\ w.order[i] \in Nat

RequestsAreWhole ==
  /\ DOMAIN req = Handlers
  /\ \A h \in Handlers : req[h] # NoValue => IsWrite(tx, req[h])

\* Attributes as the planner writes them: targets are identifiers.
IsPlanned(kind, changes) ==
  /\ DOMAIN changes \subseteq {"required", "unique", "order", "opts"}
  /\ "required" \in DOMAIN changes => changes["required"] \in BOOLEAN
  /\ "unique" \in DOMAIN changes => changes["unique"] \in BOOLEAN
  /\ "order" \in DOMAIN changes => changes["order"] \in Nat
  /\ "opts" \in DOMAIN changes =>
       changes["opts"] \subseteq
         (IF kind \in {"RELATION", "RICHTEXT"} THEN Idents ELSE Choices)

\* What a plan without blockers is made of.
PlanOf(b, known, plan) ==
  /\ plan.createTypes \subseteq b
  /\ \A bt \in b : bt \in plan.createTypes \/ \E t \in known : t.ident = bt.ident
  /\ \A bt \in b : \A bf \in bt.fields :
       bf.kind = "RELATION" => bf.opts \subseteq {u.ident : u \in b \cup known}
  /\ \A u \in plan.updateTypes : \E bt \in b : u[2] = bt.name
  /\ \A c \in plan.createFields :
       /\ c[1] \notin plan.removeTypes
       /\ \E id \in TypeIds, bt \in b : \E bf \in bt.fields : c = <<id, bf>>
  /\ \A u \in plan.updateFields : IsPlanned(u[2], u[3])

OldTypes(n, ts) == ts \subseteq ContentType /\ \A t \in ts : t.born <= n

IsSnapshot(n, s) ==
  /\ s = [k \in {"types", "fields", "entries", "counts"} |-> s[k]]
  /\ OldTypes(n, s.types) /\ s.fields \subseteq ContentTypeField

Planning == {"types2", "counts2", "entries2", "execute"}
Stages == {"types", "counts", "entries"} \cup Planning

IsIdle(r) == r \in [pc : {"idle"}, done : 0 .. Len(BootDir) - 1]

RunKeys == {"pc", "boot", "done", "retried", "bundle", "allow", "snap", "plan", "known",
            "since"}

IsBusy(n, r) ==
  /\ r = [k \in RunKeys |-> r[k]]
  /\ r.pc \in Stages /\ r.boot \in BOOLEAN /\ r.done \in 0 .. Len(BootDir) - 1
  /\ r.retried \in BOOLEAN /\ r.allow \in BOOLEAN
  /\ r.bundle \in Files /\ ValidBundle(r.bundle)
  /\ IsSnapshot(n, r.snap) /\ OldTypes(n, r.known)
  /\ r.pc \in Planning => PlanOf(r.bundle, r.known, r.plan)

RunsAreWhole ==
  /\ DOMAIN run = Appliers
  /\ \A p \in Appliers : IsIdle(run[p]) \/ IsBusy(tx, run[p])

SchemaInv ==
  /\ RowsHaveTypes
  /\ TablesAreKeyed
  /\ EntriesAreFinite
  /\ IdsAreOld
  /\ RequestsAreWhole
  /\ RunsAreWhole

(***************************************************************************)
(* Time: what is old stays old.                                            *)
(***************************************************************************)
LEMMA OldStaysOld ==
  ASSUME NEW n \in Nat, NEW m \in Nat, n <= m, NEW S, OldAt(n, S)
  PROVE  OldAt(m, S)
BY DEF OldAt

LEMMA ChangeStaysChange ==
  ASSUME NEW n \in Nat, NEW m \in Nat, n <= m, NEW changes, IsChange(n, changes)
  PROVE  IsChange(m, changes)
BY OldStaysOld DEF IsChange

LEMMA WriteStaysWrite ==
  ASSUME NEW n \in Nat, NEW m \in Nat, n <= m, NEW w, IsWrite(n, w)
  PROVE  IsWrite(m, w)
<1>1. w.op = "edit" => IsChange(m, w.changes)
  BY ChangeStaysChange DEF IsWrite
<1>2. w.op = "field" => OldAt(m, w.body.opts)
  BY OldStaysOld DEF IsWrite
<1> QED BY <1>1, <1>2 DEF IsWrite

LEMMA OldTypesStayOld ==
  ASSUME NEW n \in Nat, NEW m \in Nat, n <= m, NEW S, OldTypes(n, S)
  PROVE  OldTypes(m, S)
BY DEF OldTypes, ContentType

LEMMA BusyStaysBusy ==
  ASSUME NEW n \in Nat, NEW m \in Nat, n <= m, NEW r, IsBusy(n, r)
  PROVE  IsBusy(m, r)
<1>1. OldTypes(m, r.snap.types) /\ OldTypes(m, r.known)
  BY OldTypesStayOld DEF IsBusy, IsSnapshot
<1>2. IsSnapshot(m, r.snap)
  BY <1>1 DEF IsBusy, IsSnapshot
<1> QED BY <1>1, <1>2 DEF IsBusy

(***************************************************************************)
(* Rows.                                                                   *)
(***************************************************************************)
LEMMA TxIsNatural ==
  ASSUME TypeOK
  PROVE  tx \in Nat /\ MaxTx \in Nat
BY SchemaConstants DEF TypeOK

\* An update leaves a row what it was created as.
LEMMA ChangedIsRow ==
  ASSUME NEW n \in Nat, NEW f \in ContentTypeField, OldAt(n, f.opts),
         NEW changes, IsChange(n, changes)
  PROVE  /\ Changed(f, changes) \in ContentTypeField
         /\ FieldId(Changed(f, changes)) = FieldId(f)
         /\ Changed(f, changes).type = f.type
         /\ Changed(f, changes).ident = f.ident
         /\ Changed(f, changes).born = f.born
         /\ OldAt(n, Changed(f, changes).opts)
<1> DEFINE g == Changed(f, changes)
<1>1. DOMAIN f = {"type", "ident", "born", "kind", "required", "unique", "order", "opts"}
  BY DEF ContentTypeField
<1>2. \A k \in DOMAIN f : g[k] = IF k \in DOMAIN changes THEN changes[k] ELSE f[k]
  BY DEF Changed
<1>3. g = [k \in {"type", "ident", "born", "kind", "required", "unique", "order", "opts"} |->
             g[k]]
  BY <1>1 DEF Changed
<1>4. g.type = f.type /\ g.ident = f.ident /\ g.born = f.born
  BY <1>1, <1>2 DEF IsChange
<1>5. g.kind \in Kinds
  BY <1>1, <1>2 DEF IsChange, ContentTypeField
<1>6. g.required \in BOOLEAN
  BY <1>1, <1>2 DEF IsChange, ContentTypeField
<1>7. g.unique \in BOOLEAN
  BY <1>1, <1>2 DEF IsChange, ContentTypeField
<1>8. g.order \in Nat
  BY <1>1, <1>2 DEF IsChange, ContentTypeField
<1>9. g.opts \subseteq Options /\ OldAt(n, g.opts)
  BY <1>1, <1>2 DEF IsChange, ContentTypeField, Options
<1>10. g = [type |-> g.type, ident |-> g.ident, born |-> g.born, kind |-> g.kind,
            required |-> g.required, unique |-> g.unique, order |-> g.order,
            opts |-> g.opts]
  BY <1>3
<1>11. f.type \in TypeIds /\ f.ident \in FieldIdents /\ f.born \in 0 .. MaxTx
  BY DEF ContentTypeField
<1>12. g \in ContentTypeField
  <2> HIDE DEF g
  <2> QED BY <1>4, <1>5, <1>6, <1>7, <1>8, <1>9, <1>10, <1>11 DEF ContentTypeField, Options
<1> QED BY <1>4, <1>9, <1>12 DEF FieldId

(***************************************************************************)
(* The planner.                                                            *)
(***************************************************************************)
LEMMA InTypePairs ==
  ASSUME NEW b, NEW s
  PROVE  /\ \A bt \in b \ RenamingTypes(b, s) : \A t \in s.types :
              bt.ident = t.ident => <<bt, t>> \in TypePairs(b, s)
         /\ \A p \in TypePairs(b, s) :
              \E bt \in b \ RenamingTypes(b, s) : \E t \in s.types :
                p = <<bt, t>> /\ bt.ident = t.ident
BY DEF TypePairs

LEMMA InFieldPairs ==
  ASSUME NEW b, NEW s
  PROVE  /\ \A p \in TypePairs(b, s) :
              \A bf \in p[1].fields \ RenamingFields(p[1], p[2], s) :
                \A f \in SnapFields(s, p[2]) :
                  bf.ident = f.ident => <<p[2], bf, f>> \in FieldPairs(b, s)
         /\ \A q \in FieldPairs(b, s) :
              \E p \in TypePairs(b, s) :
                \E bf \in p[1].fields \ RenamingFields(p[1], p[2], s) :
                  \E f \in SnapFields(s, p[2]) :
                    q = <<p[2], bf, f>> /\ bf.ident = f.ident
<1> DEFINE Own(p) == {q \in (p[1].fields \ RenamingFields(p[1], p[2], s))
                               \X SnapFields(s, p[2]) : q[1].ident = q[2].ident}
           Of(p) == {<<p[2], q[1], q[2]>> : q \in Own(p)}
<1>1. FieldPairs(b, s) = UNION {Of(p) : p \in TypePairs(b, s)}
  BY DEF FieldPairs
<1>2. ASSUME NEW p \in TypePairs(b, s),
             NEW bf \in p[1].fields \ RenamingFields(p[1], p[2], s),
             NEW f \in SnapFields(s, p[2]), bf.ident = f.ident
      PROVE  <<p[2], bf, f>> \in FieldPairs(b, s)
  <2>1. <<bf, f>> \in Own(p)
    BY <1>2
  <2>2. <<p[2], bf, f>> \in Of(p)
    BY <2>1
  <2> QED BY <1>1, <2>2
<1>3. ASSUME NEW q \in FieldPairs(b, s)
      PROVE  \E p \in TypePairs(b, s) :
                \E bf \in p[1].fields \ RenamingFields(p[1], p[2], s) :
                  \E f \in SnapFields(s, p[2]) :
                    q = <<p[2], bf, f>> /\ bf.ident = f.ident
  <2>1. PICK p \in TypePairs(b, s) : q \in Of(p)
    BY <1>1
  <2>2. PICK r \in Own(p) : q = <<p[2], r[1], r[2]>>
    BY <2>1
  <2> QED BY <2>2
<1> QED BY <1>2, <1>3

LEMMA InNewFieldPairs ==
  ASSUME NEW b, NEW s
  PROVE  /\ \A p \in TypePairs(b, s) :
              \A bf \in p[1].fields \ RenamingFields(p[1], p[2], s) :
                (\A f \in SnapFields(s, p[2]) : f.ident # bf.ident)
                  => <<p[2], bf>> \in NewFieldPairs(b, s)
         /\ \A q \in NewFieldPairs(b, s) :
              \E p \in TypePairs(b, s) :
                \E bf \in p[1].fields \ RenamingFields(p[1], p[2], s) :
                  /\ q = <<p[2], bf>>
                  /\ \A f \in SnapFields(s, p[2]) : f.ident # bf.ident
<1> DEFINE Of(p) == {<<p[2], bf>> : bf \in {bf \in p[1].fields \ RenamingFields(p[1], p[2], s) :
                                              \A f \in SnapFields(s, p[2]) : f.ident # bf.ident}}
<1>1. NewFieldPairs(b, s) = UNION {Of(p) : p \in TypePairs(b, s)}
  BY DEF NewFieldPairs
<1>2. ASSUME NEW p \in TypePairs(b, s),
             NEW bf \in p[1].fields \ RenamingFields(p[1], p[2], s),
             \A f \in SnapFields(s, p[2]) : f.ident # bf.ident
      PROVE  <<p[2], bf>> \in NewFieldPairs(b, s)
  <2>1. <<p[2], bf>> \in Of(p)
    BY <1>2
  <2> QED BY <1>1, <2>1
<1>3. ASSUME NEW q \in NewFieldPairs(b, s)
      PROVE  \E p \in TypePairs(b, s) :
                \E bf \in p[1].fields \ RenamingFields(p[1], p[2], s) :
                  /\ q = <<p[2], bf>>
                  /\ \A f \in SnapFields(s, p[2]) : f.ident # bf.ident
  <2>1. PICK p \in TypePairs(b, s) : q \in Of(p)
    BY <1>1
  <2> QED BY <2>1
<1> QED BY <1>2, <1>3

LEMMA InUnwantedFields ==
  ASSUME NEW b, NEW s
  PROVE  /\ \A p \in TypePairs(b, s) : \A f \in SnapFields(s, p[2]) :
              /\ \A bf \in p[1].fields : bf.ident # f.ident
              /\ RenamingFields(p[1], p[2], s) = {}
              => <<p[2], f>> \in UnwantedFields(b, s)
         /\ \A q \in UnwantedFields(b, s) :
              \E p \in TypePairs(b, s) : \E f \in SnapFields(s, p[2]) :
                q = <<p[2], f>> /\ \A bf \in p[1].fields : bf.ident # f.ident
<1> DEFINE Of(p) == {<<p[2], f>> : f \in {f \in SnapFields(s, p[2]) :
                       /\ \A bf \in p[1].fields : bf.ident # f.ident
                       /\ \A bf \in RenamingFields(p[1], p[2], s) : bf.id # FieldId(f)}}
<1>1. UnwantedFields(b, s) = UNION {Of(p) : p \in TypePairs(b, s)}
  BY DEF UnwantedFields
<1>2. ASSUME NEW p \in TypePairs(b, s), NEW f \in SnapFields(s, p[2]),
             \A bf \in p[1].fields : bf.ident # f.ident,
             RenamingFields(p[1], p[2], s) = {}
      PROVE  <<p[2], f>> \in UnwantedFields(b, s)
  <2>1. <<p[2], f>> \in Of(p)
    BY <1>2
  <2> QED BY <1>1, <2>1
<1>3. ASSUME NEW q \in UnwantedFields(b, s)
      PROVE  \E p \in TypePairs(b, s) : \E f \in SnapFields(s, p[2]) :
                q = <<p[2], f>> /\ \A bf \in p[1].fields : bf.ident # f.ident
  <2>1. PICK p \in TypePairs(b, s) : q \in Of(p)
    BY <1>1
  <2> QED BY <2>1
<1> QED BY <1>2, <1>3

\* What it takes to have no blockers.
LEMMA NoBlockers ==
  ASSUME NEW b, NEW s, NEW allow, Blockers(b, s, allow) = {}
  PROVE  /\ RenamingTypes(b, s) = {}
         /\ \A t \in UnwantedTypes(b, s) :
              ~ (CountOf(s, t) > 0) /\ (CountOf(s, t) = 0 => allow)
         /\ \A p \in TypePairs(b, s) : RenamingFields(p[1], p[2], s) = {}
         /\ \A p \in UnwantedFields(b, s) : allow
         /\ \A p \in FieldPairs(b, s) :
              /\ p[2].kind = p[3].kind
              /\ ~MissingValues(s, p[1], p[2], p[3])
              /\ ~DuplicateValues(s, p[1], p[2], p[3])
              /\ ~RemovedInUse(s, p[1], p[2], p[3])
         /\ \A bt \in b : \A bf \in bt.fields :
              bf.kind = "RELATION" => bf.opts \subseteq {u.ident : u \in b \cup s.types}
<1> DEFINE unwanted == UnwantedTypes(b, s)
           pairs == FieldPairs(b, s)
           same == {p \in pairs : p[2].kind = p[3].kind}
           name(p) == <<p[1].ident, p[2].ident>>
           Lost(bt) == {bf \in bt.fields : bf.kind = "RELATION"
                          /\ ~ (bf.opts \subseteq {u.ident : u \in b \cup s.types})}
<1>1. {<<"CONTENT_TYPE_IDENTIFIER_CHANGE", bt.ident>> : bt \in RenamingTypes(b, s)} = {}
  BY DEF Blockers
<1>2. {<<"CONTENT_TYPE_REMOVAL_WITH_ENTRIES", t.ident>> :
              t \in {t \in unwanted : CountOf(s, t) > 0}} = {}
  BY DEF Blockers
<1>3. {<<"CONTENT_TYPE_REMOVAL_NEEDS_FLAG", t.ident>> :
              t \in {t \in unwanted : CountOf(s, t) = 0 /\ ~allow}} = {}
  BY DEF Blockers
<1>4. UNION {{<<"FIELD_IDENTIFIER_CHANGE", p[1].ident, bf.ident>> :
                     bf \in RenamingFields(p[1], p[2], s)} : p \in TypePairs(b, s)} = {}
  BY DEF Blockers
<1>5. {<<"FIELD_REMOVAL_NEEDS_FLAG", name(p)>> :
              p \in {p \in UnwantedFields(b, s) : ~allow}} = {}
  BY DEF Blockers
<1>6. {<<"FIELD_TYPE_CHANGE", name(p)>> : p \in pairs \ same} = {}
  BY DEF Blockers
<1>7. {<<"OPTIONAL_TO_REQUIRED_HAS_NULLS", name(p)>> :
              p \in {p \in same : MissingValues(s, p[1], p[2], p[3])}} = {}
  BY DEF Blockers
<1>8. {<<"UNIQUE_CONFLICT", name(p)>> :
              p \in {p \in same : DuplicateValues(s, p[1], p[2], p[3])}} = {}
  BY DEF Blockers
<1>9. {<<"REMOVED_IN_USE", name(p)>> :
              p \in {p \in same : RemovedInUse(s, p[1], p[2], p[3])}} = {}
  BY DEF Blockers
<1>10. UNION {{<<"RELATION_TARGET_NOT_FOUND", bt.ident, bf.ident>> : bf \in Lost(bt)}
              : bt \in b} = {}
  BY DEF Blockers
<1>11. RenamingTypes(b, s) = {}
  BY <1>1
<1>12. \A t \in unwanted : ~ (CountOf(s, t) > 0)
  BY <1>2
<1>13. \A t \in unwanted : CountOf(s, t) = 0 => allow
  BY <1>3
<1>14. \A p \in TypePairs(b, s) : RenamingFields(p[1], p[2], s) = {}
  <2>1. SUFFICES ASSUME NEW p \in TypePairs(b, s), NEW bf \in RenamingFields(p[1], p[2], s)
                 PROVE  FALSE
    OBVIOUS
  <2> DEFINE Named(q) == {<<"FIELD_IDENTIFIER_CHANGE", q[1].ident, x.ident>> :
                            x \in RenamingFields(q[1], q[2], s)}
  <2>2. <<"FIELD_IDENTIFIER_CHANGE", p[1].ident, bf.ident>> \in Named(p)
    OBVIOUS
  <2>3. Named(p) \in {Named(q) : q \in TypePairs(b, s)}
    OBVIOUS
  <2>4. UNION {Named(q) : q \in TypePairs(b, s)} = {}
    BY <1>4
  <2> QED BY <2>2, <2>3, <2>4
<1>15. \A p \in UnwantedFields(b, s) : allow
  BY <1>5
<1>16. \A p \in pairs : p \in same
  BY <1>6
<1>17. \A p \in pairs : ~MissingValues(s, p[1], p[2], p[3])
  BY <1>7, <1>16
<1>18. \A p \in pairs : ~DuplicateValues(s, p[1], p[2], p[3])
  BY <1>8, <1>16
<1>19. \A p \in pairs : ~RemovedInUse(s, p[1], p[2], p[3])
  BY <1>9, <1>16
<1>20. \A bt \in b : Lost(bt) = {}
  <2>1. SUFFICES ASSUME NEW bt \in b, NEW bf \in Lost(bt)
                 PROVE  FALSE
    OBVIOUS
  <2> DEFINE Named(x) == {<<"RELATION_TARGET_NOT_FOUND", x.ident, y.ident>> : y \in Lost(x)}
  <2> HIDE DEF Lost
  <2>2. <<"RELATION_TARGET_NOT_FOUND", bt.ident, bf.ident>> \in Named(bt)
    OBVIOUS
  <2>3. Named(bt) \in {Named(x) : x \in b}
    OBVIOUS
  <2>4. UNION {Named(x) : x \in b} = {}
    BY <1>10
  <2> QED BY <2>2, <2>3, <2>4
<1> QED BY <1>11, <1>12, <1>13, <1>14, <1>15, <1>16, <1>17, <1>18, <1>19, <1>20

\* The change of a field writes what the bundle says, and nothing a field keeps.
LEMMA FieldChangesArePlanned ==
  ASSUME NEW s, NEW bf, IsField(bf), NEW f, NEW changes, changes = FieldChanges(s, bf, f)
  PROVE  /\ IsPlanned(bf.kind, changes)
         /\ IF "required" \in DOMAIN changes THEN changes["required"] = bf.required
                                            ELSE f.required = bf.required
         /\ IF "unique" \in DOMAIN changes THEN changes["unique"] = EffectiveUnique(bf)
                                          ELSE f.unique = EffectiveUnique(bf)
         /\ IF "order" \in DOMAIN changes THEN changes["order"] = bf.order
                                         ELSE f.order = bf.order
         /\ IF "opts" \in DOMAIN changes THEN changes["opts"] = bf.opts
                                        ELSE SnapOpts(f, s.types) = bf.opts
<1> DEFINE new == [required |-> bf.required, unique |-> EffectiveUnique(bf),
                   order |-> bf.order, opts |-> bf.opts]
           old == [required |-> f.required, unique |-> f.unique,
                   order |-> f.order, opts |-> SnapOpts(f, s.types)]
<1>1. changes = [k \in {k \in DOMAIN new : new[k] # old[k]} |-> new[k]]
  BY DEF FieldChanges
<1>2. DOMAIN new = {"required", "unique", "order", "opts"}
  OBVIOUS
<1>3. /\ new["required"] = bf.required /\ new["unique"] = EffectiveUnique(bf)
      /\ new["order"] = bf.order /\ new["opts"] = bf.opts
      /\ old["required"] = f.required /\ old["unique"] = f.unique
      /\ old["order"] = f.order /\ old["opts"] = SnapOpts(f, s.types)
  OBVIOUS
<1> HIDE DEF new, old
<1>4. /\ DOMAIN changes \subseteq {"required", "unique", "order", "opts"}
      /\ \A k \in {"required", "unique", "order", "opts"} :
           IF k \in DOMAIN changes THEN changes[k] = new[k] ELSE new[k] = old[k]
  BY <1>1, <1>2
<1>5. EffectiveUnique(bf) \in BOOLEAN
  BY DEF EffectiveUnique
<1>6. /\ IF "required" \in DOMAIN changes THEN changes["required"] = bf.required
                                         ELSE f.required = bf.required
      /\ IF "unique" \in DOMAIN changes THEN changes["unique"] = EffectiveUnique(bf)
                                       ELSE f.unique = EffectiveUnique(bf)
  BY <1>3, <1>4
<1>7. /\ IF "order" \in DOMAIN changes THEN changes["order"] = bf.order
                                      ELSE f.order = bf.order
      /\ IF "opts" \in DOMAIN changes THEN changes["opts"] = bf.opts
                                     ELSE SnapOpts(f, s.types) = bf.opts
  BY <1>3, <1>4
<1>8. IsPlanned(bf.kind, changes)
  BY <1>4, <1>5, <1>6, <1>7 DEF IsPlanned, IsField
<1> QED BY <1>6, <1>7, <1>8

\* A plan without blockers is made of what the bundle says.
LEMMA PlansAreSound ==
  ASSUME NEW b \in Files, NEW n \in Nat, NEW s, IsSnapshot(n, s), NEW allow,
         PlanSchema(b, s, allow).blockers = {}
  PROVE  PlanOf(b, s.types, PlanSchema(b, s, allow))
<1> DEFINE plan == PlanSchema(b, s, allow)
<1>1. Blockers(b, s, allow) = {}
  BY DEF PlanSchema
<1>2. /\ RenamingTypes(b, s) = {}
      /\ \A bt \in b : \A bf \in bt.fields :
           bf.kind = "RELATION" => bf.opts \subseteq {u.ident : u \in b \cup s.types}
  BY <1>1, NoBlockers
<1>3. \A bt \in b : IsType(bt)
  BY FilesAreBundles
<1>4. /\ plan.createTypes = {bt \in b \ RenamingTypes(b, s) : \A t \in s.types : t.ident # bt.ident}
      /\ plan.updateTypes = {<<TypeId(p[2]), p[1].name>> :
                               p \in {p \in TypePairs(b, s) : p[1].name # p[2].name}}
      /\ plan.removeTypes = {TypeId(t) : t \in {t \in UnwantedTypes(b, s) :
                                                 CountOf(s, t) = 0 /\ allow}}
      /\ plan.createFields = {<<TypeId(p[1]), p[2]>> : p \in NewFieldPairs(b, s)}
      /\ plan.updateFields = {<<FieldId(p[3]), p[2].kind, FieldChanges(s, p[2], p[3])>> :
                       p \in {p \in FieldPairs(b, s) :
                                /\ p[2].kind = p[3].kind
                                /\ DOMAIN FieldChanges(s, p[2], p[3]) # {}}}
  BY DEF PlanSchema
<1> HIDE DEF plan
<1>5. \A t \in s.types : TypeId(t) \in TypeIds
  BY DEF IsSnapshot, OldTypes, ContentType, TypeId, TypeIds
<1>6. \A u \in plan.updateTypes : \E bt \in b : u[2] = bt.name
  BY <1>4, InTypePairs
<1>7. ASSUME NEW c \in plan.createFields
      PROVE  /\ c[1] \notin plan.removeTypes
             /\ \E id \in TypeIds, bt \in b : \E bf \in bt.fields : c = <<id, bf>>
  <2>1. PICK q \in NewFieldPairs(b, s) : c = <<TypeId(q[1]), q[2]>>
    BY <1>4
  <2>2. PICK p \in TypePairs(b, s) : \E bf \in p[1].fields : q = <<p[2], bf>>
    BY InNewFieldPairs
  <2>3. p[1] \in b /\ p[2] \in s.types /\ p[1].ident = p[2].ident
    BY InTypePairs
  <2>4. c[1] = TypeId(p[2])
    BY <2>1, <2>2
  <2>5. ASSUME c[1] \in plan.removeTypes
        PROVE  FALSE
    <3>1. PICK t \in UnwantedTypes(b, s) : c[1] = TypeId(t)
      BY <1>4, <2>5
    <3>2. t.ident = p[2].ident
      BY <2>4, <3>1 DEF TypeId
    <3> QED BY <2>3, <3>2 DEF UnwantedTypes
  <2> QED BY <1>5, <2>1, <2>2, <2>3, <2>5
<1>8. ASSUME NEW u \in plan.updateFields
      PROVE  IsPlanned(u[2], u[3])
  <2>1. PICK q \in FieldPairs(b, s) :
              u = <<FieldId(q[3]), q[2].kind, FieldChanges(s, q[2], q[3])>>
    BY <1>4
  <2>2. PICK p \in TypePairs(b, s) : q[2] \in p[1].fields
    BY InFieldPairs
  <2>3. IsField(q[2])
    BY <1>3, <2>2, InTypePairs DEF IsType
  <2> QED BY <2>1, <2>3, FieldChangesArePlanned
<1>9. /\ plan.createTypes \subseteq b
      /\ \A bt \in b : bt \in plan.createTypes \/ \E t \in s.types : t.ident = bt.ident
  BY <1>2, <1>4
<1>10. PlanOf(b, s.types, plan)
  BY <1>2, <1>6, <1>7, <1>8, <1>9 DEF PlanOf
<1> QED BY <1>10 DEF plan

(***************************************************************************)
(* The steps of an apply up to its statements.                             *)
(***************************************************************************)
LEMMA OthersRunOn ==
  ASSUME SchemaInv, tx' \in Nat, tx <= tx', NEW p \in Appliers, NEW x,
         run' = [run EXCEPT ![p] = x], IsIdle(x) \/ IsBusy(tx', x)
  PROVE  RunsAreWhole'
<1>1. tx \in Nat
  BY TxIsNatural DEF SchemaInv, RowsHaveTypes
<1>2. DOMAIN run' = Appliers
  BY DEF SchemaInv, RunsAreWhole
<1>3. SUFFICES ASSUME NEW q \in Appliers
               PROVE  IsIdle(run'[q]) \/ IsBusy(tx', run'[q])
  BY <1>2 DEF RunsAreWhole
<1>4. CASE q = p
  <2>1. run'[q] = x
    BY <1>2, <1>4 DEF SchemaInv, RunsAreWhole
  <2> QED BY <2>1
<1>5. CASE q # p
  <2>1. run'[q] = run[q]
    BY <1>5 DEF SchemaInv, RunsAreWhole
  <2>2. IsIdle(run[q]) \/ IsBusy(tx, run[q])
    BY DEF SchemaInv, RunsAreWhole
  <2> QED BY <1>1, <2>1, <2>2, BusyStaysBusy
<1> QED BY <1>4, <1>5

LEMMA RunsGoOn ==
  ASSUME SchemaInv, tx' \in Nat, tx <= tx', UNCHANGED run
  PROVE  RunsAreWhole'
<1>1. tx \in Nat
  BY TxIsNatural DEF SchemaInv, RowsHaveTypes
<1>2. \A p \in Appliers : IsIdle(run[p]) \/ IsBusy(tx', run[p])
  BY <1>1, BusyStaysBusy DEF SchemaInv, RunsAreWhole
<1> QED BY <1>2 DEF SchemaInv, RunsAreWhole

LEMMA IdleIsIdle ==
  /\ \A done \in 0 .. Len(BootDir) - 1 : IsIdle(Idle(done))
  /\ IsIdle(Idle(0))
  /\ 0 \in 0 .. Len(BootDir) - 1
<1>1. Len(BootDir) > 0
  <2>1. ASSUME Len(BootDir) = 0
        PROVE  BootDir = << >>
    BY <2>1, FilesAreBundles
  <2> QED BY <2>1, FilesAreBundles
<1>2. 0 \in 0 .. Len(BootDir) - 1
  BY <1>1, FilesAreBundles
<1> QED BY <1>2 DEF IsIdle, Idle

LEMMA WorkersAreBusy ==
  ASSUME SchemaInv, NEW p \in Appliers
  PROVE  /\ run[p].pc = "idle" => IsIdle(run[p])
         /\ run[p].pc # "idle" => IsBusy(tx, run[p])
         /\ run[p].pc = "idle" <=> run[p].pc \notin Stages
<1>1. "idle" \notin Stages
  BY DEF Stages, Planning
<1> QED BY <1>1 DEF SchemaInv, RunsAreWhole, IsIdle, IsBusy

LEMMA FinishIsIdle ==
  ASSUME SchemaInv, NEW p \in Appliers, IsBusy(tx, run[p]), NEW ok \in BOOLEAN, Finish(p, ok)
  PROVE  \E x : IsIdle(x) /\ run' = [run EXCEPT ![p] = x]
<1> DEFINE done == IF ok /\ run[p].boot THEN (run[p].done + 1) % Len(BootDir) ELSE 0
<1>1. Len(BootDir) \in Nat /\ Len(BootDir) > 0
  BY IdleIsIdle, FilesAreBundles
<1>2. run[p].done + 1 \in Nat
  BY DEF IsBusy
<1>3. done \in 0 .. Len(BootDir) - 1
  BY <1>1, <1>2
<1>4. run' = [run EXCEPT ![p] = Idle(done)]
  BY DEF Finish
<1> QED BY <1>3, <1>4, IdleIsIdle

LEMMA BeginKeeps ==
  ASSUME SchemaInv, NEW p \in Appliers, IsIdle(run[p]), NEW b \in Files,
         NEW allow \in BOOLEAN, NEW boot \in BOOLEAN, Begin(p, b, allow, boot)
  PROVE  \E x : (IsIdle(x) \/ IsBusy(tx, x)) /\ run' = [run EXCEPT ![p] = x]
<1>1. CASE ~ValidBundle(b)
  BY <1>1, IdleIsIdle DEF Begin
<1>2. CASE ValidBundle(b)
  <2> DEFINE x == [pc |-> "types", boot |-> boot, done |-> run[p].done, retried |-> FALSE,
                  bundle |-> b, allow |-> allow, snap |-> EmptySnapshot,
                  plan |-> NoValue, known |-> {}, since |-> 0]
  <2>1. run' = [run EXCEPT ![p] = x]
    BY <1>2 DEF Begin
  <2>2. x.done \in 0 .. Len(BootDir) - 1
    BY DEF IsIdle
  <2>3. IsSnapshot(tx, x.snap) /\ OldTypes(tx, x.known)
    BY DEF IsSnapshot, OldTypes, EmptySnapshot
  <2>4. "types" \in Stages /\ "types" \notin Planning
    BY DEF Stages, Planning
  <2>5. IsBusy(tx, x)
    BY <1>2, <2>2, <2>3, <2>4 DEF IsBusy, RunKeys
  <2> QED BY <2>1, <2>5
<1> QED BY <1>1, <1>2

\* What a step leaves alone of a run.
SameOrder(r, x) ==
  x.bundle = r.bundle /\ x.allow = r.allow /\ x.boot = r.boot /\ x.done = r.done

LEMMA ReadTypesGoesOn ==
  ASSUME SchemaInv, NEW p \in Appliers, ReadTypes(p)
  PROVE  \E x : /\ run' = [run EXCEPT ![p] = x] /\ IsBusy(tx, x)
                /\ SameOrder(run[p], x)
                /\ \/ run[p].pc = "types" /\ x.pc = "counts"
                   \/ run[p].pc = "types2" /\ x.pc = "counts2"
                /\ x.snap.types = types /\ x.snap.fields = fields /\ x.since = tx
                /\ x.plan = run[p].plan /\ x.known = run[p].known
<1> DEFINE r == run[p]
           now == [EmptySnapshot EXCEPT !.types = types, !.fields = fields]
           x == [r EXCEPT !.pc = IF @ = "types" THEN "counts" ELSE "counts2",
                          !.snap = now, !.since = tx]
<1>1. IsBusy(tx, r) /\ r.pc \in {"types", "types2"}
  BY WorkersAreBusy DEF ReadTypes
<1>2. /\ now = [k \in {"types", "fields", "entries", "counts"} |-> now[k]]
      /\ now.types = types /\ now.fields = fields
  BY DEF EmptySnapshot
<1>3. /\ x = [k \in RunKeys |-> x[k]]
      /\ x.pc = IF r.pc = "types" THEN "counts" ELSE "counts2"
      /\ x.snap = now /\ x.since = tx /\ x.retried = r.retried
      /\ x.plan = r.plan /\ x.known = r.known /\ SameOrder(r, x)
  <2> HIDE DEF now
  <2> QED BY <1>1 DEF IsBusy, RunKeys, SameOrder
<1>4. run' = [run EXCEPT ![p] = x]
  <2>1. DOMAIN run = Appliers
    BY DEF SchemaInv, RunsAreWhole
  <2> QED BY <2>1 DEF ReadTypes
<1> HIDE DEF now, x
<1>5. IsSnapshot(tx, now)
  <2>1. types \subseteq ContentType /\ fields \subseteq ContentTypeField
    BY DEF SchemaInv, RowsHaveTypes, TypeOK
  <2>2. \A t \in types : t.born <= tx
    BY DEF SchemaInv, IdsAreOld
  <2> QED BY <1>2, <2>1, <2>2 DEF IsSnapshot, OldTypes
<1>6. IsBusy(tx, x)
  <2>1. x.pc \in Stages /\ (x.pc \in Planning => r.pc \in Planning)
    BY <1>1, <1>3 DEF Stages, Planning
  <2> QED BY <1>1, <1>3, <1>5, <2>1 DEF IsBusy, SameOrder
<1> QED BY <1>1, <1>2, <1>3, <1>4, <1>6

LEMMA ReadCountsGoesOn ==
  ASSUME SchemaInv, NEW p \in Appliers, ReadCounts(p)
  PROVE  \E x : /\ run' = [run EXCEPT ![p] = x] /\ IsBusy(tx, x)
                /\ SameOrder(run[p], x)
                /\ \/ run[p].pc = "counts" /\ x.pc = "entries"
                   \/ run[p].pc = "counts2" /\ x.pc = "entries2"
                /\ x.snap.types = run[p].snap.types /\ x.snap.fields = run[p].snap.fields
                /\ x.snap.counts = Counts(entries) /\ x.since = run[p].since
                /\ x.plan = run[p].plan /\ x.known = run[p].known
<1> DEFINE r == run[p]
           now == [r.snap EXCEPT !.counts = Counts(entries)]
           x == [r EXCEPT !.pc = IF @ = "counts" THEN "entries" ELSE "entries2",
                          !.snap = now]
<1>1. IsBusy(tx, r) /\ r.pc \in {"counts", "counts2"}
  BY WorkersAreBusy DEF ReadCounts
<1>2. /\ now = [k \in {"types", "fields", "entries", "counts"} |-> now[k]]
      /\ now.types = r.snap.types /\ now.fields = r.snap.fields
      /\ now.counts = Counts(entries)
  <2>1. r.snap = [k \in {"types", "fields", "entries", "counts"} |-> r.snap[k]]
    BY <1>1 DEF IsBusy, IsSnapshot
  <2> QED BY <2>1
<1>3. /\ x = [k \in RunKeys |-> x[k]]
      /\ x.pc = IF r.pc = "counts" THEN "entries" ELSE "entries2"
      /\ x.snap = now /\ x.since = r.since /\ x.retried = r.retried
      /\ x.plan = r.plan /\ x.known = r.known /\ SameOrder(r, x)
  <2> HIDE DEF now
  <2> QED BY <1>1 DEF IsBusy, RunKeys, SameOrder
<1>4. run' = [run EXCEPT ![p] = x]
  <2>1. DOMAIN run = Appliers
    BY DEF SchemaInv, RunsAreWhole
  <2>2. /\ run' = [run EXCEPT ![p].pc = IF @ = "counts" THEN "entries" ELSE "entries2",
                              ![p].snap.counts = Counts(entries)]
        /\ "snap" \in DOMAIN r
    BY <1>1 DEF ReadCounts, IsBusy, RunKeys
  <2> QED BY <2>1, <2>2
<1> HIDE DEF now, x
<1>5. IsSnapshot(tx, now)
  BY <1>1, <1>2 DEF IsBusy, IsSnapshot
<1>6. IsBusy(tx, x)
  <2>1. x.pc \in Stages /\ (x.pc \in Planning => r.pc \in Planning)
    BY <1>1, <1>3 DEF Stages, Planning
  <2> QED BY <1>1, <1>3, <1>5, <2>1 DEF IsBusy, SameOrder
<1> QED BY <1>1, <1>2, <1>3, <1>4, <1>6

\* The snapshot a plan is made from.
Seen(p) == [run[p].snap EXCEPT !.entries = entries]

LEMMA SeenIsSnapshot ==
  ASSUME NEW p, IsSnapshot(tx, run[p].snap)
  PROVE  /\ IsSnapshot(tx, Seen(p))
         /\ Seen(p) = [types |-> run[p].snap.types, fields |-> run[p].snap.fields,
                       entries |-> entries, counts |-> run[p].snap.counts]
<1> DEFINE s == Seen(p)
<1>1. /\ s = [k \in {"types", "fields", "entries", "counts"} |-> s[k]]
      /\ s.types = run[p].snap.types /\ s.fields = run[p].snap.fields
      /\ s.entries = entries /\ s.counts = run[p].snap.counts
  BY DEF IsSnapshot, Seen
<1> HIDE DEF s
<1>2. s = [types |-> s.types, fields |-> s.fields, entries |-> s.entries, counts |-> s.counts]
  BY <1>1
<1>3. IsSnapshot(tx, s)
  BY <1>1 DEF IsSnapshot
<1> QED BY <1>1, <1>2, <1>3 DEF s

LEMMA PlanGoesOn ==
  ASSUME SchemaInv, NEW p \in Appliers, Plan(p)
  PROVE  \/ \E x : run' = [run EXCEPT ![p] = x] /\ IsIdle(x)
         \/ \E x : /\ run' = [run EXCEPT ![p] = x] /\ IsBusy(tx, x)
                   /\ SameOrder(run[p], x)
                   /\ run[p].pc = "entries" /\ x.pc = "types2"
                   /\ x.plan.blockers = {} /\ x.since = run[p].since
                   /\ x.plan = Planned(p)
<1> DEFINE r == run[p]
           plan == Planned(p)
           x == [r EXCEPT !.pc = "types2", !.plan = plan, !.known = r.snap.types,
                          !.snap = EmptySnapshot]
<1>1. IsBusy(tx, r) /\ r.pc = "entries"
  BY WorkersAreBusy DEF Plan
<1>2. CASE Finish(p, FALSE) \/ Finish(p, TRUE)
  BY <1>1, <1>2, FinishIsIdle
<1>3. CASE ~(Finish(p, FALSE) \/ Finish(p, TRUE))
  <2>1. plan.blockers = {}
    BY <1>3 DEF Plan
  <2>2. run' = [run EXCEPT ![p].pc = "types2", ![p].plan = plan,
                           ![p].known = run[p].snap.types, ![p].snap = EmptySnapshot]
    BY <1>3 DEF Plan
  <2>3. /\ x = [k \in RunKeys |-> x[k]]
        /\ x.pc = "types2" /\ x.plan = plan /\ x.known = r.snap.types
        /\ x.snap = EmptySnapshot /\ x.since = r.since /\ x.retried = r.retried
        /\ SameOrder(r, x)
    <3> HIDE DEF plan
    <3> QED BY <1>1 DEF IsBusy, RunKeys, SameOrder
  <2>4. run' = [run EXCEPT ![p] = x]
    <3> HIDE DEF plan
    <3>1. DOMAIN run = Appliers
      BY DEF SchemaInv, RunsAreWhole
    <3> QED BY <2>2, <3>1
  <2>5. IsSnapshot(tx, Seen(p)) /\ Seen(p).types = r.snap.types
    BY <1>1, SeenIsSnapshot DEF IsBusy
  <2>6. PlanOf(r.bundle, r.snap.types, plan)
    <3>1. plan = PlanSchema(r.bundle, Seen(p), r.allow)
      BY DEF Planned, Seen
    <3>2. tx \in Nat /\ r.bundle \in Files
      BY <1>1, TxIsNatural DEF SchemaInv, RowsHaveTypes, IsBusy
    <3> QED BY <2>1, <2>5, <3>1, <3>2, PlansAreSound
  <2>7. IsSnapshot(tx, EmptySnapshot) /\ OldTypes(tx, r.snap.types)
    BY <1>1 DEF IsSnapshot, OldTypes, EmptySnapshot, IsBusy
  <2>8. "types2" \in Stages
    BY DEF Stages, Planning
  <2> HIDE DEF plan, x
  <2>9. IsBusy(tx, x)
    BY <1>1, <2>3, <2>6, <2>7, <2>8 DEF IsBusy, SameOrder
  <2>10. plan = Planned(p)
    BY DEF plan
  <2> QED BY <1>1, <2>1, <2>3, <2>4, <2>9, <2>10
<1> QED BY <1>2, <1>3

LEMMA ReplanGoesOn ==
  ASSUME SchemaInv, NEW p \in Appliers, Replan(p)
  PROVE  \/ \E x : run' = [run EXCEPT ![p] = x] /\ IsIdle(x)
         \/ \E x : /\ run' = [run EXCEPT ![p] = x] /\ IsBusy(tx, x)
                   /\ SameOrder(run[p], x) /\ run[p].pc = "entries2"
                   /\ x.since = run[p].since
                   /\ \/ /\ x.pc = "execute" /\ run[p].plan = Planned(p)
                         /\ x.plan = run[p].plan /\ x.known = run[p].known
                      \/ x.pc = "types"
<1> DEFINE r == run[p]
           go == [r EXCEPT !.pc = "execute", !.snap = EmptySnapshot]
           again == [r EXCEPT !.pc = "types", !.retried = TRUE, !.snap = EmptySnapshot,
                              !.plan = NoValue, !.known = {}]
<1>1. IsBusy(tx, r) /\ r.pc = "entries2"
  BY WorkersAreBusy DEF Replan
<1>2. DOMAIN run = Appliers
  BY DEF SchemaInv, RunsAreWhole
<1>3. IsSnapshot(tx, EmptySnapshot) /\ OldTypes(tx, {})
  BY DEF IsSnapshot, OldTypes, EmptySnapshot
<1>4. CASE PlansEqual(r.plan, Planned(p))
  <2>1. /\ go = [k \in RunKeys |-> go[k]]
        /\ go.pc = "execute" /\ go.plan = r.plan /\ go.known = r.known
        /\ go.snap = EmptySnapshot /\ go.since = r.since /\ go.retried = r.retried
        /\ SameOrder(r, go)
    BY <1>1 DEF IsBusy, RunKeys, SameOrder
  <2>2. run' = [run EXCEPT ![p].pc = "execute", ![p].snap = EmptySnapshot]
    BY <1>4 DEF Replan
  <2>3. run' = [run EXCEPT ![p] = go]
    BY <1>2, <2>2
  <2> HIDE DEF go
  <2>4. go.pc \in Stages /\ r.pc \in Planning
    BY <1>1, <2>1 DEF Stages, Planning
  <2>5. IsBusy(tx, go)
    BY <1>1, <1>3, <2>1, <2>4 DEF IsBusy, SameOrder
  <2>6. r.plan = Planned(p)
    BY <1>4 DEF PlansEqual
  <2> QED BY <1>1, <2>1, <2>3, <2>5, <2>6
<1>5. CASE ~PlansEqual(r.plan, Planned(p)) /\ ~r.boot /\ ~r.retried
  <2>1. /\ again = [k \in RunKeys |-> again[k]]
        /\ again.pc = "types" /\ again.known = {} /\ again.retried = TRUE
        /\ again.snap = EmptySnapshot /\ again.since = r.since /\ SameOrder(r, again)
    BY <1>1 DEF IsBusy, RunKeys, SameOrder
  <2>2. run' = [run EXCEPT ![p].pc = "types", ![p].retried = TRUE,
                           ![p].snap = EmptySnapshot, ![p].plan = NoValue, ![p].known = {}]
    BY <1>5 DEF Replan
  <2>3. run' = [run EXCEPT ![p] = again]
    BY <1>2, <2>2
  <2> HIDE DEF again
  <2>4. again.pc \in Stages /\ again.pc \notin Planning
    BY <2>1 DEF Stages, Planning
  <2>5. IsBusy(tx, again)
    BY <1>1, <1>3, <2>1, <2>4 DEF IsBusy, SameOrder
  <2> QED BY <1>1, <2>1, <2>3, <2>5
<1>6. CASE ~PlansEqual(r.plan, Planned(p)) /\ ~(~r.boot /\ ~r.retried)
  <2>1. Finish(p, FALSE)
    BY <1>6 DEF Replan
  <2> QED BY <1>1, <2>1, FinishIsIdle
<1> QED BY <1>4, <1>5, <1>6

(***************************************************************************)
(* Steps that write, and steps that do not.                                *)
(***************************************************************************)
LEMMA RequestsGoOn ==
  ASSUME SchemaInv, tx' \in Nat, tx <= tx', UNCHANGED req
  PROVE  RequestsAreWhole'
<1>1. tx \in Nat
  BY TxIsNatural DEF SchemaInv, RowsHaveTypes
<1>2. \A h \in Handlers : req[h] # NoValue => IsWrite(tx', req[h])
  BY <1>1, WriteStaysWrite DEF SchemaInv, RequestsAreWhole
<1> QED BY <1>2 DEF SchemaInv, RequestsAreWhole

LEMMA OthersRequestOn ==
  ASSUME SchemaInv, tx' \in Nat, tx <= tx', NEW h \in Handlers, NEW w,
         req' = [req EXCEPT ![h] = w], w = NoValue \/ IsWrite(tx', w)
  PROVE  RequestsAreWhole'
<1>1. tx \in Nat
  BY TxIsNatural DEF SchemaInv, RowsHaveTypes
<1>2. DOMAIN req' = Handlers
  BY DEF SchemaInv, RequestsAreWhole
<1>3. SUFFICES ASSUME NEW i \in Handlers, req'[i] # NoValue
               PROVE  IsWrite(tx', req'[i])
  BY <1>2 DEF RequestsAreWhole
<1>4. CASE i = h
  BY <1>3, <1>4 DEF SchemaInv, RequestsAreWhole
<1>5. CASE i # h
  <2>1. req'[i] = req[i]
    BY <1>5 DEF SchemaInv, RequestsAreWhole
  <2>2. IsWrite(tx, req[i])
    BY <1>3, <2>1 DEF SchemaInv, RequestsAreWhole
  <2> QED BY <1>1, <2>1, <2>2, WriteStaysWrite
<1> QED BY <1>4, <1>5

LEMMA WriteCounts ==
  ASSUME SchemaInv, Write
  PROVE  /\ tx \in Nat /\ tx' = tx + 1 /\ tx' \in Nat /\ tx <= tx'
         /\ tx' \in 0 .. MaxTx /\ tx < tx' /\ MaxTx \in Nat
BY SchemaConstants DEF SchemaInv, RowsHaveTypes, TypeOK, Write, Room

\* A step that leaves the tables alone.
LEMMA TablesStand ==
  ASSUME SchemaInv, UNCHANGED <<types, fields, entries, tx, announced>>,
         RequestsAreWhole', RunsAreWhole'
  PROVE  SchemaInv'
<1>1. TypeOK'
  BY DEF SchemaInv, RowsHaveTypes, TypeOK, RequestsAreWhole, RunsAreWhole
<1>2. RowsHaveTypes'
  BY <1>1 DEF SchemaInv, RowsHaveTypes
<1>3. TablesAreKeyed' /\ EntriesAreFinite' /\ IdsAreOld'
  BY DEF SchemaInv, TablesAreKeyed, EntriesAreFinite, IdsAreOld
<1> QED BY <1>2, <1>3 DEF SchemaInv

LEMMA AppliersKeep ==
  ASSUME SchemaInv, NEW p \in Appliers, NEW x, run' = [run EXCEPT ![p] = x],
         IsIdle(x) \/ IsBusy(tx, x),
         UNCHANGED <<types, fields, entries, tx, announced, req>>
  PROVE  SchemaInv'
<1>1. tx \in Nat /\ tx' = tx
  BY TxIsNatural DEF SchemaInv, RowsHaveTypes
<1>2. tx' \in Nat /\ tx <= tx' /\ (IsIdle(x) \/ IsBusy(tx', x))
  BY <1>1
<1>3. RunsAreWhole' /\ RequestsAreWhole'
  BY <1>2, OthersRunOn, RequestsGoOn
<1> QED BY <1>3, TablesStand

(***************************************************************************)
(* Entries.                                                                *)
(***************************************************************************)
LEMMA EntriesStepKeeps ==
  ASSUME SchemaInv, Write, entries' \subseteq ContentEntry, IsFiniteSet(entries'),
         \A e \in entries' : \E t \in types : e.type = TypeId(t),
         announced' = {}, UNCHANGED <<types, fields, req, run>>
  PROVE  SchemaInv'
<1>1. RunsAreWhole' /\ RequestsAreWhole'
  BY WriteCounts, RunsGoOn, RequestsGoOn
<1>2. TypeOK'
  BY <1>1, WriteCounts DEF SchemaInv, RowsHaveTypes, TypeOK, RequestsAreWhole, RunsAreWhole
<1>3. RowsHaveTypes'
  BY <1>2 DEF SchemaInv, RowsHaveTypes
<1>4. TablesAreKeyed' /\ EntriesAreFinite'
  BY DEF SchemaInv, TablesAreKeyed, EntriesAreFinite
<1>5. \A f \in fields : OldAt(tx', f.opts)
  BY WriteCounts, OldStaysOld DEF SchemaInv, IdsAreOld
<1>6. /\ \A t \in types : t.born \in Nat /\ t.born <= tx
      /\ \A f \in fields : f.born \in Nat /\ f.born <= tx
  BY DEF SchemaInv, RowsHaveTypes, TypeOK, IdsAreOld, ContentType, ContentTypeField
<1>7. IdsAreOld'
  BY <1>5, <1>6, WriteCounts DEF IdsAreOld
<1> QED BY <1>1, <1>3, <1>4, <1>7 DEF SchemaInv

LEMMA CreateEntryKeeps ==
  ASSUME SchemaInv, CreateEntry
  PROVE  SchemaInv'
<1>1. Write /\ announced' = {} /\ UNCHANGED <<types, fields, req, run>>
  BY DEF CreateEntry
<1>10. PICK t \in types : \E d \in ValidData(TypeId(t)) :
        entries' = entries \cup {[type |-> TypeId(t), born |-> tx + 1,
                                  live |-> TRUE, data |-> d]}
  BY DEF CreateEntry
<1>2. PICK d \in ValidData(TypeId(t)) :
        entries' = entries \cup {[type |-> TypeId(t), born |-> tx + 1,
                                  live |-> TRUE, data |-> d]}
  BY <1>10
<1>3. TypeId(t) \in TypeIds
  BY DEF SchemaInv, RowsHaveTypes, TypeOK, ContentType, TypeId, TypeIds
<1>4. tx + 1 \in 0 .. MaxTx
  BY <1>1, WriteCounts
<1>5. d \in [FieldIdents -> DataValues]
  <2> DEFINE own == FieldsOf(TypeId(t))
             values == Choices \cup TypeIds \cup ({"ENTRY_TITLE", "SLUG"} \X {tx + 1})
             may == [i \in FieldIdents |->
                {v \in values : \E f \in own : f.ident = i /\ ValidValue(f, v)}]
             must == {f.ident : f \in {f \in own : f.required \/ f.kind \in {"ENTRY_TITLE", "SLUG"}}}
  <2>1. values \subseteq DataValues /\ NoValue \in DataValues
    BY <1>4 DEF DataValues
  <2>2. d \in [FieldIdents -> (UNION {may[i] : i \in FieldIdents}) \cup {NoValue}]
    BY DEF ValidData
  <2>3. \A i \in FieldIdents : may[i] \subseteq values
    OBVIOUS
  <2> HIDE DEF may, values
  <2>4. UNION {may[i] : i \in FieldIdents} \subseteq values
    BY <2>3
  <2> QED BY <2>1, <2>2, <2>4
<1>6. entries' \subseteq ContentEntry
  <2>1. [type |-> TypeId(t), born |-> tx + 1, live |-> TRUE, data |-> d] \in ContentEntry
    BY <1>3, <1>4, <1>5 DEF ContentEntry
  <2>2. entries \subseteq ContentEntry
    BY DEF SchemaInv, RowsHaveTypes, TypeOK
  <2> QED BY <1>2, <2>1, <2>2
<1>7. IsFiniteSet(entries')
  BY <1>2, FS_AddElement DEF SchemaInv, EntriesAreFinite
<1>8. \A e \in entries' : \E u \in types : e.type = TypeId(u)
  BY <1>2 DEF SchemaInv, RowsHaveTypes
<1> QED BY <1>1, <1>6, <1>7, <1>8, EntriesStepKeeps

LEMMA ArchiveEntryKeeps ==
  ASSUME SchemaInv, ArchiveEntry
  PROVE  SchemaInv'
<1>1. Write /\ announced' = {} /\ UNCHANGED <<types, fields, req, run>>
  BY DEF ArchiveEntry
<1>2. PICK e \in entries : entries' = (entries \ {e}) \cup {[e EXCEPT !.live = FALSE]}
  BY DEF ArchiveEntry
<1> DEFINE d == [e EXCEPT !.live = FALSE]
<1>3. d \in ContentEntry /\ d.type = e.type
  BY DEF SchemaInv, RowsHaveTypes, TypeOK, ContentEntry
<1> HIDE DEF d
<1>4. entries' = (entries \ {e}) \cup {d}
  BY <1>2 DEF d
<1>5. entries' \subseteq ContentEntry
  BY <1>3, <1>4 DEF SchemaInv, RowsHaveTypes, TypeOK
<1>6. IsFiniteSet(entries')
  BY <1>4, FS_AddElement, FS_RemoveElement DEF SchemaInv, EntriesAreFinite
<1>7. \A x \in entries' : \E u \in types : x.type = TypeId(u)
  BY <1>3, <1>4 DEF SchemaInv, RowsHaveTypes
<1> QED BY <1>1, <1>5, <1>6, <1>7, EntriesStepKeeps

LEMMA DeleteEntryKeeps ==
  ASSUME SchemaInv, DeleteEntry
  PROVE  SchemaInv'
<1>1. Write /\ announced' = {} /\ UNCHANGED <<types, fields, req, run>>
  BY DEF DeleteEntry
<1>2. PICK e \in entries : entries' = entries \ {e}
  BY DEF DeleteEntry
<1>3. entries' \subseteq ContentEntry
  BY <1>2 DEF SchemaInv, RowsHaveTypes, TypeOK
<1>4. IsFiniteSet(entries')
  BY <1>2, FS_RemoveElement DEF SchemaInv, EntriesAreFinite
<1>5. \A x \in entries' : \E u \in types : x.type = TypeId(u)
  BY <1>2 DEF SchemaInv, RowsHaveTypes
<1> QED BY <1>1, <1>3, <1>4, <1>5, EntriesStepKeeps

(***************************************************************************)
(* The unique indexes bound the tables.                                    *)
(***************************************************************************)
LEMMA KeyedTablesAreFinite ==
  ASSUME TypeOK, TablesAreKeyed
  PROVE  IsFiniteSet(types) /\ IsFiniteSet(fields)
<1>1. IsFiniteSet(Idents) /\ IsFiniteSet(FieldIdents) /\ MaxTx \in Nat
  BY SchemaConstants
<1>2. IsFiniteSet(types)
  <2> DEFINE key == [t \in types |-> t.ident]
  <2>1. key \in [types -> Idents]
    BY DEF TypeOK, ContentType
  <2>2. \A t, u \in types : key[t] = key[u] => t = u
    BY DEF TablesAreKeyed, NoRepeats
  <2>3. key \in Injection(types, Idents)
    BY <2>1, <2>2 DEF Injection, IsInjective
  <2> QED BY <1>1, <2>3, FS_Injection
<1>3. IsFiniteSet(fields)
  <2> DEFINE key == [f \in fields |-> <<f.type, f.ident>>]
             Keys == TypeIds \X FieldIdents
  <2>1. IsFiniteSet(0 .. MaxTx)
    BY <1>1, FS_Interval
  <2>2. IsFiniteSet(Keys)
    BY <1>1, <2>1, FS_Product DEF TypeIds
  <2>3. key \in [fields -> Keys]
    BY DEF TypeOK, ContentTypeField
  <2>4. \A f, g \in fields : key[f] = key[g] => f = g
    BY DEF TablesAreKeyed
  <2>5. key \in Injection(fields, Keys)
    BY <2>3, <2>4 DEF Injection, IsInjective
  <2> QED BY <2>2, <2>5, FS_Injection
<1> QED BY <1>2, <1>3

\* The greatest of finitely many numbers is one of them.
LEMMA GreatestIsAmong ==
  ASSUME NEW S \in SUBSET Nat, IsFiniteSet(S), S # {}
  PROVE  \E n \in S : \A m \in S : m <= n
<1> DEFINE Above(n) == {m \in S : m > n}
           R == StrictSubsetOrdering(S)
           T == {Above(n) : n \in S}
<1>1. IsWellFoundedOn(R, FiniteSubsetsOf(S))
  BY FS_StrictSubsetOrderingWellFounded
<1>2. T \subseteq FiniteSubsetsOf(S) /\ T # {}
  <2>1. FiniteSubsetsOf(S) = SUBSET S
    BY FS_FiniteSubsetsOfFinite
  <2>2. \A n \in S : Above(n) \in SUBSET S /\ Above(n) \in T
    OBVIOUS
  <2>3. T \subseteq SUBSET S
    OBVIOUS
  <2>4. T # {}
    BY <2>2
  <2> HIDE DEF T
  <2> QED BY <2>1, <2>3, <2>4
<1>3. PICK x \in T : \A y \in T : <<y, x>> \notin R
  <2> HIDE DEF T, R
  <2> QED BY <1>1, <1>2, WFMin
<1>4. PICK n \in S : x = Above(n)
  OBVIOUS
<1>5. S \subseteq Nat
  OBVIOUS
<1>6. ASSUME NEW m \in S, m > n
      PROVE  FALSE
  <2>1. m \in Nat /\ n \in Nat
    <3> HIDE DEF T, R, Above
    <3> QED BY <1>5
  <2>2. ~(m > m) /\ \A k \in Nat : k > m => k > n
    <3> HIDE DEF T, R, Above
    <3> QED BY <1>6, <2>1
  <2>3. \A k \in S : k > m => k > n
    <3> HIDE DEF T, R, Above
    <3> QED BY <1>5, <2>2
  <2>4. Above(m) \subseteq Above(n)
    <3> HIDE DEF T, R
    <3> QED BY <2>3
  <2>5. m \in Above(n) /\ m \notin Above(m)
    <3> HIDE DEF T, R
    <3> QED BY <1>6, <2>2
  <2>6. Above(m) # Above(n) /\ Above(m) \subseteq S /\ Above(n) \subseteq S
    <3>1. Above(m) \subseteq S /\ Above(n) \subseteq S
      OBVIOUS
    <3> HIDE DEF T, R, Above
    <3> QED BY <2>5, <3>1
  <2>7. <<Above(m), Above(n)>> \in R
    <3> HIDE DEF T, Above
    <3> QED BY <2>4, <2>6 DEF StrictSubsetOrdering
  <2>8. Above(m) \in T
    OBVIOUS
  <2> HIDE DEF T, R, Above
  <2> QED BY <1>3, <1>4, <2>7, <2>8
<1>7. \A m \in S : m <= n
  <2> HIDE DEF T, R, Above
  <2> QED BY <1>5, <1>6
<1> QED BY <1>7

LEMMA NextOrderIsNatural ==
  ASSUME SchemaInv, NEW id
  PROVE  NextOrder(id) \in Nat
<1> DEFINE orders == {f.order : f \in FieldsOf(id)}
<1>1. CASE FieldsOf(id) = {}
  BY <1>1 DEF NextOrder
<1>2. CASE FieldsOf(id) # {}
  <2>1. IsFiniteSet(FieldsOf(id))
    BY KeyedTablesAreFinite, FS_Subset DEF SchemaInv, RowsHaveTypes, FieldsOf
  <2>2. orders \in SUBSET Nat /\ orders # {}
    BY <1>2 DEF SchemaInv, RowsHaveTypes, TypeOK, FieldsOf, ContentTypeField
  <2>3. IsFiniteSet(orders)
    <3> DEFINE order == [f \in FieldsOf(id) |-> f.order]
    <3>1. order \in Surjection(FieldsOf(id), orders)
      BY DEF Surjection
    <3> QED BY <2>1, <3>1, FS_Surjection
  <2>4. \E n \in orders : \A f \in FieldsOf(id) : f.order <= n
    <3>1. \E n \in orders : \A m \in orders : m <= n
      <4> HIDE DEF orders
      <4> QED BY <2>2, <2>3, GreatestIsAmong
    <3> QED BY <3>1
  <2> DEFINE n == CHOOSE n \in orders : \A f \in FieldsOf(id) : f.order <= n
  <2>5. n \in orders
    BY <2>4
  <2>6. NextOrder(id) = 1 + n
    BY <1>2 DEF NextOrder
  <2> HIDE DEF n, orders
  <2> QED BY <2>2, <2>5, <2>6
<1> QED BY <1>1, <1>2

(***************************************************************************)
(* The content-type handlers.                                              *)
(***************************************************************************)
LEMMA StoredBodyIsOptions ==
  ASSUME SchemaInv, NEW kind,
         NEW opts, kind \notin {"RELATION", "RICHTEXT"} => opts \subseteq Choices \cup Idents
  PROVE  StoredBody(kind, opts) \subseteq Options /\ OldAt(tx, StoredBody(kind, opts))
<1>1. CASE kind \in {"RELATION", "RICHTEXT"}
  <2>4. tx \in Nat
    BY TxIsNatural DEF SchemaInv, RowsHaveTypes
  <2>1. \A t \in types : /\ t.ident \in Idents /\ t.born \in Nat /\ t.born <= tx
                         /\ TypeId(t) \in TypeIds
    BY DEF SchemaInv, RowsHaveTypes, TypeOK, IdsAreOld, ContentType, TypeId, TypeIds
  <2>2. \A t \in types : TypeId(t) \in Idents \X (0 .. tx)
    <3>1. \A t \in types : t.ident \in Idents /\ t.born \in 0 .. tx
      BY <2>1, <2>4
    <3> QED BY <3>1 DEF TypeId
  <2>3. StoredBody(kind, opts) \subseteq {TypeId(t) : t \in types}
    BY <1>1 DEF StoredBody, IdsFor
  <2> QED BY <2>1, <2>2, <2>3 DEF Options, OldAt
<1>2. CASE kind \notin {"RELATION", "RICHTEXT"}
  <2>1. opts \cap TypeIds = {}
    BY <1>2, SchemaConstants DEF TypeIds
  <2>2. StoredBody(kind, opts) = opts
    BY <1>2 DEF StoredBody
  <2>3. opts \subseteq Options
    BY <1>2 DEF Options
  <2> QED BY <2>1, <2>2, <2>3 DEF OldAt
<1> QED BY <1>1, <1>2

LEMMA AskKeeps ==
  ASSUME SchemaInv, NEW h \in Handlers, NEW w, IsWrite(tx, w), Ask(h, w)
  PROVE  SchemaInv'
<1>1. tx \in Nat /\ tx' = tx /\ UNCHANGED <<types, fields, entries, announced, run>>
  BY TxIsNatural DEF SchemaInv, RowsHaveTypes, Ask
<1>2. req' = [req EXCEPT ![h] = w]
  BY DEF Ask
<1>3. tx' \in Nat /\ tx <= tx' /\ IsWrite(tx', w)
  BY <1>1
<1>4. RequestsAreWhole' /\ RunsAreWhole'
  BY <1>1, <1>2, <1>3, OthersRequestOn, RunsGoOn
<1> QED BY <1>1, <1>4, TablesStand

LEMMA AskRenameKeeps ==
  ASSUME SchemaInv, NEW h \in Handlers, AskRename(h)
  PROVE  SchemaInv'
<1>1. PICK t \in types, n \in Names : Ask(h, [op |-> "rename", id |-> TypeId(t), name |-> n])
  BY DEF AskRename
<1>2. IsWrite(tx, [op |-> "rename", id |-> TypeId(t), name |-> n])
  BY DEF IsWrite
<1> QED BY <1>1, <1>2, AskKeeps

LEMMA AskDeleteTypeKeeps ==
  ASSUME SchemaInv, NEW h \in Handlers, AskDeleteType(h)
  PROVE  SchemaInv'
<1>1. PICK t \in types : Ask(h, [op |-> "deleteType", id |-> TypeId(t)])
  BY DEF AskDeleteType
<1>2. IsWrite(tx, [op |-> "deleteType", id |-> TypeId(t)])
  BY DEF IsWrite
<1> QED BY <1>1, <1>2, AskKeeps

LEMMA AskFieldKeeps ==
  ASSUME SchemaInv, NEW h \in Handlers, AskField(h)
  PROVE  SchemaInv'
<1> DEFINE row(t, b) == [ident |-> b.ident, kind |-> b.kind, required |-> b.required,
                         unique |-> ResolveUnique(b.kind, b.unique),
                         order |-> NextOrder(TypeId(t)), opts |-> StoredBody(b.kind, b.opts)]
           w(t, b) == [op |-> "field", id |-> TypeId(t), body |-> row(t, b)]
<1>1. PICK t \in types, b \in NewFields : Ask(h, w(t, b))
  BY DEF AskField
<1>2. IsField(b) /\ b.unique \in BOOLEAN
  BY BodiesAreValid
<1>3. NextOrder(TypeId(t)) \in Nat
  BY NextOrderIsNatural
<1>4. ResolveUnique(b.kind, b.unique) \in BOOLEAN
  BY <1>2 DEF ResolveUnique
<1>5. StoredBody(b.kind, b.opts) \subseteq Options /\ OldAt(tx, StoredBody(b.kind, b.opts))
  BY <1>2, StoredBodyIsOptions DEF IsField
<1>6. IsWrite(tx, w(t, b))
  BY <1>2, <1>3, <1>4, <1>5 DEF IsWrite, IsField
<1> HIDE DEF w
<1> QED BY <1>1, <1>6, AskKeeps

LEMMA AskEditKeeps ==
  ASSUME SchemaInv, NEW h \in Handlers, AskEdit(h)
  PROVE  SchemaInv'
<1> DEFINE now(f, e, k) == IF k \in DOMAIN e THEN e[k] ELSE f[k]
           opts(f, e) == IF "opts" \in DOMAIN e THEN StoredBody(f.kind, e["opts"]) ELSE {}
           written(f, e) == DOMAIN e \cup (IF now(f, e, "kind") = f.kind THEN {} ELSE {"opts"})
           changes(f, e) == [k \in written(f, e) |-> IF k = "opts" THEN opts(f, e) ELSE e[k]]
           w(f, e) == [op |-> "edit", id |-> FieldId(f), changes |-> changes(f, e)]
<1>1. PICK f \in fields, e \in FieldEdits : Ask(h, w(f, e))
  BY DEF AskEdit
<1> DEFINE ch == changes(f, e)
<1>2. /\ DOMAIN e \subseteq {"kind", "required", "unique", "opts"}
      /\ "kind" \in DOMAIN e => e["kind"] \in Kinds
      /\ \A k \in DOMAIN e \cap {"required", "unique"} : e[k] \in BOOLEAN
      /\ "opts" \in DOMAIN e => e["opts"] \subseteq Choices \cup Idents
  BY BodiesAreValid
<1>3. opts(f, e) \subseteq Options /\ OldAt(tx, opts(f, e))
  <2>1. CASE "opts" \in DOMAIN e
    BY <1>2, <2>1, StoredBodyIsOptions
  <2>2. CASE "opts" \notin DOMAIN e
    BY <2>2 DEF OldAt
  <2> QED BY <2>1, <2>2
<1>4. /\ DOMAIN ch \subseteq DOMAIN e \cup {"opts"}
      /\ \A k \in DOMAIN ch : ch[k] = IF k = "opts" THEN opts(f, e) ELSE e[k]
  OBVIOUS
<1> HIDE DEF ch, opts
<1>5. IsChange(tx, ch)
  <2>1. "kind" \in DOMAIN ch => ch["kind"] \in Kinds
    BY <1>2, <1>4
  <2>2. "required" \in DOMAIN ch => ch["required"] \in BOOLEAN
    BY <1>2, <1>4
  <2>3. "unique" \in DOMAIN ch => ch["unique"] \in BOOLEAN
    BY <1>2, <1>4
  <2>4. "order" \notin DOMAIN ch
    BY <1>2, <1>4
  <2>5. "opts" \in DOMAIN ch => ch["opts"] \subseteq Options /\ OldAt(tx, ch["opts"])
    BY <1>3, <1>4
  <2>6. DOMAIN ch \subseteq {"kind", "required", "unique", "order", "opts"}
    BY <1>2, <1>4
  <2> QED BY <2>1, <2>2, <2>3, <2>4, <2>5, <2>6 DEF IsChange
<1>6. w(f, e) = [op |-> "edit", id |-> FieldId(f), changes |-> ch]
  BY DEF ch, opts
<1>7. IsWrite(tx, w(f, e))
  <2> HIDE DEF w
  <2> QED BY <1>5, <1>6 DEF IsWrite
<1> HIDE DEF w
<1> QED BY <1>1, <1>7, AskKeeps

LEMMA AskDeleteFieldKeeps ==
  ASSUME SchemaInv, NEW h \in Handlers, AskDeleteField(h)
  PROVE  SchemaInv'
<1>1. PICK f \in fields : Ask(h, [op |-> "deleteField", id |-> FieldId(f)])
  BY DEF AskDeleteField
<1>2. IsWrite(tx, [op |-> "deleteField", id |-> FieldId(f)])
  BY DEF IsWrite
<1> QED BY <1>1, <1>2, AskKeeps

LEMMA AskReorderKeeps ==
  ASSUME SchemaInv, NEW h \in Handlers, AskReorder(h)
  PROVE  SchemaInv'
<1> DEFINE order(f, g) == [i \in {FieldId(f), FieldId(g)} |->
                             IF i = FieldId(f) THEN g.order ELSE f.order]
           w(f, g) == [op |-> "reorder", id |-> f.type, order |-> order(f, g)]
<1>1. PICK f \in fields, g \in fields : f.type = g.type /\ Ask(h, w(f, g))
  BY DEF AskReorder
<1>2. f.type \in TypeIds /\ f.order \in Nat /\ g.order \in Nat
  BY DEF SchemaInv, RowsHaveTypes, TypeOK, ContentTypeField
<1>3. \A i \in DOMAIN order(f, g) : i[1] = f.type /\ order(f, g)[i] \in Nat
  BY <1>1, <1>2 DEF FieldId
<1>4. IsWrite(tx, w(f, g))
  <2> HIDE DEF order
  <2> QED BY <1>2, <1>3 DEF IsWrite
<1> HIDE DEF w
<1> QED BY <1>1, <1>4, AskKeeps

LEMMA CommitFailsKeeps ==
  ASSUME SchemaInv, NEW h \in Handlers, CommitFails(h)
  PROVE  SchemaInv'
<1>1. tx \in Nat /\ tx' = tx /\ tx' \in Nat /\ tx <= tx'
  BY TxIsNatural DEF SchemaInv, RowsHaveTypes, CommitFails
<1>2. req' = [req EXCEPT ![h] = NoValue] /\ UNCHANGED <<types, fields, entries, announced, run>>
  BY DEF CommitFails
<1>3. RequestsAreWhole' /\ RunsAreWhole'
  BY <1>1, <1>2, OthersRequestOn, RunsGoOn
<1> QED BY <1>1, <1>2, <1>3, TablesStand

(***************************************************************************)
(* Steps that change the schema.                                           *)
(***************************************************************************)
LEMMA RowsStayOld ==
  ASSUME SchemaInv, Write
  PROVE  /\ \A t \in types : t.born \in Nat /\ t.born <= tx /\ t.born <= tx'
         /\ \A f \in fields : f.born \in Nat /\ f.born <= tx /\ f.born <= tx'
                              /\ OldAt(tx, f.opts) /\ OldAt(tx', f.opts)
<1>1. /\ \A t \in types : t.born \in Nat /\ t.born <= tx
      /\ \A f \in fields : f.born \in Nat /\ f.born <= tx /\ OldAt(tx, f.opts)
  BY DEF SchemaInv, RowsHaveTypes, TypeOK, IdsAreOld, ContentType, ContentTypeField
<1>2. \A f \in fields : OldAt(tx', f.opts)
  BY <1>1, WriteCounts, OldStaysOld
<1> QED BY <1>1, <1>2, WriteCounts

LEMMA SchemaStepKeeps ==
  ASSUME SchemaInv, Write, UNCHANGED entries,
         types' \subseteq ContentType, fields' \subseteq ContentTypeField,
         announced' \subseteq TypeIds,
         \A r \in fields' \cup entries : \E t \in types' : r.type = TypeId(t),
         \A t \in types' : t.born <= tx',
         \A f \in fields' : f.born <= tx' /\ OldAt(tx', f.opts),
         TablesAreKeyed', RequestsAreWhole', RunsAreWhole'
  PROVE  SchemaInv'
<1>1. TypeOK'
  BY WriteCounts DEF SchemaInv, RowsHaveTypes, TypeOK, RequestsAreWhole, RunsAreWhole
<1>2. RowsHaveTypes'
  BY <1>1 DEF RowsHaveTypes
<1>3. EntriesAreFinite' /\ IdsAreOld'
  BY DEF SchemaInv, EntriesAreFinite, IdsAreOld
<1> QED BY <1>2, <1>3 DEF SchemaInv

\* A step that leaves the types, and fields that stem from fields.
LEMMA FieldStepKeeps ==
  ASSUME SchemaInv, Write, UNCHANGED <<entries, types>>,
         fields' \subseteq ContentTypeField, announced' \subseteq TypeIds,
         \A g \in fields' : OldAt(tx', g.opts) /\ \E f \in fields :
           g.type = f.type /\ g.ident = f.ident /\ g.born = f.born,
         \A f, g \in fields' : f.type = g.type /\ f.ident = g.ident => f = g,
         RequestsAreWhole', RunsAreWhole'
  PROVE  SchemaInv'
<1>1. types' \subseteq ContentType
  BY DEF SchemaInv, RowsHaveTypes, TypeOK
<1>2. \A r \in fields' \cup entries : \E t \in types' : r.type = TypeId(t)
  BY DEF SchemaInv, RowsHaveTypes
<1>3. \A t \in types' : t.born <= tx'
  BY RowsStayOld
<1>4. \A f \in fields' : f.born <= tx' /\ OldAt(tx', f.opts)
  BY RowsStayOld
<1>5. TablesAreKeyed'
  BY DEF SchemaInv, TablesAreKeyed
<1> QED BY <1>1, <1>2, <1>3, <1>4, <1>5, SchemaStepKeeps

LEMMA NewRowIsField ==
  ASSUME SchemaInv, Write, NEW id \in TypeIds, NEW row,
         row = [type |-> id, ident |-> row.ident, born |-> tx + 1, kind |-> row.kind,
                required |-> row.required, unique |-> row.unique,
                order |-> row.order, opts |-> row.opts],
         row.ident \in FieldIdents, row.kind \in Kinds, row.required \in BOOLEAN,
         row.unique \in BOOLEAN, row.order \in Nat, row.opts \subseteq Options
  PROVE  row \in ContentTypeField /\ row.type = id /\ row.born = tx'
<1>1. tx + 1 \in 0 .. MaxTx /\ tx' = tx + 1
  BY WriteCounts
<1>2. row.type = id /\ row.born = tx + 1
  OBVIOUS
<1>3. row \in ContentTypeField
  BY <1>1 DEF ContentTypeField, Options
<1> QED BY <1>1, <1>2, <1>3

LEMMA RenameKeeps ==
  ASSUME SchemaInv, Write, NEW id, NEW name \in Names, Rename(id, name),
         UNCHANGED entries, RequestsAreWhole', RunsAreWhole'
  PROVE  SchemaInv'
<1> DEFINE R(t) == IF TypeId(t) = id THEN [t EXCEPT !.name = name] ELSE t
<1>1. types' = {R(t) : t \in types} /\ announced' = {} /\ fields' = fields
  BY DEF Rename
<1>2. \A t \in types : /\ R(t) \in ContentType /\ R(t).ident = t.ident
                       /\ R(t).born = t.born /\ TypeId(R(t)) = TypeId(t)
  BY DEF SchemaInv, RowsHaveTypes, TypeOK, ContentType, TypeId
<1> HIDE DEF R
<1>3. types' \subseteq ContentType /\ fields' \subseteq ContentTypeField
  BY <1>1, <1>2 DEF SchemaInv, RowsHaveTypes, TypeOK
<1>4. \A r \in fields' \cup entries : \E t \in types' : r.type = TypeId(t)
  <2>1. SUFFICES ASSUME NEW r \in fields \cup entries
                 PROVE  \E t \in types' : r.type = TypeId(t)
    BY <1>1
  <2>2. PICK t \in types : r.type = TypeId(t)
    BY DEF SchemaInv, RowsHaveTypes
  <2> QED BY <1>1, <1>2, <2>2
<1>5. \A t \in types' : t.born <= tx'
  BY <1>1, <1>2, RowsStayOld
<1>6. TablesAreKeyed'
  <2>1. \A t, u \in types' : t.ident = u.ident => t = u
    BY <1>1, <1>2 DEF SchemaInv, TablesAreKeyed, NoRepeats
  <2> QED BY <1>1, <2>1 DEF SchemaInv, TablesAreKeyed, NoRepeats
<1>7. \A f \in fields' : f.born <= tx' /\ OldAt(tx', f.opts)
  BY <1>1, RowsStayOld
<1>8. announced' \subseteq TypeIds
  BY <1>1
<1> QED BY <1>3, <1>4, <1>5, <1>6, <1>7, <1>8, SchemaStepKeeps

LEMMA DeleteTypeKeeps ==
  ASSUME SchemaInv, Write, NEW id, DeleteType(id),
         UNCHANGED entries, RequestsAreWhole', RunsAreWhole'
  PROVE  SchemaInv'
<1>1. /\ types' = {t \in types : TypeId(t) # id} /\ fields' = fields \ FieldsOf(id)
      /\ announced' = {} /\ \A e \in entries : e.type # id
  BY DEF DeleteType
<1>2. types' \subseteq ContentType /\ fields' \subseteq ContentTypeField
  BY <1>1 DEF SchemaInv, RowsHaveTypes, TypeOK
<1>3. \A r \in fields' \cup entries : \E t \in types' : r.type = TypeId(t)
  BY <1>1 DEF SchemaInv, RowsHaveTypes, FieldsOf
<1>4. \A t \in types' : t.born <= tx'
  BY <1>1, RowsStayOld
<1>5. \A f \in fields' : f.born <= tx' /\ OldAt(tx', f.opts)
  BY <1>1, RowsStayOld
<1>6. TablesAreKeyed'
  BY <1>1 DEF SchemaInv, TablesAreKeyed, NoRepeats
<1>7. announced' \subseteq TypeIds
  BY <1>1
<1> QED BY <1>2, <1>3, <1>4, <1>5, <1>6, <1>7, SchemaStepKeeps

LEMMA AddFieldKeeps ==
  ASSUME SchemaInv, Write, NEW id, NEW w, IsWrite(tx, w), w.op = "field", AddField(id, w.body),
         UNCHANGED entries, RequestsAreWhole', RunsAreWhole'
  PROVE  SchemaInv'
<1> DEFINE body == w.body
           row == [type |-> id, ident |-> body.ident, born |-> tx + 1, kind |-> body.kind,
                   required |-> body.required, unique |-> body.unique,
                   order |-> body.order, opts |-> body.opts]
<1>1. /\ fields' = fields \cup {row} /\ announced' = {id} /\ types' = types
      /\ \A f \in FieldsOf(id) : f.ident # body.ident
  BY DEF AddField
<1>2. PICK t \in types : TypeId(t) = id
  BY DEF AddField
<1>3. id \in TypeIds
  BY <1>2 DEF SchemaInv, RowsHaveTypes, TypeOK, ContentType, TypeId, TypeIds
<1>4. /\ body.ident \in FieldIdents /\ body.kind \in Kinds /\ body.order \in Nat
      /\ body.required \in BOOLEAN /\ body.unique \in BOOLEAN
      /\ body.opts \subseteq Options /\ OldAt(tx, body.opts)
  BY DEF IsWrite
<1>5. /\ row.ident = body.ident /\ row.kind = body.kind /\ row.order = body.order
      /\ row.required = body.required /\ row.unique = body.unique /\ row.opts = body.opts
      /\ row = [type |-> id, ident |-> row.ident, born |-> tx + 1, kind |-> row.kind,
                required |-> row.required, unique |-> row.unique,
                order |-> row.order, opts |-> row.opts]
  OBVIOUS
<1> HIDE DEF row, body
<1>6. row \in ContentTypeField /\ row.type = id /\ row.born = tx'
  BY <1>3, <1>4, <1>5, NewRowIsField
<1>7. OldAt(tx', row.opts)
  BY <1>4, <1>5, WriteCounts, OldStaysOld
<1>8. types' \subseteq ContentType /\ fields' \subseteq ContentTypeField
  BY <1>1, <1>6 DEF SchemaInv, RowsHaveTypes, TypeOK
<1>9. \A r \in fields' \cup entries : \E u \in types' : r.type = TypeId(u)
  BY <1>1, <1>2, <1>6 DEF SchemaInv, RowsHaveTypes
<1>10. \A u \in types' : u.born <= tx'
  BY <1>1, RowsStayOld
<1>11. \A f \in fields' : f.born <= tx' /\ OldAt(tx', f.opts)
  BY <1>1, <1>6, <1>7, RowsStayOld, WriteCounts
<1>12. TablesAreKeyed'
  <2>1. \A f, g \in fields' : f.type = g.type /\ f.ident = g.ident => f = g
    BY <1>1, <1>5, <1>6 DEF SchemaInv, TablesAreKeyed, FieldsOf
  <2> QED BY <1>1, <2>1 DEF SchemaInv, TablesAreKeyed
<1>13. announced' \subseteq TypeIds
  BY <1>1, <1>3
<1> QED BY <1>8, <1>9, <1>10, <1>11, <1>12, <1>13, SchemaStepKeeps

LEMMA EditFieldKeeps ==
  ASSUME SchemaInv, Write, NEW id, NEW w, IsWrite(tx, w), w.op = "edit",
         EditField(id, w.changes),
         UNCHANGED entries, RequestsAreWhole', RunsAreWhole'
  PROVE  SchemaInv'
<1> DEFINE G(f) == IF FieldId(f) = id THEN Changed(f, w.changes) ELSE f
<1>1. fields' = {G(f) : f \in fields} /\ announced' = {id[1]} /\ types' = types
  BY DEF EditField
<1>2. \A f \in fields : f \in ContentTypeField
  BY DEF SchemaInv, RowsHaveTypes, TypeOK
<1>3. id[1] \in TypeIds
  <2>1. PICK f \in fields : FieldId(f) = id
    BY DEF EditField
  <2> QED BY <1>2, <2>1 DEF FieldId, ContentTypeField
<1>4. IsChange(tx', w.changes) /\ tx' \in Nat
  BY ChangeStaysChange, WriteCounts DEF IsWrite
<1>5. \A f \in fields : OldAt(tx', f.opts)
  BY RowsStayOld
<1>6. \A f \in fields : /\ G(f) \in ContentTypeField /\ OldAt(tx', G(f).opts)
                        /\ G(f).type = f.type /\ G(f).ident = f.ident /\ G(f).born = f.born
  BY <1>2, <1>4, <1>5, ChangedIsRow
<1> HIDE DEF G
<1>7. fields' \subseteq ContentTypeField /\ announced' \subseteq TypeIds
  BY <1>1, <1>3, <1>6
<1>8. \A g \in fields' : OldAt(tx', g.opts) /\ \E f \in fields :
           g.type = f.type /\ g.ident = f.ident /\ g.born = f.born
  BY <1>1, <1>6
<1>9. \A f, g \in fields' : f.type = g.type /\ f.ident = g.ident => f = g
  BY <1>1, <1>6 DEF SchemaInv, TablesAreKeyed
<1> QED BY <1>1, <1>7, <1>8, <1>9, FieldStepKeeps

LEMMA DeleteFieldKeeps ==
  ASSUME SchemaInv, Write, NEW id, DeleteField(id),
         UNCHANGED entries, RequestsAreWhole', RunsAreWhole'
  PROVE  SchemaInv'
<1>1. /\ fields' = {f \in fields : FieldId(f) # id} /\ announced' = {id[1]}
      /\ types' = types
  BY DEF DeleteField
<1>2. id[1] \in TypeIds
  <2>1. PICK f \in fields : FieldId(f) = id
    BY DEF DeleteField
  <2> QED BY <2>1 DEF FieldId, ContentTypeField, SchemaInv, RowsHaveTypes, TypeOK
<1>3. fields' \subseteq ContentTypeField /\ announced' \subseteq TypeIds
  BY <1>1, <1>2 DEF SchemaInv, RowsHaveTypes, TypeOK
<1>4. \A g \in fields' : OldAt(tx', g.opts) /\ \E f \in fields :
           g.type = f.type /\ g.ident = f.ident /\ g.born = f.born
  BY <1>1, RowsStayOld
<1>5. \A f, g \in fields' : f.type = g.type /\ f.ident = g.ident => f = g
  BY <1>1 DEF SchemaInv, TablesAreKeyed
<1> QED BY <1>1, <1>3, <1>4, <1>5, FieldStepKeeps

LEMMA ReorderKeeps ==
  ASSUME SchemaInv, Write, NEW w, IsWrite(tx, w), w.op = "reorder", Reorder(w.id, w.order),
         UNCHANGED entries, RequestsAreWhole', RunsAreWhole'
  PROVE  SchemaInv'
<1> DEFINE G(f) == IF FieldId(f) \in DOMAIN w.order
                   THEN [f EXCEPT !.order = w.order[FieldId(f)]] ELSE f
<1>1. fields' = {G(f) : f \in fields} /\ announced' = {w.id} /\ types' = types
  BY DEF Reorder
<1>2. w.id \in TypeIds /\ \A i \in DOMAIN w.order : w.order[i] \in Nat
  BY DEF IsWrite
<1>3. \A f \in fields : OldAt(tx', f.opts)
  BY RowsStayOld
<1>4. \A f \in fields :
        /\ G(f) \in ContentTypeField /\ G(f).opts = f.opts
        /\ G(f).type = f.type /\ G(f).ident = f.ident /\ G(f).born = f.born
  BY <1>2 DEF SchemaInv, RowsHaveTypes, TypeOK, ContentTypeField
<1> HIDE DEF G
<1>5. fields' \subseteq ContentTypeField /\ announced' \subseteq TypeIds
  BY <1>1, <1>2, <1>4
<1>6. \A g \in fields' : OldAt(tx', g.opts) /\ \E f \in fields :
           g.type = f.type /\ g.ident = f.ident /\ g.born = f.born
  BY <1>1, <1>3, <1>4
<1>7. \A f, g \in fields' : f.type = g.type /\ f.ident = g.ident => f = g
  BY <1>1, <1>4 DEF SchemaInv, TablesAreKeyed
<1> QED BY <1>1, <1>5, <1>6, <1>7, FieldStepKeeps

LEMMA CommitKeeps ==
  ASSUME SchemaInv, NEW h \in Handlers, Commit(h)
  PROVE  SchemaInv'
<1> DEFINE w == req[h]
<1>1. Write /\ req' = [req EXCEPT ![h] = NoValue] /\ UNCHANGED <<entries, run>>
  BY DEF Commit
<1>2. RequestsAreWhole' /\ RunsAreWhole'
  BY <1>1, WriteCounts, OthersRequestOn, RunsGoOn
<1>3. IsWrite(tx, w)
  BY DEF Commit, SchemaInv, RequestsAreWhole
<1>4. w.op \in {"rename", "deleteType", "field", "edit", "deleteField", "reorder"}
  BY <1>3 DEF IsWrite
<1>5. CASE w.op = "rename"
  <2>1. Rename(w.id, w.name) /\ w.name \in Names
    BY <1>3, <1>5 DEF Commit, IsWrite
  <2> QED BY <1>1, <1>2, <2>1, RenameKeeps
<1>6. CASE w.op = "deleteType"
  <2>1. DeleteType(w.id)
    BY <1>6 DEF Commit
  <2> QED BY <1>1, <1>2, <2>1, DeleteTypeKeeps
<1>7. CASE w.op = "field"
  <2>1. AddField(w.id, w.body)
    BY <1>7 DEF Commit
  <2> QED BY <1>1, <1>2, <1>3, <1>7, <2>1, AddFieldKeeps
<1>8. CASE w.op = "edit"
  <2>1. EditField(w.id, w.changes)
    BY <1>8 DEF Commit
  <2> QED BY <1>1, <1>2, <1>3, <1>8, <2>1, EditFieldKeeps
<1>9. CASE w.op = "deleteField"
  <2>1. DeleteField(w.id)
    BY <1>9 DEF Commit
  <2> QED BY <1>1, <1>2, <2>1, DeleteFieldKeeps
<1>10. CASE w.op = "reorder"
  <2>1. Reorder(w.id, w.order)
    BY <1>10 DEF Commit
  <2> QED BY <1>1, <1>2, <1>3, <1>10, <2>1, ReorderKeeps
<1> QED BY <1>4, <1>5, <1>6, <1>7, <1>8, <1>9, <1>10

LEMMA CreateTypeKeeps ==
  ASSUME SchemaInv, CreateType
  PROVE  SchemaInv'
<1>1. Write /\ announced' = {} /\ UNCHANGED <<entries, req, run>>
  BY DEF CreateType
<1> DEFINE T(body) == [ident |-> body.ident, born |-> tx + 1, name |-> body.name]
           F(body, bf) ==
             [type |-> <<body.ident, tx + 1>>, ident |-> bf.ident,
              born |-> tx + 1, kind |-> bf.kind, required |-> bf.required,
              unique |-> ResolveUnique(bf.kind, bf.unique), order |-> bf.order,
              opts |-> StoredBody(bf.kind, bf.opts)]
<1>2. PICK body \in NewTypes :
        /\ \A t \in types : t.ident # body.ident
        /\ NoRepeats(body.fields)
        /\ types' = types \cup {T(body)}
        /\ fields' = fields \cup {F(body, bf) : bf \in body.fields}
  BY DEF CreateType
<1> DEFINE id == <<body.ident, tx + 1>>
<1>3. IsType(body) /\ \A bf \in body.fields : bf.unique \in BOOLEAN
  BY BodiesAreValid
<1>4. tx + 1 \in 0 .. MaxTx /\ tx' = tx + 1 /\ tx \in Nat
  BY <1>1, WriteCounts
<1>5. id \in TypeIds /\ T(body) \in ContentType /\ TypeId(T(body)) = id
  BY <1>3, <1>4 DEF IsType, TypeIds, ContentType, TypeId
<1>6. ASSUME NEW bf \in body.fields
      PROVE  /\ F(body, bf) \in ContentTypeField
             /\ F(body, bf).type = id /\ F(body, bf).ident = bf.ident
             /\ F(body, bf).born = tx'
             /\ OldAt(tx', F(body, bf).opts)
  <2> DEFINE row == F(body, bf)
  <2>1. IsField(bf) /\ bf.unique \in BOOLEAN
    BY <1>3 DEF IsType
  <2>2. /\ row.ident = bf.ident /\ row.kind = bf.kind /\ row.order = bf.order
        /\ row.required = bf.required /\ row.unique = ResolveUnique(bf.kind, bf.unique)
        /\ row.opts = StoredBody(bf.kind, bf.opts)
        /\ row = [type |-> id, ident |-> row.ident, born |-> tx + 1, kind |-> row.kind,
                  required |-> row.required, unique |-> row.unique,
                  order |-> row.order, opts |-> row.opts]
    OBVIOUS
  <2> HIDE DEF row, id
  <2>3. ResolveUnique(bf.kind, bf.unique) \in BOOLEAN
    BY <2>1 DEF ResolveUnique
  <2>4. row.opts \subseteq Options /\ OldAt(tx, row.opts)
    BY <2>1, <2>2, StoredBodyIsOptions DEF IsField
  <2>5. row \in ContentTypeField /\ row.type = id /\ row.born = tx'
    BY <1>1, <1>5, <2>1, <2>2, <2>3, <2>4, NewRowIsField DEF IsField
  <2>6. OldAt(tx', row.opts)
    BY <1>1, <2>4, WriteCounts, OldStaysOld
  <2> QED BY <2>2, <2>5, <2>6 DEF row
<1>7. \A f \in fields : f.type # id
  BY <1>1, <1>4, RowsStayOld DEF SchemaInv, RowsHaveTypes, TypeId
<1> HIDE DEF T, F, id
<1>8. types' \subseteq ContentType /\ fields' \subseteq ContentTypeField
  BY <1>2, <1>5, <1>6 DEF SchemaInv, RowsHaveTypes, TypeOK
<1>9. \A r \in fields' \cup entries : \E t \in types' : r.type = TypeId(t)
  BY <1>2, <1>5, <1>6 DEF SchemaInv, RowsHaveTypes
<1>10. \A t \in types' : t.born <= tx'
  <2>1. T(body).born <= tx'
    BY <1>4 DEF T
  <2> QED BY <1>1, <1>2, <2>1, RowsStayOld
<1>11. \A f \in fields' : f.born <= tx' /\ OldAt(tx', f.opts)
  BY <1>1, <1>2, <1>4, <1>6, RowsStayOld
<1>12. TablesAreKeyed'
  <2>1. \A t, u \in types' : t.ident = u.ident => t = u
    BY <1>2 DEF T, SchemaInv, TablesAreKeyed, NoRepeats
  <2>2. \A f, g \in fields' : f.type = g.type /\ f.ident = g.ident => f = g
    BY <1>2, <1>6, <1>7 DEF SchemaInv, TablesAreKeyed, NoRepeats
  <2> QED BY <2>1, <2>2 DEF TablesAreKeyed, NoRepeats
<1>13. RequestsAreWhole' /\ RunsAreWhole'
  BY <1>1, WriteCounts, RequestsGoOn, RunsGoOn
<1>14. announced' \subseteq TypeIds
  BY <1>1
<1> QED BY <1>1, <1>8, <1>9, <1>10, <1>11, <1>12, <1>13, <1>14, SchemaStepKeeps

(***************************************************************************)
(* The statements of an apply.                                             *)
(***************************************************************************)
\* What the statements go through, and what they make of it.
KeptTypes(plan) == {t \in types : TypeId(t) \notin plan.removeTypes}
KeptFields(plan) ==
  {f \in fields : /\ f.type \notin plan.removeTypes
                  /\ \A r \in plan.removeFields : r[1] # FieldId(f)}

\* What a field of the tables after an apply was before: a field it kept, one it
\* added to a type there was, or one of a type it created.
IsKept(p, plan, g) == \E f \in KeptFields(plan) : g = Updated(p, plan, f)
IsAdded(p, plan, g) == \E c \in plan.createFields : g = FieldRow(p, c[1], c[2])
IsCreated(p, plan, g) ==
  \E bt \in plan.createTypes : \E bf \in bt.fields :
    g = FieldRow(p, <<bt.ident, tx + 1>>, bf)

\* Where a field of the tables after an apply comes from.
LEMMA ExecutedFieldComesFrom ==
  ASSUME SchemaInv, NEW p \in Appliers, Execute(p), NEW plan, plan = run[p].plan,
         NEW g \in fields'
  PROVE  IsKept(p, plan, g) \/ IsAdded(p, plan, g) \/ IsCreated(p, plan, g)
<1> DEFINE Of(bt) == {FieldRow(p, <<bt.ident, tx + 1>>, bf) : bf \in bt.fields}
           A == {Updated(p, plan, f) : f \in KeptFields(plan)}
           B == {FieldRow(p, c[1], c[2]) : c \in plan.createFields}
           C == UNION {Of(bt) : bt \in plan.createTypes}
<1>1. fields' = A \cup B \cup C
  BY DEF Execute, KeptFields
<1>2. \A bt \in plan.createTypes : \A x \in Of(bt) : \E bf \in bt.fields :
        x = FieldRow(p, <<bt.ident, tx + 1>>, bf)
  OBVIOUS
<1>3. \A x \in C : \E bt \in plan.createTypes : x \in Of(bt)
  <2> HIDE DEF Of
  <2> QED OBVIOUS
<1>4. CASE g \in A
  BY <1>4 DEF IsKept
<1>5. CASE g \in B
  BY <1>5 DEF IsAdded
<1>6. CASE g \in C
  <2>1. PICK bt \in plan.createTypes : g \in Of(bt)
    BY <1>3, <1>6
  <2>2. PICK bf \in bt.fields : g = FieldRow(p, <<bt.ident, tx + 1>>, bf)
    BY <1>2, <2>1
  <2> QED BY <2>2 DEF IsCreated
<1> HIDE DEF A, B, C, Of
<1> QED BY <1>1, <1>4, <1>5, <1>6

LEMMA ExecutedRows ==
  ASSUME SchemaInv, NEW p \in Appliers, Execute(p), NEW plan, plan = run[p].plan
  PROVE  /\ types' = {Renamed(plan, t) : t \in KeptTypes(plan)} \cup CreatedRows(plan)
         /\ \A f \in KeptFields(plan) : Updated(p, plan, f) \in fields'
         /\ \A c \in plan.createFields : FieldRow(p, c[1], c[2]) \in fields'
         /\ \A bt \in plan.createTypes : \A bf \in bt.fields :
              FieldRow(p, <<bt.ident, tx + 1>>, bf) \in fields'
<1> DEFINE Of(bt) == {FieldRow(p, <<bt.ident, tx + 1>>, bf) : bf \in bt.fields}
           A == {Updated(p, plan, f) : f \in KeptFields(plan)}
           B == {FieldRow(p, c[1], c[2]) : c \in plan.createFields}
           C == UNION {Of(bt) : bt \in plan.createTypes}
<1>1. types' = {Renamed(plan, t) : t \in KeptTypes(plan)} \cup CreatedRows(plan)
  BY DEF Execute, KeptTypes
<1>2. fields' = A \cup B \cup C
  BY DEF Execute, KeptFields
<1>3. \A bt \in plan.createTypes : \A bf \in bt.fields :
        FieldRow(p, <<bt.ident, tx + 1>>, bf) \in Of(bt)
  OBVIOUS
<1>4. \A f \in KeptFields(plan) : Updated(p, plan, f) \in A
  OBVIOUS
<1>5. \A c \in plan.createFields : FieldRow(p, c[1], c[2]) \in B
  OBVIOUS
<1>6. \A bt \in plan.createTypes : \A g \in Of(bt) : g \in C
  <2> HIDE DEF Of, A, B
  <2> QED OBVIOUS
<1> HIDE DEF A, B, C, Of
<1>7. \A bt \in plan.createTypes : \A bf \in bt.fields :
              FieldRow(p, <<bt.ident, tx + 1>>, bf) \in fields'
  BY <1>2, <1>3, <1>6
<1>8. \A f \in KeptFields(plan) : Updated(p, plan, f) \in fields'
  BY <1>2, <1>4
<1>9. \A c \in plan.createFields : FieldRow(p, c[1], c[2]) \in fields'
  BY <1>2, <1>5
<1> QED BY <1>1, <1>7, <1>8, <1>9

LEMMA ResolvedIsOptions ==
  ASSUME SchemaInv, Write, NEW p \in Appliers, IsBusy(tx, run[p]), run[p].pc \in Planning,
         NEW kind, NEW opts,
         opts \subseteq (IF kind \in {"RELATION", "RICHTEXT"} THEN Idents ELSE Choices)
  PROVE  ResolveOptions(p, kind, opts) \subseteq Options /\ OldAt(tx', ResolveOptions(p, kind, opts))
<1> DEFINE plan == run[p].plan
           known == run[p].known
<1>1. tx \in Nat /\ tx' = tx + 1 /\ tx + 1 \in 0 .. MaxTx
  BY WriteCounts
<1>2. CASE kind \in {"RELATION", "RICHTEXT"}
  <2>1. \A t \in CreatedRows(plan) : t.ident \in Idents /\ t.born = tx + 1
    <3>1. \A bt \in plan.createTypes : bt.ident \in Idents
      BY FilesAreBundles DEF IsBusy, PlanOf, IsType
    <3> QED BY <3>1 DEF CreatedRows
  <2>2. \A t \in known : t.ident \in Idents /\ t.born \in 0 .. MaxTx /\ t.born <= tx
    BY DEF IsBusy, OldTypes, ContentType
  <2>3. \A t \in known \cup CreatedRows(plan) :
          t.ident \in Idents /\ t.born \in 0 .. MaxTx /\ t.born \in 0 .. tx'
    BY <1>1, <2>1, <2>2
  <2>4. \A t \in known \cup CreatedRows(plan) :
          TypeId(t) \in TypeIds /\ TypeId(t) \in Idents \X (0 .. tx')
    BY <2>3 DEF TypeId, TypeIds
  <2>5. ResolveOptions(p, kind, opts) \subseteq {TypeId(t) : t \in known \cup CreatedRows(plan)}
    BY <1>2 DEF ResolveOptions
  <2> QED BY <2>4, <2>5 DEF Options, OldAt
<1>3. CASE kind \notin {"RELATION", "RICHTEXT"}
  <2>1. ResolveOptions(p, kind, opts) = opts /\ opts \subseteq Choices
    BY <1>3 DEF ResolveOptions
  <2>2. opts \cap TypeIds = {}
    BY <2>1, SchemaConstants DEF TypeIds
  <2> QED BY <2>1, <2>2 DEF Options, OldAt
<1> QED BY <1>2, <1>3

LEMMA UpdatedIsRow ==
  ASSUME SchemaInv, Write, NEW p \in Appliers, IsBusy(tx, run[p]), run[p].pc \in Planning,
         NEW f \in fields
  PROVE  LET g == Updated(p, run[p].plan, f)
         IN  /\ g \in ContentTypeField /\ OldAt(tx', g.opts)
             /\ g.type = f.type /\ g.ident = f.ident /\ g.born = f.born
<1> DEFINE plan == run[p].plan
           g == Updated(p, plan, f)
           u == CHOOSE u \in plan.updateFields : u[1] = FieldId(f)
           ch == [k \in DOMAIN u[3] |-> IF k = "opts" THEN ResolveOptions(p, u[2], u[3][k])
                                         ELSE u[3][k]]
<1>1. f \in ContentTypeField /\ OldAt(tx', f.opts)
  BY RowsStayOld DEF SchemaInv, RowsHaveTypes, TypeOK
<1>2. CASE ~\E v \in plan.updateFields : v[1] = FieldId(f)
  BY <1>1, <1>2 DEF Updated
<1>3. CASE \E v \in plan.updateFields : v[1] = FieldId(f)
  <2>1. g = Changed(f, ch)
    BY <1>3 DEF Updated
  <2>2. u \in plan.updateFields
    BY <1>3
  <2>3. IsPlanned(u[2], u[3])
    BY <2>2 DEF IsBusy, PlanOf
  <2>4. /\ DOMAIN ch = DOMAIN u[3]
        /\ \A k \in DOMAIN u[3] : k # "opts" => ch[k] = u[3][k]
        /\ "opts" \in DOMAIN u[3] => ch["opts"] = ResolveOptions(p, u[2], u[3]["opts"])
    OBVIOUS
  <2> HIDE DEF ch, u, plan
  <2>5. "opts" \in DOMAIN ch => ch["opts"] \subseteq Options /\ OldAt(tx', ch["opts"])
    BY <2>3, <2>4, ResolvedIsOptions DEF IsPlanned
  <2>6. IsChange(tx', ch)
    BY <2>3, <2>4, <2>5 DEF IsPlanned, IsChange
  <2>7. tx' \in Nat
    BY WriteCounts
  <2> QED BY <1>1, <2>1, <2>6, <2>7, ChangedIsRow DEF plan
<1> QED BY <1>2, <1>3

LEMMA FieldRowIsRow ==
  ASSUME SchemaInv, Write, NEW p \in Appliers, IsBusy(tx, run[p]), run[p].pc \in Planning,
         NEW id \in TypeIds, NEW bf, IsField(bf)
  PROVE  LET g == FieldRow(p, id, bf)
         IN  /\ g \in ContentTypeField /\ OldAt(tx', g.opts)
             /\ g.type = id /\ g.ident = bf.ident /\ g.born = tx'
<1> DEFINE g == FieldRow(p, id, bf)
           o == ResolveOptions(p, bf.kind, bf.opts)
           q == EffectiveUnique(bf)
<1>1. o \subseteq Options /\ OldAt(tx', o)
  BY ResolvedIsOptions DEF IsField
<1>2. q \in BOOLEAN
  BY DEF EffectiveUnique
<1> HIDE DEF o, q
<1>3. g = [type |-> id, ident |-> bf.ident, born |-> tx + 1, kind |-> bf.kind,
           required |-> bf.required, unique |-> q, order |-> bf.order, opts |-> o]
  BY DEF FieldRow, o, q
<1>4. /\ g.ident = bf.ident /\ g.kind = bf.kind /\ g.order = bf.order
      /\ g.required = bf.required /\ g.unique = q /\ g.opts = o
  BY <1>3
<1>5. g = [type |-> id, ident |-> g.ident, born |-> tx + 1, kind |-> g.kind,
           required |-> g.required, unique |-> g.unique, order |-> g.order, opts |-> g.opts]
  BY <1>3, <1>4
<1> HIDE DEF g
<1>6. g \in ContentTypeField /\ g.type = id /\ g.born = tx'
  BY <1>1, <1>2, <1>4, <1>5, NewRowIsField DEF IsField
<1> QED BY <1>1, <1>4, <1>6 DEF g

\* The types after the statements: those kept, perhaps renamed, and those created.
LEMMA ExecutedTypes ==
  ASSUME SchemaInv, NEW p \in Appliers, Execute(p), NEW plan, plan = run[p].plan
  PROVE  /\ \A t \in KeptTypes(plan) :
              /\ Renamed(plan, t) \in types' /\ Renamed(plan, t) \in ContentType
              /\ Renamed(plan, t).ident = t.ident /\ Renamed(plan, t).born = t.born
              /\ TypeId(Renamed(plan, t)) = TypeId(t)
         /\ \A bt \in plan.createTypes :
              /\ IsType(bt) /\ bt \in run[p].bundle
              /\ <<bt.ident, tx + 1>> \in TypeIds
              /\ \A t \in types : t.ident # bt.ident /\ TypeId(t) # <<bt.ident, tx + 1>>
              /\ \E u \in types' : TypeId(u) = <<bt.ident, tx + 1>> /\ u.ident = bt.ident
              /\ NoRepeats(bt.fields)
         /\ \A u \in types' :
              \/ \E t \in KeptTypes(plan) : u = Renamed(plan, t)
              \/ /\ u \in ContentType /\ u.born = tx'
                 /\ \E bt \in plan.createTypes :
                      u.ident = bt.ident /\ u.name = bt.name /\ TypeId(u) = <<bt.ident, tx + 1>>
<1>1. IsBusy(tx, run[p]) /\ run[p].pc \in Planning /\ Write /\ CanExecute(plan)
  BY WorkersAreBusy DEF Execute, Planning
<1>2. types' = {Renamed(plan, t) : t \in KeptTypes(plan)} \cup CreatedRows(plan)
  BY ExecutedRows
<1>3. tx + 1 \in 0 .. MaxTx /\ tx' = tx + 1 /\ tx \in Nat
  BY <1>1, WriteCounts
<1>4. \A bt \in plan.createTypes : bt \in run[p].bundle /\ IsType(bt)
  BY <1>1, FilesAreBundles DEF IsBusy, PlanOf
<1>5. ASSUME NEW t \in types
      PROVE  /\ Renamed(plan, t) \in ContentType
             /\ Renamed(plan, t).ident = t.ident /\ Renamed(plan, t).born = t.born
             /\ TypeId(Renamed(plan, t)) = TypeId(t)
  <2> DEFINE u == CHOOSE u \in plan.updateTypes : u[1] = TypeId(t)
  <2>1. t \in ContentType
    BY DEF SchemaInv, RowsHaveTypes, TypeOK
  <2>2. CASE ~\E v \in plan.updateTypes : v[1] = TypeId(t)
    BY <2>1, <2>2 DEF Renamed
  <2>3. CASE \E v \in plan.updateTypes : v[1] = TypeId(t)
    <3>1. Renamed(plan, t) = [t EXCEPT !.name = u[2]]
      BY <2>3 DEF Renamed
    <3>2. u \in plan.updateTypes
      BY <2>3
    <3>3. u[2] \in Names
      BY <1>1, <3>2, FilesAreBundles DEF IsBusy, PlanOf, IsType
    <3> HIDE DEF u
    <3> QED BY <2>1, <3>1, <3>3 DEF ContentType, TypeId
  <2> QED BY <2>2, <2>3
<1>6. \A t \in KeptTypes(plan) :
              /\ Renamed(plan, t) \in types' /\ Renamed(plan, t) \in ContentType
              /\ Renamed(plan, t).ident = t.ident /\ Renamed(plan, t).born = t.born
              /\ TypeId(Renamed(plan, t)) = TypeId(t)
  BY <1>2, <1>5 DEF KeptTypes
<1> DEFINE Row(bt) == [ident |-> bt.ident, born |-> tx + 1, name |-> bt.name]
<1>7. /\ CreatedRows(plan) = {Row(bt) : bt \in plan.createTypes}
      /\ \A bt \in plan.createTypes :
           /\ Row(bt) \in ContentType /\ Row(bt).born = tx' /\ Row(bt).ident = bt.ident
           /\ Row(bt).name = bt.name /\ TypeId(Row(bt)) = <<bt.ident, tx + 1>>
           /\ <<bt.ident, tx + 1>> \in TypeIds
  BY <1>3, <1>4 DEF CreatedRows, IsType, ContentType, TypeId, TypeIds
<1> HIDE DEF Row
<1>8. \A bt \in plan.createTypes : \A t \in types :
        t.ident # bt.ident /\ TypeId(t) # <<bt.ident, tx + 1>>
  BY <1>1 DEF CanExecute, TypeId
<1>9. \A bt \in plan.createTypes : \E u \in types' :
        TypeId(u) = <<bt.ident, tx + 1>> /\ u.ident = bt.ident
  BY <1>2, <1>7
<1>10. \A bt \in plan.createTypes : NoRepeats(bt.fields)
  BY <1>1 DEF CanExecute
<1>11. \A u \in types' :
              \/ \E t \in KeptTypes(plan) : u = Renamed(plan, t)
              \/ /\ u \in ContentType /\ u.born = tx'
                 /\ \E bt \in plan.createTypes :
                      u.ident = bt.ident /\ u.name = bt.name /\ TypeId(u) = <<bt.ident, tx + 1>>
  <2>1. SUFFICES ASSUME NEW u \in types', u \notin {Renamed(plan, t) : t \in KeptTypes(plan)}
                 PROVE  /\ u \in ContentType /\ u.born = tx'
                        /\ \E bt \in plan.createTypes :
                             u.ident = bt.ident /\ u.name = bt.name
                               /\ TypeId(u) = <<bt.ident, tx + 1>>
    OBVIOUS
  <2>2. PICK bt \in plan.createTypes : u = Row(bt)
    BY <1>2, <1>7, <2>1
  <2> QED BY <1>7, <2>2
<1> QED BY <1>4, <1>6, <1>7, <1>8, <1>9, <1>10, <1>11

\* What an apply knows of a type it creates, and where a type comes from.
LEMMA CreatedTypeIsNew ==
  ASSUME SchemaInv, NEW p \in Appliers, Execute(p), NEW plan, plan = run[p].plan,
         NEW bt \in plan.createTypes
  PROVE  /\ bt \in run[p].bundle /\ NoRepeats(bt.fields)
         /\ \A t \in types : t.ident # bt.ident /\ TypeId(t) # <<bt.ident, tx + 1>>
         /\ \E u \in types' : u.ident = bt.ident
<1>1. CanExecute(plan) /\ IsBusy(tx, run[p]) /\ run[p].pc \in Planning
  BY WorkersAreBusy DEF Execute, Planning
<1>2. bt \in run[p].bundle
  BY <1>1 DEF IsBusy, PlanOf
<1>3. NoRepeats(bt.fields) /\ \A t \in types : t.ident # bt.ident
  BY <1>1 DEF CanExecute
<1>4. \A t \in types : TypeId(t) # <<bt.ident, tx + 1>>
  BY <1>3 DEF TypeId
<1>5. \E u \in types' : u.ident = bt.ident
  <2> DEFINE u == [ident |-> bt.ident, born |-> tx + 1, name |-> bt.name]
  <2>1. u \in CreatedRows(plan)
    BY DEF CreatedRows
  <2>2. u \in types' /\ u.ident = bt.ident
    BY <2>1, ExecutedRows
  <2> QED BY <2>2
<1> QED BY <1>2, <1>3, <1>4, <1>5

LEMMA ExecutedTypeComesFrom ==
  ASSUME SchemaInv, NEW p \in Appliers, Execute(p), NEW plan, plan = run[p].plan,
         NEW u \in types'
  PROVE  \/ \E t \in KeptTypes(plan) : u = Renamed(plan, t)
         \/ /\ u.born = tx'
            /\ \E bt \in plan.createTypes :
                 u.ident = bt.ident /\ u.name = bt.name /\ TypeId(u) = <<bt.ident, tx + 1>>
BY ExecutedTypes

\* The fields after the statements: what each of them is, and of which type.
LEMMA ExecutedFields ==
  ASSUME SchemaInv, NEW p \in Appliers, Execute(p), NEW plan, plan = run[p].plan
  PROVE  /\ \A f \in fields : LET g == Updated(p, plan, f)
                              IN  /\ g \in ContentTypeField /\ OldAt(tx', g.opts)
                                  /\ g.type = f.type /\ g.ident = f.ident /\ g.born = f.born
         /\ \A f \in KeptFields(plan) : f \in fields /\ f.type \notin plan.removeTypes
         /\ \A c \in plan.createFields :
              LET g == FieldRow(p, c[1], c[2])
              IN  /\ g \in ContentTypeField /\ OldAt(tx', g.opts)
                  /\ g.type = c[1] /\ g.ident = c[2].ident /\ g.born = tx'
                  /\ c[1] \notin plan.removeTypes /\ \E t \in types : TypeId(t) = c[1]
                  /\ \E id \in TypeIds, bt \in run[p].bundle :
                       \E bf \in bt.fields : c = <<id, bf>>
         /\ \A bt \in plan.createTypes : \A bf \in bt.fields :
              LET g == FieldRow(p, <<bt.ident, tx + 1>>, bf)
              IN  /\ g \in ContentTypeField /\ OldAt(tx', g.opts)
                  /\ g.type = <<bt.ident, tx + 1>> /\ g.ident = bf.ident /\ g.born = tx'
<1>1. IsBusy(tx, run[p]) /\ run[p].pc \in Planning /\ Write /\ CanExecute(plan)
  BY WorkersAreBusy DEF Execute, Planning
<1>2. \A f \in fields : LET g == Updated(p, plan, f)
                        IN  /\ g \in ContentTypeField /\ OldAt(tx', g.opts)
                            /\ g.type = f.type /\ g.ident = f.ident /\ g.born = f.born
  BY <1>1, UpdatedIsRow
<1>3. \A f \in KeptFields(plan) : f \in fields /\ f.type \notin plan.removeTypes
  BY DEF KeptFields
<1>4. ASSUME NEW c \in plan.createFields
      PROVE  LET g == FieldRow(p, c[1], c[2])
             IN  /\ g \in ContentTypeField /\ OldAt(tx', g.opts)
                 /\ g.type = c[1] /\ g.ident = c[2].ident /\ g.born = tx'
                 /\ c[1] \notin plan.removeTypes /\ \E t \in types : TypeId(t) = c[1]
                 /\ \E id \in TypeIds, bt \in run[p].bundle :
                      \E bf \in bt.fields : c = <<id, bf>>
  <2>1. /\ c[1] \notin plan.removeTypes
        /\ \E id \in TypeIds, bt \in run[p].bundle : \E bf \in bt.fields : c = <<id, bf>>
    BY <1>1 DEF IsBusy, PlanOf
  <2>2. PICK id \in TypeIds, bt \in run[p].bundle : \E bf \in bt.fields : c = <<id, bf>>
    BY <2>1
  <2>3. IsType(bt)
    BY <1>1, FilesAreBundles DEF IsBusy
  <2>4. c[1] \in TypeIds /\ IsField(c[2])
    BY <2>2, <2>3 DEF IsType
  <2>5. \E t \in types : TypeId(t) = c[1]
    BY <1>1 DEF CanExecute
  <2> QED BY <1>1, <2>1, <2>4, <2>5, FieldRowIsRow
<1>5. ASSUME NEW bt \in plan.createTypes, NEW bf \in bt.fields
      PROVE  LET g == FieldRow(p, <<bt.ident, tx + 1>>, bf)
             IN  /\ g \in ContentTypeField /\ OldAt(tx', g.opts)
                 /\ g.type = <<bt.ident, tx + 1>> /\ g.ident = bf.ident /\ g.born = tx'
  <2>1. <<bt.ident, tx + 1>> \in TypeIds /\ IsField(bf)
    BY ExecutedTypes DEF IsType
  <2> QED BY <1>1, <2>1, FieldRowIsRow
<1> QED BY <1>2, <1>3, <1>4, <1>5

LEMMA ExecuteKeeps ==
  ASSUME SchemaInv, NEW p \in Appliers, Execute(p)
  PROVE  SchemaInv'
<1> DEFINE plan == run[p].plan
           new(bt) == <<bt.ident, tx + 1>>
<1>1. IsBusy(tx, run[p]) /\ Write /\ CanExecute(plan) /\ UNCHANGED <<entries, req>>
  BY WorkersAreBusy DEF Execute
<1>2. tx' = tx + 1 /\ tx \in Nat /\ tx' \in Nat /\ tx <= tx'
  BY <1>1, WriteCounts
<1>3. /\ \A t \in types : t.born \in Nat /\ t.born <= tx
      /\ \A f \in fields : f.born \in Nat /\ f.born <= tx
      /\ \A r \in fields \cup entries : \E t \in types : r.type = TypeId(t)
  BY <1>1, RowsStayOld DEF SchemaInv, RowsHaveTypes
<1>4. /\ \A t \in KeptTypes(plan) :
              /\ Renamed(plan, t) \in types' /\ Renamed(plan, t) \in ContentType
              /\ Renamed(plan, t).ident = t.ident /\ Renamed(plan, t).born = t.born
              /\ TypeId(Renamed(plan, t)) = TypeId(t)
      /\ \A bt \in plan.createTypes :
              /\ new(bt) \in TypeIds
              /\ \A t \in types : t.ident # bt.ident /\ TypeId(t) # new(bt)
              /\ \E u \in types' : TypeId(u) = new(bt) /\ u.ident = bt.ident
              /\ NoRepeats(bt.fields)
      /\ \A u \in types' :
              \/ \E t \in KeptTypes(plan) : u = Renamed(plan, t)
              \/ /\ u \in ContentType /\ u.born = tx'
                 /\ \E bt \in plan.createTypes :
                      u.ident = bt.ident /\ u.name = bt.name /\ TypeId(u) = new(bt)
  BY ExecutedTypes
<1>5. /\ \A f \in fields : LET g == Updated(p, plan, f)
                           IN  /\ g \in ContentTypeField /\ OldAt(tx', g.opts)
                               /\ g.type = f.type /\ g.ident = f.ident /\ g.born = f.born
      /\ \A f \in KeptFields(plan) : f \in fields /\ f.type \notin plan.removeTypes
      /\ \A c \in plan.createFields :
              LET g == FieldRow(p, c[1], c[2])
              IN  /\ g \in ContentTypeField /\ OldAt(tx', g.opts)
                  /\ g.type = c[1] /\ g.ident = c[2].ident /\ g.born = tx'
                  /\ c[1] \notin plan.removeTypes /\ \E t \in types : TypeId(t) = c[1]
      /\ \A bt \in plan.createTypes : \A bf \in bt.fields :
              LET g == FieldRow(p, new(bt), bf)
              IN  /\ g \in ContentTypeField /\ OldAt(tx', g.opts)
                  /\ g.type = new(bt) /\ g.ident = bf.ident /\ g.born = tx'
  BY ExecutedFields
<1>6. \A g \in fields' : IsKept(p, plan, g) \/ IsAdded(p, plan, g) \/ IsCreated(p, plan, g)
  <2> HIDE DEF plan
  <2>1. plan = run[p].plan
    BY DEF plan
  <2> QED BY <2>1, ExecutedFieldComesFrom
<1>7. announced' \subseteq TypeIds
  <2>1. announced' = Announce(p, plan)
    BY DEF Execute
  <2>2. \A c \in plan.createFields : c[1] \in TypeIds
    BY <1>5 DEF ContentTypeField
  <2>3. \A u \in plan.updateFields \cup plan.removeFields : u[1][1] \in TypeIds
    <3>1. \A f \in fields : FieldId(f)[1] \in TypeIds
      BY DEF SchemaInv, RowsHaveTypes, TypeOK, ContentTypeField, FieldId
    <3> QED BY <1>1, <3>1 DEF CanExecute
  <2> QED BY <2>1, <2>2, <2>3 DEF Announce, FieldChangedTypes
<1>8. RequestsAreWhole'
  BY <1>1, <1>2, RequestsGoOn
<1>9. RunsAreWhole'
  <2>1. PICK x : IsIdle(x) /\ run' = [run EXCEPT ![p] = x]
    BY <1>1, FinishIsIdle DEF Execute
  <2> QED BY <1>2, <2>1, OthersRunOn
<1>10. \A id \in TypeIds : id \notin plan.removeTypes =>
         \A t \in types : TypeId(t) = id => \E u \in types' : TypeId(u) = id
  BY <1>4 DEF KeptTypes
<1> HIDE DEF plan, new
<1>11. types' \subseteq ContentType /\ \A t \in types' : t.born <= tx'
  BY <1>2, <1>3, <1>4 DEF KeptTypes
<1>12. fields' \subseteq ContentTypeField /\ \A f \in fields' : f.born <= tx' /\ OldAt(tx', f.opts)
  <2>1. SUFFICES ASSUME NEW g \in fields'
                 PROVE  g \in ContentTypeField /\ g.born <= tx' /\ OldAt(tx', g.opts)
    OBVIOUS
  <2>2. CASE IsKept(p, plan, g)
    BY <1>2, <1>3, <1>5, <2>2 DEF IsKept
  <2>3. CASE IsAdded(p, plan, g)
    BY <1>2, <1>5, <2>3 DEF IsAdded
  <2>4. CASE IsCreated(p, plan, g)
    BY <1>2, <1>5, <2>4 DEF IsCreated, new
  <2> QED BY <1>6, <2>2, <2>3, <2>4
<1>13. \A r \in fields' \cup entries : \E t \in types' : r.type = TypeId(t)
  <2>1. ASSUME NEW e \in entries
        PROVE  \E t \in types' : e.type = TypeId(t)
    <3>1. PICK t \in types : e.type = TypeId(t)
      BY <1>3
    <3>2. TypeId(t) \in TypeIds /\ TypeId(t) \notin plan.removeTypes
      BY <1>1, <3>1 DEF CanExecute, SchemaInv, RowsHaveTypes, TypeOK, ContentType, TypeId, TypeIds
    <3> QED BY <1>10, <3>1, <3>2
  <2>2. ASSUME NEW g \in fields'
        PROVE  \E t \in types' : g.type = TypeId(t)
    <3>1. g.type \in TypeIds
      BY <1>12 DEF ContentTypeField
    <3>2. CASE IsKept(p, plan, g)
      <4>1. PICK f \in fields : f.type \notin plan.removeTypes /\ g.type = f.type
        BY <1>5, <3>2 DEF IsKept
      <4>2. PICK t \in types : f.type = TypeId(t)
        BY <1>3
      <4> QED BY <1>10, <3>1, <4>1, <4>2
    <3>3. CASE IsAdded(p, plan, g)
      <4>1. PICK t \in types : TypeId(t) = g.type /\ g.type \notin plan.removeTypes
        BY <1>5, <3>3 DEF IsAdded
      <4> QED BY <1>10, <3>1, <4>1
    <3>4. CASE IsCreated(p, plan, g)
      <4>1. \E bt \in plan.createTypes : g.type = new(bt)
        BY <1>5, <3>4 DEF IsCreated, new
      <4> QED BY <1>4, <4>1
    <3> QED BY <1>6, <3>2, <3>3, <3>4
  <2> QED BY <2>1, <2>2
<1>14. \A t, u \in types' : t.ident = u.ident => t = u
  <2>1. SUFFICES ASSUME NEW t \in types', NEW u \in types', t.ident = u.ident
                 PROVE  t = u
    OBVIOUS
  <2> DEFINE K(v) == \E x \in KeptTypes(plan) : v = Renamed(plan, x)
  <2>4. \A v \in types' : ~K(v) =>
          /\ v \in ContentType /\ v.born = tx'
          /\ \E bt \in plan.createTypes : v.ident = bt.ident /\ v.name = bt.name
    BY <1>4
  <2>5. \A v \in types' : ~K(v) => \A x \in types : x.ident # v.ident
    BY <1>4, <2>4
  <2>6. \A v \in types' : K(v) => \E x \in types : x.ident = v.ident
    BY <1>4 DEF KeptTypes
  <2>2. CASE K(t)
    <3>1. PICK x \in KeptTypes(plan) : t = Renamed(plan, x)
      BY <2>2
    <3>2. x \in types /\ t.ident = x.ident
      BY <1>4, <3>1 DEF KeptTypes
    <3>3. PICK y \in KeptTypes(plan) : u = Renamed(plan, y)
      BY <2>1, <2>5, <3>2
    <3>4. y \in types /\ u.ident = y.ident
      BY <1>4, <3>3 DEF KeptTypes
    <3> QED BY <2>1, <3>1, <3>2, <3>3, <3>4 DEF SchemaInv, TablesAreKeyed, NoRepeats
  <2>3. CASE ~K(t)
    <3>1. PICK bt \in plan.createTypes : t.ident = bt.ident /\ t.name = bt.name
      BY <2>3, <2>4
    <3>2. ~K(u)
      BY <2>1, <2>3, <2>5, <2>6
    <3>3. PICK bu \in plan.createTypes : u.ident = bu.ident /\ u.name = bu.name
      BY <2>4, <3>2
    <3>4. bt = bu
      BY <1>1, <2>1, <3>1, <3>3 DEF CanExecute, NoRepeats
    <3>5. t \in ContentType /\ u \in ContentType /\ t.born = tx' /\ u.born = tx'
      BY <2>3, <2>4, <3>2
    <3> QED BY <2>1, <3>1, <3>3, <3>4, <3>5 DEF ContentType
  <2> QED BY <2>2, <2>3
<1>15. \A f, g \in fields' : f.type = g.type /\ f.ident = g.ident => f = g
  <2>1. SUFFICES ASSUME NEW f \in fields', NEW g \in fields', f.type = g.type, f.ident = g.ident
                 PROVE  f = g
    OBVIOUS
  <2> DEFINE K(h) == \E x \in KeptFields(plan) : h = Updated(p, plan, x)
             C(h) == \E c \in plan.createFields : h = FieldRow(p, c[1], c[2])
             N(h) == \E bt \in plan.createTypes : \E bf \in bt.fields : h = FieldRow(p, new(bt), bf)
  <2>2. \A h \in fields' : K(h) \/ C(h) \/ N(h)
    BY <1>6 DEF IsKept, IsAdded, IsCreated, new
  <2>3. \A h \in fields' : N(h) => \E bt \in plan.createTypes : h.type = new(bt)
    BY <1>5
  <2>4. \A h \in fields' : K(h) => \E x \in fields : h.type = x.type /\ h.ident = x.ident
    BY <1>5
  <2>5. \A h \in fields' : K(h) \/ C(h) => \E t \in types : h.type = TypeId(t)
    BY <1>3, <1>5
  <2>6. \A h \in fields' : N(h) => ~\E t \in types : h.type = TypeId(t)
    BY <1>4, <2>3
  <2>7. \A h, i \in fields' : K(h) /\ C(i) => ~(h.type = i.type /\ h.ident = i.ident)
    <3>1. SUFFICES ASSUME NEW h \in fields', NEW i \in fields', K(h), C(i),
                          h.type = i.type, h.ident = i.ident
                   PROVE  FALSE
      OBVIOUS
    <3>2. PICK x \in fields : h.type = x.type /\ h.ident = x.ident
      BY <2>4, <3>1
    <3>3. PICK c \in plan.createFields : i.type = c[1] /\ i.ident = c[2].ident
      BY <1>5, <3>1
    <3> QED BY <1>1, <3>1, <3>2, <3>3 DEF CanExecute, FieldsOf
  <2>8. K(f) /\ K(g) => f = g
    <3>1. SUFFICES ASSUME K(f), K(g)
                   PROVE  f = g
      OBVIOUS
    <3>2. PICK x \in KeptFields(plan) : f = Updated(p, plan, x)
      BY <3>1
    <3>3. PICK y \in KeptFields(plan) : g = Updated(p, plan, y)
      BY <3>1
    <3>4. x \in fields /\ y \in fields /\ x.type = y.type /\ x.ident = y.ident
      BY <1>5, <2>1, <3>2, <3>3
    <3> QED BY <3>2, <3>3, <3>4 DEF SchemaInv, TablesAreKeyed
  <2>9. C(f) /\ C(g) => f = g
    <3>1. SUFFICES ASSUME C(f), C(g)
                   PROVE  f = g
      OBVIOUS
    <3>2. PICK c \in plan.createFields : f = FieldRow(p, c[1], c[2])
      BY <3>1
    <3>3. PICK d \in plan.createFields : g = FieldRow(p, d[1], d[2])
      BY <3>1
    <3>4. c[1] = d[1] /\ c[2].ident = d[2].ident
      BY <1>5, <2>1, <3>2, <3>3
    <3>5. NoRepeats({e[2] : e \in {e \in plan.createFields : e[1] = c[1]}})
      BY <1>1 DEF CanExecute
    <3>6. c[2] = d[2]
      BY <3>4, <3>5 DEF NoRepeats
    <3> QED BY <3>2, <3>3, <3>4, <3>6
  <2>10. N(f) /\ N(g) => f = g
    <3>1. SUFFICES ASSUME N(f), N(g)
                   PROVE  f = g
      OBVIOUS
    <3>2. PICK bt \in plan.createTypes : \E bf \in bt.fields : f = FieldRow(p, new(bt), bf)
      BY <3>1
    <3>3. PICK bf \in bt.fields : f = FieldRow(p, new(bt), bf)
      BY <3>2
    <3>4. PICK bu \in plan.createTypes : \E bg \in bu.fields : g = FieldRow(p, new(bu), bg)
      BY <3>1
    <3>5. PICK bg \in bu.fields : g = FieldRow(p, new(bu), bg)
      BY <3>4
    <3>6. new(bt) = new(bu) /\ bf.ident = bg.ident
      BY <1>5, <2>1, <3>3, <3>5
    <3>7. bt.ident = bu.ident
      BY <3>6 DEF new
    <3>8. bt = bu
      BY <1>1, <3>7 DEF CanExecute, NoRepeats
    <3>9. bf = bg
      BY <1>4, <3>6, <3>8 DEF NoRepeats
    <3> QED BY <3>3, <3>5, <3>8, <3>9
  <2> HIDE DEF K, C, N
  <2> QED BY <2>1, <2>2, <2>5, <2>6, <2>7, <2>8, <2>9, <2>10
<1>16. TablesAreKeyed'
  BY <1>14, <1>15 DEF TablesAreKeyed, NoRepeats
<1> QED BY <1>1, <1>7, <1>8, <1>9, <1>11, <1>12, <1>13, <1>16, SchemaStepKeeps

LEMMA ApplyStepsKeep ==
  ASSUME SchemaInv, NEW p \in Appliers,
         ClientApplies(p) \/ BootApplies(p) \/ ReadTypes(p) \/ ReadCounts(p)
           \/ Plan(p) \/ Replan(p) \/ DryRun(p) \/ ExecuteFails(p)
  PROVE  SchemaInv'
<1>1. UNCHANGED <<types, fields, entries, tx, announced, req>>
  BY DEF ClientApplies, BootApplies, ReadTypes, ReadCounts, Plan, Replan, DryRun, ExecuteFails
<1>2. SUFFICES \E x : run' = [run EXCEPT ![p] = x] /\ (IsIdle(x) \/ IsBusy(tx, x))
  BY <1>1, AppliersKeep
<1>3. CASE ClientApplies(p)
  <2>1. PICK b \in Bundles, allow \in BOOLEAN : Begin(p, b, allow, FALSE)
    BY <1>3 DEF ClientApplies
  <2>2. b \in Files /\ IsIdle(run[p])
    BY <1>3, IdleIsIdle DEF ClientApplies, Files
  <2> QED BY <2>1, <2>2, BeginKeeps
<1>4. CASE BootApplies(p)
  <2>1. IsIdle(run[p])
    BY <1>4, WorkersAreBusy DEF BootApplies
  <2>2. run[p].done + 1 \in DOMAIN BootDir
    BY <2>1, FilesAreBundles DEF IsIdle
  <2>3. BootDir[run[p].done + 1] \in Files
    BY <2>2 DEF Files
  <2>4. PICK allow \in BOOLEAN : Begin(p, BootDir[run[p].done + 1], allow, TRUE)
    BY <1>4 DEF BootApplies
  <2> QED BY <2>1, <2>3, <2>4, BeginKeeps
<1>5. CASE ReadTypes(p)
  BY <1>5, ReadTypesGoesOn
<1>6. CASE ReadCounts(p)
  BY <1>6, ReadCountsGoesOn
<1>7. CASE Plan(p)
  BY <1>7, PlanGoesOn
<1>8. CASE Replan(p)
  BY <1>8, ReplanGoesOn
<1>9. CASE DryRun(p)
  <2>1. IsBusy(tx, run[p]) /\ Finish(p, TRUE)
    BY <1>9, WorkersAreBusy DEF DryRun
  <2> QED BY <2>1, FinishIsIdle
<1>10. CASE ExecuteFails(p)
  <2>1. IsBusy(tx, run[p]) /\ Finish(p, FALSE)
    BY <1>10, WorkersAreBusy DEF ExecuteFails
  <2> QED BY <2>1, FinishIsIdle
<1> QED BY <1>3, <1>4, <1>5, <1>6, <1>7, <1>8, <1>9, <1>10

LEMMA InitIsSound == Init => SchemaInv
<1>1. SUFFICES ASSUME Init
               PROVE  SchemaInv
  OBVIOUS
<1>2. /\ types = InitTypes /\ fields = InitFields /\ entries = InitEntries /\ tx = 0
      /\ announced = {} /\ req = [h \in Handlers |-> NoValue]
      /\ run = [p \in Appliers |-> Idle(0)] /\ MaxTx \in Nat
  BY <1>1, SchemaConstants DEF Init
<1>3. TypeOK
  BY <1>2, InitialTables DEF TypeOK
<1>4. RowsHaveTypes
  BY <1>2, <1>3, InitialTables DEF RowsHaveTypes
<1>5. TablesAreKeyed
  BY <1>2, InitialTables DEF TablesAreKeyed, NoRepeats
<1>6. EntriesAreFinite /\ IdsAreOld
  BY <1>2, InitialTables DEF EntriesAreFinite, IdsAreOld, OldAt
<1>7. RequestsAreWhole
  BY <1>2 DEF RequestsAreWhole
<1>8. RunsAreWhole
  BY <1>2, IdleIsIdle DEF RunsAreWhole
<1> QED BY <1>4, <1>5, <1>6, <1>7, <1>8 DEF SchemaInv

LEMMA NextKeeps == SchemaInv /\ [Next]_vars => SchemaInv'
<1> SUFFICES ASSUME SchemaInv, [Next]_vars
             PROVE  SchemaInv'
  OBVIOUS
<1>1. CASE CreateEntry
  BY <1>1, CreateEntryKeeps
<1>2. CASE ArchiveEntry
  BY <1>2, ArchiveEntryKeeps
<1>3. CASE DeleteEntry
  BY <1>3, DeleteEntryKeeps
<1>4. CASE CreateType
  BY <1>4, CreateTypeKeeps
<1>5. CASE \E h \in Handlers : Handle(h)
  <2>1. PICK h \in Handlers : Handle(h)
    BY <1>5
  <2> QED BY <2>1, AskRenameKeeps, AskDeleteTypeKeeps, AskFieldKeeps, AskEditKeeps,
             AskDeleteFieldKeeps, AskReorderKeeps, CommitKeeps, CommitFailsKeeps DEF Handle
<1>6. CASE \E p \in Appliers : Apply(p)
  <2>1. PICK p \in Appliers : Apply(p)
    BY <1>6
  <2> QED BY <2>1, ApplyStepsKeep, ExecuteKeeps DEF Apply
<1>7. CASE UNCHANGED vars
  <2>1. UNCHANGED <<types, fields, entries, tx, announced, req, run>>
    BY <1>7 DEF vars
  <2>2. tx \in Nat /\ tx' = tx /\ tx' \in Nat /\ tx <= tx'
    BY <2>1, TxIsNatural DEF SchemaInv, RowsHaveTypes
  <2>3. RequestsAreWhole' /\ RunsAreWhole'
    BY <2>1, <2>2, RequestsGoOn, RunsGoOn
  <2> QED BY <2>1, <2>3, TablesStand
<1> QED BY <1>1, <1>2, <1>3, <1>4, <1>5, <1>6, <1>7 DEF Next

\* No entry and no field is left without its content type, whatever handlers
\* counted before they deleted and whatever a plan was made from; the
\* identifiers of types, and of the fields of a type, do not repeat; and what is
\* planned or about to be written fits the tables it will be written to.
THEOREM SchemaInvariance == Spec => []SchemaInv
BY InitIsSound, NextKeeps, PTL DEF Spec

THEOREM RowsKeepTheirTypes == Spec => []RowsHaveTypes
<1>1. SchemaInv => RowsHaveTypes
  BY DEF SchemaInv
<1> QED BY <1>1, SchemaInvariance, PTL

(***************************************************************************)
(* Every change of fields is announced.                                    *)
(***************************************************************************)
\* The fields of a type that stays are the same, or the change is announced.
IsQuiet(id) == FieldsOf(id) = {f \in fields' : f.type = id}

LEMMA CommitAnnounces ==
  ASSUME SchemaInv, NEW h \in Handlers, Commit(h), NEW t \in types,
         \E u \in types' : TypeId(u) = TypeId(t), TypeId(t) \notin announced'
  PROVE  IsQuiet(TypeId(t))
<1> DEFINE w == req[h]
           id == TypeId(t)
<1>1. IsWrite(tx, w) /\ tx \in Nat
  BY TxIsNatural DEF Commit, SchemaInv, RequestsAreWhole, RowsHaveTypes
<1>2. w.op \in {"rename", "deleteType", "field", "edit", "deleteField", "reorder"}
  BY <1>1 DEF IsWrite
<1>3. CASE w.op = "rename"
  <2>1. fields' = fields
    BY <1>3 DEF Commit, Rename
  <2> QED BY <2>1 DEF IsQuiet, FieldsOf
<1>4. CASE w.op = "deleteType"
  <2>1. DeleteType(w.id)
    BY <1>4 DEF Commit
  <2>2. types' = {u \in types : TypeId(u) # w.id} /\ fields' = fields \ FieldsOf(w.id)
    BY <2>1 DEF DeleteType
  <2>3. id # w.id
    BY <2>2
  <2> QED BY <2>2, <2>3 DEF IsQuiet, FieldsOf
<1>5. CASE w.op = "field"
  <2>1. AddField(w.id, w.body)
    BY <1>5 DEF Commit
  <2>2. id # w.id
    BY <2>1 DEF AddField
  <2> DEFINE row == [type |-> w.id, ident |-> w.body.ident, born |-> tx + 1, kind |-> w.body.kind,
                     required |-> w.body.required, unique |-> w.body.unique,
                     order |-> w.body.order, opts |-> w.body.opts]
  <2>3. fields' = fields \cup {row} /\ row.type = w.id
    BY <2>1 DEF AddField
  <2> HIDE DEF row
  <2> QED BY <2>2, <2>3 DEF IsQuiet, FieldsOf
<1>6. CASE w.op = "edit"
  <2> DEFINE G(f) == IF FieldId(f) = w.id THEN Changed(f, w.changes) ELSE f
  <2>1. EditField(w.id, w.changes)
    BY <1>6 DEF Commit
  <2>2. fields' = {G(f) : f \in fields} /\ id # w.id[1]
    BY <2>1 DEF EditField
  <2>3. IsChange(tx, w.changes) /\ \A f \in fields : f \in ContentTypeField /\ OldAt(tx, f.opts)
    BY <1>1, <1>6 DEF IsWrite, SchemaInv, RowsHaveTypes, TypeOK, IdsAreOld
  <2>4. \A f \in fields : G(f).type = f.type
    BY <1>1, <2>3, ChangedIsRow
  <2>5. \A f \in fields : f.type = id => G(f) = f
    BY <2>2 DEF FieldId
  <2> HIDE DEF G
  <2> QED BY <2>2, <2>4, <2>5 DEF IsQuiet, FieldsOf
<1>7. CASE w.op = "deleteField"
  <2>1. DeleteField(w.id)
    BY <1>7 DEF Commit
  <2>2. fields' = {f \in fields : FieldId(f) # w.id} /\ id # w.id[1]
    BY <2>1 DEF DeleteField
  <2> QED BY <2>2 DEF IsQuiet, FieldsOf, FieldId
<1>8. CASE w.op = "reorder"
  <2> DEFINE G(f) == IF FieldId(f) \in DOMAIN w.order
                     THEN [f EXCEPT !.order = w.order[FieldId(f)]] ELSE f
  <2>1. Reorder(w.id, w.order)
    BY <1>8 DEF Commit
  <2>2. fields' = {G(f) : f \in fields} /\ id # w.id
    BY <2>1 DEF Reorder
  <2>3. \A i \in DOMAIN w.order : i[1] = w.id
    BY <1>1, <1>8 DEF IsWrite
  <2>4. \A f \in fields : G(f).type = f.type
    BY DEF SchemaInv, RowsHaveTypes, TypeOK, ContentTypeField
  <2>5. \A f \in fields : f.type = id => G(f) = f
    BY <2>2, <2>3 DEF FieldId
  <2> HIDE DEF G
  <2> QED BY <2>2, <2>4, <2>5 DEF IsQuiet, FieldsOf
<1> QED BY <1>2, <1>3, <1>4, <1>5, <1>6, <1>7, <1>8

LEMMA CreateTypeAnnounces ==
  ASSUME SchemaInv, CreateType, NEW t \in types
  PROVE  IsQuiet(TypeId(t))
<1> DEFINE F(body, bf) ==
             [type |-> <<body.ident, tx + 1>>, ident |-> bf.ident,
              born |-> tx + 1, kind |-> bf.kind, required |-> bf.required,
              unique |-> ResolveUnique(bf.kind, bf.unique), order |-> bf.order,
              opts |-> StoredBody(bf.kind, bf.opts)]
<1>1. PICK body \in NewTypes : fields' = fields \cup {F(body, bf) : bf \in body.fields}
  BY DEF CreateType
<1>2. \A bf \in body.fields : F(body, bf).type = <<body.ident, tx + 1>>
  OBVIOUS
<1>3. t.born \in Nat /\ t.born <= tx /\ tx \in Nat
  BY RowsStayOld, WriteCounts DEF CreateType
<1>4. TypeId(t) # <<body.ident, tx + 1>>
  BY <1>3 DEF TypeId
<1> HIDE DEF F
<1> QED BY <1>1, <1>2, <1>4 DEF IsQuiet, FieldsOf

\* The plan names every field the statements change.
LEMMA ExecuteAnnounces ==
  ASSUME SchemaInv, NEW p \in Appliers, Execute(p), NEW t \in types,
         \E u \in types' : TypeId(u) = TypeId(t),
         TypeId(t) \notin FieldChangedTypes(run[p].plan)
  PROVE  IsQuiet(TypeId(t))
<1> DEFINE plan == run[p].plan
           id == TypeId(t)
           new(bt) == <<bt.ident, tx + 1>>
<1>1. /\ \A c \in plan.createFields : c[1] # id
      /\ \A u \in plan.updateFields \cup plan.removeFields : u[1][1] # id
  BY DEF FieldChangedTypes
<1>2. \A bt \in plan.createTypes : new(bt) # id
  BY ExecutedTypes
<1>3. id \notin plan.removeTypes
  <2>1. PICK u \in types' : TypeId(u) = id
    OBVIOUS
  <2>2. \/ \E v \in KeptTypes(plan) : TypeId(u) = TypeId(v)
        \/ \E bt \in plan.createTypes : TypeId(u) = new(bt)
    BY ExecutedTypes
  <2> QED BY <1>2, <2>1, <2>2 DEF KeptTypes
<1>4. ASSUME NEW f \in fields, f.type = id
      PROVE  f \in KeptFields(plan) /\ Updated(p, plan, f) = f
  <2>1. FieldId(f)[1] = id
    BY <1>4 DEF FieldId
  <2>2. \A u \in plan.updateFields : u[1] # FieldId(f)
    <3> HIDE DEF id, plan
    <3> QED BY <1>1, <2>1
  <2>3. \A r \in plan.removeFields : r[1] # FieldId(f)
    <3> HIDE DEF id, plan
    <3> QED BY <1>1, <2>1
  <2>4. f \in KeptFields(plan)
    BY <1>3, <1>4, <2>3 DEF KeptFields
  <2>5. Updated(p, plan, f) = f
    BY <2>2 DEF Updated
  <2> QED BY <2>4, <2>5
<1>5. /\ \A f \in KeptFields(plan) : Updated(p, plan, f) \in fields'
      /\ \A g \in fields' : IsKept(p, plan, g) \/ IsAdded(p, plan, g) \/ IsCreated(p, plan, g)
  <2> HIDE DEF id
  <2>1. plan = run[p].plan /\ Execute(p)
    OBVIOUS
  <2> HIDE DEF plan
  <2>2. \A f \in KeptFields(plan) : Updated(p, plan, f) \in fields'
    BY <2>1, ExecutedRows
  <2>3. \A g \in fields' : IsKept(p, plan, g) \/ IsAdded(p, plan, g) \/ IsCreated(p, plan, g)
    BY <2>1, ExecutedFieldComesFrom
  <2> QED BY <2>2, <2>3
<1>6. \A f \in fields : f.type = id => f \in fields'
  BY <1>4, <1>5
<1>7. ASSUME NEW g \in fields', g.type = id
      PROVE  g \in fields
  <2>1. CASE IsKept(p, plan, g)
    <3>1. PICK f \in KeptFields(plan) : g = Updated(p, plan, f)
      BY <2>1 DEF IsKept
    <3>2. f \in fields /\ f.type = id
      BY <1>7, <3>1, ExecutedFields
    <3> QED BY <1>4, <3>1, <3>2
  <2>2. CASE IsAdded(p, plan, g)
    <3>1. PICK c \in plan.createFields : g = FieldRow(p, c[1], c[2])
      BY <2>2 DEF IsAdded
    <3>2. g.type = c[1]
      BY <3>1 DEF FieldRow
    <3> QED BY <1>1, <1>7, <3>1, <3>2
  <2>3. CASE IsCreated(p, plan, g)
    <3>1. PICK bt \in plan.createTypes : \E bf \in bt.fields : g = FieldRow(p, new(bt), bf)
      BY <2>3 DEF IsCreated
    <3>2. g.type = new(bt)
      BY <3>1 DEF FieldRow
    <3> QED BY <1>2, <1>7, <3>1, <3>2
  <2> QED BY <1>5, <2>1, <2>2, <2>3
<1> QED BY <1>6, <1>7 DEF IsQuiet, FieldsOf

\* Every change of the fields of a type that stays is announced in the
\* transaction that makes it, by every handler and every apply but a boot's.
THEOREM ChangesAreAnnounced == Spec => FieldChangesAreAnnounced
<1>1. SchemaInv /\ [Next]_vars =>
        [\A t \in types :
           (\E u \in types' : TypeId(u) = TypeId(t))
             /\ FieldsOf(TypeId(t)) # {f \in fields' : f.type = TypeId(t)}
             => TypeId(t) \in announced'
                  \/ \E p \in Appliers : run[p].pc = "execute" /\ run[p].boot /\ Applies(p)]_vars
  <2>1. SUFFICES ASSUME SchemaInv, Next, NEW t \in types,
                        \E u \in types' : TypeId(u) = TypeId(t),
                        ~IsQuiet(TypeId(t)), TypeId(t) \notin announced'
                 PROVE  \E p \in Appliers : run[p].pc = "execute" /\ run[p].boot /\ Applies(p)
    BY DEF IsQuiet
  <2>2. ASSUME fields' = fields
        PROVE  FALSE
    BY <2>1, <2>2 DEF IsQuiet, FieldsOf
  <2>3. ~CreateEntry /\ ~ArchiveEntry /\ ~DeleteEntry
    BY <2>2 DEF CreateEntry, ArchiveEntry, DeleteEntry
  <2>4. ~CreateType
    BY <2>1, CreateTypeAnnounces
  <2>5. \A h \in Handlers : ~Handle(h)
    <3>1. SUFFICES ASSUME NEW h \in Handlers, Handle(h)
                   PROVE  FALSE
      OBVIOUS
    <3>2. ~Commit(h)
      BY <2>1, CommitAnnounces
    <3>3. fields' = fields
      BY <3>1, <3>2 DEF Handle, AskRename, AskDeleteType, AskField, AskEdit, AskDeleteField,
                        AskReorder, CommitFails, Ask
    <3> QED BY <2>2, <3>3
  <2>6. PICK p \in Appliers : Apply(p)
    BY <2>1, <2>3, <2>4, <2>5 DEF Next
  <2>7. Execute(p)
    BY <2>2, <2>6 DEF Apply, ClientApplies, BootApplies, ReadTypes, ReadCounts, Plan, Replan,
                      DryRun, ExecuteFails
  <2>8. TypeId(t) \in FieldChangedTypes(run[p].plan)
    BY <2>1, <2>7, ExecuteAnnounces
  <2>9. run[p].boot
    BY <2>1, <2>7, <2>8 DEF Execute, Announce
  <2>10. run'[p].pc = "idle" /\ tx' # tx /\ run[p].pc = "execute"
    <3>1. p \in DOMAIN run
      BY <2>1 DEF SchemaInv, RunsAreWhole
    <3>2. tx' # tx
      BY <2>1, <2>7, WriteCounts DEF Execute
    <3> QED BY <2>7, <3>1, <3>2 DEF Execute, Finish, Idle
  <2> QED BY <2>9, <2>10 DEF Applies
<1> QED BY <1>1, SchemaInvariance, PTL DEF Spec, FieldChangesAreAnnounced

(***************************************************************************)
(* What an apply knows of the tables when nothing was written meanwhile.   *)
(***************************************************************************)
AsSnapshot(T, F, E) == [types |-> T, fields |-> F, entries |-> E, counts |-> Counts(E)]

IsFresh(n, T, F, E, r) ==
  /\ r.since \in Nat /\ r.since <= n
  /\ r.pc \in Planning => r.plan.blockers = {}
  /\ r.since = n =>
       /\ r.pc \in {"counts", "entries", "counts2", "entries2"} =>
            r.snap.types = T /\ r.snap.fields = F
       /\ r.pc \in {"entries", "entries2"} => r.snap.counts = Counts(E)
       /\ r.pc = "execute" => r.plan = PlanSchema(r.bundle, AsSnapshot(T, F, E), r.allow)

RunsAreFresh ==
  \A p \in Appliers : run[p].pc \in Stages => IsFresh(tx, types, fields, entries, run[p])

LEMMA FreshThenStale ==
  ASSUME NEW n \in Nat, NEW T, NEW F, NEW E, NEW r, IsFresh(n, T, F, E, r),
         NEW U, NEW G, NEW D
  PROVE  IsFresh(n + 1, U, G, D, r)
<1>1. r.since \in Nat /\ r.since <= n /\ (r.pc \in Planning => r.plan.blockers = {})
  BY DEF IsFresh
<1>2. r.since <= n + 1 /\ r.since # n + 1
  BY <1>1
<1> QED BY <1>1, <1>2 DEF IsFresh

LEMMA WritesMakeStale ==
  ASSUME SchemaInv, RunsAreFresh, Write,
         \A q \in Appliers : run'[q] = run[q] \/ run'[q].pc = "idle"
  PROVE  RunsAreFresh'
<1>1. tx \in Nat /\ tx' = tx + 1
  BY WriteCounts
<1>2. SUFFICES ASSUME NEW q \in Appliers, run'[q].pc \in Stages
               PROVE  IsFresh(tx', types', fields', entries', run'[q])
  BY DEF RunsAreFresh
<1>3. run'[q] = run[q]
  BY <1>2 DEF Stages, Planning
<1>4. IsFresh(tx, types, fields, entries, run[q])
  BY <1>2, <1>3 DEF RunsAreFresh
<1> QED BY <1>1, <1>3, <1>4, FreshThenStale

LEMMA AppliersStayFresh ==
  ASSUME SchemaInv, RunsAreFresh, NEW p \in Appliers, NEW x, run' = [run EXCEPT ![p] = x],
         x.pc \in Stages => IsFresh(tx, types, fields, entries, x),
         UNCHANGED <<types, fields, entries, tx>>
  PROVE  RunsAreFresh'
<1>1. DOMAIN run = Appliers
  BY DEF SchemaInv, RunsAreWhole
<1>2. SUFFICES ASSUME NEW q \in Appliers, run'[q].pc \in Stages
               PROVE  IsFresh(tx, types, fields, entries, run'[q])
  BY DEF RunsAreFresh
<1>3. CASE q = p
  BY <1>1, <1>2, <1>3
<1>4. CASE q # p
  BY <1>1, <1>2, <1>4 DEF RunsAreFresh
<1> QED BY <1>3, <1>4

LEMMA IdleIsFresh ==
  ASSUME NEW x, IsIdle(x)
  PROVE  x.pc \notin Stages
BY DEF IsIdle, Stages, Planning

LEMMA BeginIsFresh ==
  ASSUME SchemaInv, NEW p \in Appliers, NEW b, NEW allow, NEW boot, Begin(p, b, allow, boot)
  PROVE  \E x : /\ run' = [run EXCEPT ![p] = x]
                /\ x.pc \in Stages => IsFresh(tx, types, fields, entries, x)
<1>1. CASE ~ValidBundle(b)
  BY <1>1, IdleIsIdle, IdleIsFresh DEF Begin
<1>2. CASE ValidBundle(b)
  <2> DEFINE x == [pc |-> "types", boot |-> boot, done |-> run[p].done, retried |-> FALSE,
                  bundle |-> b, allow |-> allow, snap |-> EmptySnapshot,
                  plan |-> NoValue, known |-> {}, since |-> 0]
  <2>1. run' = [run EXCEPT ![p] = x]
    BY <1>2 DEF Begin
  <2>2. x.pc = "types" /\ x.since = 0
    OBVIOUS
  <2> HIDE DEF x
  <2>3. tx \in Nat
    BY TxIsNatural DEF SchemaInv, RowsHaveTypes
  <2>4. IsFresh(tx, types, fields, entries, x)
    BY <2>2, <2>3 DEF IsFresh, Planning
  <2> QED BY <2>1, <2>4
<1> QED BY <1>1, <1>2

\* The plan made from a fresh snapshot.
LEMMA FreshlyPlanned ==
  ASSUME SchemaInv, NEW p \in Appliers, IsBusy(tx, run[p]),
         run[p].snap.types = types, run[p].snap.fields = fields,
         run[p].snap.counts = Counts(entries)
  PROVE  Planned(p) = PlanSchema(run[p].bundle, AsSnapshot(types, fields, entries), run[p].allow)
<1>1. Seen(p) = AsSnapshot(types, fields, entries)
  BY SeenIsSnapshot DEF IsBusy, AsSnapshot
<1> QED BY <1>1 DEF Planned, Seen

LEMMA ApplyStepsStayFresh ==
  ASSUME SchemaInv, RunsAreFresh, NEW p \in Appliers,
         ClientApplies(p) \/ BootApplies(p) \/ ReadTypes(p) \/ ReadCounts(p)
           \/ Plan(p) \/ Replan(p) \/ DryRun(p) \/ ExecuteFails(p)
  PROVE  RunsAreFresh'
<1> DEFINE fresh(x) == IsFresh(tx, types, fields, entries, x)
<1>1. UNCHANGED <<types, fields, entries, tx>>
  BY DEF ClientApplies, BootApplies, ReadTypes, ReadCounts, Plan, Replan, DryRun, ExecuteFails
<1>2. SUFFICES \E x : run' = [run EXCEPT ![p] = x] /\ (x.pc \in Stages => fresh(x))
  BY <1>1, AppliersStayFresh
<1>3. tx \in Nat
  BY TxIsNatural DEF SchemaInv, RowsHaveTypes
<1>4. run[p].pc # "idle" => IsBusy(tx, run[p]) /\ fresh(run[p])
  BY WorkersAreBusy DEF RunsAreFresh
<1>5. CASE ClientApplies(p)
  <2>1. PICK b \in Bundles, allow \in BOOLEAN : Begin(p, b, allow, FALSE)
    BY <1>5 DEF ClientApplies
  <2> QED BY <2>1, BeginIsFresh
<1>6. CASE BootApplies(p)
  <2>1. PICK allow \in BOOLEAN : Begin(p, BootDir[run[p].done + 1], allow, TRUE)
    BY <1>6 DEF BootApplies
  <2> QED BY <2>1, BeginIsFresh
<1>7. CASE ReadTypes(p)
  <2>1. run[p].pc \in {"types", "types2"}
    BY <1>7 DEF ReadTypes
  <2>2. PICK x : /\ run' = [run EXCEPT ![p] = x]
                 /\ \/ run[p].pc = "types" /\ x.pc = "counts"
                    \/ run[p].pc = "types2" /\ x.pc = "counts2"
                 /\ x.snap.types = types /\ x.snap.fields = fields /\ x.since = tx
                 /\ x.plan = run[p].plan
    BY <1>7, ReadTypesGoesOn
  <2>3. x.pc \in Planning => x.plan.blockers = {}
    BY <1>4, <2>1, <2>2 DEF IsFresh, Planning
  <2>4. fresh(x)
    BY <1>3, <2>2, <2>3 DEF IsFresh
  <2> QED BY <2>2, <2>4
<1>8. CASE ReadCounts(p)
  <2>1. run[p].pc \in {"counts", "counts2"}
    BY <1>8 DEF ReadCounts
  <2>2. PICK x : /\ run' = [run EXCEPT ![p] = x]
                 /\ \/ run[p].pc = "counts" /\ x.pc = "entries"
                    \/ run[p].pc = "counts2" /\ x.pc = "entries2"
                 /\ x.snap.types = run[p].snap.types /\ x.snap.fields = run[p].snap.fields
                 /\ x.snap.counts = Counts(entries) /\ x.since = run[p].since
                 /\ x.plan = run[p].plan
    BY <1>8, ReadCountsGoesOn
  <2>3. x.pc \in Planning => x.plan.blockers = {}
    BY <1>4, <2>1, <2>2 DEF IsFresh, Planning
  <2>4. x.since \in Nat /\ x.since <= tx
    BY <1>4, <2>1, <2>2 DEF IsFresh
  <2>5. x.since = tx => x.snap.types = types /\ x.snap.fields = fields
    BY <1>4, <2>1, <2>2 DEF IsFresh
  <2>6. fresh(x)
    BY <2>2, <2>3, <2>4, <2>5 DEF IsFresh
  <2> QED BY <2>2, <2>6
<1>9. CASE Plan(p)
  <2>1. CASE \E x : run' = [run EXCEPT ![p] = x] /\ IsIdle(x)
    BY <2>1, IdleIsFresh
  <2>2. CASE \E x : /\ run' = [run EXCEPT ![p] = x]
                    /\ run[p].pc = "entries" /\ x.pc = "types2"
                    /\ x.plan.blockers = {} /\ x.since = run[p].since
    <3>1. PICK x : /\ run' = [run EXCEPT ![p] = x]
                   /\ run[p].pc = "entries" /\ x.pc = "types2"
                   /\ x.plan.blockers = {} /\ x.since = run[p].since
      BY <2>2
    <3>2. fresh(x)
      BY <1>4, <3>1 DEF IsFresh
    <3> QED BY <3>1, <3>2
  <2> QED BY <1>9, <2>1, <2>2, PlanGoesOn
<1>10. CASE Replan(p)
  <2>1. CASE \E x : run' = [run EXCEPT ![p] = x] /\ IsIdle(x)
    BY <2>1, IdleIsFresh
  <2>2. CASE \E x : /\ run' = [run EXCEPT ![p] = x]
                    /\ SameOrder(run[p], x) /\ run[p].pc = "entries2"
                    /\ x.since = run[p].since
                    /\ \/ /\ x.pc = "execute" /\ run[p].plan = Planned(p)
                          /\ x.plan = run[p].plan
                       \/ x.pc = "types"
    <3>1. PICK x : /\ run' = [run EXCEPT ![p] = x]
                   /\ SameOrder(run[p], x) /\ run[p].pc = "entries2"
                   /\ x.since = run[p].since
                   /\ \/ /\ x.pc = "execute" /\ run[p].plan = Planned(p)
                         /\ x.plan = run[p].plan
                      \/ x.pc = "types"
      BY <2>2
    <3>2. IsBusy(tx, run[p]) /\ fresh(run[p])
      BY <1>4, <3>1
    <3>3. x.since \in Nat /\ x.since <= tx
      BY <3>1, <3>2 DEF IsFresh
    <3>4. x.pc \in Planning => x.plan.blockers = {}
      BY <3>1, <3>2 DEF IsFresh, Planning
    <3>5. ASSUME x.since = tx, x.pc = "execute"
          PROVE  x.plan = PlanSchema(x.bundle, AsSnapshot(types, fields, entries), x.allow)
      <4>1. /\ run[p].snap.types = types /\ run[p].snap.fields = fields
            /\ run[p].snap.counts = Counts(entries)
        BY <3>1, <3>2, <3>5 DEF IsFresh
      <4>2. x.plan = Planned(p)
        BY <3>1, <3>5
      <4> QED BY <3>1, <3>2, <4>1, <4>2, FreshlyPlanned DEF SameOrder
    <3>6. fresh(x)
      <4>1. x.pc \notin {"counts", "entries", "counts2", "entries2"}
        BY <3>1
      <4> QED BY <3>3, <3>4, <3>5, <4>1 DEF IsFresh
    <3> QED BY <3>1, <3>6
  <2> QED BY <1>10, <2>1, <2>2, ReplanGoesOn
<1>11. CASE DryRun(p)
  <2>1. IsBusy(tx, run[p]) /\ Finish(p, TRUE)
    BY <1>11, WorkersAreBusy DEF DryRun
  <2> QED BY <2>1, FinishIsIdle, IdleIsFresh
<1>12. CASE ExecuteFails(p)
  <2>1. IsBusy(tx, run[p]) /\ Finish(p, FALSE)
    BY <1>12, WorkersAreBusy DEF ExecuteFails
  <2> QED BY <2>1, FinishIsIdle, IdleIsFresh
<1> QED BY <1>5, <1>6, <1>7, <1>8, <1>9, <1>10, <1>11, <1>12

LEMMA RunsStayFresh == SchemaInv /\ RunsAreFresh /\ [Next]_vars => RunsAreFresh'
<1> SUFFICES ASSUME SchemaInv, RunsAreFresh, [Next]_vars
             PROVE  RunsAreFresh'
  OBVIOUS
<1>1. CASE Write /\ UNCHANGED run
  BY <1>1, WritesMakeStale
<1>2. CASE UNCHANGED <<types, fields, entries, tx, run>>
  BY <1>2 DEF RunsAreFresh
<1>3. CASE CreateEntry \/ ArchiveEntry \/ DeleteEntry \/ CreateType
  BY <1>1, <1>3 DEF CreateEntry, ArchiveEntry, DeleteEntry, CreateType
<1>4. CASE \E h \in Handlers : Handle(h)
  <2>1. PICK h \in Handlers : Handle(h)
    BY <1>4
  <2>2. CASE Commit(h)
    BY <1>1, <2>2 DEF Commit
  <2>3. CASE ~Commit(h)
    BY <1>2, <2>1, <2>3 DEF Handle, AskRename, AskDeleteType, AskField, AskEdit,
                            AskDeleteField, AskReorder, CommitFails, Ask
  <2> QED BY <2>2, <2>3
<1>5. CASE \E p \in Appliers : Apply(p)
  <2>1. PICK p \in Appliers : Apply(p)
    BY <1>5
  <2>2. CASE Execute(p)
    <3>1. Write /\ IsBusy(tx, run[p]) /\ Finish(p, TRUE)
      BY <2>2, WorkersAreBusy DEF Execute
    <3>2. PICK x : IsIdle(x) /\ run' = [run EXCEPT ![p] = x]
      BY <3>1, FinishIsIdle
    <3>3. \A q \in Appliers : run'[q] = run[q] \/ run'[q].pc = "idle"
      BY <3>2 DEF SchemaInv, RunsAreWhole, IsIdle
    <3> QED BY <3>1, <3>3, WritesMakeStale
  <2>3. CASE ~Execute(p)
    BY <2>1, <2>3, ApplyStepsStayFresh DEF Apply
  <2> QED BY <2>2, <2>3
<1>6. CASE UNCHANGED vars
  BY <1>2, <1>6 DEF vars
<1> QED BY <1>3, <1>4, <1>5, <1>6 DEF Next

LEMMA InitIsFresh == Init => RunsAreFresh
BY DEF Init, RunsAreFresh, Idle, Stages, Planning


(***************************************************************************)
(* What the statements of a fresh plan do to a field that stays.           *)
(***************************************************************************)
LEMMA ExecutesFreshPlan ==
  ASSUME SchemaInv, RunsAreFresh, NEW p \in Appliers, run[p].pc = "execute", run[p].since = tx
  PROVE  /\ IsBusy(tx, run[p]) /\ PlanOf(run[p].bundle, run[p].known, run[p].plan)
         /\ run[p].plan = PlanSchema(run[p].bundle, AsSnapshot(types, fields, entries), run[p].allow)
         /\ Blockers(run[p].bundle, AsSnapshot(types, fields, entries), run[p].allow) = {}
         /\ \A bt \in run[p].bundle : IsType(bt)
<1>1. IsBusy(tx, run[p])
  BY WorkersAreBusy
<1>2. IsFresh(tx, types, fields, entries, run[p]) /\ run[p].pc \in Planning
  BY DEF RunsAreFresh, Stages, Planning
<1>3. /\ run[p].plan.blockers = {}
      /\ run[p].plan = PlanSchema(run[p].bundle, AsSnapshot(types, fields, entries), run[p].allow)
  BY <1>2 DEF IsFresh
<1>4. Blockers(run[p].bundle, AsSnapshot(types, fields, entries), run[p].allow) = {}
  BY <1>3 DEF PlanSchema
<1>5. PlanOf(run[p].bundle, run[p].known, run[p].plan)
  BY <1>1, <1>2 DEF IsBusy
<1>6. \A bt \in run[p].bundle : IsType(bt)
  BY <1>1, FilesAreBundles DEF IsBusy
<1> QED BY <1>1, <1>3, <1>4, <1>5, <1>6

\* The row g that the row f becomes is what the bundle asks for.
Matches(p, bf, f, g) ==
  /\ bf.kind = f.kind /\ g.kind = f.kind
  /\ g.required = bf.required /\ g.unique = EffectiveUnique(bf) /\ g.order = bf.order
  /\ \/ bf.opts = SnapOpts(f, types) /\ g.opts = f.opts
     \/ g.opts = ResolveOptions(p, f.kind, bf.opts)

LEMMA IdsTellFieldsApart ==
  ASSUME SchemaInv, NEW f \in fields, NEW g \in fields, FieldId(f) = FieldId(g)
  PROVE  f = g
BY DEF SchemaInv, TablesAreKeyed, FieldId

LEMMA UpdatedMatches ==
  ASSUME SchemaInv, RunsAreFresh, NEW p \in Appliers, run[p].pc = "execute", run[p].since = tx,
         NEW f \in fields, NEW g, g = Updated(p, run[p].plan, f),
         NEW pairs, pairs = FieldPairs(run[p].bundle, AsSnapshot(types, fields, entries))
  PROVE  \/ \E q \in pairs : q[3] = f /\ Matches(p, q[2], f, g)
         \/ g = f /\ \A q \in pairs : q[3] = f => Matches(p, q[2], f, g)
<1> DEFINE b == run[p].bundle
           s == AsSnapshot(types, fields, entries)
           plan == run[p].plan
           Change(q) == <<FieldId(q[3]), q[2].kind, FieldChanges(s, q[2], q[3])>>
<1>1. /\ plan = PlanSchema(b, s, run[p].allow) /\ Blockers(b, s, run[p].allow) = {}
      /\ \A bt \in b : IsType(bt)
  BY ExecutesFreshPlan
<1>2. plan.updateFields = {Change(q) : q \in {q \in pairs :
                              /\ q[2].kind = q[3].kind
                              /\ DOMAIN FieldChanges(s, q[2], q[3]) # {}}}
  BY <1>1 DEF PlanSchema
<1>3. \A q \in pairs : q[2].kind = q[3].kind
  BY <1>1, NoBlockers
<1>4. s.types = types /\ s.fields = fields
  BY DEF AsSnapshot
<1>5. \A q \in pairs : IsField(q[2]) /\ q[3] \in fields
  <2>1. SUFFICES ASSUME NEW q \in pairs
                 PROVE  IsField(q[2]) /\ q[3] \in fields
    OBVIOUS
  <2>2. PICK r \in TypePairs(b, s) :
          \E bf \in r[1].fields \ RenamingFields(r[1], r[2], s) :
            \E h \in SnapFields(s, r[2]) : q = <<r[2], bf, h>>
    BY InFieldPairs
  <2>3. r[1] \in b
    BY InTypePairs
  <2> QED BY <1>1, <1>4, <2>2, <2>3 DEF IsType, SnapFields
<1> HIDE DEF s, plan, b
<1>6. f \in ContentTypeField
  BY DEF SchemaInv, RowsHaveTypes, TypeOK
<1>7. CASE ~\E u \in plan.updateFields : u[1] = FieldId(f)
  <2>1. g = f
    BY <1>7 DEF Updated, plan
  <2>2. ASSUME NEW q \in pairs, q[3] = f
        PROVE  Matches(p, q[2], f, g)
    <3>1. DOMAIN FieldChanges(s, q[2], f) = {}
      <4>1. ASSUME DOMAIN FieldChanges(s, q[2], q[3]) # {}
            PROVE  FALSE
        <5>1. Change(q) \in plan.updateFields
          BY <1>2, <1>3, <4>1
        <5> QED BY <1>7, <2>2, <5>1
      <4> QED BY <2>2, <4>1
    <3>2. IsField(q[2]) /\ s.types = types
      BY <1>4, <1>5
    <3>3. /\ q[2].required = f.required /\ EffectiveUnique(q[2]) = f.unique
          /\ q[2].order = f.order /\ q[2].opts = SnapOpts(f, s.types)
      BY <3>1, <3>2, FieldChangesArePlanned
    <3> QED BY <1>3, <2>1, <2>2, <3>2, <3>3 DEF Matches
  <2> QED BY <2>1, <2>2
<1>8. CASE \E u \in plan.updateFields : u[1] = FieldId(f)
  <2> DEFINE u == CHOOSE u \in plan.updateFields : u[1] = FieldId(f)
             new == [k \in DOMAIN u[3] |-> IF k = "opts" THEN ResolveOptions(p, u[2], u[3][k])
                                           ELSE u[3][k]]
  <2>1. g = Changed(f, new)
    BY <1>8 DEF Updated, plan
  <2>2. u \in plan.updateFields /\ u[1] = FieldId(f)
    BY <1>8
  <2> HIDE DEF u
  <2>3. PICK q \in pairs : u = Change(q)
    BY <1>2, <2>2
  <2>4. q[3] = f
    BY <1>5, <2>2, <2>3, IdsTellFieldsApart
  <2> DEFINE bf == q[2]
             ch == FieldChanges(s, bf, f)
  <2>5. u[2] = bf.kind /\ u[3] = ch /\ bf.kind = f.kind
    BY <1>3, <2>3, <2>4
  <2>6. /\ DOMAIN new = DOMAIN ch
        /\ \A k \in DOMAIN ch : k # "opts" => new[k] = ch[k]
        /\ "opts" \in DOMAIN ch => new["opts"] = ResolveOptions(p, bf.kind, ch["opts"])
    BY <2>5
  <2>7. /\ DOMAIN ch \subseteq {"required", "unique", "order", "opts"}
        /\ IF "required" \in DOMAIN ch THEN ch["required"] = bf.required
                                      ELSE f.required = bf.required
        /\ IF "unique" \in DOMAIN ch THEN ch["unique"] = EffectiveUnique(bf)
                                    ELSE f.unique = EffectiveUnique(bf)
        /\ IF "order" \in DOMAIN ch THEN ch["order"] = bf.order ELSE f.order = bf.order
        /\ IF "opts" \in DOMAIN ch THEN ch["opts"] = bf.opts ELSE SnapOpts(f, s.types) = bf.opts
    <3>1. IsField(bf)
      BY <1>5
    <3> HIDE DEF bf
    <3> QED BY <3>1, FieldChangesArePlanned DEF IsPlanned
  <2>8. /\ DOMAIN f = {"type", "ident", "born", "kind", "required", "unique", "order", "opts"}
        /\ \A k \in DOMAIN f : g[k] = IF k \in DOMAIN new THEN new[k] ELSE f[k]
    BY <1>6, <2>1 DEF Changed, ContentTypeField
  <2> HIDE DEF new, ch, bf
  <2>9. g.kind = f.kind
    BY <2>6, <2>7, <2>8
  <2>10. g.required = bf.required
    BY <2>6, <2>7, <2>8
  <2>11. g.unique = EffectiveUnique(bf)
    BY <2>6, <2>7, <2>8
  <2>12. g.order = bf.order
    BY <2>6, <2>7, <2>8
  <2>13. \/ bf.opts = SnapOpts(f, types) /\ g.opts = f.opts
         \/ g.opts = ResolveOptions(p, f.kind, bf.opts)
    <3>1. s.types = types
      BY <1>4
    <3> QED BY <2>5, <2>6, <2>7, <2>8, <3>1
  <2>14. Matches(p, bf, f, g)
    BY <2>5, <2>9, <2>10, <2>11, <2>12, <2>13 DEF Matches
  <2> QED BY <2>4, <2>14 DEF bf
<1> QED BY <1>7, <1>8


LEMMA CountsAreNumbers ==
  ASSUME NEW T, NEW F, NEW E, IsFiniteSet(E), NEW t
  PROVE  CountOf(AsSnapshot(T, F, E), t) = Cardinality({e \in E : e.type = TypeId(t)})
<1> DEFINE of == {e \in E : e.type = TypeId(t)}
           s == AsSnapshot(T, F, E)
<1>1. s.counts = [id \in {e.type : e \in E} |-> Cardinality({e \in E : e.type = id})]
  BY DEF AsSnapshot, Counts
<1>2. CASE of = {}
  <2>1. TypeId(t) \notin DOMAIN s.counts
    BY <1>1, <1>2
  <2>2. Cardinality(of) = 0
    BY <1>2, FS_EmptySet
  <2> HIDE DEF s, of
  <2> QED BY <2>1, <2>2 DEF CountOf, s, of
<1>3. CASE of # {}
  <2>1. TypeId(t) \in DOMAIN s.counts
    BY <1>1, <1>3
  <2>2. s.counts[TypeId(t)] = Cardinality(of)
    BY <1>1, <2>1
  <2> HIDE DEF s, of
  <2> QED BY <2>1, <2>2 DEF CountOf, s, of
<1> QED BY <1>2, <1>3

\* The pairs of a bundle field and its row.
LEMMA PairsAreRows ==
  ASSUME NEW b, NEW s, NEW q \in FieldPairs(b, s)
  PROVE  /\ q[1] \in s.types /\ q[3] \in s.fields /\ q[3].type = TypeId(q[1])
         /\ q[2].ident = q[3].ident
         /\ \E bt \in b : bt.ident = q[1].ident /\ q[2] \in bt.fields
<1>1. PICK r \in TypePairs(b, s) :
        \E bf \in r[1].fields \ RenamingFields(r[1], r[2], s) :
          \E h \in SnapFields(s, r[2]) : q = <<r[2], bf, h>> /\ bf.ident = h.ident
  BY InFieldPairs
<1>2. r[1] \in b /\ r[2] \in s.types /\ r[1].ident = r[2].ident
  BY InTypePairs
<1>3. PICK bf \in r[1].fields, h \in SnapFields(s, r[2]) :
        q = <<r[2], bf, h>> /\ bf.ident = h.ident
  BY <1>1
<1>4. h \in s.fields /\ h.type = TypeId(r[2])
  BY DEF SnapFields
<1>5. q[1] = r[2] /\ q[2] = bf /\ q[3] = h
  BY <1>3
<1> QED BY <1>2, <1>3, <1>4, <1>5

LEMMA MatchFits ==
  ASSUME SchemaInv, RunsAreFresh, NEW p \in Appliers, run[p].pc = "execute", Uncontested(p),
         CanExecute(run[p].plan), NEW f \in fields, NEW g,
         NEW q \in FieldPairs(run[p].bundle, AsSnapshot(types, fields, entries)),
         q[3] = f, Matches(p, q[2], f, g)
  PROVE  FitsTheData(f, g)
<1> DEFINE b == run[p].bundle
           s == AsSnapshot(types, fields, entries)
           of == {e \in entries : e.type = f.type}
           value == {e \in of : e.live /\ e.data[f.ident] # NoValue}
           t == q[1]
           bf == q[2]
<1>1. /\ PlanOf(b, run[p].known, run[p].plan) /\ Blockers(b, s, run[p].allow) = {}
      /\ \A bt \in b : IsType(bt)
  BY ExecutesFreshPlan DEF Uncontested
<1>2. s.types = types /\ s.fields = fields /\ s.entries = entries
  BY DEF AsSnapshot
<1>3. ~MissingValues(s, t, bf, f) /\ ~DuplicateValues(s, t, bf, f) /\ ~RemovedInUse(s, t, bf, f)
  BY <1>1, NoBlockers
<1>4. t \in types /\ f.type = TypeId(t) /\ \E bt \in b : bf \in bt.fields
  BY <1>2, PairsAreRows
<1>5. IsField(bf)
  BY <1>1, <1>4 DEF IsType
<1>6. Uses(s, t, f) = value
  BY <1>2, <1>4 DEF Uses
<1>7. CountOf(s, t) = Cardinality(of)
  BY <1>4, CountsAreNumbers DEF SchemaInv, EntriesAreFinite
<1> HIDE DEF s
<1>8. ASSUME g.required, ~f.required
      PROVE  of = value
  <2>1. IsFiniteSet(of) /\ value \subseteq of
    BY FS_Subset DEF SchemaInv, EntriesAreFinite
  <2>2. IsFiniteSet(value) /\ Cardinality(value) <= Cardinality(of)
    BY <2>1, FS_Subset
  <2>3. Cardinality(of) \in Nat /\ Cardinality(value) \in Nat
    BY <2>1, <2>2, FS_CardinalityType
  <2>4. bf.required
    BY <1>8 DEF Matches
  <2>5. ~ (CountOf(s, t) > Cardinality(Uses(s, t, f)))
    BY <1>3, <1>8, <2>4 DEF MissingValues
  <2>6. ~ (Cardinality(of) > Cardinality(value))
    BY <1>6, <1>7, <2>5
  <2> HIDE DEF of, value
  <2>7. Cardinality(of) = Cardinality(value)
    BY <2>2, <2>3, <2>6
  <2> QED BY <2>1, <2>7, FS_Subset
<1>9. ASSUME g.unique, ~f.unique, f.kind = "TEXT"
      PROVE  \A d, e \in value : d.data[f.ident] = e.data[f.ident] => d = e
  <2>1. EffectiveUnique(bf) /\ bf.kind = "TEXT"
    BY <1>9 DEF Matches
  <2>2. ~\E d, e \in Uses(s, t, f) : d # e /\ d.data[f.ident] = e.data[f.ident]
    BY <1>3, <1>9, <2>1 DEF DuplicateValues
  <2> HIDE DEF value
  <2> QED BY <1>6, <2>2
<1>10. ASSUME f.kind = "SELECT", NEW e \in value, e.data[f.ident] \in f.opts \ g.opts
       PROVE  FALSE
  <2>1. bf.kind = "SELECT" /\ SnapOpts(f, types) = f.opts
    BY <1>10 DEF Matches, SnapOpts
  <2>2. e.data[f.ident] \in f.opts \ bf.opts
    <3>1. ResolveOptions(p, f.kind, bf.opts) = bf.opts
      BY <1>10 DEF ResolveOptions
    <3> QED BY <1>10, <2>1, <3>1 DEF Matches
  <2>3. e \in Uses(s, t, f) /\ e.data[f.ident] \in SnapOpts(f, s.types) \ bf.opts
    BY <1>2, <1>6, <2>1, <2>2
  <2> HIDE DEF value
  <2> QED BY <1>3, <2>1, <2>3 DEF RemovedInUse
<1>11. ASSUME f.kind = "RELATION", NEW e \in value, NEW u \in types,
              e.data[f.ident] = TypeId(u), TypeId(u) \in f.opts \ g.opts
       PROVE  FALSE
  <2>1. bf.kind = "RELATION" /\ u.ident \in SnapOpts(f, types)
    BY <1>11 DEF Matches, SnapOpts
  <2>2. u.ident \in bf.opts
    <3>1. ASSUME u.ident \notin bf.opts
          PROVE  FALSE
      <4>1. u.ident \in SnapOpts(f, s.types) \ bf.opts /\ u \in s.types
        BY <1>2, <2>1, <3>1
      <4>2. e \in Uses(s, t, f)
        BY <1>6
      <4> HIDE DEF value
      <4> QED BY <1>3, <1>11, <2>1, <4>1, <4>2 DEF RemovedInUse
    <3> QED BY <3>1
  <2>3. PICK v \in b \cup run[p].known : v.ident = u.ident
    BY <1>1, <1>4, <2>1, <2>2 DEF PlanOf
  <2>4. v \in b => v \notin run[p].plan.createTypes
    BY <2>3 DEF CanExecute
  <2>5. \E w \in run[p].known : w.ident = u.ident
    BY <1>1, <2>3, <2>4 DEF PlanOf
  <2>6. PICK w \in run[p].known : w.ident = u.ident
    BY <2>5
  <2>7. TypeId(w) = TypeId(u)
    BY <2>6 DEF Uncontested
  <2>8. TypeId(w) \in ResolveOptions(p, f.kind, bf.opts)
    BY <1>11, <2>2, <2>6 DEF ResolveOptions
  <2> QED BY <1>11, <2>7, <2>8 DEF Matches
<1>12. g.kind = f.kind
  BY DEF Matches
<1> QED BY <1>8, <1>9, <1>10, <1>11, <1>12 DEF FitsTheData

LEMMA ExecuteFits ==
  ASSUME SchemaInv, RunsAreFresh, NEW p \in Appliers, Execute(p), Uncontested(p)
  PROVE  ApplyFitsTheData(p)
<1> DEFINE b == run[p].bundle
           s == AsSnapshot(types, fields, entries)
           plan == run[p].plan
<1>1. /\ plan = PlanSchema(b, s, run[p].allow) /\ Blockers(b, s, run[p].allow) = {}
      /\ run[p].pc = "execute" /\ CanExecute(plan) /\ Write
  BY ExecutesFreshPlan DEF Execute, Uncontested
<1>2. tx' = tx + 1 /\ tx \in Nat /\ \A f \in fields : f.born \in Nat /\ f.born <= tx
  BY <1>1, WriteCounts, RowsStayOld
<1>3. ASSUME NEW f \in fields, NEW g \in fields', FieldId(f) = FieldId(g)
      PROVE  FitsTheData(f, g)
  <2>1. g.born # tx'
    BY <1>2, <1>3 DEF FieldId
  <2>2. g = Updated(p, plan, f)
    <3>1. PICK h \in KeptFields(plan) : g = Updated(p, plan, h)
      <4>1. IsKept(p, plan, g) \/ IsAdded(p, plan, g) \/ IsCreated(p, plan, g)
        <5> HIDE DEF plan
        <5>1. plan = run[p].plan
          BY DEF plan
        <5> QED BY <5>1, ExecutedFieldComesFrom
      <4>2. ~IsAdded(p, plan, g)
        BY <1>2, <2>1 DEF IsAdded, FieldRow
      <4>3. ~IsCreated(p, plan, g)
        BY <1>2, <2>1 DEF IsCreated, FieldRow
      <4> QED BY <4>1, <4>2, <4>3 DEF IsKept
    <3>2. h \in fields /\ FieldId(g) = FieldId(h)
      BY <3>1, ExecutedFields DEF FieldId
    <3> QED BY <1>3, <3>1, <3>2, IdsTellFieldsApart
  <2>3. CASE \E q \in FieldPairs(b, s) : q[3] = f /\ Matches(p, q[2], f, g)
    BY <1>1, <2>3, MatchFits
  <2>4. CASE g = f
    BY <2>4 DEF FitsTheData
  <2>5. run[p].since = tx
    BY DEF Uncontested
  <2> QED BY <1>1, <2>2, <2>3, <2>4, <2>5, UpdatedMatches
<1>4. ASSUME ~run[p].allow
      PROVE  plan.removeTypes = {} /\ plan.removeFields = {}
  BY <1>1, <1>4 DEF PlanSchema
<1>5. ASSUME ~run[p].allow, NEW f \in fields
      PROVE  FieldId(f) \in {FieldId(h) : h \in fields'}
  <2>1. f \in KeptFields(plan)
    BY <1>4, <1>5 DEF KeptFields
  <2>2. Updated(p, plan, f) \in fields'
    BY <2>1, ExecutedRows
  <2>3. FieldId(Updated(p, plan, f)) = FieldId(f)
    BY ExecutedFields DEF FieldId
  <2> QED BY <2>2, <2>3
<1>6. ASSUME ~run[p].allow, NEW t \in types
      PROVE  TypeId(t) \in {TypeId(u) : u \in types'}
  <2>1. t \in KeptTypes(plan)
    BY <1>4, <1>6 DEF KeptTypes
  <2>2. Renamed(plan, t) \in types' /\ TypeId(Renamed(plan, t)) = TypeId(t)
    BY <2>1, ExecutedTypes
  <2> QED BY <2>2
<1> QED BY <1>3, <1>5, <1>6 DEF ApplyFitsTheData

(***************************************************************************)
(* A bundle and the tables it leaves nothing to do for.                    *)
(***************************************************************************)
InStepField(bf, f, T) ==
  /\ f.kind = bf.kind /\ f.required = bf.required /\ f.unique = EffectiveUnique(bf)
  /\ f.order = bf.order /\ SnapOpts(f, T) = bf.opts

InStepType(bt, t, T, F) ==
  /\ t.name = bt.name
  /\ \A bf \in bt.fields : \E f \in F : f.type = TypeId(t) /\ f.ident = bf.ident
  /\ \A f \in F : f.type = TypeId(t) =>
       /\ \E bf \in bt.fields : f.ident = bf.ident
       /\ \A bf \in bt.fields :
            /\ f.ident = bf.ident => InStepField(bf, f, T)
            /\ bf.id = FieldId(f) => bf.ident = f.ident

InStep(b, T, F) ==
  /\ \A bt \in b : \E t \in T : t.ident = bt.ident
  /\ \A t \in T : \E bt \in b : t.ident = bt.ident
  /\ \A bt \in b : \A t \in T :
       /\ t.ident = bt.ident => InStepType(bt, t, T, F)
       /\ bt.id = TypeId(t) => bt.ident = t.ident
  /\ Closed(b)

LEMMA InStepPairs ==
  ASSUME NEW b, NEW s, InStep(b, s.types, s.fields)
  PROVE  /\ RenamingTypes(b, s) = {} /\ UnwantedTypes(b, s) = {}
         /\ UnwantedFields(b, s) = {} /\ NewFieldPairs(b, s) = {}
         /\ \A p \in TypePairs(b, s) :
              p[1].name = p[2].name /\ RenamingFields(p[1], p[2], s) = {}
         /\ \A q \in FieldPairs(b, s) : InStepField(q[2], q[3], s.types)
<1>1. RenamingTypes(b, s) = {} /\ UnwantedTypes(b, s) = {}
  BY DEF InStep, RenamingTypes, UnwantedTypes
<1>2. ASSUME NEW p \in TypePairs(b, s)
      PROVE  /\ p[1] \in b /\ p[2] \in s.types /\ p[1].ident = p[2].ident
             /\ InStepType(p[1], p[2], s.types, s.fields)
    <2>1. p[1] \in b /\ p[2] \in s.types /\ p[1].ident = p[2].ident
      BY InTypePairs
    <2> QED BY <2>1 DEF InStep
<1>3. \A p \in TypePairs(b, s) :
        p[1].name = p[2].name /\ RenamingFields(p[1], p[2], s) = {}
  BY <1>2 DEF InStepType, RenamingFields
<1>4. ASSUME NEW q \in UnwantedFields(b, s)
      PROVE  FALSE
  <2>1. PICK p \in TypePairs(b, s) : \E f \in SnapFields(s, p[2]) :
                q = <<p[2], f>> /\ \A bf \in p[1].fields : bf.ident # f.ident
    BY InUnwantedFields
  <2>2. PICK f \in SnapFields(s, p[2]) : \A bf \in p[1].fields : bf.ident # f.ident
    BY <2>1
  <2> QED BY <1>2, <2>2 DEF SnapFields, InStepType
<1>5. ASSUME NEW q \in NewFieldPairs(b, s)
      PROVE  FALSE
  <2>1. PICK p \in TypePairs(b, s) :
          \E bf \in p[1].fields : \A f \in SnapFields(s, p[2]) : f.ident # bf.ident
    BY InNewFieldPairs
  <2> QED BY <1>2, <2>1 DEF SnapFields, InStepType
<1>6. ASSUME NEW q \in FieldPairs(b, s)
      PROVE  InStepField(q[2], q[3], s.types)
  <2>1. PICK p \in TypePairs(b, s) : \E bf \in p[1].fields \ RenamingFields(p[1], p[2], s) :
                  \E f \in SnapFields(s, p[2]) : q = <<p[2], bf, f>> /\ bf.ident = f.ident
    BY InFieldPairs
  <2>2. PICK bf \in p[1].fields, f \in SnapFields(s, p[2]) :
          q = <<p[2], bf, f>> /\ bf.ident = f.ident
    BY <2>1
  <2>3. InStepField(bf, f, s.types)
    BY <1>2, <2>2 DEF SnapFields, InStepType
  <2> QED BY <2>2, <2>3
<1> QED BY <1>1, <1>3, <1>4, <1>5, <1>6

LEMMA InStepNoBlockers ==
  ASSUME NEW b, NEW s, NEW allow, InStep(b, s.types, s.fields)
  PROVE  Blockers(b, s, allow) = {}
<1> DEFINE unwanted == UnwantedTypes(b, s)
           pairs == FieldPairs(b, s)
           same == {p \in pairs : p[2].kind = p[3].kind}
           name(p) == <<p[1].ident, p[2].ident>>
           Lost(bt) == {bf \in bt.fields : bf.kind = "RELATION"
                          /\ ~ (bf.opts \subseteq {u.ident : u \in b \cup s.types})}
           Named(p) == {<<"FIELD_IDENTIFIER_CHANGE", p[1].ident, bf.ident>> :
                          bf \in RenamingFields(p[1], p[2], s)}
           Lacking(bt) == {<<"RELATION_TARGET_NOT_FOUND", bt.ident, bf.ident>> : bf \in Lost(bt)}
<1>1. /\ RenamingTypes(b, s) = {} /\ unwanted = {} /\ UnwantedFields(b, s) = {}
      /\ \A p \in TypePairs(b, s) : RenamingFields(p[1], p[2], s) = {}
      /\ \A q \in pairs : InStepField(q[2], q[3], s.types)
  BY InStepPairs
<1>2. {<<"CONTENT_TYPE_IDENTIFIER_CHANGE", bt.ident>> : bt \in RenamingTypes(b, s)} = {}
  BY <1>1
<1>3. {<<"CONTENT_TYPE_REMOVAL_WITH_ENTRIES", t.ident>> :
              t \in {t \in unwanted : CountOf(s, t) > 0}} = {}
  BY <1>1
<1>4. {<<"CONTENT_TYPE_REMOVAL_NEEDS_FLAG", t.ident>> :
              t \in {t \in unwanted : CountOf(s, t) = 0 /\ ~allow}} = {}
  BY <1>1
<1>5. \A p \in TypePairs(b, s) : Named(p) = {}
  BY <1>1
<1>6. {<<"FIELD_REMOVAL_NEEDS_FLAG", name(p)>> :
              p \in {p \in UnwantedFields(b, s) : ~allow}} = {}
  BY <1>1
<1>7. \A q \in pairs : q \in same
  BY <1>1 DEF InStepField
<1>8. {<<"FIELD_TYPE_CHANGE", name(p)>> : p \in pairs \ same} = {}
  BY <1>7
<1>9. \A q \in pairs : ~MissingValues(s, q[1], q[2], q[3])
  BY <1>1 DEF InStepField, MissingValues
<1>10. \A q \in pairs : ~DuplicateValues(s, q[1], q[2], q[3])
  BY <1>1 DEF InStepField, DuplicateValues
<1>11. \A q \in pairs : ~RemovedInUse(s, q[1], q[2], q[3])
  BY <1>1 DEF InStepField, RemovedInUse
<1>12. {<<"OPTIONAL_TO_REQUIRED_HAS_NULLS", name(p)>> :
              p \in {p \in same : MissingValues(s, p[1], p[2], p[3])}} = {}
  BY <1>9
<1>13. {<<"UNIQUE_CONFLICT", name(p)>> :
              p \in {p \in same : DuplicateValues(s, p[1], p[2], p[3])}} = {}
  BY <1>10
<1>14. {<<"REMOVED_IN_USE", name(p)>> :
              p \in {p \in same : RemovedInUse(s, p[1], p[2], p[3])}} = {}
  BY <1>11
<1>15. \A bt \in b : Lost(bt) = {}
  BY DEF InStep, Closed
<1>16. \A bt \in b : Lacking(bt) = {}
  <2> HIDE DEF Lost
  <2> QED BY <1>15
<1>17. UNION {Named(p) : p \in TypePairs(b, s)} = {}
  <2> HIDE DEF Named
  <2> QED BY <1>5
<1>18. UNION {Lacking(bt) : bt \in b} = {}
  <2> HIDE DEF Lacking
  <2> QED BY <1>16
<1> QED BY <1>2, <1>3, <1>4, <1>6, <1>8, <1>12, <1>13, <1>14, <1>17, <1>18 DEF Blockers

LEMMA InStepIsSettled ==
  ASSUME NEW b, NEW s, NEW allow, InStep(b, s.types, s.fields),
         NEW plan, plan = PlanSchema(b, s, allow)
  PROVE  ~IsPlanNonEmpty(plan) /\ plan.blockers = {}
<1>1. /\ RenamingTypes(b, s) = {} /\ UnwantedTypes(b, s) = {}
      /\ UnwantedFields(b, s) = {} /\ NewFieldPairs(b, s) = {}
      /\ \A p \in TypePairs(b, s) : p[1].name = p[2].name
      /\ \A q \in FieldPairs(b, s) : InStepField(q[2], q[3], s.types)
  BY InStepPairs
<1>2. plan.blockers = {}
  BY InStepNoBlockers DEF PlanSchema
<1>3. plan.createTypes = {}
  <2>1. plan.createTypes = {bt \in b \ RenamingTypes(b, s) : \A t \in s.types : t.ident # bt.ident}
    BY DEF PlanSchema
  <2> QED BY <2>1 DEF InStep
<1>4. plan.updateTypes = {} /\ plan.removeTypes = {}
  BY <1>1 DEF PlanSchema
<1>5. plan.createFields = {} /\ plan.removeFields = {}
  BY <1>1 DEF PlanSchema
<1>6. \A q \in FieldPairs(b, s) : DOMAIN FieldChanges(s, q[2], q[3]) = {}
  <2>1. SUFFICES ASSUME NEW q \in FieldPairs(b, s), NEW bf, bf = q[2], NEW f, f = q[3]
                 PROVE  DOMAIN FieldChanges(s, bf, f) = {}
    OBVIOUS
  <2> DEFINE new == [required |-> bf.required, unique |-> EffectiveUnique(bf),
                     order |-> bf.order, opts |-> bf.opts]
             old == [required |-> f.required, unique |-> f.unique,
                     order |-> f.order, opts |-> SnapOpts(f, s.types)]
  <2>2. new = old
    BY <1>1, <2>1 DEF InStepField
  <2>3. FieldChanges(s, bf, f) = [k \in {k \in DOMAIN new : new[k] # old[k]} |-> new[k]]
    BY DEF FieldChanges
  <2> HIDE DEF new, old
  <2> QED BY <2>2, <2>3
<1>7. plan.updateFields = {}
  <2>1. plan.updateFields = {<<FieldId(p[3]), p[2].kind, FieldChanges(s, p[2], p[3])>> :
                       p \in {p \in FieldPairs(b, s) :
                                /\ p[2].kind = p[3].kind
                                /\ DOMAIN FieldChanges(s, p[2], p[3]) # {}}}
    BY DEF PlanSchema
  <2> QED BY <1>6, <2>1
<1> QED BY <1>2, <1>3, <1>4, <1>5, <1>7 DEF IsPlanNonEmpty

\* Bundles that name the same types and the same fields of each.
LEMMA SameNamesDoNotDiffer ==
  ASSUME NEW b, NEW r,
         \A bt \in b : \E rt \in r : rt.ident = bt.ident,
         \A rt \in r : \E bt \in b : rt.ident = bt.ident,
         \A bt \in b : \A rt \in r : rt.ident = bt.ident =>
            /\ \A bf \in bt.fields : \E rf \in rt.fields : rf.ident = bf.ident
            /\ \A rf \in rt.fields : \E bf \in bt.fields : rf.ident = bf.ident
  PROVE  DiffBundles(b, r) = {}
<1> DEFINE Own(bt) == {<<bt.ident, bf.ident>> : bf \in bt.fields}
           both == {bt.ident : bt \in b} \cap {bt.ident : bt \in r}
           members(c) == UNION {Own(bt) : bt \in {bt \in c : bt.ident \in both}}
<1>1. {bt.ident : bt \in b} = {bt.ident : bt \in r}
  <2> DEFINE B == {bt.ident : bt \in b}
             R == {bt.ident : bt \in r}
  <2>1. B \subseteq R
    OBVIOUS
  <2>2. R \subseteq B
    OBVIOUS
  <2> QED BY <2>1, <2>2
<1>2. ASSUME NEW bt \in b, NEW rt \in r, rt.ident = bt.ident
      PROVE  Own(bt) = Own(rt)
  <2>1. /\ \A bf \in bt.fields : \E rf \in rt.fields : rf.ident = bf.ident
        /\ \A rf \in rt.fields : \E bf \in bt.fields : rf.ident = bf.ident
    BY <1>2
  <2>2. ASSUME NEW x \in Own(bt)
        PROVE  x \in Own(rt)
    <3>1. PICK bf \in bt.fields : x = <<bt.ident, bf.ident>>
      OBVIOUS
    <3>2. PICK rf \in rt.fields : rf.ident = bf.ident
      BY <2>1
    <3> QED BY <1>2, <3>1, <3>2
  <2>3. ASSUME NEW x \in Own(rt)
        PROVE  x \in Own(bt)
    <3>1. PICK rf \in rt.fields : x = <<rt.ident, rf.ident>>
      OBVIOUS
    <3>2. PICK bf \in bt.fields : rf.ident = bf.ident
      BY <2>1
    <3> QED BY <1>2, <3>1, <3>2
  <2> HIDE DEF Own
  <2> QED BY <2>2, <2>3
<1>3. members(b) = members(r)
  <2>1. \A bt \in b : \E rt \in r : rt.ident = bt.ident /\ Own(rt) = Own(bt)
    BY <1>2
  <2>2. \A rt \in r : \E bt \in b : rt.ident = bt.ident /\ Own(rt) = Own(bt)
    BY <1>2
  <2> HIDE DEF Own, both
  <2>3. ASSUME NEW x \in members(b)
        PROVE  x \in members(r)
    <3>1. PICK bt \in b : bt.ident \in both /\ x \in Own(bt)
      OBVIOUS
    <3>2. PICK rt \in r : rt.ident = bt.ident /\ Own(rt) = Own(bt)
      BY <2>1
    <3> QED BY <3>1, <3>2
  <2>4. ASSUME NEW x \in members(r)
        PROVE  x \in members(b)
    <3>1. PICK rt \in r : rt.ident \in both /\ x \in Own(rt)
      OBVIOUS
    <3>2. PICK bt \in b : rt.ident = bt.ident /\ Own(rt) = Own(bt)
      BY <2>2
    <3> QED BY <3>1, <3>2
  <2> QED BY <2>3, <2>4
<1>4. DiffBundles(b, r) = ((({bt.ident : bt \in b} \ {bt.ident : bt \in r})
                             \cup ({bt.ident : bt \in r} \ {bt.ident : bt \in b}))
                           \cup ((members(b) \ members(r)) \cup (members(r) \ members(b))))
  BY DEF DiffBundles
<1> HIDE DEF members
<1> QED BY <1>1, <1>3, <1>4

(***************************************************************************)
(* What the statements of a fresh plan make of the tables.                 *)
(***************************************************************************)
\* An apply that executes the plan of the tables as they are, of a bundle that
\* stays inside itself and names things once.
ExecutesAlone(p, b, plan) ==
  /\ SchemaInv /\ RunsAreFresh /\ Execute(p) /\ Uncontested(p)
  /\ b = run[p].bundle /\ plan = run[p].plan
  /\ Closed(b) /\ NamesThingsOnce(b)

LEMMA AloneTypes ==
  ASSUME NEW p \in Appliers, NEW b, NEW plan, ExecutesAlone(p, b, plan)
  PROVE  /\ \A bt \in b : bt \in plan.createTypes
                            \/ \E t \in KeptTypes(plan) : t.ident = bt.ident
         /\ \A t \in KeptTypes(plan) :
              /\ \E bt \in b : bt.ident = t.ident
              /\ \A bt \in b : bt.ident = t.ident => Renamed(plan, t).name = bt.name
         /\ \A t \in types : (\E bt \in b : bt.ident = t.ident) => t \in KeptTypes(plan)
         /\ \A t \in types, bt \in b : bt.id = TypeId(t) => bt.ident = t.ident
<1> DEFINE s == AsSnapshot(types, fields, entries)
           allow == run[p].allow
<1>1. /\ SchemaInv /\ RunsAreFresh /\ run[p].pc = "execute" /\ run[p].since = tx
      /\ b = run[p].bundle /\ plan = run[p].plan /\ NoRepeats(b)
  BY DEF ExecutesAlone, Execute, Uncontested, NamesThingsOnce
<1>2. /\ plan = PlanSchema(b, s, allow) /\ Blockers(b, s, allow) = {}
  BY <1>1, ExecutesFreshPlan
<1>3. s.types = types
  BY DEF AsSnapshot
<1>4. /\ RenamingTypes(b, s) = {}
      /\ \A t \in UnwantedTypes(b, s) : ~ (CountOf(s, t) > 0) /\ (CountOf(s, t) = 0 => allow)
  BY <1>2, NoBlockers
<1>5. \A t \in types : CountOf(s, t) \in Nat
  <2>1. SUFFICES ASSUME NEW t \in types
                 PROVE  CountOf(s, t) \in Nat
    OBVIOUS
  <2>2. IsFiniteSet(entries)
    BY <1>1 DEF SchemaInv, EntriesAreFinite
  <2>3. IsFiniteSet({e \in entries : e.type = TypeId(t)})
    BY <2>2, FS_Subset
  <2>4. CountOf(s, t) = Cardinality({e \in entries : e.type = TypeId(t)})
    BY <2>2, CountsAreNumbers
  <2> QED BY <2>3, <2>4, FS_CardinalityType
<1>6. /\ plan.createTypes = {bt \in b : \A t \in types : t.ident # bt.ident}
      /\ plan.updateTypes = {<<TypeId(q[2]), q[1].name>> :
                               q \in {q \in TypePairs(b, s) : q[1].name # q[2].name}}
      /\ plan.removeTypes = {TypeId(t) : t \in {t \in UnwantedTypes(b, s) :
                                                 CountOf(s, t) = 0 /\ allow}}
      /\ UnwantedTypes(b, s) = {t \in types : \A bt \in b : bt.ident # t.ident}
  BY <1>2, <1>3, <1>4 DEF PlanSchema, UnwantedTypes
<1> HIDE DEF s
<1>7. ASSUME NEW t \in KeptTypes(plan)
      PROVE  \E bt \in b : bt.ident = t.ident
  <2>1. t \in types /\ TypeId(t) \notin plan.removeTypes
    BY <1>7 DEF KeptTypes
  <2>2. t \notin UnwantedTypes(b, s)
    <3>1. ASSUME t \in UnwantedTypes(b, s)
          PROVE  FALSE
      <4>1. CountOf(s, t) = 0 /\ allow
        BY <1>4, <1>5, <2>1, <3>1
      <4> QED BY <1>6, <2>1, <3>1, <4>1
    <3> QED BY <3>1
  <2> QED BY <1>6, <2>1, <2>2
<1>8. ASSUME NEW t \in types, NEW bt \in b, bt.ident = t.ident
      PROVE  t \in KeptTypes(plan)
  <2>1. ASSUME TypeId(t) \in plan.removeTypes
        PROVE  FALSE
    <3>1. PICK u \in UnwantedTypes(b, s) : TypeId(t) = TypeId(u)
      BY <1>6, <2>1
    <3>2. u.ident = bt.ident
      BY <1>8, <3>1 DEF TypeId
    <3> QED BY <1>6, <3>1, <3>2
  <2> QED BY <2>1 DEF KeptTypes
<1>9. \A bt \in b : bt \in plan.createTypes \/ \E t \in KeptTypes(plan) : t.ident = bt.ident
  BY <1>6, <1>8
<1>10. ASSUME NEW t \in KeptTypes(plan), NEW bt \in b, bt.ident = t.ident
       PROVE  Renamed(plan, t).name = bt.name
  <2>1. t \in types /\ t \in ContentType
    BY <1>1, <1>10 DEF KeptTypes, SchemaInv, RowsHaveTypes, TypeOK
  <2>2. CASE ~\E u \in plan.updateTypes : u[1] = TypeId(t)
    <3>1. <<bt, t>> \in TypePairs(b, s)
      BY <1>3, <1>4, <1>10, <2>1, InTypePairs
    <3>2. ASSUME bt.name # t.name
          PROVE  <<TypeId(t), bt.name>> \in plan.updateTypes
      BY <1>6, <3>1, <3>2
    <3>3. bt.name = t.name
      BY <2>2, <3>2
    <3> QED BY <2>2, <3>3 DEF Renamed
  <2>3. CASE \E u \in plan.updateTypes : u[1] = TypeId(t)
    <3> DEFINE u == CHOOSE u \in plan.updateTypes : u[1] = TypeId(t)
    <3>1. u \in plan.updateTypes /\ u[1] = TypeId(t)
      BY <2>3
    <3>2. Renamed(plan, t) = [t EXCEPT !.name = u[2]]
      BY <2>3 DEF Renamed
    <3> HIDE DEF u
    <3>3. Renamed(plan, t).name = u[2]
      BY <2>1, <3>2 DEF ContentType
    <3>4. PICK q \in TypePairs(b, s) : u = <<TypeId(q[2]), q[1].name>>
      BY <1>6, <3>1
    <3>5. q[1] \in b /\ q[1].ident = q[2].ident
      BY InTypePairs
    <3>6. q[1].ident = bt.ident
      BY <1>10, <3>1, <3>4, <3>5 DEF TypeId
    <3>7. q[1] = bt
      BY <1>1, <3>5, <3>6 DEF NoRepeats
    <3> QED BY <3>3, <3>4, <3>7
  <2> QED BY <2>2, <2>3
<1>11. \A t \in types, bt \in b : bt.id = TypeId(t) => bt.ident = t.ident
  BY <1>3, <1>4 DEF RenamingTypes
<1> QED BY <1>7, <1>8, <1>9, <1>10, <1>11

\* The fields of a type that stays.
LEMMA AloneFields ==
  ASSUME NEW p \in Appliers, NEW b, NEW plan, ExecutesAlone(p, b, plan),
         NEW t \in KeptTypes(plan), NEW bt \in b, bt.ident = t.ident
  PROVE  /\ \A bf \in bt.fields :
              \/ \E f \in KeptFields(plan) : f.type = TypeId(t) /\ f.ident = bf.ident
              \/ <<TypeId(t), bf>> \in plan.createFields
         /\ \A f \in KeptFields(plan) : f.type = TypeId(t) =>
              \E bf \in bt.fields : bf.ident = f.ident
         /\ \A c \in plan.createFields : c[1] = TypeId(t) => c[2] \in bt.fields
         /\ \A f \in fields, bf \in bt.fields : f.type = TypeId(t) =>
              /\ f.ident = bf.ident => Matches(p, bf, f, Updated(p, plan, f))
              /\ bf.id = FieldId(f) => bf.ident = f.ident
<1> DEFINE s == AsSnapshot(types, fields, entries)
           allow == run[p].allow
           id == TypeId(t)
<1>1. /\ SchemaInv /\ RunsAreFresh /\ run[p].pc = "execute" /\ run[p].since = tx
      /\ b = run[p].bundle /\ plan = run[p].plan /\ NoRepeats(b)
      /\ \A x \in b : NoRepeats(x.fields)
  BY DEF ExecutesAlone, Execute, Uncontested, NamesThingsOnce
<1>2. /\ plan = PlanSchema(b, s, allow) /\ Blockers(b, s, allow) = {}
  BY <1>1, ExecutesFreshPlan
<1>3. s.types = types /\ s.fields = fields
  BY DEF AsSnapshot
<1>4. /\ RenamingTypes(b, s) = {}
      /\ \A q \in TypePairs(b, s) : RenamingFields(q[1], q[2], s) = {}
      /\ \A q \in UnwantedFields(b, s) : allow
  <2>1. /\ RenamingTypes(b, s) = {}
        /\ \A q \in TypePairs(b, s) : RenamingFields(q[1], q[2], s) = {}
    BY <1>2, NoBlockers
  <2>2. \A q \in UnwantedFields(b, s) : allow
    <3>1. allow \in BOOLEAN
      BY <1>1, ExecutesFreshPlan DEF IsBusy
    <3> HIDE DEF s, allow
    <3> QED BY <1>2, <3>1, NoBlockers
  <2> QED BY <2>1, <2>2
<1>5. /\ plan.createFields = {<<TypeId(q[1]), q[2]>> : q \in NewFieldPairs(b, s)}
      /\ plan.removeFields = {<<FieldId(q[2]), Cardinality(Uses(s, q[1], q[2]))>> :
                                q \in {q \in UnwantedFields(b, s) : allow}}
  BY <1>2 DEF PlanSchema
<1>6. t \in types /\ id \notin plan.removeTypes
  BY DEF KeptTypes
<1>7. <<bt, t>> \in TypePairs(b, s) /\ RenamingFields(bt, t, s) = {}
  <2>1. <<bt, t>> \in TypePairs(b, s)
    BY <1>3, <1>4, <1>6, InTypePairs
  <2> QED BY <1>4, <2>1
<1>8. SnapFields(s, t) = {f \in fields : f.type = id}
  BY <1>3 DEF SnapFields
<1> HIDE DEF s, id
\* A pair of types whose row has this id is this pair.
<1>9. ASSUME NEW q \in TypePairs(b, s), TypeId(q[2]) = id
      PROVE  q[1] = bt
  <2>1. q[1] \in b /\ q[1].ident = q[2].ident
    BY InTypePairs
  <2>2. q[1].ident = bt.ident
    BY <1>9, <2>1 DEF TypeId, id
  <2> QED BY <1>1, <2>1, <2>2 DEF NoRepeats
<1>10. ASSUME NEW bf \in bt.fields,
              ~\E f \in fields : f.type = id /\ f.ident = bf.ident
       PROVE  <<id, bf>> \in plan.createFields
  <2>1. <<bt, t>>[1] = bt /\ <<bt, t>>[2] = t
    OBVIOUS
  <2>2. bf \in bt.fields \ RenamingFields(bt, t, s)
    BY <1>7
  <2>3. \A f \in SnapFields(s, t) : f.ident # bf.ident
    BY <1>8, <1>10
  <2>4. <<t, bf>> \in NewFieldPairs(b, s)
    BY <1>7, <2>1, <2>2, <2>3, InNewFieldPairs
  <2> QED BY <1>5, <2>4 DEF id
<1>11. ASSUME NEW f \in fields, f.type = id, NEW bf \in bt.fields, f.ident = bf.ident
       PROVE  f \in KeptFields(plan)
  <2>1. ASSUME NEW r \in plan.removeFields, r[1] = FieldId(f)
        PROVE  FALSE
    <3>1. PICK q \in UnwantedFields(b, s) : r[1] = FieldId(q[2])
      BY <1>5
    <3>2. PICK x \in TypePairs(b, s) : \E h \in SnapFields(s, x[2]) :
             q = <<x[2], h>> /\ \A y \in x[1].fields : y.ident # h.ident
      BY InUnwantedFields
    <3>3. PICK h \in SnapFields(s, x[2]) :
             q = <<x[2], h>> /\ \A y \in x[1].fields : y.ident # h.ident
      BY <3>2
    <3>4. h \in fields /\ h.type = TypeId(x[2]) /\ FieldId(h) = FieldId(f)
      BY <1>3, <2>1, <3>1, <3>3 DEF SnapFields
    <3>5. h.type = id /\ h.ident = f.ident
      BY <1>11, <3>4 DEF FieldId
    <3>6. x[1] = bt
      BY <1>9, <3>4, <3>5
    <3> QED BY <1>11, <3>3, <3>5, <3>6
  <2> QED BY <1>6, <1>11, <2>1 DEF KeptFields
<1>12. ASSUME NEW f \in KeptFields(plan), f.type = id
       PROVE  \E bf \in bt.fields : bf.ident = f.ident
  <2>1. SUFFICES ASSUME \A bf \in bt.fields : bf.ident # f.ident
                 PROVE  FALSE
    OBVIOUS
  <2>2. f \in fields /\ \A r \in plan.removeFields : r[1] # FieldId(f)
    BY DEF KeptFields
  <2>3. f \in SnapFields(s, t)
    BY <1>8, <1>12, <2>2
  <2>4. <<bt, t>>[1] = bt /\ <<bt, t>>[2] = t
    OBVIOUS
  <2>5. <<t, f>> \in UnwantedFields(b, s)
    BY <1>7, <2>1, <2>3, <2>4, InUnwantedFields
  <2>6. <<FieldId(f), Cardinality(Uses(s, t, f))>> \in plan.removeFields
    BY <1>4, <1>5, <2>5
  <2> QED BY <2>2, <2>6
<1>13. ASSUME NEW c \in plan.createFields, c[1] = id
       PROVE  c[2] \in bt.fields
  <2>1. PICK q \in NewFieldPairs(b, s) : c = <<TypeId(q[1]), q[2]>>
    BY <1>5
  <2>2. PICK x \in TypePairs(b, s) : \E bf \in x[1].fields : q = <<x[2], bf>>
    BY InNewFieldPairs
  <2>3. x[1] = bt
    BY <1>9, <1>13, <2>1, <2>2
  <2> QED BY <2>1, <2>2, <2>3
<1>14. ASSUME NEW f \in fields, NEW bf \in bt.fields, f.type = id, f.ident = bf.ident
       PROVE  Matches(p, bf, f, Updated(p, plan, f))
  <2> DEFINE pairs == FieldPairs(b, s)
             g == Updated(p, plan, f)
  <2>1. <<t, bf, f>> \in pairs
    <3>1. <<bt, t>>[1] = bt /\ <<bt, t>>[2] = t
      OBVIOUS
    <3>2. f \in SnapFields(s, t) /\ bf \in bt.fields \ RenamingFields(bt, t, s)
      BY <1>7, <1>8, <1>14
    <3> QED BY <1>7, <1>14, <3>1, <3>2, InFieldPairs
  <2>2. ASSUME NEW q \in pairs, q[3] = f
        PROVE  q[2] = bf
    <3>1. PICK x \in TypePairs(b, s) : \E y \in x[1].fields : \E h \in SnapFields(s, x[2]) :
              q = <<x[2], y, h>> /\ y.ident = h.ident
      BY InFieldPairs
    <3>2. PICK y \in x[1].fields, h \in SnapFields(s, x[2]) :
              q = <<x[2], y, h>> /\ y.ident = h.ident
      BY <3>1
    <3>3. h = f /\ q[2] = y /\ h.type = TypeId(x[2])
      BY <2>2, <3>2 DEF SnapFields
    <3>4. x[1] = bt
      BY <1>9, <1>14, <3>3
    <3> QED BY <1>1, <1>14, <3>2, <3>3, <3>4 DEF NoRepeats
  <2>3. \/ \E q \in pairs : q[3] = f /\ Matches(p, q[2], f, g)
        \/ \A q \in pairs : q[3] = f => Matches(p, q[2], f, g)
    BY <1>1, UpdatedMatches DEF s
  <2>4. <<t, bf, f>>[3] = f /\ <<t, bf, f>>[2] = bf
    OBVIOUS
  <2> HIDE DEF pairs, g
  <2>5. Matches(p, bf, f, g)
    BY <2>1, <2>2, <2>3, <2>4
  <2> QED BY <2>5 DEF g
<1>15. ASSUME NEW f \in fields, NEW bf \in bt.fields, f.type = id, bf.id = FieldId(f)
       PROVE  bf.ident = f.ident
  BY <1>3, <1>7, <1>15 DEF RenamingFields, id
<1> QED BY <1>10, <1>11, <1>12, <1>13, <1>14, <1>15 DEF id

\* The snapshot of the new tables reads the targets the bundle names.
LEMMA AloneTargets ==
  ASSUME NEW p \in Appliers, NEW b, NEW plan, ExecutesAlone(p, b, plan),
         NEW bt \in b, NEW bf \in bt.fields, NEW g, g.kind = bf.kind,
         \/ g.opts = ResolveOptions(p, bf.kind, bf.opts)
         \/ \E f \in fields : f.kind = bf.kind /\ bf.opts = SnapOpts(f, types) /\ g.opts = f.opts
  PROVE  SnapOpts(g, types') = bf.opts
<1>1. /\ SchemaInv /\ Execute(p) /\ Uncontested(p) /\ b = run[p].bundle /\ plan = run[p].plan
      /\ Write /\ CanExecute(plan)
  BY DEF ExecutesAlone, Execute
<1>2. tx \in Nat /\ tx' = tx + 1 /\ tx' \in 0 .. MaxTx
  BY <1>1, WriteCounts
<1>3. PlanOf(b, run[p].known, plan)
  BY <1>1, ExecutesFreshPlan DEF ExecutesAlone, Execute, Uncontested
<1>4. \A t \in KeptTypes(plan) :
         /\ t \in types /\ Renamed(plan, t) \in types'
         /\ Renamed(plan, t).ident = t.ident /\ TypeId(Renamed(plan, t)) = TypeId(t)
  BY <1>1, ExecutedTypes DEF KeptTypes
<1>5. \A u \in types' : \/ \E t \in KeptTypes(plan) : u = Renamed(plan, t)
                        \/ u.born = tx' /\ u.ident \in Idents
  BY <1>1, ExecutedTypes DEF ContentType
<1>6. CASE bf.kind = "RELATION"
  <2>1. bf.opts \subseteq {x.ident : x \in b}
    BY <1>6 DEF ExecutesAlone, Closed
  <2>2. SnapOpts(g, types') = {u.ident : u \in {u \in types' : TypeId(u) \in g.opts}}
    BY <1>6 DEF SnapOpts
  <2>3. CASE g.opts = ResolveOptions(p, bf.kind, bf.opts)
    <3>1. g.opts = {TypeId(t) : t \in {t \in run[p].known \cup CreatedRows(plan) :
                                         t.ident \in bf.opts}}
      BY <1>1, <1>6, <2>3 DEF ResolveOptions
    <3>2. ASSUME NEW i \in bf.opts
          PROVE  \E u \in types' : u.ident = i /\ TypeId(u) \in g.opts
      <4>1. PICK x \in b : x.ident = i
        BY <2>1
      <4>2. CASE x \in plan.createTypes
        <5> DEFINE u == [ident |-> x.ident, born |-> tx + 1, name |-> x.name]
        <5>1. u \in CreatedRows(plan) /\ u.ident = i
          BY <4>1, <4>2 DEF CreatedRows
        <5>2. u \in types'
          BY <1>1, <5>1, ExecutedRows
        <5>3. TypeId(u) \in g.opts
          BY <3>1, <5>1
        <5> QED BY <5>1, <5>2, <5>3
      <4>3. CASE x \notin plan.createTypes
        <5>1. PICK t \in KeptTypes(plan) : t.ident = i
          BY <4>1, <4>3, AloneTypes
        <5>2. PICK w \in run[p].known : w.ident = i
          BY <1>3, <4>1, <4>3 DEF PlanOf
        <5>3. TypeId(w) = TypeId(t)
          BY <1>1, <1>4, <5>1, <5>2 DEF Uncontested
        <5>4. TypeId(w) \in g.opts
          BY <3>1, <5>2
        <5> QED BY <1>4, <5>1, <5>3, <5>4
      <4> QED BY <4>2, <4>3
    <3>3. ASSUME NEW u \in types', TypeId(u) \in g.opts
          PROVE  u.ident \in bf.opts
      <4>1. PICK t \in run[p].known \cup CreatedRows(plan) :
              t.ident \in bf.opts /\ TypeId(u) = TypeId(t)
        BY <3>1, <3>3
      <4> QED BY <4>1 DEF TypeId
    <3> QED BY <2>2, <3>2, <3>3
  <2>4. CASE \E f \in fields :
               f.kind = bf.kind /\ bf.opts = SnapOpts(f, types) /\ g.opts = f.opts
    <3>1. PICK f \in fields :
             f.kind = bf.kind /\ bf.opts = SnapOpts(f, types) /\ g.opts = f.opts
      BY <2>4
    <3>2. bf.opts = {t.ident : t \in {t \in types : TypeId(t) \in f.opts}}
      BY <1>6, <3>1 DEF SnapOpts
    <3>3. ASSUME NEW i \in bf.opts
          PROVE  \E u \in types' : u.ident = i /\ TypeId(u) \in g.opts
      <4>1. PICK t \in types : TypeId(t) \in f.opts /\ t.ident = i
        BY <3>2
      <4>2. t \in KeptTypes(plan)
        BY <2>1, <4>1, AloneTypes
      <4> QED BY <1>4, <3>1, <4>1, <4>2
    <3>4. ASSUME NEW u \in types', TypeId(u) \in g.opts
          PROVE  u.ident \in bf.opts
      <4>1. CASE \E t \in KeptTypes(plan) : u = Renamed(plan, t)
        BY <1>4, <3>1, <3>2, <3>4, <4>1
      <4>2. CASE u.born = tx' /\ u.ident \in Idents
        <5>1. OldAt(tx, f.opts)
          BY <1>1 DEF SchemaInv, IdsAreOld
        <5>2. TypeId(u) \in TypeIds /\ TypeId(u)[2] = tx'
          BY <1>2, <4>2 DEF TypeId, TypeIds
        <5>3. TypeId(u) \in Idents \X (0 .. tx)
          BY <3>1, <3>4, <5>1, <5>2 DEF OldAt
        <5>4. tx' \in 0 .. tx
          BY <5>2, <5>3
        <5> QED BY <1>2, <5>4
      <4> QED BY <1>5, <4>1, <4>2
    <3> QED BY <2>2, <3>3, <3>4
  <2> QED BY <2>3, <2>4
<1>7. CASE bf.kind = "RICHTEXT"
  <2>1. bf.opts = {}
    BY <1>7 DEF ExecutesAlone, Closed
  <2>2. SnapOpts(g, types') = g.opts
    BY <1>7 DEF SnapOpts
  <2>3. CASE g.opts = ResolveOptions(p, bf.kind, bf.opts)
    BY <1>7, <2>1, <2>2, <2>3 DEF ResolveOptions
  <2>4. CASE \E f \in fields :
               f.kind = bf.kind /\ bf.opts = SnapOpts(f, types) /\ g.opts = f.opts
    BY <1>7, <2>2, <2>4 DEF SnapOpts
  <2> QED BY <2>3, <2>4
<1>8. CASE bf.kind \notin {"RELATION", "RICHTEXT"}
  <2>1. SnapOpts(g, types') = g.opts
    BY <1>8 DEF SnapOpts
  <2>2. ResolveOptions(p, bf.kind, bf.opts) = bf.opts
    BY <1>8 DEF ResolveOptions
  <2>3. \A f \in fields : f.kind = bf.kind => SnapOpts(f, types) = f.opts
    BY <1>8 DEF SnapOpts
  <2> QED BY <2>1, <2>2, <2>3
<1> QED BY <1>6, <1>7, <1>8

LEMMA AloneNewRow ==
  ASSUME NEW p \in Appliers, NEW b, NEW plan, ExecutesAlone(p, b, plan),
         NEW bt \in b, NEW bf \in bt.fields, NEW id
  PROVE  InStepField(bf, FieldRow(p, id, bf), types')
<1> DEFINE g == FieldRow(p, id, bf)
<1>1. /\ g.kind = bf.kind /\ g.required = bf.required /\ g.unique = EffectiveUnique(bf)
      /\ g.order = bf.order /\ g.opts = ResolveOptions(p, bf.kind, bf.opts)
  BY DEF FieldRow
<1> HIDE DEF g
<1>2. SnapOpts(g, types') = bf.opts
  BY <1>1, AloneTargets
<1> QED BY <1>1, <1>2 DEF InStepField, g

LEMMA AloneOldRow ==
  ASSUME NEW p \in Appliers, NEW b, NEW plan, ExecutesAlone(p, b, plan),
         NEW bt \in b, NEW bf \in bt.fields, NEW f \in fields, NEW g, Matches(p, bf, f, g)
  PROVE  InStepField(bf, g, types')
<1>1. SnapOpts(g, types') = bf.opts
  BY AloneTargets DEF Matches
<1> QED BY <1>1 DEF InStepField, Matches

\* No file knows the ids this transaction gives out.
LEMMA NewIdsAreUnknown ==
  ASSUME NEW p \in Appliers, NEW b, NEW plan, ExecutesAlone(p, b, plan), NEW bt \in b
  PROVE  /\ \A u \in types' : u.born = tx' => bt.id # TypeId(u)
         /\ \A g \in fields' : g.born = tx' => \A bf \in bt.fields : bf.id # FieldId(g)
<1>1. SchemaInv /\ Execute(p) /\ Write /\ IsBusy(tx, run[p]) /\ b = run[p].bundle
  BY WorkersAreBusy DEF ExecutesAlone, Execute
<1>2. tx' # 0 /\ tx' \in 0 .. MaxTx
  BY <1>1, WriteCounts
<1>3. types' \subseteq ContentType /\ fields' \subseteq ContentTypeField
  BY <1>1, ExecuteKeeps DEF SchemaInv, RowsHaveTypes, TypeOK
<1>4. b \in Files
  BY <1>1 DEF IsBusy
<1>5. ASSUME NEW u \in types', u.born = tx'
      PROVE  bt.id # TypeId(u)
  <2>1. TypeId(u) \in Idents \X (0 .. MaxTx) /\ TypeId(u)[2] # 0
    BY <1>2, <1>3, <1>5 DEF ContentType, TypeId
  <2>2. bt.id = NoValue \/ bt.id \in Idents \X {0}
    BY <1>4, IdsInFilesAreOld
  <2>3. TypeId(u) # NoValue
    BY <2>1, SchemaConstants
  <2> QED BY <2>1, <2>2, <2>3
<1>6. ASSUME NEW g \in fields', g.born = tx', NEW bf \in bt.fields
      PROVE  bf.id # FieldId(g)
  <2>1. FieldId(g) \in TypeIds \X FieldIdents \X (0 .. MaxTx) /\ FieldId(g)[3] # 0
    BY <1>2, <1>3, <1>6 DEF ContentTypeField, FieldId
  <2>2. bf.id = NoValue \/ bf.id \in TypeIds \X FieldIdents \X {0}
    BY <1>4, IdsInFilesAreOld
  <2>3. FieldId(g) # NoValue
    BY <2>1, IdsInFilesAreOld
  <2> QED BY <2>1, <2>2, <2>3
<1> QED BY <1>5, <1>6

\* The rows of a type that stays.
LEMMA KeptTypeInStep ==
  ASSUME NEW p \in Appliers, NEW b, NEW plan, ExecutesAlone(p, b, plan),
         NEW t \in KeptTypes(plan), NEW bt \in b, bt.ident = t.ident
  PROVE  InStepType(bt, Renamed(plan, t), types', fields')
<1> DEFINE id == TypeId(t)
<1>1. /\ SchemaInv /\ Execute(p) /\ plan = run[p].plan /\ Write /\ b = run[p].bundle
      /\ \A x \in b : NoRepeats(x.fields)
  BY DEF ExecutesAlone, Execute, NamesThingsOnce
<1>2. tx \in Nat /\ tx' = tx + 1 /\ t \in types /\ t.born <= tx
  BY <1>1, WriteCounts, RowsStayOld DEF KeptTypes
<1>3. TypeId(Renamed(plan, t)) = id /\ Renamed(plan, t).name = bt.name
  BY <1>1, ExecutedTypes, AloneTypes
<1>4. /\ \A bf \in bt.fields :
              \/ \E f \in KeptFields(plan) : f.type = id /\ f.ident = bf.ident
              \/ <<id, bf>> \in plan.createFields
      /\ \A f \in KeptFields(plan) : f.type = id => \E bf \in bt.fields : bf.ident = f.ident
      /\ \A c \in plan.createFields : c[1] = id => c[2] \in bt.fields
      /\ \A f \in fields, bf \in bt.fields : f.type = id =>
              /\ f.ident = bf.ident => Matches(p, bf, f, Updated(p, plan, f))
              /\ bf.id = FieldId(f) => bf.ident = f.ident
  BY AloneFields
<1>5. /\ \A f \in KeptFields(plan) : f \in fields /\ Updated(p, plan, f) \in fields'
      /\ \A f \in fields : LET g == Updated(p, plan, f)
                           IN  g.type = f.type /\ g.ident = f.ident /\ FieldId(g) = FieldId(f)
  BY <1>1, ExecutedRows, ExecutedFields DEF FieldId
<1>6. \A c \in plan.createFields : LET g == FieldRow(p, c[1], c[2])
         IN  g \in fields' /\ g.type = c[1] /\ g.ident = c[2].ident /\ g.born = tx'
  BY <1>1, ExecutedRows, ExecutedFields
<1>7. \A g \in fields' : g.type = id => IsKept(p, plan, g) \/ IsAdded(p, plan, g)
  <2>1. id[2] # tx + 1
    BY <1>2 DEF TypeId
  <2> HIDE DEF id
  <2>2. \A g \in fields' : IsKept(p, plan, g) \/ IsAdded(p, plan, g) \/ IsCreated(p, plan, g)
    BY <1>1, ExecutedFieldComesFrom
  <2>3. \A g \in fields' : g.type = id => ~IsCreated(p, plan, g)
    BY <2>1 DEF IsCreated, FieldRow
  <2> QED BY <2>2, <2>3
<1> HIDE DEF id
<1>8. ASSUME NEW bf \in bt.fields
      PROVE  \E g \in fields' : g.type = id /\ g.ident = bf.ident
  <2>1. CASE <<id, bf>> \in plan.createFields
    <3>1. <<id, bf>>[1] = id /\ <<id, bf>>[2] = bf
      OBVIOUS
    <3> QED BY <1>6, <2>1, <3>1
  <2>2. CASE \E f \in KeptFields(plan) : f.type = id /\ f.ident = bf.ident
    BY <1>5, <2>2
  <2> QED BY <1>4, <2>1, <2>2
<1>9. ASSUME NEW g \in fields', g.type = id
      PROVE  /\ \E bf \in bt.fields : g.ident = bf.ident
             /\ \A bf \in bt.fields :
                  /\ g.ident = bf.ident => InStepField(bf, g, types')
                  /\ bf.id = FieldId(g) => bf.ident = g.ident
  <2>1. CASE IsKept(p, plan, g)
    <3>1. PICK f \in KeptFields(plan) : g = Updated(p, plan, f)
      BY <2>1 DEF IsKept
    <3>2. f \in fields /\ f.type = id /\ f.ident = g.ident /\ FieldId(f) = FieldId(g)
      BY <1>5, <1>9, <3>1
    <3>3. ASSUME NEW bf \in bt.fields, g.ident = bf.ident
          PROVE  InStepField(bf, g, types')
      <4>1. Matches(p, bf, f, g)
        BY <1>4, <3>1, <3>2, <3>3
      <4> QED BY <3>2, <4>1, AloneOldRow
    <3> QED BY <1>4, <3>2, <3>3
  <2>2. CASE IsAdded(p, plan, g)
    <3>1. PICK c \in plan.createFields : g = FieldRow(p, c[1], c[2])
      BY <2>2 DEF IsAdded
    <3>2. c[1] = id /\ c[2] \in bt.fields /\ g.ident = c[2].ident /\ g.born = tx'
      BY <1>4, <1>6, <1>9, <3>1
    <3>3. InStepField(c[2], g, types')
      BY <3>1, <3>2, AloneNewRow
    <3>4. \A bf \in bt.fields : bf.ident = c[2].ident => bf = c[2]
      BY <1>1, <3>2 DEF NoRepeats
    <3>5. \A bf \in bt.fields : bf.id # FieldId(g)
      BY <3>2, NewIdsAreUnknown DEF ExecutesAlone
    <3> QED BY <3>2, <3>3, <3>4, <3>5
  <2> QED BY <1>7, <1>9, <2>1, <2>2
<1> QED BY <1>3, <1>8, <1>9 DEF InStepType

\* The rows of a type the apply created.
LEMMA NewTypeInStep ==
  ASSUME NEW p \in Appliers, NEW b, NEW plan, ExecutesAlone(p, b, plan),
         NEW bt \in plan.createTypes, NEW u \in types', u.name = bt.name,
         TypeId(u) = <<bt.ident, tx + 1>>
  PROVE  InStepType(bt, u, types', fields')
<1> DEFINE id == <<bt.ident, tx + 1>>
<1>1. /\ SchemaInv /\ Execute(p) /\ plan = run[p].plan /\ Write /\ b = run[p].bundle
      /\ CanExecute(plan)
  BY DEF ExecutesAlone, Execute
<1>2. tx \in Nat /\ tx' = tx + 1
  BY <1>1, WriteCounts
<1>3. /\ bt \in b /\ NoRepeats(bt.fields)
      /\ \A x \in plan.createTypes : x.ident = bt.ident => x = bt
      /\ \A t \in types : TypeId(t) # id
  <2>1. bt \in b /\ NoRepeats(bt.fields) /\ \A t \in types : TypeId(t) # id
    BY <1>1, CreatedTypeIsNew
  <2>2. NoRepeats(plan.createTypes)
    BY <1>1 DEF CanExecute
  <2> QED BY <2>1, <2>2 DEF NoRepeats
<1>4. \A bf \in bt.fields : LET g == FieldRow(p, id, bf)
         IN  g \in fields' /\ g.type = id /\ g.ident = bf.ident /\ g.born = tx'
  <2>1. \A bf \in bt.fields : FieldRow(p, id, bf) \in fields'
    <3>1. SchemaInv /\ Execute(p) /\ plan = run[p].plan
      BY <1>1
    <3> QED BY <3>1, ExecutedRows
  <2>2. \A bf \in bt.fields : LET g == FieldRow(p, id, bf)
           IN  g.type = id /\ g.ident = bf.ident /\ g.born = tx'
    BY <1>2 DEF FieldRow
  <2> QED BY <2>1, <2>2
<1>5. ASSUME NEW g \in fields', g.type = id
      PROVE  \E bf \in bt.fields : g = FieldRow(p, id, bf)
  <2> HIDE DEF id
  <2>1. IsKept(p, plan, g) \/ IsAdded(p, plan, g) \/ IsCreated(p, plan, g)
    BY <1>1, ExecutedFieldComesFrom
  <2>2. ~IsKept(p, plan, g)
    <3>1. SUFFICES ASSUME NEW f \in KeptFields(plan), g = Updated(p, plan, f)
                   PROVE  FALSE
      BY DEF IsKept
    <3>2. f \in fields /\ f.type = id
      BY <1>1, <1>5, <3>1, ExecutedFields
    <3>3. \E t \in types : TypeId(t) = f.type
      BY <1>1, <3>2 DEF SchemaInv, RowsHaveTypes
    <3> QED BY <1>3, <3>2, <3>3
  <2>3. ~IsAdded(p, plan, g)
    <3>1. SUFFICES ASSUME NEW c \in plan.createFields, g = FieldRow(p, c[1], c[2])
                   PROVE  FALSE
      BY DEF IsAdded
    <3>2. c[1] = id /\ \E t \in types : TypeId(t) = c[1]
      BY <1>1, <1>5, <3>1, ExecutedFields
    <3> QED BY <1>3, <3>2
  <2>4. PICK x \in plan.createTypes : \E bf \in x.fields :
               g = FieldRow(p, <<x.ident, tx + 1>>, bf)
    BY <2>1, <2>2, <2>3 DEF IsCreated
  <2>5. x.ident = bt.ident
    BY <1>5, <2>4 DEF FieldRow, id
  <2> QED BY <1>3, <2>4, <2>5 DEF id
<1> HIDE DEF id
<1>6. ASSUME NEW g \in fields', g.type = id
      PROVE  /\ \E bf \in bt.fields : g.ident = bf.ident
             /\ \A bf \in bt.fields :
                  /\ g.ident = bf.ident => InStepField(bf, g, types')
                  /\ bf.id = FieldId(g) => bf.ident = g.ident
  <2>1. PICK af \in bt.fields : g = FieldRow(p, id, af)
    BY <1>5, <1>6
  <2>2. g.ident = af.ident /\ g.born = tx'
    BY <1>4, <2>1
  <2>3. InStepField(af, g, types')
    BY <1>3, <2>1, AloneNewRow
  <2>4. \A bf \in bt.fields : bf.ident = af.ident => bf = af
    BY <1>3, <2>1 DEF NoRepeats
  <2>5. \A bf \in bt.fields : bf.id # FieldId(g)
    BY <1>3, <2>2, NewIdsAreUnknown
  <2> QED BY <2>2, <2>3, <2>4, <2>5
<1>7. TypeId(u) = id
  BY DEF id
<1>8. \A bf \in bt.fields : \E g \in fields' : g.type = id /\ g.ident = bf.ident
  BY <1>4
<1> QED BY <1>6, <1>7, <1>8 DEF InStepType

\* After an apply nobody interfered with the tables are in step with its bundle.
LEMMA ExecuteInStep ==
  ASSUME NEW p \in Appliers, NEW b, NEW plan, ExecutesAlone(p, b, plan)
  PROVE  InStep(b, types', fields')
<1>1. /\ SchemaInv /\ Execute(p) /\ plan = run[p].plan /\ b = run[p].bundle
      /\ Closed(b) /\ NoRepeats(b)
  BY DEF ExecutesAlone, NamesThingsOnce
<1>2. /\ \A bt \in b : bt \in plan.createTypes
                         \/ \E t \in KeptTypes(plan) : t.ident = bt.ident
      /\ \A t \in KeptTypes(plan) : \E bt \in b : bt.ident = t.ident
      /\ \A t \in types, bt \in b : bt.id = TypeId(t) => bt.ident = t.ident
  BY AloneTypes
<1>3. /\ \A t \in KeptTypes(plan) :
              /\ Renamed(plan, t) \in types'
              /\ Renamed(plan, t).ident = t.ident
              /\ TypeId(Renamed(plan, t)) = TypeId(t)
      /\ \A bt \in plan.createTypes :
              /\ bt \in b /\ \A t \in types : t.ident # bt.ident
              /\ \E u \in types' : u.ident = bt.ident
      /\ \A u \in types' :
              \/ \E t \in KeptTypes(plan) : u = Renamed(plan, t)
              \/ /\ u.born = tx'
                 /\ \E bt \in plan.createTypes :
                      u.ident = bt.ident /\ u.name = bt.name /\ TypeId(u) = <<bt.ident, tx + 1>>
  <2>1. \A t \in KeptTypes(plan) :
              /\ Renamed(plan, t) \in types'
              /\ Renamed(plan, t).ident = t.ident
              /\ TypeId(Renamed(plan, t)) = TypeId(t)
    BY <1>1, ExecutedTypes
  <2>2. \A bt \in plan.createTypes :
              /\ bt \in run[p].bundle /\ \A t \in types : t.ident # bt.ident
              /\ \E u \in types' : u.ident = bt.ident
    BY <1>1, CreatedTypeIsNew
  <2>3. \A u \in types' :
              \/ \E t \in KeptTypes(plan) : u = Renamed(plan, t)
              \/ /\ u.born = tx'
                 /\ \E bt \in plan.createTypes :
                      u.ident = bt.ident /\ u.name = bt.name /\ TypeId(u) = <<bt.ident, tx + 1>>
    BY <1>1, ExecutedTypeComesFrom
  <2> QED BY <1>1, <2>1, <2>2, <2>3
<1>4. \A t \in KeptTypes(plan) : t \in types
  BY DEF KeptTypes
<1>5. \A bt \in b : \E t \in types' : t.ident = bt.ident
  BY <1>2, <1>3
<1>6. \A t \in types' : \E bt \in b : t.ident = bt.ident
  BY <1>2, <1>3
<1>7. ASSUME NEW bt \in b, NEW u \in types'
      PROVE  /\ u.ident = bt.ident => InStepType(bt, u, types', fields')
             /\ bt.id = TypeId(u) => bt.ident = u.ident
  <2>1. CASE \E t \in KeptTypes(plan) : u = Renamed(plan, t)
    <3>1. PICK t \in KeptTypes(plan) : u = Renamed(plan, t)
      BY <2>1
    <3>2. t \in types /\ u.ident = t.ident /\ TypeId(u) = TypeId(t)
      BY <1>3, <1>4, <3>1
    <3>3. u.ident = bt.ident => InStepType(bt, u, types', fields')
      BY <3>1, <3>2, KeptTypeInStep
    <3> QED BY <1>2, <3>2, <3>3
  <2>2. CASE u.born = tx' /\ \E c \in plan.createTypes :
               u.ident = c.ident /\ u.name = c.name /\ TypeId(u) = <<c.ident, tx + 1>>
    <3>1. PICK c \in plan.createTypes :
               u.ident = c.ident /\ u.name = c.name /\ TypeId(u) = <<c.ident, tx + 1>>
      BY <2>2
    <3>2. InStepType(c, u, types', fields')
      BY <3>1, NewTypeInStep
    <3>3. u.ident = bt.ident => bt = c
      <4>1. c \in b /\ u.ident = c.ident
        BY <1>3, <3>1
      <4>2. c.ident = bt.ident => c = bt
        BY <1>1, <4>1 DEF NoRepeats
      <4> QED BY <4>1, <4>2
    <3>4. bt.id # TypeId(u)
      BY <2>2, NewIdsAreUnknown
    <3> QED BY <3>2, <3>3, <3>4
  <2> QED BY <1>3, <2>1, <2>2
<1> QED BY <1>1, <1>5, <1>6, <1>7 DEF InStep

\* After an apply nobody interfered with, the bundle has nothing left to apply.
LEMMA ExecuteSettles ==
  ASSUME NEW p \in Appliers, NEW b, NEW plan, ExecutesAlone(p, b, plan), NEW allow
  PROVE  Settled(b, allow)'
<1> DEFINE s == Snapshot'
<1>1. s.types = types' /\ s.fields = fields'
  BY DEF Snapshot
<1>2. InStep(b, s.types, s.fields)
  BY <1>1, ExecuteInStep
<1> HIDE DEF s
<1>3. ~IsPlanNonEmpty(PlanSchema(b, s, allow)) /\ PlanSchema(b, s, allow).blockers = {}
  BY <1>2, InStepIsSettled
<1> QED BY <1>3 DEF Settled, s

\* ... and `boject schema check` has nothing to report.
LEMMA ExecutePassesCheck ==
  ASSUME NEW p \in Appliers, NEW b, NEW plan, ExecutesAlone(p, b, plan)
  PROVE  SchemaCheckPasses(b)'
<1> DEFINE Own(t) == {f \in fields' : f.type = TypeId(t)}
           Bf(f) == [id |-> NoValue, ident |-> f.ident, kind |-> f.kind,
                     required |-> f.required, unique |-> f.unique, order |-> f.order,
                     opts |-> ExportOpts(f)']
           Bt(t) == [id |-> NoValue, ident |-> t.ident, name |-> t.name,
                     fields |-> {Bf(f) : f \in Own(t)}]
           r == {Bt(t) : t \in types'}
<1>1. r = ExportSchema(TRUE)'
  BY DEF ExportSchema, FieldsOf
<1>2. InStep(b, types', fields')
  BY ExecuteInStep
<1>3. \A f : Bf(f).ident = f.ident
  OBVIOUS
<1> HIDE DEF Bf
<1>4. \A t : Bt(t).ident = t.ident /\ Bt(t).fields = {Bf(f) : f \in Own(t)}
  OBVIOUS
<1> HIDE DEF Bt
<1>5. \A bt \in b : \E rt \in r : rt.ident = bt.ident
  BY <1>2, <1>4 DEF InStep
<1>6. \A rt \in r : \E bt \in b : rt.ident = bt.ident
  BY <1>2, <1>4 DEF InStep
<1>7. ASSUME NEW bt \in b, NEW rt \in r, rt.ident = bt.ident
      PROVE  /\ \A bf \in bt.fields : \E rf \in rt.fields : rf.ident = bf.ident
             /\ \A rf \in rt.fields : \E bf \in bt.fields : rf.ident = bf.ident
  <2>1. PICK t \in types' : rt = Bt(t)
    OBVIOUS
  <2>2. InStepType(bt, t, types', fields') /\ rt.fields = {Bf(f) : f \in Own(t)}
    BY <1>2, <1>4, <1>7, <2>1 DEF InStep
  <2>3. ASSUME NEW bf \in bt.fields
        PROVE  \E rf \in rt.fields : rf.ident = bf.ident
    <3>1. PICK f \in fields' : f.type = TypeId(t) /\ f.ident = bf.ident
      BY <2>2 DEF InStepType
    <3>2. Bf(f) \in rt.fields
      BY <2>2, <3>1
    <3> QED BY <1>3, <3>1, <3>2
  <2>4. ASSUME NEW rf \in rt.fields
        PROVE  \E bf \in bt.fields : rf.ident = bf.ident
    <3>1. PICK f \in fields' : f.type = TypeId(t) /\ rf = Bf(f)
      BY <2>2
    <3> QED BY <1>3, <2>2, <3>1 DEF InStepType
  <2> QED BY <2>3, <2>4
<1> HIDE DEF r
<1>8. DiffBundles(b, r) = {}
  BY <1>5, <1>6, <1>7, SameNamesDoNotDiffer
<1> QED BY <1>1, <1>8 DEF SchemaCheckPasses

LEMMA ExecuteConverges ==
  ASSUME SchemaInv, RunsAreFresh, NEW p \in Appliers, Execute(p), Uncontested(p)
  PROVE  ApplyConverges(p)
<1>1. ASSUME NEW b, NEW allow, b = run[p].bundle, Closed(b) /\ NamesThingsOnce(b)
      PROVE  Settled(b, allow)' /\ SchemaCheckPasses(b)'
  <2>1. PICK plan : plan = run[p].plan
    OBVIOUS
  <2>2. ExecutesAlone(p, b, plan)
    BY <1>1, <2>1 DEF ExecutesAlone
  <2> QED BY <2>2, ExecuteSettles, ExecutePassesCheck
<1> QED BY <1>1 DEF ApplyConverges

\* Only Execute ends an apply and counts a transaction.
LEMMA OnlyExecuteApplies ==
  ASSUME SchemaInv, Next, NEW p \in Appliers, Applies(p)
  PROVE  Execute(p)
<1>1. run[p].pc = "execute" /\ run'[p].pc = "idle" /\ tx' # tx
  BY DEF Applies
<1>2. DOMAIN run = Appliers
  BY DEF SchemaInv, RowsHaveTypes, TypeOK
<1>3. run' # run
  BY <1>1
<1>4. PICK q \in Appliers : Apply(q)
  <2>1. CreateEntry \/ ArchiveEntry \/ DeleteEntry \/ CreateType => run' = run
    BY DEF CreateEntry, ArchiveEntry, DeleteEntry, CreateType
  <2>2. \A h \in Handlers : Handle(h) => run' = run
    <3> SUFFICES ASSUME NEW h \in Handlers, Handle(h) PROVE run' = run
      OBVIOUS
    <3>1. AskRename(h) \/ AskDeleteType(h) \/ AskField(h) \/ AskEdit(h) => run' = run
      BY DEF AskRename, AskDeleteType, AskField, AskEdit, Ask
    <3>2. AskDeleteField(h) \/ AskReorder(h) \/ Commit(h) \/ CommitFails(h) => run' = run
      BY DEF AskDeleteField, AskReorder, Ask, Commit, CommitFails
    <3> QED BY <3>1, <3>2 DEF Handle
  <2> QED BY <1>3, <2>1, <2>2 DEF Next
<1>5. Execute(q)
  BY <1>1, <1>4 DEF Apply, ClientApplies, BootApplies, ReadTypes, ReadCounts, Plan, Replan,
       DryRun, ExecuteFails
<1>6. q = p
  BY <1>1, <1>2, <1>5 DEF Execute, Finish
<1> QED BY <1>5, <1>6

\* An apply nobody interfered with does nothing the entries speak against, and
\* leaves nothing of its bundle to apply or to report (planSchema, applySchema).
THEOREM UncontestedAppliesAreSound == Spec => UncontestedApplyIsSound
<1>1. ASSUME SchemaInv, RunsAreFresh, [Next]_vars
      PROVE  [\A p \in Appliers : Applies(p) /\ Uncontested(p) =>
                ApplyFitsTheData(p) /\ ApplyConverges(p)]_vars
  <2>1. CASE Next
    BY <1>1, <2>1, OnlyExecuteApplies, ExecuteFits, ExecuteConverges
  <2>2. CASE UNCHANGED vars
    BY <2>2
  <2> QED BY <1>1, <2>1, <2>2
<1>2. Spec => [](SchemaInv /\ RunsAreFresh)
  BY SchemaInvariance, InitIsFresh, RunsStayFresh, PTL DEF Spec
<1> QED BY <1>1, <1>2, PTL DEF Spec, UncontestedApplyIsSound

(***************************************************************************)
(* Kinds that no PUT gives a field: which rows of them can be relied on.   *)
(***************************************************************************)
Implicit == {"ENTRY_TITLE", "SLUG"}

\* The flag of a title or a slug is on, and a relation holds ids, not names.
TidyRow(K, kind, unique, opts) ==
  /\ kind \in K /\ kind \in Implicit => unique = TRUE
  /\ kind \in K /\ kind = "RELATION" => opts \cap Idents = {}

\* The row with this id was there after n transactions; where it is of one of
\* the kinds, it is of this one.
Tells(K, F, n, id, kind) ==
  /\ id[3] \in Nat /\ id[3] <= n
  /\ \A f \in F : FieldId(f) = id /\ f.kind \in K => f.kind = kind

TidyChange(K, kind, changes) ==
  /\ "kind" \in DOMAIN changes => changes["kind"] \notin K
  /\ "unique" \in DOMAIN changes /\ kind \in K /\ kind \in Implicit => changes["unique"] = TRUE
  /\ "opts" \in DOMAIN changes /\ kind \in K /\ kind = "RELATION" =>
       changes["opts"] \cap Idents = {}

TidyWrite(K, F, n, w) ==
  /\ w.op = "field" => TidyRow(K, w.body.kind, w.body.unique, w.body.opts)
  /\ w.op = "edit" =>
       \E kind \in Kinds : Tells(K, F, n, w.id, kind) /\ TidyChange(K, kind, w.changes)

TidyUpdate(K, F, n, u) ==
  /\ Tells(K, F, n, u[1], u[2])
  /\ "unique" \in DOMAIN u[3] /\ u[2] \in Implicit => u[3]["unique"] = TRUE

TidyRun(K, F, n, r) ==
  /\ r.pc \in {"counts", "entries", "counts2", "entries2"} =>
       \A g \in r.snap.fields : Tells(K, F, n, FieldId(g), g.kind)
  /\ r.pc \in Planning => \A u \in r.plan.updateFields : TidyUpdate(K, F, n, u)

Tidy(K) ==
  /\ \A f \in fields : TidyRow(K, f.kind, f.unique, f.opts)
  /\ \A h \in Handlers : req[h] # NoValue => TidyWrite(K, fields, tx, req[h])
  /\ \A p \in Appliers : TidyRun(K, fields, tx, run[p])

\* No PUT makes a field one of the kinds, and the system starts with tidy rows.
NobodyMakes(K) ==
  /\ \A edit \in FieldEdits : "kind" \in DOMAIN edit => edit["kind"] \notin K
  /\ \A f \in InitFields : TidyRow(K, f.kind, f.unique, f.opts)

\* A row of one of the kinds is new or was of that kind before.
Evolves(K, F, G, n) ==
  \A g \in G : g.kind \in K =>
    g.born > n \/ \E f \in F : FieldId(f) = FieldId(g) /\ f.kind = g.kind

LEMMA StillTells ==
  ASSUME NEW K, NEW F, NEW G, NEW n \in Nat, NEW m \in Nat, n <= m, Evolves(K, F, G, n),
         NEW id, NEW kind, Tells(K, F, n, id, kind)
  PROVE  Tells(K, G, m, id, kind)
<1>1. id[3] \in Nat /\ id[3] <= n /\ id[3] <= m
  BY DEF Tells
<1>2. ASSUME NEW g \in G, FieldId(g) = id, g.kind \in K
      PROVE  g.kind = kind
  <2>1. g.born = id[3]
    BY <1>2 DEF FieldId
  <2>2. PICK f \in F : FieldId(f) = FieldId(g) /\ f.kind = g.kind
    BY <1>1, <1>2, <2>1 DEF Evolves
  <2> QED BY <1>2, <2>2 DEF Tells
<1> QED BY <1>1, <1>2 DEF Tells

LEMMA RunStaysTidy ==
  ASSUME NEW K, NEW F, NEW G, NEW n \in Nat, NEW m \in Nat, n <= m, Evolves(K, F, G, n),
         NEW r, TidyRun(K, F, n, r)
  PROVE  TidyRun(K, G, m, r)
<1>1. ASSUME r.pc \in {"counts", "entries", "counts2", "entries2"}, NEW g \in r.snap.fields
      PROVE  Tells(K, G, m, FieldId(g), g.kind)
  <2>1. Tells(K, F, n, FieldId(g), g.kind)
    BY <1>1 DEF TidyRun
  <2> QED BY <2>1, StillTells
<1>2. ASSUME r.pc \in Planning, NEW u \in r.plan.updateFields
      PROVE  TidyUpdate(K, G, m, u)
  <2>1. TidyUpdate(K, F, n, u)
    BY <1>2 DEF TidyRun
  <2> QED BY <2>1, StillTells DEF TidyUpdate
<1> QED BY <1>1, <1>2 DEF TidyRun

LEMMA WriteStaysTidy ==
  ASSUME NEW K, NEW F, NEW G, NEW n \in Nat, NEW m \in Nat, n <= m, Evolves(K, F, G, n),
         NEW w, TidyWrite(K, F, n, w)
  PROVE  TidyWrite(K, G, m, w)
<1>1. ASSUME w.op = "edit"
      PROVE  \E kind \in Kinds : Tells(K, G, m, w.id, kind) /\ TidyChange(K, kind, w.changes)
  <2>1. PICK kind \in Kinds : Tells(K, F, n, w.id, kind) /\ TidyChange(K, kind, w.changes)
    BY <1>1 DEF TidyWrite
  <2>2. Tells(K, G, m, w.id, kind)
    BY <2>1, StillTells
  <2> QED BY <2>1, <2>2
<1> QED BY <1>1 DEF TidyWrite

\* A step that writes to the tables.
LEMMA TablesStayTidy ==
  ASSUME SchemaInv, NEW K, Tidy(K), Write, Evolves(K, fields, fields', tx),
         \A g \in fields' : TidyRow(K, g.kind, g.unique, g.opts),
         \A h \in Handlers : req'[h] = req[h] \/ req'[h] = NoValue,
         \A q \in Appliers : run'[q] = run[q] \/ run'[q].pc = "idle"
  PROVE  Tidy(K)'
<1>1. tx \in Nat /\ tx' \in Nat /\ tx <= tx'
  BY WriteCounts
<1>2. ASSUME NEW h \in Handlers, req'[h] # NoValue
      PROVE  TidyWrite(K, fields', tx', req'[h])
  <2>1. req'[h] = req[h] /\ TidyWrite(K, fields, tx, req[h])
    BY <1>2 DEF Tidy
  <2> QED BY <1>1, <2>1, WriteStaysTidy
<1>3. ASSUME NEW p \in Appliers
      PROVE  TidyRun(K, fields', tx', run'[p])
  <2>1. CASE run'[p].pc = "idle"
    BY <2>1 DEF TidyRun, Planning
  <2>2. CASE run'[p] = run[p]
    <3>1. TidyRun(K, fields, tx, run[p])
      BY DEF Tidy
    <3>2. TidyRun(K, fields', tx', run[p])
      BY <1>1, <3>1, RunStaysTidy
    <3> QED BY <2>2, <3>2
  <2> QED BY <2>1, <2>2
<1> QED BY <1>2, <1>3 DEF Tidy

\* A step of a handler that writes nothing, or of an apply.
LEMMA RequestsStayTidy ==
  ASSUME SchemaInv, NEW K, Tidy(K), UNCHANGED <<fields, tx, run>>, NEW h \in Handlers, NEW w,
         req' = [req EXCEPT ![h] = w], w = NoValue \/ TidyWrite(K, fields, tx, w)
  PROVE  Tidy(K)'
<1>1. DOMAIN req = Handlers
  BY DEF SchemaInv, RequestsAreWhole
<1>2. ASSUME NEW i \in Handlers, req'[i] # NoValue
      PROVE  TidyWrite(K, fields, tx, req'[i])
  <2>1. CASE i = h
    BY <1>1, <1>2, <2>1
  <2>2. CASE i # h
    <3>1. req'[i] = req[i]
      BY <1>1, <2>2
    <3> QED BY <1>2, <3>1 DEF Tidy
  <2> QED BY <2>1, <2>2
<1> QED BY <1>2 DEF Tidy

LEMMA RunsStayTidy ==
  ASSUME SchemaInv, NEW K, Tidy(K), UNCHANGED <<fields, tx, req>>, NEW p \in Appliers, NEW x,
         run' = [run EXCEPT ![p] = x], TidyRun(K, fields, tx, x)
  PROVE  Tidy(K)'
<1>1. DOMAIN run = Appliers
  BY DEF SchemaInv, RunsAreWhole
<1>2. ASSUME NEW q \in Appliers
      PROVE  TidyRun(K, fields, tx, run'[q])
  <2>1. CASE q = p
    BY <1>1, <2>1
  <2>2. CASE q # p
    <3>1. run'[q] = run[q]
      BY <1>1, <2>2
    <3> QED BY <3>1 DEF Tidy
  <2> QED BY <2>1, <2>2
<1> QED BY <1>2 DEF Tidy

\* Whatever a relation's targets are resolved to, they are ids.
LEMMA TargetsAreIds ==
  ASSUME SchemaInv, NEW opts
  PROVE  StoredBody("RELATION", opts) \cap Idents = {}
<1>1. \A t \in types : TypeId(t) \in TypeIds
  BY DEF SchemaInv, RowsHaveTypes, TypeOK, ContentType, TypeId, TypeIds
<1>2. Idents \cap TypeIds = {}
  BY SchemaConstants DEF TypeIds
<1> QED BY <1>1, <1>2 DEF StoredBody, IdsFor

LEMMA ResolvedAreIds ==
  ASSUME SchemaInv, Write, NEW p \in Appliers, IsBusy(tx, run[p]), run[p].pc \in Planning, NEW opts
  PROVE  ResolveOptions(p, "RELATION", opts) \cap Idents = {}
<1> DEFINE known == run[p].known
           new == CreatedRows(run[p].plan)
<1>1. tx + 1 \in 0 .. MaxTx
  BY WriteCounts
<1>2. \A t \in known : TypeId(t) \in TypeIds
  BY DEF IsBusy, OldTypes, ContentType, TypeId, TypeIds
<1>3. \A t \in new : TypeId(t) \in TypeIds
  <2>1. \A bt \in run[p].plan.createTypes : bt.ident \in Idents
    BY FilesAreBundles DEF IsBusy, PlanOf, IsType
  <2> QED BY <1>1, <2>1 DEF CreatedRows, TypeId, TypeIds
<1>4. Idents \cap TypeIds = {}
  BY SchemaConstants DEF TypeIds
<1>5. \A id \in ResolveOptions(p, "RELATION", opts) : \E t \in known \cup new : id = TypeId(t)
  BY DEF ResolveOptions
<1> QED BY <1>2, <1>3, <1>4, <1>5

LEMMA OwnKindIsTold ==
  ASSUME SchemaInv, NEW K, NEW f \in fields
  PROVE  Tells(K, fields, tx, FieldId(f), f.kind) /\ f.kind \in Kinds
<1>1. f.born \in Nat /\ f.born <= tx /\ f.kind \in Kinds
  BY DEF SchemaInv, IdsAreOld, RowsHaveTypes, TypeOK, ContentTypeField
<1>2. \A g \in fields : FieldId(g) = FieldId(f) => g = f
  BY DEF FieldId, SchemaInv, TablesAreKeyed
<1>3. FieldId(f)[3] = f.born
  BY DEF FieldId
<1> QED BY <1>1, <1>2, <1>3 DEF Tells

LEMMA ChangedIsTidy ==
  ASSUME NEW K, NEW f \in ContentTypeField, TidyRow(K, f.kind, f.unique, f.opts),
         NEW ch, DOMAIN ch \subseteq {"kind", "required", "unique", "order", "opts"},
         NEW kind, TidyChange(K, kind, ch), f.kind \in K => f.kind = kind
  PROVE  LET g == Changed(f, ch)
         IN  /\ TidyRow(K, g.kind, g.unique, g.opts)
             /\ FieldId(g) = FieldId(f)
             /\ g.kind \in K => g.kind = f.kind
<1> DEFINE g == Changed(f, ch)
<1>1. DOMAIN f = {"type", "ident", "born", "kind", "required", "unique", "order", "opts"}
  BY DEF ContentTypeField
<1>2. \A k \in DOMAIN f : g[k] = IF k \in DOMAIN ch THEN ch[k] ELSE f[k]
  BY DEF Changed
<1>3. FieldId(g) = FieldId(f)
  BY <1>1, <1>2 DEF FieldId
<1>4. g.kind \in K => g.kind = f.kind /\ f.kind = kind
  BY <1>1, <1>2 DEF TidyChange
<1>5. g.unique = IF "unique" \in DOMAIN ch THEN ch["unique"] ELSE f.unique
  BY <1>1, <1>2
<1>6. g.opts = IF "opts" \in DOMAIN ch THEN ch["opts"] ELSE f.opts
  BY <1>1, <1>2
<1> HIDE DEF g
<1>7. TidyRow(K, g.kind, g.unique, g.opts)
  BY <1>4, <1>5, <1>6 DEF TidyRow, TidyChange
<1> QED BY <1>3, <1>4, <1>7 DEF g

LEMMA AskStaysTidy ==
  ASSUME SchemaInv, NEW K, Tidy(K), NEW h \in Handlers, NEW w, Ask(h, w),
         TidyWrite(K, fields, tx, w)
  PROVE  Tidy(K)'
BY RequestsStayTidy DEF Ask

LEMMA AskFieldStaysTidy ==
  ASSUME SchemaInv, NEW K, Tidy(K), NEW h \in Handlers, AskField(h)
  PROVE  Tidy(K)'
<1> DEFINE row(t, b) == [ident |-> b.ident, kind |-> b.kind, required |-> b.required,
                         unique |-> ResolveUnique(b.kind, b.unique),
                         order |-> NextOrder(TypeId(t)), opts |-> StoredBody(b.kind, b.opts)]
           w(t, b) == [op |-> "field", id |-> TypeId(t), body |-> row(t, b)]
<1>1. PICK t \in types, b \in NewFields : Ask(h, w(t, b))
  BY DEF AskField
<1>2. TidyRow(K, b.kind, ResolveUnique(b.kind, b.unique), StoredBody(b.kind, b.opts))
  BY TargetsAreIds DEF TidyRow, ResolveUnique, Implicit
<1>3. TidyWrite(K, fields, tx, w(t, b))
  BY <1>2 DEF TidyWrite
<1> HIDE DEF w
<1> QED BY <1>1, <1>3, AskStaysTidy

LEMMA AskEditStaysTidy ==
  ASSUME SchemaInv, NEW K, NobodyMakes(K), Tidy(K), NEW h \in Handlers, AskEdit(h)
  PROVE  Tidy(K)'
<1> DEFINE now(f, e, k) == IF k \in DOMAIN e THEN e[k] ELSE f[k]
           opts(f, e) == IF "opts" \in DOMAIN e THEN StoredBody(f.kind, e["opts"]) ELSE {}
           written(f, e) == DOMAIN e \cup (IF now(f, e, "kind") = f.kind THEN {} ELSE {"opts"})
           changes(f, e) == [k \in written(f, e) |-> IF k = "opts" THEN opts(f, e) ELSE e[k]]
           w(f, e) == [op |-> "edit", id |-> FieldId(f), changes |-> changes(f, e)]
<1>1. PICK f \in fields, e \in FieldEdits :
        /\ Ask(h, w(f, e))
        /\ "unique" \in DOMAIN e =>
             IF e["unique"] THEN TRUE ELSE f.kind \notin {"ENTRY_TITLE", "SLUG"}
  BY DEF AskEdit
<1> DEFINE ch == changes(f, e)
<1>2. /\ DOMAIN e \subseteq {"kind", "required", "unique", "opts"}
      /\ \A k \in DOMAIN e \cap {"required", "unique"} : e[k] \in BOOLEAN
      /\ "kind" \in DOMAIN e => e["kind"] \notin K
  BY BodiesAreValid DEF NobodyMakes
<1>3. f.kind = "RELATION" => opts(f, e) \cap Idents = {}
  <2>1. \A o : StoredBody("RELATION", o) \cap Idents = {}
    BY TargetsAreIds
  <2> QED BY <2>1
<1>4. /\ DOMAIN ch \subseteq DOMAIN e \cup {"opts"}
      /\ \A k \in DOMAIN ch : ch[k] = IF k = "opts" THEN opts(f, e) ELSE e[k]
  OBVIOUS
<1>5. w(f, e) = [op |-> "edit", id |-> FieldId(f), changes |-> ch]
  BY DEF ch
<1> HIDE DEF ch, opts, w
<1>6. TidyChange(K, f.kind, ch)
  <2>1. "kind" \in DOMAIN ch => ch["kind"] \notin K
    BY <1>2, <1>4
  <2>2. "unique" \in DOMAIN ch /\ f.kind \in Implicit => ch["unique"] = TRUE
    BY <1>1, <1>2, <1>4 DEF Implicit
  <2>3. "opts" \in DOMAIN ch /\ f.kind = "RELATION" => ch["opts"] \cap Idents = {}
    BY <1>3, <1>4
  <2> QED BY <2>1, <2>2, <2>3 DEF TidyChange
<1>7. w(f, e).op = "edit" /\ w(f, e).id = FieldId(f) /\ w(f, e).changes = ch
  BY <1>5
<1>8. TidyWrite(K, fields, tx, w(f, e))
  BY <1>6, <1>7, OwnKindIsTold DEF TidyWrite
<1> QED BY <1>1, <1>8, AskStaysTidy

LEMMA OtherAsksStayTidy ==
  ASSUME SchemaInv, NEW K, Tidy(K), NEW h \in Handlers,
         AskRename(h) \/ AskDeleteType(h) \/ AskDeleteField(h) \/ AskReorder(h) \/ CommitFails(h)
  PROVE  Tidy(K)'
<1>1. CASE AskRename(h)
  <2>1. PICK w : Ask(h, w) /\ w.op = "rename"
    BY <1>1 DEF AskRename
  <2> QED BY <2>1, AskStaysTidy DEF TidyWrite
<1>2. CASE AskDeleteType(h)
  <2>1. PICK w : Ask(h, w) /\ w.op = "deleteType"
    BY <1>2 DEF AskDeleteType
  <2> QED BY <2>1, AskStaysTidy DEF TidyWrite
<1>3. CASE AskDeleteField(h)
  <2>1. PICK w : Ask(h, w) /\ w.op = "deleteField"
    BY <1>3 DEF AskDeleteField
  <2> QED BY <2>1, AskStaysTidy DEF TidyWrite
<1>4. CASE AskReorder(h)
  <2>1. PICK w : Ask(h, w) /\ w.op = "reorder"
    BY <1>4 DEF AskReorder
  <2> QED BY <2>1, AskStaysTidy DEF TidyWrite
<1>5. CASE CommitFails(h)
  BY <1>5, RequestsStayTidy DEF CommitFails
<1> QED BY <1>1, <1>2, <1>3, <1>4, <1>5

\* What a write makes of the fields.
TidyStep(K) ==
  /\ Evolves(K, fields, fields', tx)
  /\ \A g \in fields' : TidyRow(K, g.kind, g.unique, g.opts)

LEMMA FewerFieldsAreTidy ==
  ASSUME NEW K, Tidy(K), fields' \subseteq fields
  PROVE  TidyStep(K)
BY DEF TidyStep, Tidy, Evolves

LEMMA UpdatesAreTidy ==
  ASSUME NEW K, \A g \in fields' :
           /\ TidyRow(K, g.kind, g.unique, g.opts)
           /\ g.kind \in K =>
                g.born > tx \/ \E f \in fields : FieldId(f) = FieldId(g) /\ f.kind = g.kind
  PROVE  TidyStep(K)
BY DEF TidyStep, Evolves

LEMMA AddFieldIsTidy ==
  ASSUME SchemaInv, NEW K, Tidy(K), Write, NEW w, TidyWrite(K, fields, tx, w), w.op = "field",
         AddField(w.id, w.body)
  PROVE  TidyStep(K)
<1> DEFINE new == [type |-> w.id, ident |-> w.body.ident, born |-> tx + 1, kind |-> w.body.kind,
                   required |-> w.body.required, unique |-> w.body.unique,
                   order |-> w.body.order, opts |-> w.body.opts]
<1>1. fields' = fields \cup {new}
  BY DEF AddField
<1>2. new.kind = w.body.kind /\ new.unique = w.body.unique /\ new.opts = w.body.opts
  OBVIOUS
<1>3. new.born = tx + 1 /\ tx \in Nat
  BY WriteCounts
<1> HIDE DEF new
<1>4. TidyRow(K, new.kind, new.unique, new.opts) /\ new.born > tx
  BY <1>2, <1>3 DEF TidyWrite
<1> QED BY <1>1, <1>4, UpdatesAreTidy DEF Tidy

LEMMA EditFieldIsTidy ==
  ASSUME SchemaInv, NEW K, Tidy(K), NEW w, IsWrite(tx, w), TidyWrite(K, fields, tx, w),
         w.op = "edit", EditField(w.id, w.changes)
  PROVE  TidyStep(K)
<1> DEFINE G(f) == IF FieldId(f) = w.id THEN Changed(f, w.changes) ELSE f
<1>1. fields' = {G(f) : f \in fields}
  BY DEF EditField
<1>2. PICK kind \in Kinds : Tells(K, fields, tx, w.id, kind) /\ TidyChange(K, kind, w.changes)
  BY DEF TidyWrite
<1>3. DOMAIN w.changes \subseteq {"kind", "required", "unique", "order", "opts"}
  BY DEF IsWrite, IsChange
<1>4. ASSUME NEW f \in fields
      PROVE  /\ TidyRow(K, G(f).kind, G(f).unique, G(f).opts)
             /\ FieldId(G(f)) = FieldId(f)
             /\ G(f).kind \in K => G(f).kind = f.kind
  <2>1. f \in ContentTypeField /\ TidyRow(K, f.kind, f.unique, f.opts)
    BY DEF SchemaInv, RowsHaveTypes, TypeOK, Tidy
  <2>2. CASE FieldId(f) = w.id
    <3>1. f.kind \in K => f.kind = kind
      BY <1>2, <2>2 DEF Tells
    <3> QED BY <1>2, <1>3, <2>1, <2>2, <3>1, ChangedIsTidy
  <2>3. CASE FieldId(f) # w.id
    BY <2>1, <2>3
  <2> QED BY <2>2, <2>3
<1> HIDE DEF G
<1>5. ASSUME NEW g \in fields'
      PROVE  /\ TidyRow(K, g.kind, g.unique, g.opts)
             /\ g.kind \in K => \E f \in fields : FieldId(f) = FieldId(g) /\ f.kind = g.kind
  BY <1>1, <1>4
<1> QED BY <1>5, UpdatesAreTidy

LEMMA ReorderIsTidy ==
  ASSUME SchemaInv, NEW K, Tidy(K), NEW id, NEW order, Reorder(id, order)
  PROVE  TidyStep(K)
<1> DEFINE G(f) == IF FieldId(f) \in DOMAIN order
                   THEN [f EXCEPT !.order = order[FieldId(f)]] ELSE f
<1>1. fields' = {G(f) : f \in fields}
  BY DEF Reorder
<1>2. \A f \in fields :
        /\ G(f).kind = f.kind /\ G(f).unique = f.unique /\ G(f).opts = f.opts
        /\ FieldId(G(f)) = FieldId(f)
  BY DEF SchemaInv, RowsHaveTypes, TypeOK, ContentTypeField, FieldId
<1> HIDE DEF G
<1>3. ASSUME NEW g \in fields'
      PROVE  /\ TidyRow(K, g.kind, g.unique, g.opts)
             /\ g.kind \in K => \E f \in fields : FieldId(f) = FieldId(g) /\ f.kind = g.kind
  <2>1. PICK f \in fields : g = G(f)
    BY <1>1
  <2>2. TidyRow(K, f.kind, f.unique, f.opts)
    BY DEF Tidy
  <2> QED BY <1>2, <2>1, <2>2
<1> QED BY <1>3, UpdatesAreTidy

LEMMA CommitStaysTidy ==
  ASSUME SchemaInv, NEW K, Tidy(K), NEW h \in Handlers, Commit(h)
  PROVE  Tidy(K)'
<1> DEFINE w == req[h]
<1>1. Write /\ req' = [req EXCEPT ![h] = NoValue] /\ run' = run /\ w # NoValue
  BY DEF Commit
<1>2. IsWrite(tx, w) /\ TidyWrite(K, fields, tx, w)
  BY <1>1 DEF SchemaInv, RequestsAreWhole, Tidy
<1>3. w.op \in {"rename", "deleteType", "field", "edit", "deleteField", "reorder"}
  BY <1>2 DEF IsWrite
<1>4. TidyStep(K)
  <2>1. CASE w.op = "rename"
    <3>1. Rename(w.id, w.name)
      BY <2>1 DEF Commit
    <3> QED BY <3>1, FewerFieldsAreTidy DEF Rename
  <2>2. CASE w.op = "deleteType"
    <3>1. DeleteType(w.id)
      BY <2>2 DEF Commit
    <3> QED BY <3>1, FewerFieldsAreTidy DEF DeleteType
  <2>3. CASE w.op = "field"
    <3>1. AddField(w.id, w.body)
      BY <2>3 DEF Commit
    <3> QED BY <1>1, <1>2, <2>3, <3>1, AddFieldIsTidy
  <2>4. CASE w.op = "edit"
    <3>1. EditField(w.id, w.changes)
      BY <2>4 DEF Commit
    <3> QED BY <1>2, <2>4, <3>1, EditFieldIsTidy
  <2>5. CASE w.op = "deleteField"
    <3>1. DeleteField(w.id)
      BY <2>5 DEF Commit
    <3> QED BY <3>1, FewerFieldsAreTidy DEF DeleteField
  <2>6. CASE w.op = "reorder"
    <3>1. Reorder(w.id, w.order)
      BY <2>6 DEF Commit
    <3> QED BY <3>1, ReorderIsTidy
  <2> QED BY <1>3, <2>1, <2>2, <2>3, <2>4, <2>5, <2>6
<1>5. \A i \in Handlers : req'[i] = req[i] \/ req'[i] = NoValue
  BY <1>1 DEF SchemaInv, RequestsAreWhole
<1> QED BY <1>1, <1>4, <1>5, TablesStayTidy DEF TidyStep

LEMMA CreateTypeStaysTidy ==
  ASSUME SchemaInv, NEW K, Tidy(K), CreateType
  PROVE  Tidy(K)'
<1> DEFINE F(body, bf) ==
             [type |-> <<body.ident, tx + 1>>, ident |-> bf.ident,
              born |-> tx + 1, kind |-> bf.kind, required |-> bf.required,
              unique |-> ResolveUnique(bf.kind, bf.unique), order |-> bf.order,
              opts |-> StoredBody(bf.kind, bf.opts)]
<1>1. Write /\ UNCHANGED <<req, run>>
  BY DEF CreateType
<1>2. PICK body \in NewTypes : fields' = fields \cup {F(body, bf) : bf \in body.fields}
  BY DEF CreateType
<1>3. ASSUME NEW bf \in body.fields
      PROVE  /\ TidyRow(K, F(body, bf).kind, F(body, bf).unique, F(body, bf).opts)
             /\ F(body, bf).born > tx
  <2>1. TidyRow(K, bf.kind, ResolveUnique(bf.kind, bf.unique), StoredBody(bf.kind, bf.opts))
    BY TargetsAreIds DEF TidyRow, ResolveUnique, Implicit
  <2>2. tx + 1 > tx
    BY <1>1, WriteCounts
  <2> QED BY <2>1, <2>2
<1> HIDE DEF F
<1>4. TidyStep(K)
  BY <1>2, <1>3, UpdatesAreTidy DEF Tidy
<1> QED BY <1>1, <1>4, TablesStayTidy DEF TidyStep

\* The statements of an apply.
LEMMA UpdatedIsTidy ==
  ASSUME SchemaInv, NEW K, Tidy(K), Write, NEW p \in Appliers, IsBusy(tx, run[p]),
         run[p].pc \in Planning, NEW f \in fields
  PROVE  LET g == Updated(p, run[p].plan, f)
         IN  /\ TidyRow(K, g.kind, g.unique, g.opts)
             /\ FieldId(g) = FieldId(f)
             /\ g.kind \in K => g.kind = f.kind
<1> DEFINE plan == run[p].plan
           g == Updated(p, plan, f)
           u == CHOOSE u \in plan.updateFields : u[1] = FieldId(f)
           ch == [k \in DOMAIN u[3] |-> IF k = "opts" THEN ResolveOptions(p, u[2], u[3][k])
                                         ELSE u[3][k]]
<1>1. f \in ContentTypeField /\ TidyRow(K, f.kind, f.unique, f.opts)
  BY DEF SchemaInv, RowsHaveTypes, TypeOK, Tidy
<1>2. CASE ~\E v \in plan.updateFields : v[1] = FieldId(f)
  BY <1>1, <1>2 DEF Updated
<1>3. CASE \E v \in plan.updateFields : v[1] = FieldId(f)
  <2>1. g = Changed(f, ch)
    BY <1>3 DEF Updated
  <2>2. u \in plan.updateFields /\ u[1] = FieldId(f)
    BY <1>3
  <2>3. IsPlanned(u[2], u[3])
    BY <2>2 DEF IsBusy, PlanOf
  <2>4. TidyUpdate(K, fields, tx, u)
    BY <2>2 DEF Tidy, TidyRun
  <2>5. /\ DOMAIN ch = DOMAIN u[3]
        /\ \A k \in DOMAIN u[3] : k # "opts" => ch[k] = u[3][k]
        /\ "opts" \in DOMAIN u[3] => ch["opts"] = ResolveOptions(p, u[2], u[3]["opts"])
    OBVIOUS
  <2>6. \A o : ResolveOptions(p, "RELATION", o) \cap Idents = {}
    BY ResolvedAreIds
  <2> HIDE DEF ch, u
  <2>7. TidyChange(K, u[2], ch)
    <3>1. "kind" \notin DOMAIN ch
      BY <2>3, <2>5 DEF IsPlanned
    <3>2. "unique" \in DOMAIN ch /\ u[2] \in Implicit => ch["unique"] = TRUE
      BY <2>4, <2>5 DEF TidyUpdate
    <3>3. "opts" \in DOMAIN ch /\ u[2] = "RELATION" => ch["opts"] \cap Idents = {}
      BY <2>5, <2>6
    <3> QED BY <3>1, <3>2, <3>3 DEF TidyChange
  <2>8. f.kind \in K => f.kind = u[2]
    BY <2>2, <2>4 DEF TidyUpdate, Tells
  <2>9. DOMAIN ch \subseteq {"kind", "required", "unique", "order", "opts"}
    BY <2>3, <2>5 DEF IsPlanned
  <2> QED BY <1>1, <2>1, <2>7, <2>8, <2>9, ChangedIsTidy
<1> QED BY <1>2, <1>3

LEMMA FieldRowIsTidy ==
  ASSUME SchemaInv, NEW K, Write, NEW p \in Appliers, IsBusy(tx, run[p]), run[p].pc \in Planning,
         NEW id, NEW bf
  PROVE  LET g == FieldRow(p, id, bf)
         IN  TidyRow(K, g.kind, g.unique, g.opts) /\ g.born > tx
<1> DEFINE g == FieldRow(p, id, bf)
<1>1. g.kind = bf.kind /\ g.unique = EffectiveUnique(bf)
      /\ g.opts = ResolveOptions(p, bf.kind, bf.opts) /\ g.born = tx + 1
  BY DEF FieldRow
<1> HIDE DEF g
<1>2. g.born > tx
  BY <1>1, WriteCounts
<1>3. g.kind \in Implicit => g.unique = TRUE
  BY <1>1 DEF EffectiveUnique, Implicit
<1>4. g.kind = "RELATION" => g.opts \cap Idents = {}
  BY <1>1, ResolvedAreIds
<1>5. TidyRow(K, g.kind, g.unique, g.opts)
  BY <1>3, <1>4 DEF TidyRow
<1> QED BY <1>2, <1>5 DEF g

LEMMA ExecuteStaysTidy ==
  ASSUME SchemaInv, NEW K, Tidy(K), NEW p \in Appliers, Execute(p)
  PROVE  Tidy(K)'
<1>1. Write /\ IsBusy(tx, run[p]) /\ run[p].pc \in Planning /\ Finish(p, TRUE) /\ req' = req
  BY WorkersAreBusy DEF Execute, Planning
<1>2. PICK plan : plan = run[p].plan
  OBVIOUS
<1>3. ASSUME NEW g \in fields'
      PROVE  /\ TidyRow(K, g.kind, g.unique, g.opts)
             /\ g.kind \in K =>
                  g.born > tx \/ \E f \in fields : FieldId(f) = FieldId(g) /\ f.kind = g.kind
  <2>1. CASE IsKept(p, plan, g)
    <3>1. PICK f \in fields : g = Updated(p, plan, f)
      BY <2>1 DEF IsKept, KeptFields
    <3> QED BY <1>1, <1>2, <3>1, UpdatedIsTidy
  <2>2. CASE IsAdded(p, plan, g)
    BY <1>1, <2>2, FieldRowIsTidy DEF IsAdded
  <2>3. CASE IsCreated(p, plan, g)
    BY <1>1, <2>3, FieldRowIsTidy DEF IsCreated
  <2> QED BY <1>2, <2>1, <2>2, <2>3, ExecutedFieldComesFrom
<1>4. TidyStep(K)
  BY <1>3, UpdatesAreTidy
<1>5. \A q \in Appliers : run'[q] = run[q] \/ run'[q].pc = "idle"
  <2>1. PICK x : IsIdle(x) /\ run' = [run EXCEPT ![p] = x]
    BY <1>1, FinishIsIdle
  <2> QED BY <2>1 DEF SchemaInv, RunsAreWhole, IsIdle
<1> QED BY <1>1, <1>4, <1>5, TablesStayTidy DEF TidyStep

\* An update is planned for a row of the snapshot, with the kind it has there.
LEMMA PlannedIsTidy ==
  ASSUME NEW K, NEW F, NEW n, NEW b, NEW s, NEW allow, \A bt \in b : IsType(bt),
         \A g \in s.fields : Tells(K, F, n, FieldId(g), g.kind),
         NEW u \in PlanSchema(b, s, allow).updateFields
  PROVE  TidyUpdate(K, F, n, u)
<1>1. PICK q \in FieldPairs(b, s) :
        /\ q[2].kind = q[3].kind
        /\ u = <<FieldId(q[3]), q[2].kind, FieldChanges(s, q[2], q[3])>>
  BY DEF PlanSchema
<1>2. PICK a \in TypePairs(b, s) : \E bf \in a[1].fields : \E f \in SnapFields(s, a[2]) :
        q = <<a[2], bf, f>>
  BY InFieldPairs
<1>3. q[3] \in s.fields /\ IsField(q[2])
  <2>1. IsType(a[1])
    BY InTypePairs
  <2> QED BY <1>2, <2>1 DEF SnapFields, IsType
<1>4. PICK ch : ch = FieldChanges(s, q[2], q[3])
  OBVIOUS
<1>5. "unique" \in DOMAIN ch => ch["unique"] = EffectiveUnique(q[2])
  BY <1>3, <1>4, FieldChangesArePlanned
<1>6. u[1] = FieldId(q[3]) /\ u[2] = q[3].kind /\ u[2] = q[2].kind /\ u[3] = ch
  BY <1>1, <1>4
<1>7. u[2] \in Implicit => EffectiveUnique(q[2]) = TRUE
  BY <1>6 DEF EffectiveUnique, Implicit
<1> QED BY <1>3, <1>5, <1>6, <1>7 DEF TidyUpdate

LEMMA IdleIsTidy ==
  ASSUME NEW K, NEW F, NEW n, NEW x, IsIdle(x) \/ x.pc = "types"
  PROVE  TidyRun(K, F, n, x)
BY DEF IsIdle, TidyRun, Planning

LEMMA BeginIsTidy ==
  ASSUME SchemaInv, NEW K, NEW p \in Appliers, NEW b, NEW allow, NEW boot, Begin(p, b, allow, boot)
  PROVE  \E x : run' = [run EXCEPT ![p] = x] /\ TidyRun(K, fields, tx, x)
<1>1. CASE ~ValidBundle(b)
  BY <1>1, IdleIsIdle, IdleIsTidy DEF Begin
<1>2. CASE ValidBundle(b)
  <2> DEFINE x == [pc |-> "types", boot |-> boot, done |-> run[p].done, retried |-> FALSE,
                  bundle |-> b, allow |-> allow, snap |-> EmptySnapshot,
                  plan |-> NoValue, known |-> {}, since |-> 0]
  <2>1. run' = [run EXCEPT ![p] = x] /\ x.pc = "types"
    BY <1>2 DEF Begin
  <2> HIDE DEF x
  <2> QED BY <2>1, IdleIsTidy
<1> QED BY <1>1, <1>2

LEMMA ApplyStepsStayTidy ==
  ASSUME SchemaInv, NEW K, Tidy(K), NEW p \in Appliers,
         ClientApplies(p) \/ BootApplies(p) \/ ReadTypes(p) \/ ReadCounts(p)
           \/ Plan(p) \/ Replan(p) \/ DryRun(p) \/ ExecuteFails(p)
  PROVE  Tidy(K)'
<1> DEFINE tidy(x) == TidyRun(K, fields, tx, x)
<1>1. UNCHANGED <<types, fields, entries, tx, req>>
  BY DEF ClientApplies, BootApplies, ReadTypes, ReadCounts, Plan, Replan, DryRun, ExecuteFails
<1>2. SUFFICES \E x : run' = [run EXCEPT ![p] = x] /\ tidy(x)
  BY <1>1, RunsStayTidy
<1>3. tidy(run[p])
  BY DEF Tidy
<1>4. run[p].pc # "idle" => IsBusy(tx, run[p])
  BY WorkersAreBusy
<1>5. CASE ClientApplies(p) \/ BootApplies(p)
  <2>1. PICK b, allow, boot : Begin(p, b, allow, boot)
    BY <1>5 DEF ClientApplies, BootApplies
  <2> QED BY <2>1, BeginIsTidy
<1>6. CASE ReadTypes(p)
  <2>1. PICK x : /\ run' = [run EXCEPT ![p] = x]
                 /\ \/ run[p].pc = "types" /\ x.pc = "counts"
                    \/ run[p].pc = "types2" /\ x.pc = "counts2"
                 /\ x.snap.fields = fields /\ x.plan = run[p].plan
    BY <1>6, ReadTypesGoesOn
  <2>2. \A g \in x.snap.fields : Tells(K, fields, tx, FieldId(g), g.kind)
    BY <2>1, OwnKindIsTold
  <2>3. tidy(x)
    BY <1>3, <2>1, <2>2 DEF TidyRun, Planning
  <2> QED BY <2>1, <2>3
<1>7. CASE ReadCounts(p)
  <2>1. PICK x : /\ run' = [run EXCEPT ![p] = x]
                 /\ \/ run[p].pc = "counts" /\ x.pc = "entries"
                    \/ run[p].pc = "counts2" /\ x.pc = "entries2"
                 /\ x.snap.fields = run[p].snap.fields /\ x.plan = run[p].plan
    BY <1>7, ReadCountsGoesOn
  <2>2. tidy(x)
    BY <1>3, <2>1 DEF TidyRun, Planning
  <2> QED BY <2>1, <2>2
<1>8. CASE Plan(p)
  <2>1. CASE \E x : run' = [run EXCEPT ![p] = x] /\ IsIdle(x)
    BY <2>1, IdleIsTidy
  <2>2. CASE \E x : /\ run' = [run EXCEPT ![p] = x]
                    /\ run[p].pc = "entries" /\ x.pc = "types2" /\ x.plan = Planned(p)
    <3>1. PICK x : /\ run' = [run EXCEPT ![p] = x]
                   /\ run[p].pc = "entries" /\ x.pc = "types2" /\ x.plan = Planned(p)
      BY <2>2
    <3>2. IsBusy(tx, run[p])
      BY <1>4, <3>1
    <3>3. \A bt \in run[p].bundle : IsType(bt)
      BY <3>2, FilesAreBundles DEF IsBusy
    <3>4. \A g \in Seen(p).fields : Tells(K, fields, tx, FieldId(g), g.kind)
      <4>1. Seen(p).fields = run[p].snap.fields
        BY <3>2, SeenIsSnapshot DEF IsBusy
      <4> QED BY <1>3, <3>1, <4>1 DEF TidyRun
    <3>5. x.plan = PlanSchema(run[p].bundle, Seen(p), run[p].allow)
      BY <3>1 DEF Planned, Seen
    <3>6. \A u \in x.plan.updateFields : TidyUpdate(K, fields, tx, u)
      BY <3>3, <3>4, <3>5, PlannedIsTidy
    <3>7. tidy(x)
      BY <3>1, <3>6 DEF TidyRun
    <3> QED BY <3>1, <3>7
  <2> QED BY <1>8, <2>1, <2>2, PlanGoesOn
<1>9. CASE Replan(p)
  <2>1. CASE \E x : run' = [run EXCEPT ![p] = x] /\ IsIdle(x)
    BY <2>1, IdleIsTidy
  <2>2. CASE \E x : /\ run' = [run EXCEPT ![p] = x] /\ run[p].pc = "entries2"
                    /\ \/ x.pc = "execute" /\ x.plan = run[p].plan
                       \/ x.pc = "types"
    <3>1. PICK x : /\ run' = [run EXCEPT ![p] = x] /\ run[p].pc = "entries2"
                   /\ \/ x.pc = "execute" /\ x.plan = run[p].plan
                      \/ x.pc = "types"
      BY <2>2
    <3>2. tidy(x)
      BY <1>3, <3>1 DEF TidyRun, Planning
    <3> QED BY <3>1, <3>2
  <2> QED BY <1>9, <2>1, <2>2, ReplanGoesOn
<1>10. CASE DryRun(p) \/ ExecuteFails(p)
  <2>1. IsBusy(tx, run[p]) /\ \E ok \in BOOLEAN : Finish(p, ok)
    BY <1>10, WorkersAreBusy DEF DryRun, ExecuteFails
  <2> QED BY <2>1, FinishIsIdle, IdleIsTidy
<1> QED BY <1>5, <1>6, <1>7, <1>8, <1>9, <1>10

LEMMA NextStaysTidy ==
  ASSUME NEW K, NobodyMakes(K), SchemaInv, Tidy(K), [Next]_vars
  PROVE  Tidy(K)'
<1>1. CASE CreateEntry \/ ArchiveEntry \/ DeleteEntry
  <2>1. Write /\ UNCHANGED <<types, fields, req, run>>
    BY <1>1 DEF CreateEntry, ArchiveEntry, DeleteEntry
  <2>2. TidyStep(K)
    BY <2>1, FewerFieldsAreTidy
  <2> QED BY <2>1, <2>2, TablesStayTidy DEF TidyStep
<1>2. CASE CreateType
  BY <1>2, CreateTypeStaysTidy
<1>3. CASE \E h \in Handlers : Handle(h)
  BY <1>3, AskFieldStaysTidy, AskEditStaysTidy, OtherAsksStayTidy, CommitStaysTidy DEF Handle
<1>4. CASE \E p \in Appliers : Apply(p)
  BY <1>4, ApplyStepsStayTidy, ExecuteStaysTidy DEF Apply
<1>5. CASE UNCHANGED vars
  BY <1>5 DEF vars, Tidy
<1> QED BY <1>1, <1>2, <1>3, <1>4, <1>5 DEF Next

LEMMA InitIsTidy ==
  ASSUME NEW K, NobodyMakes(K), Init
  PROVE  Tidy(K)
<1>1. \A p \in Appliers : TidyRun(K, fields, tx, run[p])
  BY DEF Init, Idle, TidyRun, Planning
<1> QED BY <1>1 DEF Init, Tidy, NobodyMakes

\* What the server exports, row by row.
ExportedField(portable, f) ==
  [id |-> IF portable THEN NoValue ELSE FieldId(f),
   ident |-> f.ident, kind |-> f.kind, required |-> f.required,
   unique |-> f.unique, order |-> f.order, opts |-> ExportOpts(f)]

ExportedType(portable, t) ==
  [id |-> IF portable THEN NoValue ELSE TypeId(t),
   ident |-> t.ident, name |-> t.name,
   fields |-> {ExportedField(portable, f) : f \in FieldsOf(TypeId(t))}]

LEMMA ExportedRows ==
  ASSUME NEW portable \in BOOLEAN, NEW b, b = ExportSchema(portable)
  PROVE  /\ b = {ExportedType(portable, t) : t \in types}
         /\ \A t : /\ ExportedType(portable, t).ident = t.ident
                   /\ ExportedType(portable, t).name = t.name
                   /\ ExportedType(portable, t).fields =
                        {ExportedField(portable, f) : f \in FieldsOf(TypeId(t))}
                   /\ ExportedType(portable, t).id \in {NoValue, TypeId(t)}
         /\ \A f : /\ ExportedField(portable, f).ident = f.ident
                   /\ ExportedField(portable, f).kind = f.kind
                   /\ ExportedField(portable, f).required = f.required
                   /\ ExportedField(portable, f).unique = f.unique
                   /\ ExportedField(portable, f).order = f.order
                   /\ ExportedField(portable, f).opts = ExportOpts(f)
                   /\ ExportedField(portable, f).id \in {NoValue, FieldId(f)}
<1>1. b = {ExportedType(portable, t) : t \in types}
  BY DEF ExportSchema, ExportedType, ExportedField
<1>2. ASSUME NEW t
      PROVE  /\ ExportedType(portable, t).ident = t.ident
             /\ ExportedType(portable, t).name = t.name
             /\ ExportedType(portable, t).fields =
                  {ExportedField(portable, f) : f \in FieldsOf(TypeId(t))}
             /\ ExportedType(portable, t).id \in {NoValue, TypeId(t)}
  BY DEF ExportedType
<1>3. ASSUME NEW f
      PROVE  /\ ExportedField(portable, f).ident = f.ident
             /\ ExportedField(portable, f).kind = f.kind
             /\ ExportedField(portable, f).required = f.required
             /\ ExportedField(portable, f).unique = f.unique
             /\ ExportedField(portable, f).order = f.order
             /\ ExportedField(portable, f).opts = ExportOpts(f)
             /\ ExportedField(portable, f).id \in {NoValue, FieldId(f)}
  BY DEF ExportedField
<1> QED BY <1>1, <1>2, <1>3

\* Where relations stay inside the bundle and rich text names no targets, what
\* is exported of a field's options is what the planner will see of them.
LEMMA ExportedOptions ==
  ASSUME SchemaInv, Tidy({"RELATION"}), NEW f \in fields, NEW opts, opts = ExportOpts(f),
         f.kind = "RELATION" => opts \subseteq {t.ident : t \in types},
         f.kind = "RICHTEXT" => opts = {}
  PROVE  SnapOpts(f, types) = opts
<1> DEFINE named == {t.ident : t \in {u \in types : TypeId(u) \in f.opts}}
           lost == {id \in f.opts : \A u \in types : TypeId(u) # id}
<1>1. f.kind \in {"RELATION", "RICHTEXT"} => opts = named \cup lost
  BY DEF ExportOpts
<1>2. CASE f.kind = "RELATION"
  <2>1. f.opts \cap Idents = {}
    BY <1>2 DEF Tidy, TidyRow
  <2>2. \A t \in types : t.ident \in Idents
    BY DEF SchemaInv, RowsHaveTypes, TypeOK, ContentType
  <2>3. lost = {}
    <3>1. lost \subseteq {t.ident : t \in types} /\ lost \subseteq f.opts
      BY <1>1, <1>2
    <3> QED BY <2>1, <2>2, <3>1
  <2> QED BY <1>1, <1>2, <2>3 DEF SnapOpts
<1>3. CASE f.kind = "RICHTEXT"
  <2>1. named = {} /\ lost = {}
    BY <1>1, <1>3
  <2>2. f.opts = {}
    <3>1. \A id \in f.opts : id \notin lost => \E t \in types : TypeId(t) = id
      OBVIOUS
    <3>2. \A t \in types : TypeId(t) \in f.opts => t.ident \in named
      OBVIOUS
    <3> QED BY <2>1, <3>1, <3>2
  <2> QED BY <1>3, <2>2 DEF SnapOpts
<1>4. CASE f.kind \notin {"RELATION", "RICHTEXT"}
  BY <1>4 DEF SnapOpts, ExportOpts
<1> QED BY <1>2, <1>3, <1>4

LEMMA ExportIsInStep ==
  ASSUME SchemaInv, Tidy({"RELATION"}), TitlesAreUnique,
         NEW portable \in BOOLEAN, NEW b, b = ExportSchema(portable), Closed(b)
  PROVE  InStep(b, types, fields)
<1> DEFINE Bt(t) == ExportedType(portable, t)
           Bf(f) == ExportedField(portable, f)
<1>1. b = {Bt(t) : t \in types}
  BY ExportedRows
<1>2. \A t : /\ Bt(t).ident = t.ident /\ Bt(t).name = t.name
             /\ Bt(t).fields = {Bf(f) : f \in FieldsOf(TypeId(t))}
             /\ Bt(t).id \in {NoValue, TypeId(t)}
  BY ExportedRows
<1>3. \A f : /\ Bf(f).ident = f.ident /\ Bf(f).kind = f.kind /\ Bf(f).required = f.required
             /\ Bf(f).unique = f.unique /\ Bf(f).order = f.order
             /\ Bf(f).opts = ExportOpts(f) /\ Bf(f).id \in {NoValue, FieldId(f)}
  BY ExportedRows
<1> HIDE DEF Bt, Bf
<1>4. ASSUME NEW t \in types, NEW f \in fields, f.type = TypeId(t)
      PROVE  InStepField(Bf(f), f, types)
  <2>1. Bt(t) \in b /\ Bf(f) \in Bt(t).fields
    BY <1>1, <1>2, <1>4 DEF FieldsOf
  <2>2. {u.ident : u \in b} = {u.ident : u \in types}
    BY <1>1, <1>2
  <2>3. /\ f.kind = "RELATION" => ExportOpts(f) \subseteq {u.ident : u \in types}
        /\ f.kind = "RICHTEXT" => ExportOpts(f) = {}
    BY <1>3, <2>1, <2>2 DEF Closed
  <2>4. SnapOpts(f, types) = ExportOpts(f)
    BY <2>3, ExportedOptions
  <2>5. f.unique = EffectiveUnique(Bf(f))
    <3>1. f.unique \in BOOLEAN
      BY DEF SchemaInv, RowsHaveTypes, TypeOK, ContentTypeField
    <3>2. f.kind \in {"ENTRY_TITLE", "SLUG"} => f.unique
      BY DEF TitlesAreUnique
    <3> QED BY <1>3, <3>1, <3>2 DEF EffectiveUnique
  <2> QED BY <1>3, <2>4, <2>5 DEF InStepField
<1>5. \A f, g \in fields : f.type = g.type /\ f.ident = g.ident => f = g
  BY DEF SchemaInv, TablesAreKeyed
<1>6. ASSUME NEW t \in types
      PROVE  InStepType(Bt(t), t, types, fields)
  <2>1. ASSUME NEW bf \in Bt(t).fields
        PROVE  \E f \in fields : f.type = TypeId(t) /\ bf = Bf(f)
    BY <1>2 DEF FieldsOf
  <2>2. ASSUME NEW f \in fields, f.type = TypeId(t)
        PROVE  Bf(f) \in Bt(t).fields
    BY <1>2, <2>2 DEF FieldsOf
  <2>3. ASSUME NEW f \in fields, f.type = TypeId(t), NEW bf \in Bt(t).fields
        PROVE  /\ f.ident = bf.ident => InStepField(bf, f, types)
               /\ bf.id = FieldId(f) => bf.ident = f.ident
    <3>1. PICK g \in fields : g.type = TypeId(t) /\ bf = Bf(g)
      BY <2>1
    <3>2. f.ident = bf.ident => f = g
      BY <1>3, <1>5, <2>3, <3>1
    <3>3. FieldId(f) = FieldId(g) => f.ident = g.ident
      BY DEF FieldId
    <3>4. NoValue # FieldId(f)
      BY IdsInFilesAreOld DEF FieldId, SchemaInv, RowsHaveTypes, TypeOK, ContentTypeField
    <3> QED BY <1>3, <1>4, <3>1, <3>2, <3>3, <3>4
  <2> QED BY <1>2, <1>3, <2>1, <2>2, <2>3 DEF InStepType
<1>7. ASSUME NEW bt \in b, NEW t \in types
      PROVE  /\ t.ident = bt.ident => InStepType(bt, t, types, fields)
             /\ bt.id = TypeId(t) => bt.ident = t.ident
  <2>1. PICK u \in types : bt = Bt(u)
    BY <1>1
  <2>2. t.ident = bt.ident => t = u
    BY <1>2, <2>1 DEF SchemaInv, TablesAreKeyed, NoRepeats
  <2>3. TypeId(t) = TypeId(u) => t.ident = u.ident
    BY DEF TypeId
  <2>4. NoValue # TypeId(t)
    BY SchemaConstants DEF TypeId, SchemaInv, RowsHaveTypes, TypeOK, ContentType
  <2> QED BY <1>2, <1>6, <2>1, <2>2, <2>3, <2>4
<1>8. /\ \A bt \in b : \E t \in types : t.ident = bt.ident
      /\ \A t \in types : \E bt \in b : t.ident = bt.ident
  BY <1>1, <1>2
<1> QED BY <1>7, <1>8 DEF InStep

\* A finite set of one element, and of at most one.
LEMMA OneOfASet ==
  ASSUME NEW S, IsFiniteSet(S)
  PROVE  /\ Cardinality(S) = 1 => \E x \in S : \A y \in S : y = x
         /\ Cardinality(S) <= 1 => \A x, y \in S : x = y
<1>1. Cardinality(S) = 1 => \E x : S = {x}
  BY FS_Singleton
<1>2. Cardinality(S) = 0 => S = {}
  BY FS_EmptySet
<1>3. Cardinality(S) \in Nat
  BY FS_CardinalityType
<1>4. Cardinality(S) <= 1 => Cardinality(S) = 0 \/ Cardinality(S) = 1
  BY <1>3
<1> QED BY <1>1, <1>2, <1>4

\* The command line's copy of the checks agrees with the server's.
LEMMA ValidBundlesValidate ==
  ASSUME NEW b, ValidBundle(b), Closed(b), \A bt \in b : IsFiniteSet(bt.fields)
  PROVE  ValidateSchemaBundle(b)
<1>1. ASSUME NEW bt \in b
      PROVE  \E bf \in bt.fields :
               /\ bf.kind = "ENTRY_TITLE"
               /\ \A other \in bt.fields \ {bf} : other.kind # "ENTRY_TITLE"
  <2> DEFINE S == {bf \in bt.fields : bf.kind = "ENTRY_TITLE"}
  <2>1. IsFiniteSet(S) /\ Cardinality(S) = 1
    BY FS_Subset DEF ValidBundle
  <2>2. PICK x \in S : \A y \in S : y = x
    BY <2>1, OneOfASet
  <2> QED BY <2>2
<1>2. ASSUME NEW bt \in b
      PROVE  \A bf, other \in {f \in bt.fields : f.kind = "SLUG"} : bf = other
  <2> DEFINE S == {bf \in bt.fields : bf.kind = "SLUG"}
  <2>1. IsFiniteSet(S) /\ Cardinality(S) <= 1
    BY FS_Subset DEF ValidBundle
  <2>2. \A x, y \in S : x = y
    BY <2>1, OneOfASet
  <2> QED BY <2>2
<1>3. \A bt \in b : \A bf \in bt.fields : bf.kind \in {"SELECT", "RELATION"} => bf.opts # {}
  BY DEF ValidBundle, ValidField
<1>4. VendoredValidBundle(b)
  BY <1>1, <1>2, <1>3 DEF VendoredValidBundle
<1>5. VendoredPlanOfNothing(b).blockers = {}
  <2> DEFINE lost == {p \in b \X UNION {bt.fields : bt \in b} :
                        /\ p[2] \in p[1].fields /\ p[2].kind = "RELATION"
                        /\ \E target \in p[2].opts : \A u \in b : u.ident # target}
  <2>1. lost = {}
    BY DEF Closed
  <2>2. VendoredPlanOfNothing(b).blockers = {<<p[1].ident, p[2].ident>> : p \in lost}
    BY DEF VendoredPlanOfNothing
  <2> QED BY <2>1, <2>2
<1> QED BY <1>4, <1>5 DEF ValidateSchemaBundle

LEMMA TidySchemasAreInStep ==
  ASSUME SchemaInv, Tidy({"RELATION"})
  PROVE  PulledSchemaIsInStep
<1>1. SUFFICES ASSUME TitlesAreUnique, NEW portable \in BOOLEAN, NEW b, b = ExportSchema(portable),
                      ValidBundle(b), Closed(b)
               PROVE  Settled(b, TRUE) /\ ValidateSchemaBundle(b)
  BY DEF PulledSchemaIsInStep
<1>2. Settled(b, TRUE)
  <2>1. PICK s : s = Snapshot
    OBVIOUS
  <2>2. s.types = types /\ s.fields = fields
    BY <2>1 DEF Snapshot
  <2>3. InStep(b, s.types, s.fields)
    BY <1>1, <2>2, ExportIsInStep
  <2>4. ~IsPlanNonEmpty(PlanSchema(b, s, TRUE)) /\ PlanSchema(b, s, TRUE).blockers = {}
    BY <2>3, InStepIsSettled
  <2> QED BY <2>1, <2>4 DEF Settled
<1>3. ASSUME NEW bt \in b
      PROVE  IsFiniteSet(bt.fields)
  <2>1. PICK t \in types : bt = ExportedType(portable, t)
    BY <1>1, ExportedRows
  <2>2. IsFiniteSet(FieldsOf(TypeId(t)))
    BY KeyedTablesAreFinite, FS_Subset DEF SchemaInv, RowsHaveTypes, FieldsOf
  <2> DEFINE own == FieldsOf(TypeId(t))
             row == [f \in own |-> ExportedField(portable, f)]
             img == {ExportedField(portable, f) : f \in own}
  <2>3. row \in Surjection(own, img)
    BY DEF Surjection
  <2>4. IsFiniteSet(img)
    BY <2>2, <2>3, FS_Surjection
  <2>5. bt.fields = img
    BY <2>1, ExportedRows, <1>1
  <2> QED BY <2>4, <2>5
<1>4. ValidateSchemaBundle(b)
  BY <1>1, <1>3, ValidBundlesValidate
<1> QED BY <1>2, <1>4

\* Where no PUT turns a field into a relation, whatever else clients, handlers
\* and applies do, a pulled schema passes `boject schema validate` and has
\* nothing to apply (export.get.ts, planSchema.ts).
THEOREM PulledSchemasAreInStep ==
  ASSUME NobodyMakes({"RELATION"})
  PROVE  Spec => []PulledSchemaIsInStep
<1>1. Init => Tidy({"RELATION"})
  BY InitIsTidy
<1>2. SchemaInv /\ Tidy({"RELATION"}) /\ [Next]_vars => Tidy({"RELATION"})'
  BY NextStaysTidy
<1>3. SchemaInv /\ Tidy({"RELATION"}) => PulledSchemaIsInStep
  BY TidySchemasAreInStep
<1> QED BY <1>1, <1>2, <1>3, SchemaInvariance, PTL DEF Spec

\* Only a PUT that turns a field into a title or a slug can leave one that is
\* not unique: handlers and applies never switch the flag off.
THEOREM TitlesStayUnique ==
  ASSUME NobodyMakes({"ENTRY_TITLE", "SLUG"})
  PROVE  Spec => []TitlesAreUnique
<1>1. Init => Tidy(Implicit)
  BY InitIsTidy DEF Implicit
<1>2. SchemaInv /\ Tidy(Implicit) /\ [Next]_vars => Tidy(Implicit)'
  BY NextStaysTidy DEF Implicit
<1>3. Tidy(Implicit) => TitlesAreUnique
  BY DEF Tidy, TidyRow, TitlesAreUnique, Implicit
<1> QED BY <1>1, <1>2, <1>3, SchemaInvariance, PTL DEF Spec
=============================================================================
