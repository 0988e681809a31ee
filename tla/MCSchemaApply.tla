---------------------------- MODULE MCSchemaApply ----------------------------
(***************************************************************************)
(* The instance TLC checks: two content types, one field each besides the   *)
(* title, two entries, and bundles that tighten, drop and retype.         *)
(***************************************************************************)
EXTENDS SchemaApply, TLC

CONSTANTS A, B, title, x, c, d, n1, n2, n3

TitleField == [id |-> NoValue, ident |-> title, kind |-> "ENTRY_TITLE",
               required |-> TRUE, unique |-> TRUE, order |-> 0, opts |-> {}]

Type(ident, name, extra) ==
  [id |-> NoValue, ident |-> ident, name |-> name, fields |-> {TitleField} \cup extra]

Field(kind, required, unique, opts) ==
  [id |-> NoValue, ident |-> x, kind |-> kind, required |-> required,
   unique |-> unique, order |-> 1, opts |-> opts]

Row(id, f, opts) ==
  [type |-> id, ident |-> f.ident, born |-> 0, kind |-> f.kind,
   required |-> f.required, unique |-> f.unique, order |-> f.order, opts |-> opts]

MCInitTypes ==
  {[ident |-> A, born |-> 0, name |-> n1], [ident |-> B, born |-> 0, name |-> n2]}

MCInitFields ==
  {Row(<<A, 0>>, TitleField, {}), Row(<<B, 0>>, TitleField, {}),
   Row(<<A, 0>>, Field("TEXT", FALSE, FALSE, {}), {}),
   Row(<<B, 0>>, Field("SELECT", FALSE, FALSE, {}), {c, d})}

Entry(id, name) ==
  [type |-> id, born |-> 0, live |-> TRUE,
   data |-> (title :> <<name, 0>>) @@ (x :> c)]

\* Two entries of A share a text; B has none yet.
MCInitEntries == {Entry(<<A, 0>>, "ENTRY_TITLE"), Entry(<<A, 0>>, "SLUG")}

TextOfA == Field("TEXT", FALSE, FALSE, {})
ChoiceOfB == Field("SELECT", FALSE, FALSE, {c, d})

\* The schema as it is.
AsIs == {Type(A, n1, {TextOfA}), Type(B, n2, {ChoiceOfB})}
\* The text of A unique.
Unique == {Type(A, n1, {Field("TEXT", FALSE, TRUE, {})}), Type(B, n2, {ChoiceOfB})}
\* One choice less for B, and the field required.
Tightened == {Type(A, n1, {TextOfA}), Type(B, n2, {Field("SELECT", TRUE, FALSE, {c})})}
\* The field of A and the whole of B go, and A is renamed.  The file leaves
\* `unique` out.
Reduced == {[Type(A, n3, {}) EXCEPT !.fields = {[TitleField EXCEPT !.unique = NoValue]}]}
\* A file that still carries the ids of A and calls it B.
RenamedByHand == {[Type(B, n2, {}) EXCEPT !.id = <<A, 0>>]}
NoTitle == {[Type(A, n1, {}) EXCEPT !.fields = {Field("TEXT", FALSE, FALSE, {})}]}
MCBundles == {Unique, Reduced, NoTitle}
MCAsIs == {AsIs}
MCBootDir == <<Tightened, RenamedByHand>>
MCNewTypes == {Type(B, n1, {Field("RELATION", FALSE, FALSE, {A})})}
MCNewFields == {Field("TEXT", FALSE, FALSE, {})}
MCFieldEdits == {[unique |-> TRUE], [kind |-> "TEXT"], [kind |-> "SLUG"]}
=============================================================================
