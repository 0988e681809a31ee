--------------------------- MODULE MCBundleImport ---------------------------
(* Articles (A) relate to pages (B), embed and link entries; pages have an  *)
(* image.  One system holds an article and a page, one is empty and has     *)
(* their bundle, exported somewhere else, beside it.                        *)
EXTENDS BundleImport, TLC

CONSTANTS A, B, rel, body, img, k1, k2, i1, i2, o1, o2

Null == [refs |-> {}, image |-> NoValue]
None == [f \in {rel, body, img} |-> Null]

FieldsA(targets) == rel :> [kind |-> "RELATION", targets |-> targets]
                 @@ body :> [kind |-> "RICHTEXT", targets |-> {}]
FieldsB == img :> [kind |-> "IMAGE", targets |-> {}]
idA == <<A, 0>>
idB == <<B, 0>>
idP == <<B, k1, 0>>

Ref(node, type, id) == [node |-> node, to |-> [type |-> type, entry |-> id]]
Coded(node, ident, key) == [node |-> node, to |-> [ident |-> ident, key |-> key]]

Page(image) == [None EXCEPT ![img] = [refs |-> {}, image |-> image]]
Article ==
  [None EXCEPT ![rel] = [refs |-> {Ref("relation", idB, idP)}, image |-> NoValue],
               ![body] = [refs |-> {Ref("cmsEmbed", idB, idP), Ref("cmsLink", idB, idP)},
                          image |-> NoValue]]
CodedArticle ==
  [None EXCEPT ![rel] = [refs |-> {Coded("relation", B, k1)}, image |-> NoValue],
               ![body] = [refs |-> {Coded("cmsEmbed", B, k1)}, image |-> NoValue]]

FullWorld ==
  [types |-> {[id |-> idA, ident |-> A, fields |-> FieldsA({idB})],
              [id |-> idB, ident |-> B, fields |-> FieldsB]},
   entries |-> {[id |-> <<A, k1, 0>>, type |-> idA, key |-> k1,
                 versions |-> {[status |-> "PUBLISHED", data |-> Article]}],
                [id |-> idP, type |-> idB, key |-> k1,
                 versions |-> {[status |-> "DRAFT", data |-> Page(i1)]}]},
   blobs |-> {i1}]
EmptyWorld == [types |-> {}, entries |-> {}, blobs |-> {}]

NoFile == [kind |-> "json", bundle |-> NoValue, assets |-> NoValue]
CodedFields(fields, targets) ==
  [f \in DOMAIN fields |-> [kind |-> fields[f].kind,
     targets |-> IF f = rel THEN targets ELSE {}, ids |-> {}]]
Foreign ==
  [portable |-> TRUE,
   types |-> {[id |-> NoValue, ident |-> A, fields |-> CodedFields(FieldsA({}), {B})],
              [id |-> NoValue, ident |-> B, fields |-> CodedFields(FieldsB, {})]},
   entries |-> {[id |-> NoValue, ident |-> A, key |-> k1,
                 versions |-> {[status |-> "PUBLISHED", data |-> CodedArticle]}],
                [id |-> NoValue, ident |-> B, key |-> k1,
                 versions |-> {[status |-> "DRAFT", data |-> Page(i2)]}]}]
ForeignDir == [kind |-> "dir", bundle |-> Foreign, assets |-> {i2}]

\* Exported twice elsewhere, the second time entries only and with --no-assets.
StaleDir == [kind |-> "dir", assets |-> {i1},
             bundle |-> [portable |-> TRUE, types |-> NoValue,
                         entries |-> {be \in Foreign.entries : be.ident = B}]]

MCWorlds == {FullWorld, EmptyWorld}
MCFiles == {NoFile, ForeignDir, StaleDir}
MCNewTypes == {[ident |-> B, fields |-> FieldsB]}
MCNewData == {None}

Export(from, mode, portable, publishedOnly, target, noAssets) ==
  [from |-> from, mode |-> mode, portable |-> portable,
   publishedOnly |-> publishedOnly, contentType |-> NoValue, target |-> target,
   noAssets |-> noAssets]
MCExports ==
  {Export("cli", "all", TRUE, FALSE, "dir", FALSE),
   Export("cli", "entries", FALSE, FALSE, "dir", TRUE),
   Export("cli", "entries", TRUE, FALSE, "tar", FALSE),
   Export("http", "entries", TRUE, TRUE, "json", FALSE)}

Import(from, mode, onConflict, dryRun) ==
  [from |-> from, mode |-> mode, onConflict |-> onConflict, dryRun |-> dryRun]
MCImports ==
  {Import("cli", "all", "fail", FALSE), Import("cli", "entries", "replace", FALSE),
   Import("cli", "entries", "skip", FALSE), Import("http", "entries", "replace", FALSE),
   Import("cli", "all", "fail", TRUE)}
=============================================================================
