---------------------------- MODULE MCEntryLists ----------------------------
(* Three entries of one type, two of them written at the same instant, on   *)
(* pages of one: a reader who walks, searches and publishes, a client of    *)
(* the public API, and a user of the palette.                               *)
EXTENDS QueryBuilder, TLC

CONSTANTS A, B

Row(at, has) == [there |-> TRUE, at |-> at, has |-> has]
Tied == <<Row(1, {"PUBLISHED"}), Row(1, {"PUBLISHED", "CHANGED"}), Row(0, {"PUBLISHED"})>>
Mixed == <<Row(1, {"DRAFT"}), Row(1, {"ARCHIVED"}), Row(1, {"PUBLISHED"})>>

Spare(writes, clicks, keys) == [writes |-> writes, clicks |-> clicks, keys |-> keys]
Start(table0, who, where, query, spare) ==
  [table |-> table0, surface |-> who, scope |-> where, query |-> query, left |-> spare]

Token(f, op, raw) == [field |-> f, op |-> op, raw |-> raw]
MCDays == 0..40
MCIso == [d \in MCDays |-> [start |-> "from " \o ToString(d), end |-> "to " \o ToString(d)]]
MCDayMs == 4
EpochOfIso(text) ==
  LET d == CHOOSE d \in MCDays : text \in {MCIso[d].start, MCIso[d].end}
  IN  d * MCDayMs + IF text = MCIso[d].end THEN MCDayMs - 1 ELSE 0
Instant == "d30"    \* noon of day 30
MCEpochOf ==
  [text \in UNION {{MCIso[d].start, MCIso[d].end} : d \in MCDays} |-> EpochOfIso(text)]
    @@ Instant :> 30 * MCDayMs + 2
MCMonthOf == [d \in MCDays |-> IF d < 28 THEN 1 ELSE 2]
MCToday == 31

SomeQuery == [q |-> "", filters |-> <<Token("kind", "eq", <<"a">>)>>]
TwoChips == [q |-> "x", filters |-> <<Token("kind", "in", <<"a", "b">>),
                                      Token("$status", "eq", <<"DRAFT">>)>>]
MixedChips == [q |-> "", filters |-> <<Token("when", "between", <<MCIso[30].start, MCIso[31].end>>),
                                       Token("size", "gt", <<"7">>)>>]

MCStarts ==
  {Start(Tied, "public", A, NoQuery, Spare(2, 2, 0)),
   Start(Tied, "admin", A, NoQuery, Spare(1, 3, 0)),
   Start(Mixed, "admin", AllTypes, NoQuery, Spare(2, 2, 0)),
   Start(Mixed, "admin", A, SomeQuery, Spare(0, 4, 0)),
   Start(Mixed, "admin", AllTypes, NoQuery, Spare(0, 0, 5)),
   Start(Mixed, "admin", A, TwoChips, Spare(0, 0, 4)),
   Start(Mixed, "admin", A, MixedChips, Spare(0, 0, 4))}

MCTypeOf == <<A, A, A>>
MCHitLists == {<<[id |-> 3, status |-> "DRAFT"]>>}

MCFieldsOf == A :> ("kind" :> "SELECT" @@ "tags" :> "MULTIRELATION" @@ "when" :> "DATETIME"
                    @@ "size" :> "NUMBER" @@ "on" :> "BOOLEAN" @@ "body" :> "RICHTEXT")
           @@ B :> ("title" :> "ENTRY_TITLE" @@ "about" :> "RELATION")
MCOptions == "kind" :> {"a", "b"} @@ "tags" :> {"a", "b"} @@ "about" :> {"a"}
          @@ "on" :> {"true", "false"} @@ "$status" :> {"DRAFT", "CHANGED"}

MCNumberOf == "7" :> 7 @@ "7.0" :> 7 @@ "8" :> 8
MCWithin == {<<"x", "x">>, <<"x", "axe">>, <<"x", "xray">>, <<"7", "7">>}
MCLeads == {<<"x", "x">>, <<"x", "xray">>, <<"7", "7">>}
MCTitleOf == "a" :> "x" @@ "e3" :> "xray"

Json(kind, items) == [json |-> kind, items |-> items]
Text1(t) == Json("string", <<t>>)
Version(title, data) == [title |-> title, data |-> data]
Full == "kind" :> Text1("a") @@ "tags" :> Json("array", <<"a", "", "b">>) @@ "when" :> Text1(Instant)
     @@ "size" :> Json("number", <<"8">>) @@ "on" :> Json("boolean", <<"false">>)
     @@ "body" :> Json("doc", <<"xray">>)
Other == "kind" :> Text1("b") @@ "tags" :> Json("array", <<"a">>)
     @@ "when" :> Text1(MCIso[31].end) @@ "size" :> Json("number", <<"7.0">>)
     @@ "on" :> Json("boolean", <<"true">>)
Misfit == "kind" :> Text1("") @@ "tags" :> Json("array", <<"">>) @@ "when" :> Text1("soon")
     @@ "size" :> Text1("7") @@ "on" :> Text1("true") @@ "body" :> Text1("x")
MCSamples ==
  {[id |-> "e1", key |-> "x", type |-> A,
    versions |-> "CHANGED" :> Version("x", Full) @@ "PUBLISHED" :> Version("x", Other)],
   [id |-> "e2", key |-> "7", type |-> A, versions |-> "DRAFT" :> Version("7", Misfit)],
   [id |-> "e3", key |-> "axe", type |-> B,
    versions |-> "PUBLISHED" :> Version("xray", "about" :> Json("object", <<"a">>))],
   [id |-> "e4", key |-> "xray", type |-> B,
    versions |-> "DRAFT" :> Version("axe", "about" :> Json("object", <<"">>))
              @@ "ARCHIVED" :> Version("x", "about" :> Json("object", <<"a">>))]}
=============================================================================
