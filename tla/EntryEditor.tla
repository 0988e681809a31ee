---------------------------- MODULE EntryEditor ----------------------------
(***************************************************************************)
(* One entry editor of the admin client (useContentEntryEditor and         *)
(* useRelationFieldState) and the requests it makes, as operators on the   *)
(* record of an editor and on the entries of the server. EntryPanes opens  *)
(* several of these editors on one page.                                   *)
(*                                                                         *)
(* A form has a required and unique TEXT field, the title, one RELATION    *)
(* and one MULTIRELATION field. An absent field and a null one are the     *)
(* same here.                                                              *)
(* `of' is no field: it remembers the entry whose editor wrote the content.*)
(***************************************************************************)
EXTENDS Naturals, Sequences, SequencesExt, FiniteSets

CONSTANTS
    Entries,   \* every id an entry has or will have
    Titles,    \* what can be typed into the title
    Blank,     \* the title of an empty form
    New,       \* the sentinel new:<content type>
    None,
    Unborn,    \* an id that no entry has yet
    Gone       \* an id whose entry is deleted

Fields == {"one", "many"}

EmptyForm == [title |-> Blank, one |-> None, many |-> {}, of |-> None]

Refs(d) == d.many \cup ({d.one} \ {None})

-----------------------------------------------------------------------------
(* The server, as the editor sees it: a draft and a live content per entry. *)

Live(s) == {e \in Entries : s[e] \notin {Unborn, Gone}}

WorkingContent(v) == IF v.draft # None THEN v.draft ELSE v.live

StatusOf(v) ==
    IF v.live = None THEN "DRAFT"
    ELSE IF v.draft = None THEN "PUBLISHED" ELSE "CHANGED"

ContentsOf(v) == {v.draft, v.live} \ {None}

Taken(s, e, title) ==
    \E o \in Live(s) \ {e} : \E d \in ContentsOf(s[o]) : d.title = title

\* Mutant: only a publication needs the required fields.
AcceptsHalves(s, op) == Refs(op.data) \subseteq Live(s)

\* The required title is there, and every reference leads to an entry.
Accepts(s, op) ==
    /\ op.data.title # Blank
    /\ Refs(op.data) \subseteq Live(s)

WithContent(v, op) ==
    LET d == IF op.new THEN [op.data EXCEPT !.of = op.id] ELSE op.data IN
    IF op.kind = "publish" THEN [draft |-> None, live |-> d]
                           ELSE [v EXCEPT !.draft = d]

Unchanged(s, answer) == [store |-> s, answer |-> answer]

\* The answer to a request, and the entries after it.
Serve(s, op) ==
    LET v    == s[op.id]
        ok(w) == [store |-> [s EXCEPT ![op.id] = w], answer |-> "ok"]
    IN
    IF v = Gone THEN Unchanged(s, "error") ELSE
    CASE op.kind \in {"save", "publish"} ->
            IF ~Accepts(s, op) THEN Unchanged(s, "error")
            ELSE IF Taken(s, op.id, op.data.title) THEN Unchanged(s, "conflict")
            ELSE ok(WithContent(IF v = Unborn THEN [draft |-> None, live |-> None]
                                              ELSE v, op))
      [] op.kind = "discard" ->
            IF StatusOf(v) # "CHANGED" THEN Unchanged(s, "error")
            ELSE ok([v EXCEPT !.draft = None])
      [] op.kind = "unpublish" ->
            IF v.live = None THEN Unchanged(s, "error")
            ELSE ok([draft |-> WorkingContent(v), live |-> None])
      [] op.kind = "delete" -> ok(Gone)

-----------------------------------------------------------------------------
(* An editor.                                                              *)
(*   form, snap   the form and the snapshot it is compared with            *)
(*   entry        the entry of the last answer that was loaded, or None    *)
(*   loading      loadingStatus                                            *)
(*   status       the status of the last answer                            *)
(*   saving       isSaving                                                 *)
(*   refused      a unique conflict is among the field errors              *)
(*   gets         the loads asked for and not answered, oldest first       *)
(*   ops          the writes asked for and not answered                    *)
(*   owed         history: the field of the parent the pane was opened     *)
(*                from, until its first save                               *)
(*   strayed      history: navigation pointed the editor at another entry  *)
(*                and what it shows is not the answer about that one       *)

Get(e, why) == [id |-> e, got |-> None, why |-> why]

NewEditor ==
    [form |-> [EmptyForm EXCEPT !.of = New], snap |-> [EmptyForm EXCEPT !.of = New],
     entry |-> None, loading |-> "success", status |-> "DRAFT",
     saving |-> FALSE, refused |-> FALSE, gets |-> <<>>, ops |-> {},
     owed |-> None, strayed |-> FALSE]

Loading(ed, e, why) ==
    [ed EXCEPT !.loading = "pending", !.gets = Append(@, Get(e, why))]

\* loadEntry: a new entry has nothing to fetch, and its form is left alone.
LoadEntry(ed, seg, why) ==
    IF seg = New THEN [ed EXCEPT !.entry = None, !.loading = "success"]
    ELSE Loading(ed, seg, why)

Mounted(seg, field) ==
    LET empty == [NewEditor EXCEPT !.owed = field] IN
    IF seg = New THEN empty
    ELSE LoadEntry([empty EXCEPT !.form = EmptyForm, !.snap = EmptyForm], seg, "load")

\* The same component is given the segment of the entry it has created: what
\* was written as a new entry belongs to the entry it has become.
Repointed(ed, e) ==
    LoadEntry([ed EXCEPT !.form.of = e, !.snap.of = e], e, "load")

Forgetful(ed) == IF ed.owed = None THEN ed ELSE [ed EXCEPT !.owed = "forgotten"]

\* Navigation gives it another segment: entryId changes under it, the form and
\* the requests under way stay.
Redirected(ed, seg) ==
    LoadEntry([Forgetful(ed) EXCEPT !.strayed = TRUE], seg, "load")

IsDirty(ed) == ed.form # ed.snap

TakeSnapshot(ed) == [ed EXCEPT !.snap = ed.form]

\* The content type of an entry comes with the entry.
FieldsKnown(ed, seg) == seg = New \/ ed.entry # None

\* Without a form on screen there is nothing to validate.
Validates(ed, seg) ==
    ed.loading = "pending" \/ ~FieldsKnown(ed, seg)
        \/ (ed.form.title # Blank /\ ~ed.refused)

Editable(ed, seg) == ed.loading # "pending" /\ FieldsKnown(ed, seg)

\* The two buttons are live unless a published entry is unchanged.
CanSave(ed) == ~ed.saving /\ (ed.status = "PUBLISHED" => IsDirty(ed))

\* The action menu is there whether a save is under way or not.
Offered(ed) == {"delete"} \cup IF ed.status = "DRAFT" THEN {} ELSE {"unpublish"}

Asked(ed, op) == [ed EXCEPT !.ops = @ \cup {op}]

StartSave(ed, op) ==
    Asked([ed EXCEPT !.saving = TRUE, !.refused = FALSE], op)

StartDiscard(ed, op) == Asked([ed EXCEPT !.saving = TRUE], op)

Answered(ed, op) == [ed EXCEPT !.ops = @ \ {op}]

\* The catch and finally of a save: a conflict stays with the field.
SaveFailed(ed, op, answer) ==
    [Answered(ed, op) EXCEPT !.saving = FALSE, !.refused = @ \/ answer = "conflict"]

\* Mutant: the form is taken for saved as it is by now, and not loaded again.
RefreshNothing(ed, op, seg) ==
    TakeSnapshot([Answered(ed, op) EXCEPT !.saving = FALSE])

\* After a write that succeeded: refresh, of the entry the editor has now.
Refresh(ed, op, seg) == LoadEntry(Answered(ed, op), seg, op.kind)

\* What an answer to a load does to the form (the watch of entry), whatever
\* the editor shows by then.
Loaded(ed, seg, e, content) ==
    IF content = Gone THEN [ed EXCEPT !.entry = None, !.loading = "error"]
    ELSE [ed EXCEPT !.entry = e, !.loading = "success",
                    !.status = content.status,
                    !.form = content.data, !.snap = content.data,
                    !.strayed = e # seg]

\* ... and what the caller of the load goes on to do.
Continued(ed, why) ==
    LET free == [ed EXCEPT !.saving = FALSE] IN
    CASE why \in {"save", "publish"} -> TakeSnapshot(free)
      [] why = "discard" -> free
      [] OTHER -> ed

-----------------------------------------------------------------------------
(* The relation fields of a form. *)

ApplyFieldUpdate(ed, seg, f, e) ==
    IF ~FieldsKnown(ed, seg) THEN ed
    ELSE IF f = "one" THEN [ed EXCEPT !.form.one = e]
    ELSE [ed EXCEPT !.form.many = @ \cup {e}]

PurgeReference(ed, seg, e) ==
    IF ~FieldsKnown(ed, seg) THEN ed
    ELSE [ed EXCEPT !.form.one = IF @ = e THEN None ELSE @,
                    !.form.many = @ \ {e}]
=============================================================================
