---------------------------- MODULE EntryPanes -----------------------------
(***************************************************************************)
(* The entry page of the admin client (pages/entries/[...stack].vue): the  *)
(* editor of the root entry and the panes stacked on it, one per segment   *)
(* of the URL. A pane is opened from a relation field of the editor under  *)
(* it and, once saved, puts its entry into that field.                     *)
(*                                                                         *)
(* Positions are those of the stack: the root is at 1, the pane with index *)
(* idx of the code at idx + 2. Navigation has no asynchronous guard, so a  *)
(* handler, the navigation it starts and the question of the guard are one *)
(* step. Requests are answered one by one, in any order that arises.       *)
(***************************************************************************)
EXTENDS EntryEditor

CONSTANTS
    FirstStore,   \* the entries when the page is opened
    FirstStacks,  \* the URLs it is opened with
    Typed,        \* the titles the user types
    MaxPanes,     \* panes on the page
    MaxEvents,    \* clicks of the user and faults in one visit
    MaxFaults     \* requests that fail, or whose answer is lost

VARIABLES
    store,    \* the entries on the server
    stack,    \* the segments of the URL; none once the page is left
    ed,       \* the editor of each segment
    pending,  \* pendingSideEffect, by position
    picker,   \* the picker modal: the field and the position it fills
    past,     \* the browser's history behind the current URL
    held,     \* history: the contents each entry has had
    clicks, faults

vars == <<store, stack, ed, pending, picker, past, held, clicks, faults>>

Positions == 1..(MaxPanes + 1)
NothingPending == [p \in Positions |-> None]

Top == Len(stack)
TopEd == ed[Top]
TopSeg == stack[Top]

ContentsNow(s) == [e \in Entries |-> IF e \in Live(s) THEN ContentsOf(s[e]) ELSE {}]

Init ==
    /\ store = FirstStore
    /\ stack \in FirstStacks
    /\ ed = [p \in 1..Len(stack) |-> Mounted(stack[p], None)]
    /\ pending = NothingPending
    /\ picker = None
    /\ past = <<>>
    /\ held = ContentsNow(FirstStore)
    /\ clicks = 0
    /\ faults = 0

-----------------------------------------------------------------------------
(* Navigation. *)

\* onBeforeRouteUpdate: is the user asked before the panes go?
Asks(target, eds) ==
    \E p \in (Len(target) + 1)..Len(eds) : IsDirty(eds[p])

\* The page is keyed by its root; a pane is keyed by its index.
EditorsAt(target, eds, field) ==
    [p \in 1..Len(target) |->
        IF Head(target) # Head(stack) THEN Mounted(target[p], None)
        ELSE IF p > Len(eds) THEN Mounted(target[p], field)
        ELSE IF target[p] # stack[p] THEN Redirected(eds[p], target[p])
        ELSE eds[p]]

\* The writes of the editors that go are still on their way to the server.
Strays(target, eds) ==
    UNION {eds[p].ops : p \in {q \in 1..Len(eds) :
              q > Len(target) \/ Head(target) # Head(stack)}}

Aftermath(s, target, eds) ==
    {s} \cup {Serve(s, op).store : op \in Strays(target, eds)}

\* The page at another URL of the same root.
Go(target, eds) ==
    /\ stack' = target
    /\ ed' = EditorsAt(target, eds, None)

Pushed == past' = Append(past, stack)

Leave ==
    /\ stack' = <<>>
    /\ ed' = <<>>
    /\ pending' = NothingPending
    /\ picker' = None
    /\ past' = <<>>

\* truncateDeeperSideEffects
UpTo(top) == [p \in Positions |-> IF p <= top THEN pending[p] ELSE None]

-----------------------------------------------------------------------------
(* The user's clicks. The topmost editor covers the ones below it.         *)

Click ==
    /\ stack # <<>>
    /\ clicks + faults < MaxEvents
    /\ clicks' = clicks + 1
    /\ UNCHANGED faults

PageClick == Click /\ picker = None

\* Opening and closing the picker is not counted.
FreeClick == stack # <<>> /\ clicks + faults < MaxEvents /\ UNCHANGED <<clicks, faults>>

OnlyEditor(e2) ==
    /\ ed' = [ed EXCEPT ![Top] = e2]
    /\ UNCHANGED <<store, stack, pending, picker, past>>

TypeTitle(t) ==
    /\ PageClick
    /\ Editable(TopEd, TopSeg)
    /\ t # TopEd.form.title
    /\ OnlyEditor([TopEd EXCEPT !.form.title = t])

RemoveReference(f, e) ==
    /\ PageClick
    /\ Editable(TopEd, TopSeg)
    /\ IF f = "one" THEN TopEd.form.one = e ELSE e \in TopEd.form.many
    /\ OnlyEditor(IF f = "one" THEN [TopEd EXCEPT !.form.one = None]
                  ELSE [TopEd EXCEPT !.form.many = @ \ {e}])

Unclaimed == {e \in Entries :
    store[e] = Unborn /\ \A p \in 1..Top : \A op \in ed[p].ops : op.id # e}

\* What navigation left in the editor of another entry is saved as its own.
Body(e, seg) == IF e.strayed THEN [e.form EXCEPT !.of = seg] ELSE e.form

Op(kind) == [kind |-> kind, new |-> FALSE, id |-> TopSeg, data |-> Body(TopEd, TopSeg)]

\* The body of the request is a copy of the form at the click.
SaveOp(kind) ==
    IF TopSeg # New THEN Op(kind)
    ELSE [Op(kind) EXCEPT !.new = TRUE, !.id = CHOOSE e \in Unclaimed : TRUE]

ClickSave(kind) ==
    /\ PageClick
    /\ CanSave(TopEd)
    /\ Validates(TopEd, TopSeg)
    /\ TopSeg = New => Unclaimed # {}
    /\ OnlyEditor(StartSave(TopEd, SaveOp(kind)))

NotYet(kind) == \A op \in TopEd.ops : op.kind # kind

ClickDiscard ==
    /\ PageClick
    /\ TopSeg # New
    /\ TopEd.status = "CHANGED"
    /\ NotYet("discard")
    /\ OnlyEditor(StartDiscard(TopEd, Op("discard")))

ClickAction(kind) ==
    /\ PageClick
    /\ TopSeg # New
    /\ kind \in Offered(TopEd)
    /\ NotYet(kind)
    /\ OnlyEditor(Asked(TopEd, Op(kind)))

\* Something is added: a RELATION field that has a value offers no "add".
OpenPicker(f) ==
    /\ FreeClick
    /\ picker = None
    /\ Editable(TopEd, TopSeg)
    /\ f = "one" => TopEd.form.one = None
    /\ picker' = [field |-> f, at |-> Top]
    /\ pending' = UpTo(Top)
    /\ UNCHANGED <<store, stack, ed, past>>

PendingFor(f, from) == [pending EXCEPT ![from + 1] = f]

\* openPane: the field is filed under the position above the opener, the
\* segment goes on what is left of the stack.
OpenPane(seg, f, from) ==
    LET target == Append(SubSeq(stack, 1, IF from < Top THEN from ELSE Top), seg)
    IN
    /\ from <= MaxPanes
    /\ pending' = PendingFor(f, from)
    /\ stack' = target
    /\ ed' = EditorsAt(target, ed, IF Len(target) = from + 1 THEN f ELSE None)
    /\ Pushed

EditReference(f, e) ==
    /\ PageClick
    /\ Editable(TopEd, TopSeg)
    /\ IF f = "one" THEN TopEd.form.one = e ELSE e \in TopEd.form.many
    /\ OpenPane(e, f, Top)
    /\ UNCHANGED <<store, picker>>

\* The list the modal shows. (Nobody but this user deletes entries, and not
\* while it is open: it is never stale.)
Pickable == Live(store)

PickerSelect(e) ==
    /\ Click
    /\ picker # None
    /\ e \in Pickable
    /\ ed' = [p \in 1..Top |->
                IF p = picker.at
                THEN ApplyFieldUpdate(ed[p], stack[p], picker.field, e) ELSE ed[p]]
    /\ picker' = None
    /\ UNCHANGED <<store, stack, pending, past>>

PickerCreate ==
    /\ Click
    /\ picker # None
    /\ OpenPane(New, picker.field, picker.at)
    /\ picker' = None
    /\ UNCHANGED store

PickerClose ==
    /\ FreeClick
    /\ picker # None
    /\ picker' = None
    /\ UNCHANGED <<store, stack, ed, pending, past>>

\* The user keeps the panes from p on: what they were opened for is forgotten
\* already.
Kept(eds, p) ==
    [q \in DOMAIN eds |->
        IF q >= p THEN Forgetful(eds[q]) ELSE eds[q]]

\* The pane p goes, and what is on top of it, unless the user keeps a dirty one.
CloseFrom(p, eds, yes) ==
    LET target == SubSeq(stack, 1, p - 1) IN
    /\ pending' = UpTo(p - 1)
    /\ IF ~yes /\ Asks(target, eds)
       THEN ed' = Kept(eds, p) /\ UNCHANGED <<stack, past>>
       ELSE Go(target, eds) /\ Pushed

ClosePane(yes) ==
    /\ PageClick
    /\ Top > 1
    /\ CloseFrom(Top, ed, yes)
    /\ store' \in Aftermath(store, stack', ed)
    /\ UNCHANGED picker

\* The browser's Back button, by one. Nothing but the URL is told.
Back(yes) ==
    /\ Click
    /\ past # <<>>
    /\ LET target == Last(past) IN
       /\ ~yes => ~Asks(target, ed)
       /\ store' \in Aftermath(store, target, ed)
       /\ Go(target, ed)
       /\ IF Head(target) = Head(stack) THEN UNCHANGED <<pending, picker>>
          ELSE pending' = NothingPending /\ picker' = None
    /\ past' = Front(past)

\* A link away from the page: onBeforeRouteLeave.
LeavePage(yes) ==
    /\ PageClick
    /\ (\E p \in 1..Top : IsDirty(ed[p])) => yes
    /\ store' \in {store} \cup {Serve(store, op).store :
                                  op \in UNION {ed[p].ops : p \in 1..Top}}
    /\ Leave

-----------------------------------------------------------------------------
(* The answers. *)

\* Mutant: the parent is taken to be the editor the index points at.
ParentByIndex(p) == IF p > 2 THEN p - 2 ELSE 1

Parent(p) == p - 1

\* handlePaneSaved: the reference to the editor below, then the segment.
PaneSaved(eds, p, e) ==
    LET f    == pending[p]
        up   == Parent(p)
        told == IF f = None THEN eds
                ELSE [eds EXCEPT ![up] = ApplyFieldUpdate(@, stack[up], f, e)]
        paid == [told EXCEPT ![p].owed = None]
    IN
    /\ pending' = [pending EXCEPT ![p] = None]
    /\ stack' = [stack EXCEPT ![p] = IF @ = New THEN e ELSE @]
    /\ ed' = [paid EXCEPT ![p] = IF stack[p] = New THEN Repointed(@, e) ELSE @]

\* emitSaved without a new id: an existing entry says "saved" even when the
\* request failed; a new one, and the root, say nothing.
SaveEnded(eds, p) ==
    IF p = 1 \/ stack[p] = New THEN ed' = eds /\ UNCHANGED <<stack, pending>>
    ELSE PaneSaved(eds, p, stack[p])

\* The root was new: the page becomes that of the created entry.
RootCreated(eds, e, yes) ==
    IF ~yes /\ Asks(<<e>>, eds)
    THEN ed' = eds /\ UNCHANGED <<stack, pending, picker>>
    ELSE /\ stack' = <<e>>
         /\ ed' = <<Mounted(e, None)>>
         /\ pending' = NothingPending
         /\ picker' = None

Faulty(n) ==
    /\ n > 0 => faults < MaxFaults /\ clicks + faults < MaxEvents
    /\ faults' = faults + n

\* How a write ends: the server's answer, no answer although it was done, or
\* no answer because it never arrived.
Outcomes(op) ==
    LET r == Serve(store, op) IN
    {[store |-> r.store, answer |-> r.answer, fault |-> 0],
     [store |-> r.store, answer |-> "error", fault |-> 1],
     [store |-> store,   answer |-> "error", fault |-> 1]}

Lands(op, out) ==
    /\ Faulty(out.fault)
    /\ store' = out.store
    /\ UNCHANGED <<past, clicks>>

SaveLands(p, op, out, yes) ==
    LET free == SaveFailed(ed[p], op, out.answer)
        back == [ed EXCEPT ![p] = free]
        done == Refresh(ed[p], op, stack[p])
    IN
    /\ op.kind \in {"save", "publish"}
    /\ Lands(op, out)
    /\ IF out.answer = "ok" /\ op.new
       THEN IF p = 1 THEN RootCreated(back, op.id, yes)
                     ELSE PaneSaved(back, p, op.id) /\ UNCHANGED picker
       ELSE IF out.answer = "ok"
       THEN /\ ed' = [ed EXCEPT ![p] = IF stack[p] = New
                                       THEN Continued(done, op.kind) ELSE done]
            /\ UNCHANGED <<stack, pending, picker>>
       ELSE SaveEnded(back, p) /\ UNCHANGED picker

ActionLands(p, op, out) ==
    LET done == Refresh(ed[p], op, stack[p]) IN
    /\ op.kind \in {"discard", "unpublish"}
    /\ Lands(op, out)
    /\ ed' = [ed EXCEPT ![p] =
          IF out.answer = "ok"
          THEN IF stack[p] = New THEN Continued(done, op.kind) ELSE done
          ELSE Continued(Answered(ed[p], op), op.kind)]
    /\ UNCHANGED <<stack, pending, picker>>

\* handleDelete and handlePaneDeleted: the pane closes, unless it is dirty and
\* kept, and the editor under it forgets the entry the pane shows by now.
DeleteLands(p, op, out, yes) ==
    LET back == [ed EXCEPT ![p] = Answered(@, op)]
        up   == Parent(p)
        rid  == [back EXCEPT ![up] = PurgeReference(@, stack[up], stack[p])]
    IN
    /\ op.kind = "delete"
    /\ Faulty(out.fault)
    /\ UNCHANGED clicks
    /\ IF out.answer # "ok"
       THEN store' = out.store /\ ed' = back /\ UNCHANGED <<stack, pending, picker, past>>
       ELSE IF p = 1 THEN store' = out.store /\ Leave
       ELSE /\ CloseFrom(p, rid, yes)
            /\ store' \in Aftermath(out.store, stack', rid)
            /\ UNCHANGED picker

\* The server reads the entry a load asks for.
GetRead(p, k) ==
    LET g == ed[p].gets[k] IN
    /\ g.got = None
    /\ ed' = [ed EXCEPT ![p].gets[k].got =
          IF g.id \in Live(store)
          THEN [data |-> WorkingContent(store[g.id]), status |-> StatusOf(store[g.id])]
          ELSE Gone]
    /\ UNCHANGED <<store, stack, pending, picker, past, clicks, faults>>

\* ... and its answer arrives, or fails on the way.
GetLands(p, k, arrives) ==
    LET g    == ed[p].gets[k]
        rest == [ed[p] EXCEPT !.gets = RemoveAt(@, k)]
        next == Continued(Loaded(rest, stack[p], g.id, IF arrives THEN g.got ELSE Gone), g.why)
    IN
    /\ arrives => g.got # None
    /\ Faulty(IF arrives THEN 0 ELSE 1)
    /\ IF g.why \in {"save", "publish"}
       THEN SaveEnded([ed EXCEPT ![p] = next], p)
       ELSE ed' = [ed EXCEPT ![p] = next] /\ UNCHANGED <<stack, pending>>
    /\ UNCHANGED <<store, picker, past, clicks>>

-----------------------------------------------------------------------------
ReferenceClick ==
    \E f \in Fields, e \in Entries : RemoveReference(f, e) \/ EditReference(f, e)

EditorClick ==
    \/ \E t \in Typed : TypeTitle(t)
    \/ \E kind \in {"save", "publish"} : ClickSave(kind)
    \/ ClickDiscard
    \/ \E kind \in {"unpublish", "delete"} : ClickAction(kind)
    \/ ReferenceClick

PickerClick ==
    \/ \E f \in Fields : OpenPicker(f)
    \/ \E e \in Entries : PickerSelect(e)
    \/ PickerCreate
    \/ PickerClose

Answer ==
    \E p \in 1..Len(stack) :
        \/ \E op \in ed[p].ops : \E out \in Outcomes(op) :
              \/ \E yes \in BOOLEAN : SaveLands(p, op, out, yes)
              \/ ActionLands(p, op, out)
              \/ \E yes \in BOOLEAN : DeleteLands(p, op, out, yes)
        \/ \E k \in 1..Len(ed[p].gets) :
              GetRead(p, k) \/ \E arrives \in BOOLEAN : GetLands(p, k, arrives)

Step ==
    \/ EditorClick
    \/ PickerClick
    \/ \E yes \in BOOLEAN : ClosePane(yes) \/ Back(yes) \/ LeavePage(yes)
    \/ Answer

Next ==
    /\ Step
    /\ held' = [e \in Entries |-> held[e] \cup ContentsNow(store')[e]]

Spec == Init /\ [][Next]_vars

-----------------------------------------------------------------------------
Contents == [title : Titles \cup {Blank}, one : Entries \cup {None},
             many : SUBSET Entries, of : Entries \cup {New, None}]

TypeOK ==
    /\ Len(ed) = Len(stack)
    /\ \A p \in 1..Len(ed) :
          /\ ed[p].form \in Contents
          /\ ed[p].snap \in Contents
          /\ ed[p].loading \in {"pending", "success", "error"}
          /\ \A op, other \in ed[p].ops :
                op.kind = other.kind /\ op.kind \notin {"save", "publish"} => op = other
    /\ pending[1] = None
    /\ \A p \in Positions : pending[p] \in Fields \cup {None}
    /\ \A e \in Live(store) : ContentsOf(store[e]) \subseteq Contents

(* An editor whose entry is loaded and which shows no unsaved edits shows   *)
(* what the server has held for that entry: the snapshot never takes edits  *)
(* for saved that no request carried. (A refresh that fails is the          *)
(* exception the code makes: saveDraft snapshots after it all the same.)    *)
CleanFormsAreStored ==
    /\ TypeOK
    /\ \A p \in 1..Len(ed) :
         ed[p].loading = "success" /\ ed[p].entry # None /\ ~IsDirty(ed[p])
             => ed[p].form \in held[ed[p].entry]

(* What an entry holds was written in its own editor: no save puts the      *)
(* content of one entry, or the empty form of one that is still loading,    *)
(* into another. (Excepted is what nothing in the code prevents: a pane     *)
(* that Back points at another entry keeps its form until an answer to a    *)
(* load arrives, shows the answer that arrives last whatever entry it is    *)
(* of, and can be saved all the while.)                                     *)
SavedContentIsItsOwn ==
    \A e \in Live(store) : \A d \in ContentsOf(store[e]) : d.of = e

(* A pane opened from a field of the editor under it puts its entry there   *)
(* with its first save, whatever was saved, closed and answered in between  *)
(* (handlePaneSaved) -- provided that no attempt to close it was refused    *)
(* (closePane forgets the field first) and the content type of that editor  *)
(* is known.                                                                *)
PaneSaveFillsItsField ==
    [][\A p \in 2..Len(stack) :
          /\ ed[p].owed \in Fields
          /\ Len(stack') >= p /\ Head(stack') = Head(stack)
          /\ ed'[p].owed = None
          /\ FieldsKnown(ed[p-1], stack[p-1])
          => stack'[p] \in IF ed[p].owed = "one" THEN {ed'[p-1].form.one}
                           ELSE ed'[p-1].form.many]_vars

(* When the entry of a pane is deleted, the editor under it no longer       *)
(* refers to it, whether or not the user lets the pane close                *)
(* (handlePaneDeleted).                                                     *)
DeletedEntryLeavesItsParent ==
    [][\A p \in 2..Len(stack) : \A op \in ed[p].ops :
          /\ op.kind = "delete" /\ op.id = stack[p]
          /\ store'[op.id] = Gone /\ store[op.id] # Gone
          /\ Len(stack') >= p - 1 /\ faults' = faults /\ clicks' = clicks
          /\ Len(stack') >= p => op \notin ed'[p].ops
          /\ FieldsKnown(ed[p-1], stack[p-1])
          => op.id \notin Refs(ed'[p-1].form)]_vars

(* A pane and the editor under it agree about the entry of the pane.        *)
PanesAnswerTheirParent == PaneSaveFillsItsField /\ DeletedEntryLeavesItsParent
=============================================================================
