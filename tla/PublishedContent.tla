-------------------------- MODULE PublishedContent --------------------------
(***************************************************************************)
(* What the entry store promises everyone outside the editor: of each      *)
(* entry at most one document is public, it keeps the time at which it was *)
(* first published for as long as it stays public, and an event tells what *)
(* became public, what went away, and nothing else.                        *)
(*                                                                         *)
(* The promise is made to requests that take turns.  An entry two requests *)
(* were working on at the same time is contested from then on: the code    *)
(* decides on rows it read before its transaction, so nothing is promised  *)
(* of it except that every change is announced (ChangesAreAnnounced).      *)
(***************************************************************************)
EXTENDS Naturals

CONSTANTS Entries, Data, Times, NoData, NoEvent, Contested

VARIABLES public,   \* what is public of each entry: {} or one document and time
          event     \* what the last step put in the outbox

vars == <<public, event>>

Tell(k, e, d) == event' = [kind |-> k, entry |-> e, data |-> d]

Init ==
    /\ public = [e \in Entries |-> {}]
    /\ event = NoEvent

\* The document d becomes what is public of e.
Publish(e, d) ==
    /\ public[e] # Contested
    /\ \E t \in IF public[e] = {} THEN Times ELSE {p.at : p \in public[e]} :
         public' = [public EXCEPT ![e] = {[data |-> d, at |-> t]}]
    /\ Tell("ENTRY_PUBLISHED", e, d)

\* What is public of e is announced once more.
Republish(e, d) ==
    /\ public[e] # Contested
    /\ \E p \in public[e] : p.data = d
    /\ Tell("ENTRY_PUBLISHED", e, d)
    /\ UNCHANGED public

\* What was public of e, the document d, is public no more.
Withdraw(e, d) ==
    /\ public[e] # Contested
    /\ \E p \in public[e] : p.data = d
    /\ public' = [public EXCEPT ![e] = {}]
    /\ \E k \in {"ENTRY_UNPUBLISHED", "ENTRY_DELETED"} : Tell(k, e, d)

\* Drafts come and go; the public sees nothing of it.
Edit(e) ==
    /\ public[e] # Contested
    /\ Tell("ENTRY_DRAFT_SYNC", e, NoData)
    /\ UNCHANGED public

\* A second request loads an entry that one is working on.
Overlap(e) ==
    /\ public' = [public EXCEPT ![e] = Contested]
    /\ event' = NoEvent

\* Nothing more is promised of a contested entry.
Unpromised(e) ==
    /\ public[e] = Contested
    /\ \E k \in {"ENTRY_PUBLISHED", "ENTRY_UNPUBLISHED", "ENTRY_DELETED", "ENTRY_DRAFT_SYNC"},
          d \in Data \cup {NoData} : Tell(k, e, d)
    /\ UNCHANGED public

\* A request is read, refused, or fails.
Silent == event' = NoEvent /\ UNCHANGED public

Next ==
    \/ \E e \in Entries :
         \/ \E d \in Data : Publish(e, d) \/ Republish(e, d) \/ Withdraw(e, d)
         \/ Edit(e)
         \/ Overlap(e)
         \/ Unpromised(e)
    \/ Silent

Spec == Init /\ [][Next]_vars
=============================================================================
