------------------------- MODULE MCEntryPublication -------------------------
(* Small instances of EntryPublication for TLC. *)
EXTENDS EntryPublication, TLC

\* Row ids, request slots and times are interchangeable: no action or property
\* tells two apart.
Interchangeable ==
    Permutations(Versions) \cup Permutations(Requests) \cup Permutations(Times)

\* Bound: requests that were in flight together finish in every order, and no
\* other is loaded after them.
OneRace == contested # {} => \A r \in Requests : req'[r] \in {req[r], Idle}
=============================================================================
