--------------------------- MODULE MCPublicCache ---------------------------
(* Small instances of PublicCache for TLC. *)
EXTENDS PublicCache, TLC

CONSTANTS a, b,     \* content types
          l, q      \* keys

\* A REST list of one type, and a query that lists that type and traverses to
\* another: only the entries of the second are harvested.
MCDepends == [k \in {l, q} |-> IF k = l THEN {a} ELSE {a, b}]
MCHarvested == [k \in {q} |-> {b}]

\* A REST list and a lookup by identifier of the same type share the index of its
\* tag.
SameDepends == [k \in {l, q} |-> {a}]
SameHarvested == [k \in {q} |-> {a}]
=============================================================================
