-------------------------- MODULE MCGraphqlQueries --------------------------
(* Small instances of GraphqlQueries for TLC. *)
EXTENDS GraphqlQueries

CONSTANTS A, B, C,      \* content types
          p, q, r       \* entries

\* C comes, and with it A's relation is moved from B to C; then C goes and leaves
\* dangling targets.
MCTypesAt == [n \in 0 .. MaxTypes |->
    CASE n = 0 -> [t \in {A, B} |-> [one  |-> IF t = A THEN {B} ELSE {A}, many |-> {B}]]
      [] n = 1 -> [t \in {A, B, C} |-> [one |-> IF t = C THEN {A} ELSE {C},
                                        many |-> IF t = A THEN {B, C} ELSE {C}]]
      [] OTHER -> [t \in {A, B} |-> [one |-> {C}, many |-> IF t = A THEN {B, C} ELSE {B}]]]

MCTypeOf == [x \in {p, q, r} |-> CASE x = p -> A [] x = q -> B [] OTHER -> C]

MCLastVersion == [x \in {p, q, r} |-> IF x = q THEN 2 ELSE 1]

MCContentOf == [x \in {p, q, r} |->
    CASE x = p -> <<[title |-> "pq", number |-> 1, at |-> 2, one |-> q, many |-> <<r, q>>,
                     body |-> <<<<B, q>>, <<C, r>>, <<B, q>>, <<A, q>>>>]>>
      [] x = q -> <<[title |-> "p", number |-> NoNumber, at |-> 1, one |-> p,
                     many |-> <<q, r>>, body |-> <<>>],
                    [title |-> "q", number |-> 2, at |-> 4, one |-> r, many |-> <<>>,
                     body |-> <<<<A, p>>>>]>>
      [] x = r -> <<[title |-> "pq", number |-> 0, at |-> 3, one |-> Nobody,
                     many |-> <<p>>, body |-> <<>>]>>]

Plain == {{}, {<<"title", "contains", {"p", "pq"}>>}, {<<"number", "gt", 1>>},
          {<<"one", "isNull", FALSE>>, <<"title", "equals", "q">>},
          {<<"many", "containsAny", {r}>>}, {<<"many", "isEmpty", TRUE>>},
          {<<"entryKey", "in", {}>>, <<"status", "equals", "DRAFT">>}}

Deeper(ws) == {{<<"one", "is", w>>} : w \in ws} \cup {{<<"many", "some", w>>} : w \in ws}

MCWheres ==
    Plain \cup Deeper(Plain) \cup Deeper({{<<"one", "is", {<<"number", "gt", 1>>}>>}})
    \cup Deeper(Deeper({{<<"one", "is", {}>>}}))
=============================================================================
