------------------------------ MODULE MCAccess ------------------------------
(* Two browsers behind one proxy, one terminal and two replicas. *)
EXTENDS Access, TLC

CONSTANTS d1, d2, t1, k1, k2, k3, p0, p1, p2, r1, r2, ip1, ip2

MCDevices == {d1, d2}
MCTerminals == {t1}
MCKeys == {k1, k2, k3}
MCPasswords == {p0, p1, p2}
MCRoutes == {"password", "apikeys.post", "apikeys.delete", "graphql", "transform"}
MCGrantedScopes == {{"apikey:write"}, {"content:read"}}

\* Both browsers arrive through one proxy; the terminal does not.
MCChain == d1 :> <<ip1, ip2>> @@ d2 :> <<ip1, ip2>> @@ t1 :> <<ip2>>

MCBuckets ==
  {<<"login", ip1>>} \cup {<<r, i>> : r \in MCRoutes, i \in {ip1, ip2}}
    \cup {<<"graphql", k>> : k \in MCKeys}
MCLimit == [b \in MCBuckets |-> IF b[1] = "login" THEN 2 ELSE 1]
MCWindow == [b \in MCBuckets |-> IF b[1] = "graphql" THEN 1 ELSE 2]

MCBudgets ==
  {[browsers |-> 4, terminals |-> 0, restarts |-> 0],
   [browsers |-> 2, terminals |-> 1, restarts |-> 0],
   [browsers |-> 2, terminals |-> 0, restarts |-> 1],
   [browsers |-> 0, terminals |-> 2, restarts |-> 1],
   [browsers |-> 0, terminals |-> 3, restarts |-> 0]}

Interchangeable == Permutations(MCDevices)
=============================================================================
