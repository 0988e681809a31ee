------------------------------- MODULE Access -------------------------------
(***************************************************************************)
(* Who may do what: the container's boot and the seeding of the one        *)
(* administrator, sessions and password changes, API keys with their       *)
(* scopes, the two server middlewares, the GraphQL handler's own gate, the *)
(* CLI's apikey commands and the maintenance script.  Every handler that   *)
(* counts requests does so in the RateLimiter this module extends.         *)
(***************************************************************************)
EXTENDS RateLimiter, Sequences

CONSTANTS
  Devices,          \* browsers; each holds at most one session cookie
  Terminals,        \* holders of API keys: consumers, the CLI, the script
  Keys,             \* rows an ApiKey table can hold
  Chain,            \* hops of an actor's request, nearest first: its peer, then X-Forwarded-For reversed
  Hops,             \* BOJECT_TRUSTED_PROXY_HOPS
  Passwords,
  Weak,             \* the passwords that fail PASSWORD_RULES
  SeedPassword,     \* BOJECT_ADMIN_PASSWORD
  Replicas,         \* containers that boot against the same database
  Here,             \* the replica whose process serves the requests
  Routes,           \* the API routes the actors call
  GrantedScopes,    \* scope lists a new key is asked for
  WaitTimeout,      \* WAIT_FOR_DB_TIMEOUT_MS
  Budgets,          \* bounds on the requests and restarts of a behaviour, as alternatives
  NoKey             \* no Authorization header

ASSUME AccessAssumption ==
  /\ Here \in Replicas
  /\ SeedPassword \in Passwords /\ Weak \subseteq Passwords
  /\ NoKey \notin Keys /\ "person" \notin Keys
  /\ "none" \notin Passwords
  /\ Devices \cap Terminals = {}
  /\ WaitTimeout \in Nat

VARIABLES
  database,   \* TRUE when PostgreSQL accepts connections
  boot,       \* the entrypoint of each replica: where it is, and its deadline
  user,       \* the administrator's row
  cookie,     \* passwordVersion sealed in each device's cookie
  keys,       \* the ApiKey rows
  req,        \* the request each actor has in flight
  cli,        \* the apikey command of each terminal
  did,        \* history: the server carried out that command
  typed,      \* history: the passwords each device has typed
  budget      \* requests sent and restarts made

accessVars == <<database, boot, user, cookie, keys, req, cli, did, typed, budget>>
vars == <<limiterVars, accessVars>>

Actors == Devices \cup Terminals
NoUser == [password |-> "none", version |-> 0]
NoCookie == -1
Idle == [at |-> "idle"]
Person == "person"

\* API_KEY_SCOPES, the ones the routes below ask for.
Scopes == {"content:read", "content:write", "schema:write", "apikey:read", "apikey:write"}

ASSUME ScopesExist == GrantedScopes \subseteq SUBSET Scopes

-----------------------------------------------------------------------------
(* The routes, as the middleware and their handlers classify them.         *)

\* Paths outside the session and token namespaces.
Open == {"transform"}
Graphql == {"graphql"}
PublicRoutes == {"public.read", "public.write"}

\* TOKEN_API_PREFIXES.
TokenRoutes == {"schema.apply", "apikeys.list", "apikeys.post", "apikeys.delete", "search"}

TokenAllowed(r) == r \in PublicRoutes \cup TokenRoutes

Writes(r) ==
  r \in {"entries.put", "password", "public.write", "schema.apply", "apikeys.post", "apikeys.delete"}

\* API_KEY_WRITABLE_PATHS.
KeyWritable(r) == r \in {"schema.apply", "apikeys.list", "apikeys.post", "apikeys.delete", "public.write"}

ScopeOf ==
  [r \in PublicRoutes \cup TokenRoutes \cup Graphql |->
     CASE r = "public.write" -> "content:write"
       [] r = "schema.apply" -> "schema:write"
       [] r = "apikeys.list" -> "apikey:read"
       [] r \in {"apikeys.post", "apikeys.delete"} -> "apikey:write"
       [] OTHER -> "content:read"]

Unlimited == {"apikeys.list"}

ClientIp(a) ==
  Chain[a][IF Hops + 1 <= Len(Chain[a]) THEN Hops + 1 ELSE Len(Chain[a])]

\* The bucket a request is counted in: by key where the caller shows one on a
\* public, search or GraphQL route, by address everywhere else.
BucketOf(a, r, by) ==
  IF r \in {"public.read", "public.write", "search", "graphql"} /\ by \in Keys
    THEN <<r, by>>
    ELSE <<r, ClientIp(a)>>

\* The limiter has a bucket for every request that is counted.
ASSUME BucketsSuffice ==
  /\ \A d \in Devices : <<"login", ClientIp(d)>> \in Buckets
  /\ \A a \in Actors, r \in Routes \ Unlimited, by \in Keys \cup {Person} :
       BucketOf(a, r, by) \in Buckets

-----------------------------------------------------------------------------
AccessInit ==
  /\ LimiterInit
  /\ database \in BOOLEAN
  /\ boot = [r \in Replicas |-> [at |-> IF r = Here THEN "wait" ELSE "exited", deadline |-> now + WaitTimeout]]
  /\ user = NoUser
  /\ cookie = [d \in Devices |-> NoCookie]
  /\ keys = [k \in Keys |-> [st |-> "none", scopes |-> {}, by |-> Person]]
  /\ req = [a \in Actors |-> Idle]
  /\ cli = [t \in Terminals |-> "none"]
  /\ did = [t \in Terminals |-> FALSE]
  /\ typed = [d \in Devices |-> {}]
  /\ budget = [browsers |-> 0, terminals |-> 0, restarts |-> 0]

-----------------------------------------------------------------------------
(* The container's entrypoint.  Its migrations, starter and schema steps    *)
(* are other modules' concern.                                              *)

DatabaseComesUp ==
  /\ ~database
  /\ database' = TRUE
  /\ UNCHANGED <<limiterVars, boot, user, cookie, keys, req, cli, did, typed, budget>>

\* Bound: one more of a kind, within one of the budgets.
Spends(kind) ==
  /\ budget' = [budget EXCEPT ![kind] = @ + 1]
  /\ \E most \in Budgets : \A x \in DOMAIN most : budget'[x] <= most[x]

Step(r, at) == boot' = [boot EXCEPT ![r].at = at]

\* waitForDb: probe until the database answers or the deadline has passed.
WaitForDb(r) ==
  /\ boot[r].at = "wait"
  /\ \/ database /\ Step(r, "seed")
     \/ ~database /\ now >= boot[r].deadline /\ Step(r, "exited")
  /\ UNCHANGED <<limiterVars, database, user, cookie, keys, req, cli, did, typed, budget>>

\* seed-admin's first half: the configured password must be acceptable, and
\* a database with a user is left alone.
SeedCount(r) ==
  /\ boot[r].at = "seed"
  /\ \/ SeedPassword \in Weak /\ Step(r, "exited")
     \/ SeedPassword \notin Weak /\ user # NoUser /\ Step(r, "up")
     \/ SeedPassword \notin Weak /\ user = NoUser /\ Step(r, "hash")
  /\ UNCHANGED <<limiterVars, database, user, cookie, keys, req, cli, did, typed, budget>>

\* Its second half, after the hash: create, unless another replica came first
\* and the unique email makes the script fail.
SeedCreate(r) ==
  /\ boot[r].at = "hash"
  /\ \/ user = NoUser /\ user' = [password |-> SeedPassword, version |-> 0] /\ Step(r, "up")
     \/ user # NoUser /\ Step(r, "exited") /\ UNCHANGED user
  /\ UNCHANGED <<limiterVars, database, cookie, keys, req, cli, did, typed, budget>>

\* A container starts, or stops and starts again: the process that serves loses its rate
\* limits and every request in flight, the database nothing.
Restart(r) ==
  /\ boot[r].at \in {"up", "exited"}
  /\ boot' = [boot EXCEPT ![r] = [at |-> "wait", deadline |-> now + WaitTimeout]]
  /\ Spends("restarts")
  /\ IF r = Here
       THEN /\ Forget
            /\ req' = [a \in Actors |-> IF req[a].at = "scripting" THEN req[a] ELSE Idle]
            /\ cli' = [t \in Terminals |-> IF cli[t] = "running" THEN "failed" ELSE cli[t]]
       ELSE UNCHANGED <<limiterVars, req, cli>>
  /\ UNCHANGED <<database, user, cookie, keys, did, typed>>

-----------------------------------------------------------------------------
(* Requests: what every handler shares.                                     *)

Sends(a) ==
  /\ boot[Here].at = "up"
  /\ req[a] = Idle
  /\ Spends(IF a \in Devices THEN "browsers" ELSE "terminals")

Goes(a, request) == req' = [req EXCEPT ![a] = request]

\* The terminal's command learns how its request ended.
CliHears(a, code) ==
  cli' = [t \in Terminals |-> IF t = a /\ cli[t] = "running" THEN code ELSE cli[t]]

\* The request ends with a refusal, or with its work done.
Refused(a) == Goes(a, Idle) /\ CliHears(a, "failed") /\ UNCHANGED did
Done(a) ==
  /\ Goes(a, Idle)
  /\ CliHears(a, "ok")
  /\ did' = [t \in Terminals |-> did[t] \/ (t = a /\ cli[t] = "running")]

-----------------------------------------------------------------------------
(* Sessions.                                                                *)

\* login.post: count the attempt, read the user, verify the password.
LoginVerify(d, p) ==
  /\ d \in Devices /\ Sends(d)
  /\ LET b == <<"login", ClientIp(d)>> IN
       \/ Deny(b) /\ UNCHANGED <<typed, req>>
       \/ /\ Grant(b)
          /\ typed' = [typed EXCEPT ![d] = @ \cup {p}]
          /\ IF user # NoUser /\ user.password = p
               THEN Goes(d, [at |-> "verified", version |-> user.version])
               ELSE UNCHANGED req
  /\ UNCHANGED <<database, boot, user, cookie, keys, cli, did>>

\* Mutant: the session carries the version in force when it is sealed.
LoginSealLate(d) ==
  /\ req[d].at = "verified"
  /\ Goes(d, Idle)
  /\ cookie' = [cookie EXCEPT ![d] = user.version]
  /\ UNCHANGED <<limiterVars, database, boot, user, keys, cli, did, typed, budget>>

\* setUserSession seals the version that was read; the answer may get lost.
LoginSeal(d) ==
  /\ req[d].at = "verified"
  /\ Goes(d, Idle)
  /\ cookie' = [cookie EXCEPT ![d] = req[d].version] \/ UNCHANGED cookie
  /\ UNCHANGED <<limiterVars, database, boot, user, keys, cli, did, typed, budget>>

Logout(d) ==
  /\ cookie[d] # NoCookie
  /\ cookie' = [cookie EXCEPT ![d] = NoCookie]
  /\ UNCHANGED <<limiterVars, database, boot, user, keys, req, cli, did, typed, budget>>

-----------------------------------------------------------------------------
(* The middlewares.  A browser attaches its cookie (SameSite=Strict) to the *)
(* requests of its own site only; cross says where the request comes from.  *)

CookieSent(a, cross) == a \in Devices /\ ~cross /\ cookie[a] # NoCookie

\* csrf.ts: a write without a Bearer token must come from this host.
SameOrigin(r, k, cross) == Writes(r) /\ k = NoKey => ~cross

TakesSession(r) == r \notin Open \cup Graphql \cup PublicRoutes

\* resolveApiKey: the row with the token's hash, unless it is revoked.
ValidKey(k) == k # NoKey /\ keys[k].st = "active"

\* What the handler will know of its caller: authMethod, apiKeyId, apiKeyScopes.
Admitted(r, by, scopes) == [at |-> "admitted", route |-> r, by |-> by, scopes |-> scopes]

\* A live session authenticates on every path outside the public namespace,
\* and takes precedence over a token.
AdmitSession(a, r, cross) ==
  /\ TakesSession(r) /\ CookieSent(a, cross)
  /\ cookie[a] = user.version
  /\ Goes(a, Admitted(r, Person, {}))
  /\ UNCHANGED cookie

\* A cookie of another passwordVersion is cleared, and the answer is 401.
RejectSession(a, r, cross) ==
  /\ TakesSession(r) /\ CookieSent(a, cross)
  /\ cookie[a] # user.version
  /\ cookie' = [cookie EXCEPT ![a] = NoCookie]
  /\ UNCHANGED req

\* Without a session a key authenticates, on the token's paths only.
AdmitKey(a, r, k, cross) ==
  /\ TakesSession(r) => ~CookieSent(a, cross)
  /\ TokenAllowed(r) /\ ValidKey(k)
  /\ Writes(r) => KeyWritable(r)
  /\ Goes(a, Admitted(r, k, keys[k].scopes))
  /\ UNCHANGED cookie

\* The GraphQL handler has its own gate, transforms none.
AdmitElsewhere(a, r, k) ==
  /\ \/ r \in Graphql /\ ValidKey(k) /\ Goes(a, Admitted(r, k, keys[k].scopes))
     \/ r \in Open /\ Goes(a, Admitted(r, Person, {}))
  /\ UNCHANGED cookie

Passes(a, r, k, cross) ==
  /\ SameOrigin(r, k, cross)
  /\ \/ AdmitSession(a, r, cross)
     \/ RejectSession(a, r, cross)
     \/ AdmitKey(a, r, k, cross)
     \/ AdmitElsewhere(a, r, k)

\* A browser calls a route.
Browse(d, r, cross) ==
  /\ d \in Devices /\ Sends(d)
  /\ Passes(d, r, NoKey, cross)
  /\ UNCHANGED <<limiterVars, database, boot, user, keys, cli, did, typed>>

\* A consumer calls a route with its key.
Consume(t, r, k) ==
  /\ Sends(t)
  /\ Passes(t, r, k, FALSE)
  /\ UNCHANGED <<limiterVars, database, boot, user, keys, cli, did, typed>>

-----------------------------------------------------------------------------
(* The handlers: scope first, then the rate limit, then the work.           *)

\* assertApiKeyScope: sessions pass.
ScopeOk(q) == q.by \in Keys => ScopeOf[q.route] \in q.scopes

Handling(a, r) == req[a].at = "admitted" /\ req[a].route = r

\* Mutant: a request that is turned away gets its stamp back.
TurnedAwayForFree(a) ==
  /\ req[a].at = "admitted"
  /\ LET q == req[a]
         b == BucketOf(a, q.route, q.by) IN
       \/ ~ScopeOk(q) /\ UNCHANGED limiterVars
       \/ ScopeOk(q) /\ q.route \notin Unlimited /\ Deny(b)
       \/ /\ ScopeOk(q) /\ q.route \in {"apikeys.post", "apikeys.delete"}
          /\ Admits(b) /\ EnsureSweep
          /\ UNCHANGED <<now, store, granted, promised>>
  /\ Refused(a)
  /\ UNCHANGED <<database, boot, user, cookie, keys, typed, budget>>

\* A handler refuses before it does anything: for the scope, for the limit, or
\* for a body or a prefix it does not accept.
TurnedAway(a) ==
  /\ req[a].at = "admitted"
  /\ LET q == req[a] IN
       \/ ~ScopeOk(q) /\ UNCHANGED limiterVars
       \/ ScopeOk(q) /\ q.route \notin Unlimited /\ Deny(BucketOf(a, q.route, q.by))
       \/ ScopeOk(q) /\ q.route \in {"apikeys.post", "apikeys.delete"} /\ Grant(BucketOf(a, q.route, q.by))
  /\ Refused(a)
  /\ UNCHANGED <<database, boot, user, cookie, keys, typed, budget>>

Counts(a) ==
  /\ ScopeOk(req[a])
  /\ IF req[a].route \in Unlimited
       THEN UNCHANGED limiterVars
       ELSE Grant(BucketOf(a, req[a].route, req[a].by))

\* A handler whose work is another module's: entries, lists, search, schema.
Serve(a) ==
  /\ req[a].at = "admitted"
  /\ req[a].route \notin {"apikeys.post", "apikeys.delete", "password"}
  /\ Counts(a) /\ Done(a)
  /\ UNCHANGED <<database, boot, user, cookie, keys, typed, budget>>

\* A row with an id of its own; the raw key goes to the caller.
NewKey(scopes, by) ==
  /\ \E k \in Keys : keys[k].st = "none"
  /\ LET k == CHOOSE k \in Keys : keys[k].st = "none"
     IN keys' = [keys EXCEPT ![k] = [st |-> "active", scopes |-> scopes, by |-> by]]

\* Mutant: api-key callers may mint any key.
MintAnything(a, scopes) ==
  /\ Handling(a, "apikeys.post")
  /\ Counts(a) /\ Done(a)
  /\ NewKey(scopes, req[a].by)
  /\ UNCHANGED <<database, boot, user, cookie, typed, budget>>

\* apikeys/index.post: the (i)-rule, then the row.
Mint(a, scopes) ==
  /\ Handling(a, "apikeys.post")
  /\ Counts(a) /\ Done(a)
  /\ req[a].by \in Keys => "apikey:write" \notin scopes
  /\ NewKey(scopes, req[a].by)
  /\ UNCHANGED <<database, boot, user, cookie, typed, budget>>

\* apikeys/[prefix].delete: any active row with the prefix, which several keys
\* may share; the row is revoked in a second statement.
RevokeFind(a, k) ==
  /\ Handling(a, "apikeys.delete")
  /\ Counts(a)
  /\ keys[k].st = "active"
  /\ Goes(a, [at |-> "revoking", row |-> k])
  /\ UNCHANGED <<database, boot, user, cookie, keys, cli, did, typed, budget>>

RevokeEnd(a) ==
  /\ req[a].at = "revoking"
  /\ keys' = [keys EXCEPT ![req[a].row].st = "revoked"]
  /\ Done(a)
  /\ UNCHANGED <<limiterVars, database, boot, user, cookie, typed, budget>>

\* account/password.post: count, read the user, verify the current password,
\* check the new one.
PasswordVerify(d, old, new) ==
  /\ Handling(d, "password")
  /\ Counts(d)
  /\ typed' = [typed EXCEPT ![d] = @ \cup {old, new}]
  /\ IF user.password = old /\ new \notin Weak
       THEN Goes(d, [at |-> "hashing", password |-> new])
       ELSE Goes(d, Idle)
  /\ UNCHANGED <<database, boot, user, cookie, keys, cli, did, budget>>

\* Its second half, after the hash: the row takes the password and the next
\* version in one statement, and the cookie is sealed anew with what the
\* statement returned; the answer may get lost.
PasswordStore(d) ==
  /\ req[d].at = "hashing"
  /\ Goes(d, Idle)
  /\ LET version == user.version + 1 IN
       /\ user' = [password |-> req[d].password, version |-> version]
       /\ cookie' = [cookie EXCEPT ![d] = version] \/ UNCHANGED cookie
  /\ UNCHANGED <<limiterVars, database, boot, keys, cli, did, typed, budget>>

-----------------------------------------------------------------------------
(* The apikey commands of the CLI, over HTTP, and the maintenance script,   *)
(* which opens the database itself.                                         *)

CliIdle(t) == t \in Terminals /\ cli[t] # "running" /\ req[t] = Idle

\* The command ends before the server does anything: a flag or the project
\* file is wrong, the key is refused, the connection fails, or a proxy answers
\* with a page that is not JSON.
CliFails(t) ==
  /\ CliIdle(t) /\ Sends(t)
  /\ cli' = [cli EXCEPT ![t] = "failed"]
  /\ did' = [did EXCEPT ![t] = FALSE]
  /\ UNCHANGED <<limiterVars, database, boot, user, cookie, keys, req, typed>>

CliRun(t, r, k) ==
  /\ CliIdle(t) /\ Sends(t)
  /\ r \in {"apikeys.post", "apikeys.list", "apikeys.delete"}
  /\ AdmitKey(t, r, k, FALSE)
  /\ cli' = [cli EXCEPT ![t] = "running"]
  /\ did' = [did EXCEPT ![t] = FALSE]
  /\ UNCHANGED <<limiterVars, database, boot, user, keys, typed>>

\* The answer is lost on its way; the server goes on.
CliCut(t) ==
  /\ cli[t] = "running"
  /\ cli' = [cli EXCEPT ![t] = "failed"]
  /\ UNCHANGED <<limiterVars, database, boot, user, cookie, keys, req, did, typed, budget>>

ScriptUses(t) ==
  /\ database /\ req[t] = Idle
  /\ Spends("terminals")

ScriptCreate(t, scopes) ==
  /\ ScriptUses(t)
  /\ NewKey(scopes, Person)
  /\ UNCHANGED <<limiterVars, database, boot, user, cookie, req, cli, did, typed>>

ScriptRevokeFind(t, k) ==
  /\ ScriptUses(t)
  /\ keys[k].st = "active"
  /\ Goes(t, [at |-> "scripting", row |-> k])
  /\ UNCHANGED <<limiterVars, database, boot, user, cookie, keys, cli, did, typed>>

ScriptRevokeEnd(t) ==
  /\ req[t].at = "scripting"
  /\ keys' = [keys EXCEPT ![req[t].row].st = "revoked"]
  /\ Goes(t, Idle)
  /\ UNCHANGED <<limiterVars, database, boot, user, cookie, cli, did, typed, budget>>

-----------------------------------------------------------------------------
BootSteps ==
  \/ DatabaseComesUp
  \/ \E r \in Replicas : WaitForDb(r) \/ SeedCount(r) \/ SeedCreate(r) \/ Restart(r)

SessionSteps ==
  \E d \in Devices :
    \/ \E p \in Passwords : LoginVerify(d, p)
    \/ LoginSeal(d) \/ Logout(d)
    \/ \E r \in Routes, cross \in BOOLEAN : Browse(d, r, cross)
    \/ \E old, new \in Passwords : PasswordVerify(d, old, new)
    \/ PasswordStore(d)

TerminalSteps ==
  \E t \in Terminals :
    \/ \E r \in Routes, k \in Keys \cup {NoKey} : Consume(t, r, k) \/ CliRun(t, r, k)
    \/ CliFails(t) \/ CliCut(t)
    \/ \E scopes \in GrantedScopes : ScriptCreate(t, scopes)
    \/ \E k \in Keys : ScriptRevokeFind(t, k)
    \/ ScriptRevokeEnd(t)

HandlerSteps ==
  \E a \in Actors :
    \/ TurnedAway(a) \/ Serve(a) \/ RevokeEnd(a)
    \/ \E scopes \in GrantedScopes : Mint(a, scopes)
    \/ \E k \in Keys : RevokeFind(a, k)

ClockSteps == (Sweep \/ Tick) /\ UNCHANGED accessVars

AccessNext == BootSteps \/ SessionSteps \/ TerminalSteps \/ HandlerSteps \/ ClockSteps

Spec == AccessInit /\ [][AccessNext]_vars

-----------------------------------------------------------------------------
AccessTypeOK ==
  /\ database \in BOOLEAN
  /\ boot \in [Replicas -> [at : {"wait", "seed", "hash", "up", "exited"}, deadline : Nat]]
  /\ user \in [password : Passwords \cup {"none"}, version : Nat]
  /\ cookie \in [Devices -> Nat \cup {NoCookie}]
  /\ keys \in [Keys -> [st : {"none", "active", "revoked"}, scopes : SUBSET Scopes,
                        by : Keys \cup {Person}]]
  /\ DOMAIN req = Actors
  /\ cli \in [Terminals -> {"none", "running", "ok", "failed"}]
  /\ did \in [Terminals -> BOOLEAN]
  /\ typed \in [Devices -> SUBSET Passwords]

TypeOK == LimiterTypeOK /\ AccessTypeOK

\* Whoever holds a session the middleware accepts has typed the password now
\* in force, whatever logins and password changes overlapped: no change leaves
\* another device signed in with what it knew before (account.vue: "other
\* devices will be signed out").
LiveSessionsKnowThePassword ==
  /\ TypeOK
  /\ \A d \in Devices :
       cookie[d] = user.version /\ user # NoUser => user.password \in typed[d]

\* The blast radius of a key ends with its children: a key made with a key's
\* authority never makes another, through however many requests, callers and
\* revocations (assertApiKeyScope.ts, the (i)-rule).
KeysBegetNoMinters ==
  \A k \in Keys : keys[k].by \in Keys => keys[keys[k].by].by = Person

\* The CLI ends with exit code 0 only when the server did what it was asked:
\* not for a page of some proxy, nor for an answer that never came.
ExitZeroMeansDone == \A t \in Terminals : cli[t] = "ok" => did[t]

\* What API keys and the commands about them promise (apikeys/index.post.ts,
\* boject-cli/src/commands/apikey).
KeysAreAccountable == KeysBegetNoMinters /\ ExitZeroMeansDone
=============================================================================
