------------------------- MODULE GraphqlSchemaCache -------------------------
(***************************************************************************)
(* The GraphQL schema a server process keeps in memory                     *)
(* (server/graphql/schema.ts).  It is built from the content types on the  *)
(* first request, shared by the requests that arrive during the build, and *)
(* dropped by `invalidateSchema` after a handler has committed a change to *)
(* the content types.  The commit and the invalidation are separated by a  *)
(* round trip to the database, and so are a build's query and its result.  *)
(*                                                                         *)
(* The content types are abstracted to two version numbers: `types` counts *)
(* the changes whose handler invalidates, `order` the reorderings of       *)
(* fields, whose handler does not.                                         *)
(***************************************************************************)
EXTENDS Naturals

CONSTANTS
    Builds,     \* builds that can be in flight at the same time
    Clients,    \* GraphQL requests in flight
    Editors,    \* content type handlers in flight
    NoBuild, NoSchema,
    MaxTypes, MaxOrder   \* bounds on the number of changes

ASSUME SentinelsAreDistinct == NoBuild \notin Builds
ASSUME BoundsAreNaturals == MaxTypes \in Nat /\ MaxOrder \in Nat

Content == [types : 0 .. MaxTypes, order : 0 .. MaxOrder]

\* A schema and, as history, whether its build was dropped by an invalidation.
Schemas == [content : Content, dropped : BOOLEAN]

ASSUME NoSchemaIsNoSchema == NoSchema \notin Schemas

VARIABLES
    db,             \* the committed content types
    cached,         \* `cached` in schema.ts
    buildPromise,   \* `buildPromise` in schema.ts
    build,          \* the builds in flight
    client,         \* the requests waiting for a schema
    editor,         \* the change a handler has committed and not announced
    announced       \* history: the latest change some handler announced

vars == <<db, cached, buildPromise, build, client, editor, announced>>

----------------------------------------------------------------------------

\* "failed" is a rejected promise: it does nothing any more, but `buildPromise`
\* may still hold it.
Build == [phase : {"idle", "querying", "built", "failed"},
          content : Content,
          dropped : BOOLEAN]

IdleBuild == [phase |-> "idle", content |-> [types |-> 0, order |-> 0],
              dropped |-> FALSE]

\* `asked` is the latest announced change when the request came in.
Client == [phase : {"idle", "waiting", "answered", "refused"},
           on : Builds \cup {NoBuild},
           asked : 0 .. MaxTypes,
           got : Schemas \cup {NoSchema}]

IdleClient == [phase |-> "idle", on |-> NoBuild, asked |-> 0, got |-> NoSchema]

InFlight(b) == build[b].phase \in {"querying", "built"}

Init ==
    /\ db = [types |-> 0, order |-> 0]
    /\ cached = NoSchema
    /\ buildPromise = NoBuild
    /\ build = [b \in Builds |-> IdleBuild]
    /\ client = [c \in Clients |-> IdleClient]
    /\ editor = [e \in Editors |-> 0]
    /\ announced = 0

----------------------------------------------------------------------------
(* Handlers that change content types.                                     *)

\* Create, update and delete of a content type or a field, and a schema apply:
\* the write, or the transaction around it, commits.
CommitChange(e) ==
    /\ editor[e] = 0
    /\ db.types < MaxTypes
    /\ db' = [db EXCEPT !.types = @ + 1]
    /\ editor' = [editor EXCEPT ![e] = db'.types]
    /\ UNCHANGED <<cached, buildPromise, build, client, announced>>

\* The reordering of a content type's fields commits, and that is all it does.
Reorder ==
    /\ db.order < MaxOrder
    /\ db' = [db EXCEPT !.order = @ + 1]
    /\ UNCHANGED <<cached, buildPromise, build, client, editor, announced>>

\* The fate of a build when `buildPromise` lets go of it.
Drop(bd) ==
    IF bd.phase = "failed" THEN IdleBuild
    ELSE [bd EXCEPT !.dropped = bd.phase # "idle"]

\* Mutant: invalidation empties the cache and keeps the build in flight.
PromiseKept == buildPromise

\* What `invalidateSchema` leaves in `buildPromise`.
PromiseAfterInvalidation == NoBuild

\* Mutant: invalidation forgets the build in flight and keeps the schema.
CacheKept == cached

\* What `invalidateSchema` leaves in `cached`.
CacheAfterInvalidation == NoSchema

\* The handler's `invalidateSchema()` once its commit has come back.
Invalidate(e) ==
    /\ editor[e] # 0
    /\ cached' = CacheAfterInvalidation
    /\ buildPromise' = PromiseAfterInvalidation
    /\ build' = IF PromiseAfterInvalidation = NoBuild
                THEN [b \in Builds |-> Drop(build[b])] ELSE build
    /\ announced' = IF editor[e] > announced THEN editor[e] ELSE announced
    /\ editor' = [editor EXCEPT ![e] = 0]
    /\ UNCHANGED <<db, client>>

----------------------------------------------------------------------------
(* Requests and builds.                                                    *)

Answer(c, s) == [client[c] EXCEPT !.phase = "answered", !.on = NoBuild, !.got = s]

\* The part of getSchema that decides, without an await in between.
Asking(c) == [phase |-> "waiting", on |-> NoBuild, asked |-> announced,
              got |-> NoSchema]

MayAsk(c) == client[c].phase # "waiting"

AskCached(c) ==
    /\ MayAsk(c)
    /\ cached # NoSchema
    /\ client' = [client EXCEPT ![c] = [Asking(c) EXCEPT !.phase = "answered",
                                                         !.got = cached]]
    /\ UNCHANGED <<db, cached, buildPromise, build, editor, announced>>

\* The promise of the build in flight is shared; one that has been rejected
\* refuses at once.
AskJoin(c) ==
    /\ MayAsk(c)
    /\ cached = NoSchema
    /\ buildPromise # NoBuild
    /\ client' = [client EXCEPT ![c] =
                    IF build[buildPromise].phase = "failed"
                    THEN [Asking(c) EXCEPT !.phase = "refused"]
                    ELSE [Asking(c) EXCEPT !.on = buildPromise]]
    /\ UNCHANGED <<db, cached, buildPromise, build, editor, announced>>

\* When build() has to start a build.
NobodyBuilds == buildPromise = NoBuild

\* The query is on its way to the database.
AskBuild(c, b) ==
    /\ MayAsk(c)
    /\ cached = NoSchema
    /\ NobodyBuilds
    /\ build[b] = IdleBuild
    /\ build' = [build EXCEPT ![b].phase = "querying"]
    /\ buildPromise' = b
    /\ client' = [client EXCEPT ![c] = [Asking(c) EXCEPT !.on = b]]
    /\ UNCHANGED <<db, cached, editor, announced>>

\* The database evaluates the query; its rows are on their way back.
ReadTypes(b) ==
    /\ build[b].phase = "querying"
    /\ build' = [build EXCEPT ![b].phase = "built", ![b].content = db]
    /\ UNCHANGED <<db, cached, buildPromise, client, editor, announced>>

\* Mutant: only the build `buildPromise` holds resolves its requests.
ResolvesIfCurrent(b) == buildPromise = b

\* Whether a build that ends resolves the requests that wait for it.
Resolves(b) == TRUE

\* The rows arrive: the schema is built and cached, and the waiting requests
\* resume, whether or not an invalidation has dropped this build meanwhile.
Finish(b) ==
    /\ build[b].phase = "built"
    /\ LET s == [content |-> build[b].content, dropped |-> build[b].dropped]
       IN  /\ cached' = s
           /\ client' = [c \in Clients |->
                           IF client[c].on = b /\ Resolves(b)
                           THEN Answer(c, s) ELSE client[c]]
    /\ buildPromise' = NoBuild
    \* A rejected promise that `buildPromise` still held is forgotten with it.
    /\ build' = [d \in Builds |-> IF d = b \/ build[d].phase = "failed"
                                  THEN IdleBuild ELSE build[d]]
    /\ UNCHANGED <<db, editor, announced>>

\* The query or the construction of the schema throws.  `then` has no
\* rejection handler: `buildPromise` keeps the rejected promise.
Fail(b) ==
    /\ InFlight(b)
    /\ build' = [build EXCEPT ![b] = IF buildPromise = b
                                     THEN [IdleBuild EXCEPT !.phase = "failed"]
                                     ELSE IdleBuild]
    /\ client' = [c \in Clients |->
                    IF client[c].on = b
                    THEN [client[c] EXCEPT !.phase = "refused", !.on = NoBuild]
                    ELSE client[c]]
    /\ UNCHANGED <<db, cached, buildPromise, editor, announced>>

\* The process restarts with an empty module state.
Restart ==
    /\ cached' = NoSchema
    /\ buildPromise' = NoBuild
    /\ build' = [b \in Builds |-> IdleBuild]
    /\ client' = [c \in Clients |-> IdleClient]
    /\ editor' = [e \in Editors |-> 0]
    /\ announced' = db.types
    /\ UNCHANGED db

----------------------------------------------------------------------------

Next ==
    \/ \E e \in Editors : CommitChange(e) \/ Invalidate(e)
    \/ Reorder
    \/ \E c \in Clients : AskCached(c) \/ AskJoin(c)
    \/ \E c \in Clients, b \in Builds : AskBuild(c, b)
    \/ \E b \in Builds : ReadTypes(b) \/ Finish(b) \/ Fail(b)
    \/ Restart

Spec == Init /\ [][Next]_vars

\* The database answers every query, and a handler resumes after its commit.
Fairness ==
    /\ \A b \in Builds : WF_vars(ReadTypes(b)) /\ WF_vars(Finish(b))
    /\ \A e \in Editors : WF_vars(Invalidate(e))

FairSpec == Spec /\ Fairness

----------------------------------------------------------------------------
(* Properties.                                                             *)

\* Every variable holds what its declaration in schema.ts allows.
TypeOK ==
    /\ db \in Content
    /\ cached \in Schemas \cup {NoSchema}
    /\ buildPromise \in Builds \cup {NoBuild}
    /\ build \in [Builds -> Build]
    /\ client \in [Clients -> Client]
    /\ editor \in [Editors -> 0 .. MaxTypes]
    /\ announced \in 0 .. MaxTypes

\* A change that content is missing still has its handler on the way to
\* invalidateSchema().
MissesOnlyOwedChanges(content) ==
    \A v \in 1 .. db.types : v > content.types => \E e \in Editors : editor[e] = v

\* The cached schema lacks a committed change only while the handler of that
\* very change has its invalidateSchema() ahead, unless the schema comes from a
\* build that an invalidation had dropped (schema.ts 9-13, 31-34).
CacheMissesOnlyOwedChanges ==
    cached # NoSchema /\ ~cached.dropped => MissesOnlyOwedChanges(cached.content)

\* A request answered with a schema that no invalidation overtook sees every
\* change whose handler had called invalidateSchema() before the request came.
AnswersReflectAnnouncements ==
    \A c \in Clients :
        client[c].phase = "answered" /\ ~client[c].got.dropped =>
            client[c].got.content.types >= client[c].asked

\* "Prevent concurrent builds" (schema.ts 8): of the builds in flight at most
\* one has not been dropped, although a dropped build that ends takes the
\* promise of its successor out of `buildPromise`.
OneLiveBuild ==
    \A b, d \in Builds :
        /\ InFlight(b) /\ ~build[b].dropped
        /\ InFlight(d) /\ ~build[d].dropped
        => b = d

\* The cache is of the shape schema.ts declares, at most one live build fills it,
\* and it misses only what some handler still owes it.
CacheIsAccountedFor == TypeOK /\ OneLiveBuild /\ CacheMissesOnlyOwedChanges

\* A request that waits for a schema is answered or refused in the end, also
\* when its build is dropped under it or fails.
EveryRequestSettles ==
    \A c \in Clients : client[c].phase = "waiting" ~> client[c].phase # "waiting"
=============================================================================
