---------------------- MODULE GraphqlSchemaCacheProofs ----------------------
(***************************************************************************)
(* Proofs of the safety properties of GraphqlSchemaCache for any number of *)
(* builds, requests, handlers and changes.                                 *)
(***************************************************************************)
EXTENDS GraphqlSchemaCache, TLAPS

\* Nothing in the process is ahead of the database.
DatabaseIsAhead ==
    /\ announced <= db.types
    /\ \A e \in Editors : editor[e] <= db.types
    /\ \A c \in Clients : client[c].asked <= announced

\* What holds of every schema, cached or on its way, that no invalidation dropped.
Sound(content) == MissesOnlyOwedChanges(content) /\ announced <= content.types

CacheIsSound == cached # NoSchema /\ ~cached.dropped => Sound(cached.content)

BuildsAreSound ==
    \A b \in Builds : build[b].phase = "built" /\ ~build[b].dropped => Sound(build[b].content)

\* `buildPromise` never holds a build that an invalidation has dropped.
PromiseIsLive == buildPromise # NoBuild => ~build[buildPromise].dropped

\* A live build is the one that requests join, or requests no longer need one.
LiveBuildIsKnown ==
    \A b \in Builds : InFlight(b) /\ ~build[b].dropped =>
        buildPromise = b \/ cached # NoSchema

\* The rows a request waits for are as new as the request.
WaitersAreServed ==
    \A c \in Clients, b \in Builds :
        client[c].on = b /\ build[b].phase = "built" =>
            client[c].asked <= build[b].content.types

IInv == /\ TypeOK
        /\ DatabaseIsAhead
        /\ CacheIsSound
        /\ BuildsAreSound
        /\ PromiseIsLive
        /\ LiveBuildIsKnown
        /\ OneLiveBuild
        /\ WaitersAreServed
        /\ AnswersReflectAnnouncements

LEMMA Bounds == MaxTypes \in Nat /\ MaxOrder \in Nat /\ NoBuild \notin Builds
BY SentinelsAreDistinct, BoundsAreNaturals

LEMMA InitHolds == Init => IInv
<1> SUFFICES ASSUME Init PROVE IInv
  OBVIOUS
<1> USE Bounds DEF Init
<1>1. TypeOK
  <2>1. 0 \in 0 .. MaxTypes /\ 0 \in 0 .. MaxOrder
    OBVIOUS
  <2>2. IdleBuild \in Build
    BY <2>1 DEF IdleBuild, Build, Content
  <2>3. IdleClient \in Client
    BY <2>1 DEF IdleClient, Client
  <2> QED BY <2>1, <2>2, <2>3 DEF TypeOK, Content
<1>2. DatabaseIsAhead
  BY DEF DatabaseIsAhead, IdleClient
<1>3. BuildsAreSound /\ LiveBuildIsKnown /\ OneLiveBuild /\ WaitersAreServed
  BY DEF BuildsAreSound, LiveBuildIsKnown, OneLiveBuild, WaitersAreServed, IdleBuild, InFlight
<1>4. CacheIsSound /\ PromiseIsLive /\ AnswersReflectAnnouncements
  BY DEF CacheIsSound, PromiseIsLive, AnswersReflectAnnouncements, IdleClient
<1> QED BY <1>1, <1>2, <1>3, <1>4 DEF IInv

LEMMA CommitChangeKeeps ==
    ASSUME IInv, NEW e \in Editors, CommitChange(e)
    PROVE  IInv'
<1> USE Bounds DEF IInv
<1>1. /\ UNCHANGED <<cached, buildPromise, build, client, announced>>
      /\ db.types \in Nat /\ db.types < MaxTypes /\ editor[e] = 0
      /\ db' = [db EXCEPT !.types = db.types + 1]
      /\ db'.types = db.types + 1
      /\ editor' = [editor EXCEPT ![e] = db.types + 1]
  BY DEF CommitChange, TypeOK, Content
<1>2. TypeOK'
  <2>1. db' \in Content
    BY <1>1 DEF TypeOK, Content
  <2> QED BY <1>1, <2>1 DEF TypeOK
<1>3. DatabaseIsAhead'
  BY <1>1 DEF DatabaseIsAhead, TypeOK
<1>4. ASSUME NEW content \in Content, Sound(content)
      PROVE  Sound(content)'
  <2>1. ASSUME NEW v \in 1 .. (db.types + 1), v > content.types
        PROVE  \E d \in Editors : editor'[d] = v
    <3>1. CASE v = db.types + 1
      BY <1>1, <3>1 DEF TypeOK
    <3>2. CASE v # db.types + 1
      <4>1. PICK d \in Editors : editor[d] = v
        BY <1>1, <1>4, <2>1, <3>2 DEF Sound, MissesOnlyOwedChanges
      <4> QED BY <1>1, <2>1, <4>1 DEF TypeOK
    <3> QED BY <3>1, <3>2
  <2> QED BY <1>1, <1>4, <2>1 DEF Sound, MissesOnlyOwedChanges
<1>5. CacheIsSound' /\ BuildsAreSound'
  BY <1>1, <1>4 DEF CacheIsSound, BuildsAreSound, TypeOK, Schemas, Build
<1>6. PromiseIsLive' /\ LiveBuildIsKnown' /\ OneLiveBuild' /\ WaitersAreServed'
      /\ AnswersReflectAnnouncements'
  BY <1>1 DEF PromiseIsLive, LiveBuildIsKnown, OneLiveBuild, WaitersAreServed,
              AnswersReflectAnnouncements, InFlight
<1> QED BY <1>2, <1>3, <1>5, <1>6

LEMMA ReorderKeeps ==
    ASSUME IInv, Reorder
    PROVE  IInv'
<1> USE Bounds DEF IInv
<1>1. /\ UNCHANGED <<cached, buildPromise, build, client, editor, announced>>
      /\ db' \in Content
      /\ db'.types = db.types
  BY DEF Reorder, TypeOK, Content
<1>2. TypeOK' /\ DatabaseIsAhead'
  BY <1>1 DEF TypeOK, DatabaseIsAhead
<1>3. CacheIsSound' /\ BuildsAreSound'
  BY <1>1 DEF CacheIsSound, BuildsAreSound, Sound, MissesOnlyOwedChanges
<1>4. PromiseIsLive' /\ LiveBuildIsKnown' /\ OneLiveBuild' /\ WaitersAreServed'
      /\ AnswersReflectAnnouncements'
  BY <1>1 DEF PromiseIsLive, LiveBuildIsKnown, OneLiveBuild, WaitersAreServed,
              AnswersReflectAnnouncements, InFlight
<1> QED BY <1>2, <1>3, <1>4

LEMMA InvalidateKeeps ==
    ASSUME IInv, NEW e \in Editors, Invalidate(e)
    PROVE  IInv'
<1> USE Bounds DEF IInv
<1>1. /\ UNCHANGED <<db, client>>
      /\ cached' = NoSchema /\ buildPromise' = NoBuild
      /\ build' = [b \in Builds |-> Drop(build[b])]
      /\ editor' = [editor EXCEPT ![e] = 0]
      /\ announced' \in {editor[e], announced}
      /\ announced' >= announced
  BY DEF Invalidate, CacheAfterInvalidation, PromiseAfterInvalidation, TypeOK
<1>2. \A b \in Builds :
        /\ build'[b] \in Build
        /\ build'[b].phase # "idle" => build'[b].dropped
        /\ build'[b].phase = "built" => build[b].phase = "built"
                                        /\ build'[b].content = build[b].content
  <2>1. TAKE b \in Builds
  <2>2. build[b] \in Build /\ IdleBuild \in Build /\ IdleBuild.phase = "idle"
    BY DEF TypeOK, IdleBuild, Build, Content
  <2>3. build'[b] = Drop(build[b])
    BY <1>1
  <2> QED BY <2>2, <2>3 DEF Drop, Build
<1>3. TypeOK'
  BY <1>1, <1>2 DEF TypeOK
<1>4. DatabaseIsAhead'
  BY <1>1 DEF DatabaseIsAhead, TypeOK, Client, Content
<1>5. CacheIsSound' /\ BuildsAreSound' /\ PromiseIsLive' /\ LiveBuildIsKnown' /\ OneLiveBuild'
  BY <1>1, <1>2 DEF CacheIsSound, BuildsAreSound, PromiseIsLive, LiveBuildIsKnown,
                    OneLiveBuild, InFlight
<1>6. WaitersAreServed' /\ AnswersReflectAnnouncements'
  BY <1>1, <1>2 DEF WaitersAreServed, AnswersReflectAnnouncements
<1> QED BY <1>3, <1>4, <1>5, <1>6

\* A step that touches neither the builds, the cache nor the database.
LEMMA AskWithoutBuildingKeeps ==
    ASSUME IInv, NEW c \in Clients, AskCached(c) \/ AskJoin(c)
    PROVE  IInv'
<1> USE Bounds DEF IInv
<1> DEFINE cl == client'[c]
<1>1. /\ UNCHANGED <<db, cached, buildPromise, build, editor, announced>>
      /\ client' = [client EXCEPT ![c] = cl]
      /\ cl.asked = announced
      /\ cl \in Client
      /\ cl.phase = "answered" => cl.got = cached /\ cached # NoSchema
      /\ cl.on = NoBuild \/ (cl.on = buildPromise /\ buildPromise \in Builds)
  <2>1. client[c] \in Client /\ announced \in 0 .. MaxTypes
    BY DEF TypeOK
  <2>2. CASE AskCached(c)
    BY <2>1, <2>2 DEF AskCached, Asking, Client, TypeOK
  <2>3. CASE AskJoin(c)
    BY <2>1, <2>3 DEF AskJoin, Asking, Client, TypeOK
  <2> QED BY <2>2, <2>3
<1>2. TypeOK' /\ DatabaseIsAhead'
  BY <1>1 DEF TypeOK, DatabaseIsAhead
<1>3. CacheIsSound' /\ BuildsAreSound' /\ PromiseIsLive' /\ LiveBuildIsKnown' /\ OneLiveBuild'
  BY <1>1 DEF CacheIsSound, BuildsAreSound, PromiseIsLive, LiveBuildIsKnown,
              OneLiveBuild, InFlight, Sound, MissesOnlyOwedChanges
<1>4. WaitersAreServed'
  <2>1. ASSUME buildPromise \in Builds, build[buildPromise].phase = "built"
        PROVE  announced <= build[buildPromise].content.types
    BY <2>1 DEF PromiseIsLive, BuildsAreSound, Sound
  <2> QED BY <1>1, <2>1 DEF WaitersAreServed, TypeOK
<1>5. AnswersReflectAnnouncements'
  <2>1. ASSUME cached # NoSchema, ~cached.dropped
        PROVE  announced <= cached.content.types
    BY <2>1 DEF CacheIsSound, Sound
  <2>2. cached # NoSchema => cached.content.types \in Nat /\ announced \in Nat
    BY DEF TypeOK, Schemas, Content
  <2> QED BY <1>1, <2>1, <2>2 DEF AnswersReflectAnnouncements, TypeOK
<1> QED BY <1>2, <1>3, <1>4, <1>5

LEMMA AskBuildKeeps ==
    ASSUME IInv, NEW c \in Clients, NEW b \in Builds, AskBuild(c, b)
    PROVE  IInv'
<1> USE Bounds DEF IInv
<1> DEFINE cl == client'[c]
<1>1. /\ UNCHANGED <<db, cached, editor, announced>>
      /\ cached = NoSchema /\ buildPromise = NoBuild /\ buildPromise' = b
      /\ client' = [client EXCEPT ![c] = cl]
      /\ cl \in Client /\ cl.asked = announced /\ cl.phase = "waiting" /\ cl.on = b
  BY DEF AskBuild, NobodyBuilds, Asking, TypeOK, Client
<1>2. /\ build' = [build EXCEPT ![b] = build'[b]]
      /\ build'[b] \in Build /\ build'[b].phase = "querying" /\ ~build'[b].dropped
  <2>1. build' = [build EXCEPT ![b].phase = "querying"] /\ build[b] = IdleBuild
    BY DEF AskBuild
  <2>2. IdleBuild \in Build /\ ~IdleBuild.dropped
    BY DEF IdleBuild, Build, Content
  <2>3. build \in [Builds -> Build]
    BY DEF TypeOK
  <2>4. build'[b] = [build[b] EXCEPT !.phase = "querying"]
    BY <2>1, <2>3
  <2> QED BY <2>1, <2>2, <2>3, <2>4 DEF Build
<1>3. TypeOK' /\ DatabaseIsAhead'
  BY <1>1, <1>2 DEF TypeOK, DatabaseIsAhead
<1>4. CacheIsSound' /\ BuildsAreSound' /\ PromiseIsLive'
  BY <1>1, <1>2 DEF CacheIsSound, BuildsAreSound, PromiseIsLive, TypeOK,
                    Sound, MissesOnlyOwedChanges
<1>5. \A d \in Builds : ~(InFlight(d) /\ ~build[d].dropped)
  BY <1>1 DEF LiveBuildIsKnown
<1>6. LiveBuildIsKnown' /\ OneLiveBuild'
  BY <1>1, <1>2, <1>5 DEF LiveBuildIsKnown, OneLiveBuild, InFlight, TypeOK
<1>7. WaitersAreServed' /\ AnswersReflectAnnouncements'
  BY <1>1, <1>2 DEF WaitersAreServed, AnswersReflectAnnouncements, TypeOK
<1> QED BY <1>3, <1>4, <1>6, <1>7

LEMMA ReadTypesKeeps ==
    ASSUME IInv, NEW b \in Builds, ReadTypes(b)
    PROVE  IInv'
<1> USE Bounds DEF IInv
<1>1. /\ UNCHANGED <<db, cached, buildPromise, client, editor, announced>>
      /\ build[b].phase = "querying"
      /\ build' = [build EXCEPT ![b] = build'[b]]
      /\ build'[b] \in Build /\ build'[b].phase = "built"
      /\ build'[b].content = db /\ build'[b].dropped = build[b].dropped
  BY DEF ReadTypes, TypeOK, Build
<1>2. TypeOK' /\ DatabaseIsAhead'
  BY <1>1 DEF TypeOK, DatabaseIsAhead
<1>3. Sound(db)
  BY DEF Sound, MissesOnlyOwedChanges, DatabaseIsAhead, TypeOK, Content
<1>4. CacheIsSound' /\ BuildsAreSound'
  BY <1>1, <1>3 DEF CacheIsSound, BuildsAreSound, TypeOK, Sound, MissesOnlyOwedChanges
<1>5. PromiseIsLive' /\ LiveBuildIsKnown' /\ OneLiveBuild'
  BY <1>1 DEF PromiseIsLive, LiveBuildIsKnown, OneLiveBuild, InFlight, TypeOK
<1>6. WaitersAreServed' /\ AnswersReflectAnnouncements'
  <2>1. \A d \in Clients : client[d].asked <= db.types
    BY DEF DatabaseIsAhead, TypeOK, Client, Content
  <2> QED BY <1>1, <2>1 DEF WaitersAreServed, AnswersReflectAnnouncements, TypeOK
<1> QED BY <1>2, <1>4, <1>5, <1>6

LEMMA FinishKeeps ==
    ASSUME IInv, NEW b \in Builds, Finish(b)
    PROVE  IInv'
<1> USE Bounds DEF IInv
<1>1. /\ UNCHANGED <<db, editor, announced>>
      /\ build[b].phase = "built" /\ build[b] \in Build
      /\ cached' = [content |-> build[b].content, dropped |-> build[b].dropped]
      /\ cached' \in Schemas
      /\ buildPromise' = NoBuild
      /\ client' = [c \in Clients |-> IF client[c].on = b
                                      THEN Answer(c, cached') ELSE client[c]]
  BY DEF Finish, Resolves, TypeOK, Build, Schemas
<1>2. IdleBuild \in Build /\ IdleBuild.phase = "idle"
  BY DEF IdleBuild, Build, Content
<1>3. \A d \in Builds : build'[d] = build[d] \/ build'[d] = IdleBuild
  BY DEF Finish
<1>4. build' \in [Builds -> Build] /\ build'[b] = IdleBuild
  BY <1>2 DEF Finish, TypeOK
<1>5. \A c \in Clients :
        \/ client'[c] = client[c]
        \/ /\ client[c].on = b
           /\ client'[c] \in Client /\ client'[c].asked = client[c].asked
           /\ client'[c].on = NoBuild /\ client'[c].got = cached'
  <2>1. ASSUME NEW c \in Clients
        PROVE  /\ Answer(c, cached') \in Client
               /\ Answer(c, cached').asked = client[c].asked
               /\ Answer(c, cached').on = NoBuild /\ Answer(c, cached').got = cached'
    <3>1. client[c] \in Client /\ cached' \in Schemas
      BY <1>1 DEF TypeOK
    <3> QED BY <3>1 DEF Answer, Client
  <2>2. \A c \in Clients :
          client'[c] = IF client[c].on = b THEN Answer(c, cached') ELSE client[c]
    BY <1>1
  <2> QED BY <2>1, <2>2
<1>6. TypeOK'
  BY <1>1, <1>4, <1>5 DEF TypeOK
<1>7. DatabaseIsAhead'
  BY <1>1, <1>5 DEF DatabaseIsAhead
<1>8. CacheIsSound'
  BY <1>1 DEF CacheIsSound, BuildsAreSound, Sound, MissesOnlyOwedChanges
<1>9. BuildsAreSound'
  BY <1>1, <1>2, <1>3 DEF BuildsAreSound, Sound, MissesOnlyOwedChanges
<1>10. cached' # NoSchema
  BY <1>1, NoSchemaIsNoSchema
<1>11. PromiseIsLive' /\ LiveBuildIsKnown' /\ OneLiveBuild'
  BY <1>1, <1>2, <1>3, <1>10 DEF PromiseIsLive, LiveBuildIsKnown, OneLiveBuild, InFlight
<1>12. WaitersAreServed'
  BY <1>2, <1>3, <1>5, Bounds DEF WaitersAreServed
<1>13. AnswersReflectAnnouncements'
  <2>1. \A c \in Clients : client[c].on = b => client[c].asked <= cached'.content.types
    BY <1>1 DEF WaitersAreServed
  <2>2. \A c \in Clients : client[c].asked \in Nat /\ cached'.content.types \in Nat
    BY <1>1 DEF TypeOK, Client, Schemas, Content
  <2> QED BY <1>5, <2>1, <2>2 DEF AnswersReflectAnnouncements
<1> QED BY <1>6, <1>7, <1>8, <1>9, <1>11, <1>12, <1>13

LEMMA FailKeeps ==
    ASSUME IInv, NEW b \in Builds, Fail(b)
    PROVE  IInv'
<1> USE Bounds DEF IInv
<1>1. UNCHANGED <<db, cached, buildPromise, editor, announced>>
  BY DEF Fail
<1>2. /\ build' = [build EXCEPT ![b] = build'[b]]
      /\ build'[b] \in Build /\ build'[b].phase \in {"idle", "failed"}
      /\ ~build'[b].dropped
  <2>1. IdleBuild \in Build
    BY DEF IdleBuild, Build, Content
  <2>2. [IdleBuild EXCEPT !.phase = "failed"] \in Build
    BY <2>1 DEF Build
  <2> QED BY <2>1, <2>2 DEF Fail, TypeOK, IdleBuild
<1>3. \A c \in Clients :
        \/ client'[c] = client[c]
        \/ /\ client'[c] \in Client /\ client'[c].asked = client[c].asked
           /\ client'[c].on = NoBuild /\ client'[c].phase = "refused"
  BY DEF Fail, TypeOK, Client
<1>4. client' \in [Clients -> Client]
  BY <1>3 DEF Fail, TypeOK
<1>5. TypeOK'
  BY <1>1, <1>2, <1>4 DEF TypeOK
<1>6. DatabaseIsAhead'
  BY <1>1, <1>3 DEF DatabaseIsAhead
<1>7. CacheIsSound' /\ BuildsAreSound'
  BY <1>1, <1>2 DEF CacheIsSound, BuildsAreSound, TypeOK, Sound, MissesOnlyOwedChanges
<1>8. PromiseIsLive' /\ LiveBuildIsKnown' /\ OneLiveBuild'
  BY <1>1, <1>2 DEF PromiseIsLive, LiveBuildIsKnown, OneLiveBuild, InFlight, TypeOK
<1>9. WaitersAreServed' /\ AnswersReflectAnnouncements'
  BY <1>2, <1>3 DEF WaitersAreServed, AnswersReflectAnnouncements, TypeOK
<1> QED BY <1>5, <1>6, <1>7, <1>8, <1>9

LEMMA RestartKeeps ==
    ASSUME IInv, Restart
    PROVE  IInv'
<1> USE Bounds DEF IInv, Restart
<1>1. IdleBuild \in Build /\ IdleBuild.phase = "idle" /\ IdleClient \in Client
      /\ IdleClient.phase = "idle" /\ IdleClient.asked = 0 /\ IdleClient.on = NoBuild
  BY DEF IdleBuild, Build, Content, IdleClient, Client
<1>2. db.types \in 0 .. MaxTypes
  BY DEF TypeOK, Content
<1>3. TypeOK' /\ DatabaseIsAhead'
  BY <1>1, <1>2 DEF TypeOK, DatabaseIsAhead
<1>4. CacheIsSound' /\ BuildsAreSound' /\ PromiseIsLive' /\ LiveBuildIsKnown' /\ OneLiveBuild'
  BY <1>1 DEF CacheIsSound, BuildsAreSound, PromiseIsLive, LiveBuildIsKnown,
              OneLiveBuild, InFlight
<1>5. WaitersAreServed' /\ AnswersReflectAnnouncements'
  BY <1>1 DEF WaitersAreServed, AnswersReflectAnnouncements
<1> QED BY <1>3, <1>4, <1>5

LEMMA NextKeeps == IInv /\ [Next]_vars => IInv'
<1> SUFFICES ASSUME IInv, [Next]_vars PROVE IInv'
  OBVIOUS
<1>1. CASE UNCHANGED vars
  BY <1>1 DEF vars, IInv, TypeOK, DatabaseIsAhead, CacheIsSound, BuildsAreSound,
              PromiseIsLive, LiveBuildIsKnown, OneLiveBuild, WaitersAreServed,
              AnswersReflectAnnouncements, Sound, MissesOnlyOwedChanges, InFlight
<1>2. CASE Next
  BY <1>2, CommitChangeKeeps, InvalidateKeeps, ReorderKeeps, AskWithoutBuildingKeeps,
     AskBuildKeeps, ReadTypesKeeps, FinishKeeps, FailKeeps, RestartKeeps DEF Next
<1> QED BY <1>1, <1>2

THEOREM Invariance == Spec => []IInv
BY InitHolds, NextKeeps, PTL DEF Spec

\* Whatever interleaves, at most one live build fills the cache, and the cached
\* schema lacks a committed change only while that change's handler has not
\* invalidated, or because a dropped build put it there (schema.ts 8-13, 31-34).
THEOREM StaleOnlyWhileOwed == Spec => []CacheIsAccountedFor
<1>1. IInv => CacheIsAccountedFor
  BY DEF IInv, CacheIsSound, CacheIsAccountedFor, CacheMissesOnlyOwedChanges, Sound
<1> QED BY <1>1, Invariance, PTL

\* A request is answered with every change announced before it came, unless the
\* schema is that of a dropped build.
THEOREM AnswersAreCurrent == Spec => []AnswersReflectAnnouncements
<1>1. IInv => AnswersReflectAnnouncements
  BY DEF IInv
<1> QED BY <1>1, Invariance, PTL
=============================================================================
