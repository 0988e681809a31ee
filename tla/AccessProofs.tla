----------------------------- MODULE AccessProofs -----------------------------
(***************************************************************************)
(* What holds of Access for any number of browsers, terminals, replicas,   *)
(* keys and passwords: its requests do to the rate limiter only what the   *)
(* rate limiter does, so its limits are kept; a live session knows the     *)
(* password; a key's authority does not reproduce.                         *)
(***************************************************************************)
EXTENDS Access, FiniteSetTheorems, WellFoundedInduction, TLAPS

(* The rate limiter alone: its two promises, for every number of buckets,  *)
(* every limit and every window.                                           *)

\* A finite set of numbers that is not empty has a least one.
LEMMA LeastNumber ==
  ASSUME NEW S \in SUBSET Nat, S # {}
  PROVE  \E t \in S : \A u \in S : t <= u
<1>1. PICK t \in S : \A u \in S : ~(<<u, t>> \in OpToRel(<, Nat))
  BY NatLessThanWellFounded, WFMin
<1>2. ASSUME NEW u \in S PROVE t <= u
  <2>1. t \in Nat /\ u \in Nat
    OBVIOUS
  <2>2. ~(u < t)
    BY <1>1, <2>1 DEF OpToRel
  <2> QED BY <2>1, <2>2
<1> QED BY <1>2

-----------------------------------------------------------------------------

\* Everything admitted is in the past, and what is kept was admitted.
KeptWereGranted ==
  \A b \in Buckets : /\ IsFiniteSet(granted[b])
                     /\ store[b] \subseteq granted[b]
                     /\ \A s \in granted[b] : s.at <= now

\* Nothing recent has been forgotten, by a call or by the sweep.
RecentAreKept ==
  \A b \in Buckets : \A s \in granted[b] : now - s.at < Window[b] => s \in store[b]

\* The stamps that still count when the time a refusal named has come.
Outlasting(b) == {s \in store[b] : s.at + Window[b] > promised[b]}

\* They are fewer than the limit.
PromisesHold ==
  \A b \in Buckets : promised[b] # NoPromise => Cardinality(Outlasting(b)) < Limit[b]

LimiterIInv ==
  /\ LimiterTypeOK
  /\ KeptWereGranted
  /\ RecentAreKept
  /\ BurstsAreBounded
  /\ PromisesHold

-----------------------------------------------------------------------------

\* The stamps a call keeps are a finite set, and all that were admitted in a
\* window that is not over.
LEMMA KeptIsTheLastWindow ==
  ASSUME LimiterIInv, NEW b \in Buckets
  PROVE  /\ IsFiniteSet(Kept(b)) /\ Cardinality(Kept(b)) \in Nat
         /\ Kept(b) \subseteq store[b] /\ Kept(b) \subseteq granted[b]
         /\ \A s \in granted[b] : now - s.at < Window[b] => s \in Kept(b)
<1>1. Kept(b) \subseteq store[b] /\ Kept(b) \subseteq granted[b]
  BY DEF Kept, LimiterIInv, KeptWereGranted
<1>2. IsFiniteSet(Kept(b)) /\ Cardinality(Kept(b)) \in Nat
  BY <1>1, FS_Subset, FS_CardinalityType DEF LimiterIInv, KeptWereGranted
<1>3. \A s \in granted[b] : now - s.at < Window[b] => s \in Kept(b)
  BY DEF Kept, LimiterIInv, RecentAreKept
<1> QED BY <1>1, <1>2, <1>3

\* The oldest stamp kept, if one is, is a stamp kept and none is older.
LEMMA OldestIsKept ==
  ASSUME LimiterIInv, NEW b \in Buckets, Kept(b) # {}
  PROVE  /\ \E s \in Kept(b) : s.at = Oldest(b)
         /\ \A s \in Kept(b) : Oldest(b) <= s.at
         /\ Oldest(b) \in Nat
<1> DEFINE times == {s.at : s \in Kept(b)}
<1>1. times \in SUBSET Nat /\ times # {}
  BY KeptIsTheLastWindow DEF LimiterIInv, LimiterTypeOK, Stamps
<1>2. \E t \in times : \A u \in times : t <= u
  BY <1>1, LeastNumber
<1>3. \E t \in times : \A s \in Kept(b) : t <= s.at
  BY <1>2
<1>4. Oldest(b) \in times /\ \A s \in Kept(b) : Oldest(b) <= s.at
  BY <1>3 DEF Oldest
<1> QED BY <1>1, <1>4

\* A window that is not over admitted no more than what is kept: at most the limit.
LEMMA KeptWithinLimit ==
  ASSUME LimiterIInv, LimiterAssumption, NEW b \in Buckets
  PROVE  Cardinality(Kept(b)) <= Limit[b]
<1>1. CASE Kept(b) = {}
  BY <1>1, FS_EmptySet DEF LimiterAssumption
<1>2. CASE Kept(b) # {}
  <2>1. PICK s \in Kept(b) : s.at = Oldest(b)
    BY <1>2, OldestIsKept
  <2>2. s \in granted[b] /\ IsFiniteSet(granted[b])
    BY KeptIsTheLastWindow DEF LimiterIInv, KeptWereGranted
  <2>3. Kept(b) \subseteq Burst(b, s.at)
    <3> SUFFICES ASSUME NEW r \in Kept(b) PROVE r \in Burst(b, s.at)
      OBVIOUS
    <3>1. r \in granted[b] /\ s.at <= r.at
      BY <1>2, <2>1, OldestIsKept, KeptIsTheLastWindow
    <3>2. r.at <= now /\ now - s.at < Window[b]
      BY <3>1 DEF Kept, LimiterIInv, KeptWereGranted
    <3>3. r.at \in Nat /\ s.at \in Nat /\ now \in Nat /\ Window[b] \in Nat
      BY <2>2, <3>1 DEF LimiterIInv, LimiterTypeOK, Stamps, LimiterAssumption
    <3> QED BY <3>1, <3>2, <3>3 DEF Burst
  <2>4. Burst(b, s.at) \in SUBSET granted[b]
    BY DEF Burst
  <2>5. IsFiniteSet(Burst(b, s.at)) /\ Cardinality(Burst(b, s.at)) \in Nat
    BY <2>2, <2>4, FS_Subset, FS_CardinalityType
  <2>6. Cardinality(Kept(b)) <= Cardinality(Burst(b, s.at))
    BY <2>3, <2>5, FS_Subset
  <2>7. Cardinality(Burst(b, s.at)) <= Limit[b]
    BY <2>2 DEF LimiterIInv, BurstsAreBounded
  <2> QED BY <2>5, <2>6, <2>7, KeptIsTheLastWindow DEF LimiterAssumption
<1> QED BY <1>1, <1>2

-----------------------------------------------------------------------------
(* One lemma per step.                                                     *)

\* Nothing has been admitted at the start.
LEMMA LimiterStarts ==
  ASSUME LimiterAssumption
  PROVE  LimiterInit => LimiterIInv
<1> SUFFICES ASSUME LimiterInit PROVE LimiterIInv
  OBVIOUS
<1>1. NoSweep \in Nat /\ NoPromise \in Nat
  BY DEF NoSweep, NoPromise, LimiterAssumption
<1>2. LimiterTypeOK
  BY <1>1 DEF LimiterInit, LimiterTypeOK
<1>3. KeptWereGranted /\ RecentAreKept /\ BurstsAreBounded /\ PromisesHold
  BY FS_EmptySet DEF LimiterInit, KeptWereGranted, RecentAreKept, BurstsAreBounded, PromisesHold
<1> QED BY <1>2, <1>3 DEF LimiterIInv

\* A request that is admitted.
LEMMA GrantKeeps ==
  ASSUME LimiterAssumption, LimiterIInv, NEW b \in Buckets, Grant(b)
  PROVE  LimiterIInv'
<1> DEFINE stamp == [n |-> Cardinality(granted[b]), at |-> now]
<1>1. /\ store' = [store EXCEPT ![b] = Kept(b) \cup {stamp}]
      /\ granted' = [granted EXCEPT ![b] = @ \cup {stamp}]
      /\ promised' = [promised EXCEPT ![b] = NoPromise]
      /\ now' = now
  BY DEF Grant
<1>2. /\ now \in Nat /\ Window \in [Buckets -> Nat] /\ Limit \in [Buckets -> Nat]
      /\ store \in [Buckets -> SUBSET Stamps] /\ granted \in [Buckets -> SUBSET Stamps]
      /\ promised \in [Buckets -> Nat] /\ sweepAt \in Nat /\ NoPromise \in Nat
  BY DEF LimiterIInv, LimiterTypeOK, LimiterAssumption, NoPromise
<1>3. IsFiniteSet(granted[b]) /\ stamp \in Stamps
  BY <1>2, FS_CardinalityType DEF LimiterIInv, KeptWereGranted, Stamps
<1>4. /\ store'[b] = Kept(b) \cup {stamp} /\ granted'[b] = granted[b] \cup {stamp}
      /\ promised'[b] = NoPromise
      /\ \A c \in Buckets \ {b} : /\ store'[c] = store[c] /\ granted'[c] = granted[c]
                                  /\ promised'[c] = promised[c]
  BY <1>1, <1>2
<1> HIDE DEF stamp
<1>5. LimiterTypeOK'
  <2>1. sweepAt' \in Nat
    BY <1>2 DEF Grant, EnsureSweep, LimiterAssumption
  <2>2. Kept(b) \in SUBSET Stamps
    BY <1>2 DEF Kept
  <2>3. store' \in [Buckets -> SUBSET Stamps] /\ granted' \in [Buckets -> SUBSET Stamps]
    BY <1>1, <1>2, <1>3, <2>2
  <2> QED BY <1>1, <1>2, <2>1, <2>3 DEF LimiterTypeOK
<1>6. stamp.at = now
  BY DEF stamp
<1>7. KeptWereGranted'
  <2> SUFFICES ASSUME NEW c \in Buckets
               PROVE  /\ IsFiniteSet(granted'[c]) /\ store'[c] \subseteq granted'[c]
                      /\ \A s \in granted'[c] : s.at <= now'
    BY DEF KeptWereGranted
  <2>1. CASE c # b
    BY <2>1, <1>1, <1>4 DEF LimiterIInv, KeptWereGranted
  <2>2. CASE c = b
    <3>1. IsFiniteSet(granted'[b])
      BY <1>3, <1>4, FS_AddElement, SMTT(30)
    <3>2. store'[b] \subseteq granted'[b]
      BY <1>4, KeptIsTheLastWindow
    <3>3. \A s \in granted'[b] : s.at <= now
      BY <1>2, <1>4, <1>6 DEF LimiterIInv, KeptWereGranted
    <3> QED BY <2>2, <3>1, <3>2, <3>3, <1>1
  <2> QED BY <2>1, <2>2
<1>8. RecentAreKept'
  <2> SUFFICES ASSUME NEW c \in Buckets, NEW s \in granted'[c], now' - s.at < Window[c]
               PROVE  s \in store'[c]
    BY DEF RecentAreKept
  <2>1. CASE c # b
    BY <2>1, <1>1, <1>4 DEF LimiterIInv, RecentAreKept
  <2>2. CASE c = b
    BY <2>2, <1>1, <1>4, KeptIsTheLastWindow
  <2> QED BY <2>1, <2>2
<1>9. BurstsAreBounded'
  <2> SUFFICES ASSUME NEW c \in Buckets, NEW s \in granted'[c]
               PROVE  Cardinality(Burst(c, s.at)') <= Limit[c]
    BY DEF BurstsAreBounded
  <2>1. CASE c # b
    BY <2>1, <1>4 DEF LimiterIInv, BurstsAreBounded, Burst
  <2>2. CASE c = b
    <3>1. CASE now < s.at + Window[b]
      <4>1. Burst(b, s.at)' \subseteq Kept(b) \cup {stamp}
        <5> SUFFICES ASSUME NEW r \in granted'[b], s.at <= r.at, r # stamp
                     PROVE  r \in Kept(b)
          BY DEF Burst
        <5>1. r \in granted[b]
          BY <1>4
        <5>2. r.at \in Nat /\ s.at \in Nat
          BY <1>2, <1>3, <1>4, <2>2, <5>1 DEF Stamps
        <5>3. now - r.at < Window[b]
          BY <1>2, <3>1, <5>2
        <5> QED BY <5>1, <5>3, KeptIsTheLastWindow
      <4>2. /\ IsFiniteSet(Kept(b) \cup {stamp})
            /\ Cardinality(Kept(b) \cup {stamp}) <= Cardinality(Kept(b)) + 1
        <5>1. IsFiniteSet(Kept(b)) /\ Cardinality(Kept(b)) \in Nat
          BY KeptIsTheLastWindow
        <5>2. /\ IsFiniteSet(Kept(b) \cup {stamp})
              /\ Cardinality(Kept(b) \cup {stamp}) =
                   IF stamp \in Kept(b) THEN Cardinality(Kept(b)) ELSE Cardinality(Kept(b)) + 1
          BY <5>1, FS_AddElement
        <5> QED BY <5>1, <5>2
      <4>3. /\ Cardinality(Burst(b, s.at)') <= Cardinality(Kept(b) \cup {stamp})
            /\ Cardinality(Burst(b, s.at)') \in Nat
            /\ Cardinality(Kept(b) \cup {stamp}) \in Nat
        BY <4>1, <4>2, FS_Subset, FS_CardinalityType
      <4>4. Cardinality(Kept(b)) < Limit[b]
        BY DEF Grant, Admits
      <4> QED BY <1>2, <2>2, <4>2, <4>3, <4>4, KeptIsTheLastWindow
    <3>2. CASE ~(now < s.at + Window[b])
      <4>1. s # stamp /\ s \in granted[b]
        BY <1>2, <1>4, <1>6, <2>2, <3>2 DEF LimiterAssumption
      <4>2. Burst(b, s.at)' = Burst(b, s.at)
        BY <1>4, <1>6, <3>2 DEF Burst
      <4> QED BY <2>2, <4>1, <4>2 DEF LimiterIInv, BurstsAreBounded
    <3> QED BY <3>1, <3>2
  <2> QED BY <2>1, <2>2
<1>10. PromisesHold'
  BY <1>4 DEF LimiterIInv, PromisesHold, Outlasting
<1> QED BY <1>5, <1>7, <1>8, <1>9, <1>10 DEF LimiterIInv

\* What a step that only forgets stamps too old to count leaves true, if the
\* promises still hold.
LEMMA ForgettingKeeps ==
  ASSUME LimiterAssumption, LimiterIInv, LimiterTypeOK', now' = now, granted' = granted,
         \A c \in Buckets : /\ store'[c] \subseteq store[c]
                            /\ \A s \in store[c] : now - s.at < Window[c] => s \in store'[c]
  PROVE  KeptWereGranted' /\ RecentAreKept' /\ BurstsAreBounded'
<1>1. KeptWereGranted'
  BY DEF LimiterIInv, KeptWereGranted
<1>2. RecentAreKept'
  BY DEF LimiterIInv, RecentAreKept
<1>3. BurstsAreBounded'
  BY DEF LimiterIInv, BurstsAreBounded, Burst
<1> QED BY <1>1, <1>2, <1>3

\* A request that is turned away: its promise is the end of the oldest stamp's
\* window, so at least one stamp less than the limit outlasts it.
LEMMA DenyKeeps ==
  ASSUME LimiterAssumption, LimiterIInv, NEW b \in Buckets, Deny(b)
  PROVE  LimiterIInv'
<1>1. /\ store' = [store EXCEPT ![b] = Kept(b)]
      /\ promised' = [promised EXCEPT ![b] = now + RetryAfter(b)]
      /\ now' = now /\ granted' = granted /\ ~Admits(b)
  BY DEF Deny
<1>2. /\ now \in Nat /\ Window \in [Buckets -> Nat] /\ Limit \in [Buckets -> Nat \ {0}]
      /\ store \in [Buckets -> SUBSET Stamps] /\ granted \in [Buckets -> SUBSET Stamps]
      /\ promised \in [Buckets -> Nat] /\ sweepAt \in Nat
  BY DEF LimiterIInv, LimiterTypeOK, LimiterAssumption
<1>3. Cardinality(Kept(b)) >= Limit[b] /\ Limit[b] \in Nat \ {0}
  BY <1>1, <1>2, KeptIsTheLastWindow DEF Admits
<1>4. Kept(b) # {}
  BY <1>3, FS_EmptySet
<1>5. Oldest(b) \in Nat /\ now + RetryAfter(b) = Oldest(b) + Window[b]
  BY <1>2, <1>4, OldestIsKept DEF RetryAfter
<1>6. /\ store'[b] = Kept(b) /\ promised'[b] = Oldest(b) + Window[b]
      /\ \A c \in Buckets \ {b} : store'[c] = store[c] /\ promised'[c] = promised[c]
  BY <1>1, <1>2, <1>5
<1>7. LimiterTypeOK'
  <2>1. sweepAt' \in Nat
    BY <1>2 DEF Deny, EnsureSweep, LimiterAssumption
  <2>2. Kept(b) \in SUBSET Stamps
    BY <1>2 DEF Kept
  <2>3. store' \in [Buckets -> SUBSET Stamps]
    BY <1>1, <1>2, <2>2
  <2>4. promised' \in [Buckets -> Nat]
    BY <1>1, <1>2, <1>5
  <2> QED BY <1>1, <1>2, <2>1, <2>3, <2>4 DEF LimiterTypeOK
<1>8. KeptWereGranted' /\ RecentAreKept' /\ BurstsAreBounded'
  <2>1. \A c \in Buckets : /\ store'[c] \subseteq store[c]
                           /\ \A s \in store[c] : now - s.at < Window[c] => s \in store'[c]
    BY <1>6 DEF Kept
  <2> QED BY <1>1, <1>7, <2>1, ForgettingKeeps
<1>9. PromisesHold'
  <2> SUFFICES ASSUME NEW c \in Buckets, promised'[c] # NoPromise'
               PROVE  Cardinality(Outlasting(c)') < Limit[c]
    BY DEF PromisesHold
  <2>1. CASE c # b
    <3>1. Outlasting(c)' = Outlasting(c)
      BY <1>6, <2>1 DEF Outlasting
    <3> QED BY <1>6, <2>1, <3>1 DEF LimiterIInv, PromisesHold, NoPromise
  <2>2. CASE c = b
    <3>1. PICK s \in Kept(b) : s.at = Oldest(b)
      BY <1>4, OldestIsKept
    <3>2. Outlasting(b)' \subseteq Kept(b) \ {s}
      BY <1>2, <1>5, <1>6, <3>1 DEF Outlasting
    <3>3. /\ IsFiniteSet(Kept(b) \ {s})
          /\ Cardinality(Kept(b) \ {s}) = Cardinality(Kept(b)) - 1
      <4>1. IsFiniteSet(Kept(b))
        BY KeptIsTheLastWindow
      <4> QED BY <3>1, <4>1, FS_RemoveElement
    <3>4. /\ Cardinality(Outlasting(b)') <= Cardinality(Kept(b) \ {s})
          /\ Cardinality(Outlasting(b)') \in Nat
      BY <3>2, <3>3, FS_Subset, FS_CardinalityType
    <3>5. Cardinality(Kept(b)) <= Limit[b] /\ Cardinality(Kept(b)) \in Nat
      BY KeptWithinLimit, KeptIsTheLastWindow
    <3> QED BY <1>3, <2>2, <3>3, <3>4, <3>5
  <2> QED BY <2>1, <2>2
<1> QED BY <1>7, <1>8, <1>9 DEF LimiterIInv

\* The sweep uses a window no shorter than any bucket's.
LEMMA SweepKeeps ==
  ASSUME LimiterAssumption, WindowsFit, LimiterIInv, Sweep
  PROVE  LimiterIInv'
<1>1. /\ store' = [c \in Buckets |-> {s \in store[c] : now - s.at < DefaultWindow}]
      /\ now' = now /\ granted' = granted /\ promised' = promised
  BY DEF Sweep
<1>2. /\ now \in Nat /\ Window \in [Buckets -> Nat] /\ DefaultWindow \in Nat
      /\ store \in [Buckets -> SUBSET Stamps] /\ Limit \in [Buckets -> Nat \ {0}]
  BY DEF LimiterIInv, LimiterTypeOK, LimiterAssumption
<1>3. LimiterTypeOK'
  <2>1. sweepAt' \in Nat
    BY <1>2 DEF Sweep, NoSweep, LimiterAssumption
  <2>2. store' \in [Buckets -> SUBSET Stamps]
    BY <1>1, <1>2
  <2> QED BY <1>1, <2>1, <2>2 DEF LimiterIInv, LimiterTypeOK
<1>4. \A c \in Buckets : /\ store'[c] \subseteq store[c]
                         /\ \A s \in store[c] : now - s.at < Window[c] => s \in store'[c]
  <2> SUFFICES ASSUME NEW c \in Buckets, NEW s \in store[c], now - s.at < Window[c]
               PROVE  now - s.at < DefaultWindow
    BY <1>1
  <2>1. s.at \in Nat
    BY <1>2 DEF Stamps
  <2>2. Window[c] <= DefaultWindow /\ Window[c] \in Nat
    BY <1>2 DEF WindowsFit
  <2> QED BY <1>2, <2>1, <2>2
<1>5. KeptWereGranted' /\ RecentAreKept' /\ BurstsAreBounded'
  BY <1>1, <1>3, <1>4, ForgettingKeeps
<1>6. PromisesHold'
  <2> SUFFICES ASSUME NEW c \in Buckets, promised[c] # NoPromise
               PROVE  Cardinality(Outlasting(c)') < Limit[c]
    BY <1>1 DEF PromisesHold, NoPromise
  <2>1. Outlasting(c)' \subseteq Outlasting(c)
    BY <1>1, <1>4 DEF Outlasting
  <2>2. IsFiniteSet(Outlasting(c))
    BY FS_Subset DEF Outlasting, LimiterIInv, KeptWereGranted
  <2>3. /\ Cardinality(Outlasting(c)') <= Cardinality(Outlasting(c))
        /\ Cardinality(Outlasting(c)') \in Nat /\ Cardinality(Outlasting(c)) \in Nat
    BY <2>1, <2>2, FS_Subset, FS_CardinalityType
  <2>4. Cardinality(Outlasting(c)) < Limit[c]
    BY DEF LimiterIInv, PromisesHold
  <2> QED BY <1>2, <2>3, <2>4
<1> QED BY <1>3, <1>5, <1>6 DEF LimiterIInv

\* The passing of time lets stamps grow too old to count, and nothing else.
LEMMA TickKeeps ==
  ASSUME LimiterAssumption, LimiterIInv, Tick
  PROVE  LimiterIInv'
<1>1. /\ now' = now + 1 /\ store' = store /\ granted' = granted
      /\ sweepAt' = sweepAt /\ promised' = promised
  BY DEF Tick
<1>2. now \in Nat /\ Window \in [Buckets -> Nat] /\ granted \in [Buckets -> SUBSET Stamps]
  BY DEF LimiterIInv, LimiterTypeOK, LimiterAssumption
<1>3. LimiterTypeOK'
  BY <1>1, <1>2 DEF LimiterIInv, LimiterTypeOK
<1>4. KeptWereGranted' /\ RecentAreKept'
  <2>1. ASSUME NEW c \in Buckets, NEW s \in granted[c]
        PROVE  s.at <= now + 1 /\ (now + 1 - s.at < Window[c] => s \in store[c])
    <3>1. s.at \in Nat /\ Window[c] \in Nat
      BY <1>2 DEF Stamps
    <3>2. s.at <= now /\ (now - s.at < Window[c] => s \in store[c])
      BY DEF LimiterIInv, KeptWereGranted, RecentAreKept
    <3> QED BY <1>2, <3>1, <3>2
  <2>2. KeptWereGranted'
    BY <1>1, <2>1 DEF LimiterIInv, KeptWereGranted
  <2>3. RecentAreKept'
    <3> SUFFICES ASSUME NEW c \in Buckets, NEW s \in granted'[c], now' - s.at < Window[c]
                 PROVE  s \in store'[c]
      BY DEF RecentAreKept
    <3>1. s \in granted[c] /\ store'[c] = store[c]
      BY <1>1
    <3>2. now + 1 - s.at < Window[c]
      BY <1>1, <1>2, <3>1 DEF Stamps
    <3> QED BY <2>1, <3>1, <3>2
  <2> QED BY <2>2, <2>3
<1>5. BurstsAreBounded' /\ PromisesHold'
  BY <1>1 DEF LimiterIInv, BurstsAreBounded, Burst, PromisesHold, Outlasting, NoPromise
<1> QED BY <1>3, <1>4, <1>5 DEF LimiterIInv

\* A restart forgets everything, and begins a new life.
LEMMA ForgetKeeps ==
  ASSUME LimiterAssumption, LimiterIInv, Forget
  PROVE  LimiterIInv'
<1>1. /\ store' = [c \in Buckets |-> {}] /\ granted' = [c \in Buckets |-> {}]
      /\ promised' = [c \in Buckets |-> NoPromise] /\ sweepAt' = NoSweep /\ now' = now
  BY DEF Forget
<1>2. LimiterTypeOK'
  BY <1>1 DEF LimiterIInv, LimiterTypeOK, NoSweep, NoPromise, LimiterAssumption
<1>3. KeptWereGranted' /\ RecentAreKept' /\ BurstsAreBounded' /\ PromisesHold'
  BY <1>1, FS_EmptySet DEF KeptWereGranted, RecentAreKept, BurstsAreBounded, PromisesHold, NoPromise
<1> QED BY <1>2, <1>3 DEF LimiterIInv

-----------------------------------------------------------------------------

\* The strengthened invariant is inductive.
THEOREM LimiterInductive ==
  ASSUME LimiterAssumption, WindowsFit
  PROVE  LimiterSpec => []LimiterIInv
<1>1. LimiterInit => LimiterIInv
  BY LimiterStarts
<1>2. ASSUME LimiterIInv, [LimiterNext]_limiterVars PROVE LimiterIInv'
  <2>1. ASSUME NEW b \in Buckets, Grant(b) PROVE LimiterIInv'
    BY <1>2, <2>1, GrantKeeps
  <2>2. ASSUME NEW b \in Buckets, Deny(b) PROVE LimiterIInv'
    BY <1>2, <2>2, DenyKeeps
  <2>3. CASE Sweep
    BY <1>2, <2>3, SweepKeeps
  <2>4. CASE Tick
    BY <1>2, <2>4, TickKeeps
  <2>5. CASE Forget
    BY <1>2, <2>5, ForgetKeeps
  <2>6. CASE UNCHANGED limiterVars
    BY <1>2, <2>6 DEF limiterVars, LimiterIInv, LimiterTypeOK, KeptWereGranted, RecentAreKept,
      BurstsAreBounded, Burst, PromisesHold, Outlasting, NoPromise
  <2> QED BY <1>2, <2>1, <2>2, <2>3, <2>4, <2>5, <2>6 DEF LimiterNext
<1> QED BY <1>1, <1>2, PTL DEF LimiterSpec

\* The sliding window keeps what it promises (rateLimit.ts 48-90), for every
\* limit and every window that is not longer than the sweep's: no window admits
\* more than the limit, and who waits as long as he was told is admitted unless
\* somebody else was.
THEOREM LimitsHold ==
  ASSUME LimiterAssumption, WindowsFit
  PROVE  LimiterSpec => []LimitsAreKept
<1>1. LimiterIInv => LimitsAreKept
  <2> SUFFICES ASSUME LimiterIInv, NEW b \in Buckets,
                      promised[b] # NoPromise, now >= promised[b]
               PROVE  Admits(b)
    BY DEF LimitsAreKept, RetryAfterIsKept, LimiterIInv
  <2>1. /\ now \in Nat /\ promised[b] \in Nat /\ Window[b] \in Nat
        /\ store[b] \in SUBSET Stamps /\ Limit[b] \in Nat
    BY DEF LimiterIInv, LimiterTypeOK, LimiterAssumption
  <2>2. Kept(b) \subseteq Outlasting(b)
    <3> SUFFICES ASSUME NEW s \in store[b], now - s.at < Window[b]
                 PROVE  s.at + Window[b] > promised[b]
      BY DEF Kept, Outlasting
    <3>1. s.at \in Nat
      BY <2>1 DEF Stamps
    <3> QED BY <2>1, <3>1
  <2>3. IsFiniteSet(Outlasting(b))
    BY FS_Subset DEF Outlasting, LimiterIInv, KeptWereGranted
  <2>4. /\ Cardinality(Kept(b)) <= Cardinality(Outlasting(b))
        /\ Cardinality(Kept(b)) \in Nat /\ Cardinality(Outlasting(b)) \in Nat
    BY <2>2, <2>3, FS_Subset, FS_CardinalityType
  <2>5. Cardinality(Outlasting(b)) < Limit[b]
    BY DEF LimiterIInv, PromisesHold
  <2> QED BY <2>1, <2>4, <2>5 DEF Admits
<1> QED BY <1>1, LimiterInductive, PTL

-----------------------------------------------------------------------------
(* The requests that spend its limits. *)

\* A request past the middlewares names a route and a caller, one that is about
\* to change a key names the key.
RequestsAreWhole ==
  /\ DOMAIN req = Actors
  /\ \A a \in Actors :
       /\ req[a].at = "admitted" => /\ req[a].route \in Routes
                                    /\ req[a].by \in Keys \cup {Person}
       /\ req[a].at \in {"revoking", "scripting"} => req[a].row \in Keys

\* What one actor's step does to the requests.
LEMMA OneRequest ==
  ASSUME RequestsAreWhole, NEW a \in Actors, NEW q, Goes(a, q)
  PROVE  /\ DOMAIN req' = Actors
         /\ req'[a] = q
         /\ \A b \in Actors \ {a} : req'[b] = req[b]
  BY DEF RequestsAreWhole, Goes

\* No request: what it is not.
LEMMA IdleIsNothing ==
  Idle.at = "idle" /\ Idle.at \notin {"admitted", "verified", "hashing", "revoking", "scripting"}
  BY DEF Idle

LEMMA ActorsAre == Devices \subseteq Actors /\ Terminals \subseteq Actors
  BY DEF Actors

-----------------------------------------------------------------------------

\* The middlewares let a request through as it came, or not at all.
LEMMA PassesAdmits ==
  ASSUME NEW a, NEW r, NEW k \in Keys \cup {NoKey}, NEW cross, Passes(a, r, k, cross),
         AccessAssumption
  PROVE  \/ UNCHANGED req
         \/ \E by \in Keys \cup {Person} : \E scopes : Goes(a, Admitted(r, by, scopes))
<1>1. CASE AdmitSession(a, r, cross)
  BY <1>1 DEF AdmitSession
<1>2. CASE RejectSession(a, r, cross)
  BY <1>2 DEF RejectSession
<1>3. CASE AdmitKey(a, r, k, cross)
  BY <1>3 DEF AdmitKey, ValidKey
<1>4. CASE AdmitElsewhere(a, r, k)
  BY <1>4 DEF AdmitElsewhere, ValidKey
<1> QED BY <1>1, <1>2, <1>3, <1>4 DEF Passes

\* An admitted request keeps the invariant.
LEMMA AdmittedIsWhole ==
  ASSUME RequestsAreWhole, NEW a \in Actors, NEW r \in Routes,
         NEW by \in Keys \cup {Person}, NEW scopes, Goes(a, Admitted(r, by, scopes))
  PROVE  RequestsAreWhole'
<1> DEFINE q == Admitted(r, by, scopes)
<1>1. q.at = "admitted" /\ q.route = r /\ q.by = by
  BY DEF Admitted
<1>2. req'[a] = q /\ DOMAIN req' = Actors /\ \A b \in Actors \ {a} : req'[b] = req[b]
  BY OneRequest
<1> QED BY <1>1, <1>2 DEF RequestsAreWhole

\* So does one that is over.
LEMMA IdleIsWhole ==
  ASSUME RequestsAreWhole, NEW a \in Actors, Goes(a, Idle)
  PROVE  RequestsAreWhole'
  BY OneRequest, IdleIsNothing DEF RequestsAreWhole

\* And one in the middle of its handler, if it names a key where it should.
LEMMA HandlingIsWhole ==
  ASSUME RequestsAreWhole, NEW a \in Actors, NEW q, Goes(a, q), q.at # "admitted",
         q.at \in {"revoking", "scripting"} => q.row \in Keys
  PROVE  RequestsAreWhole'
  BY OneRequest DEF RequestsAreWhole

LEMMA RoutedKeeps ==
  ASSUME AccessAssumption, RequestsAreWhole, [AccessNext]_vars
  PROVE  RequestsAreWhole'
<1>1. CASE UNCHANGED req
  BY <1>1 DEF RequestsAreWhole
<1>2. ASSUME NEW r \in Replicas, Restart(r) PROVE RequestsAreWhole'
  BY <1>1, <1>2, IdleIsNothing DEF Restart, RequestsAreWhole
<1>3. ASSUME NEW d \in Devices, NEW p \in Passwords, LoginVerify(d, p) PROVE RequestsAreWhole'
  <2>1. CASE UNCHANGED req
    BY <2>1, <1>1
  <2>2. CASE Goes(d, [at |-> "verified", version |-> user.version])
    BY <2>2, HandlingIsWhole, ActorsAre
  <2> QED BY <1>3, <2>1, <2>2 DEF LoginVerify
<1>4. ASSUME NEW d \in Devices, LoginSeal(d) PROVE RequestsAreWhole'
  BY <1>4, IdleIsWhole, ActorsAre DEF LoginSeal
<1>5. ASSUME NEW d \in Devices, NEW r \in Routes, NEW cross \in BOOLEAN, Browse(d, r, cross)
      PROVE  RequestsAreWhole'
  <2>1. Passes(d, r, NoKey, cross)
    BY <1>5 DEF Browse
  <2> QED BY <2>1, <1>1, PassesAdmits, AdmittedIsWhole, ActorsAre
<1>6. ASSUME NEW d \in Devices, NEW old \in Passwords, NEW new \in Passwords,
             PasswordVerify(d, old, new)
      PROVE  RequestsAreWhole'
  <2>1. CASE Goes(d, [at |-> "hashing", password |-> new])
    BY <2>1, HandlingIsWhole, ActorsAre
  <2>2. CASE Goes(d, Idle)
    BY <2>2, IdleIsWhole, ActorsAre
  <2> QED BY <1>6, <2>1, <2>2 DEF PasswordVerify
<1>7. ASSUME NEW d \in Devices, PasswordStore(d) PROVE RequestsAreWhole'
  BY <1>7, IdleIsWhole, ActorsAre DEF PasswordStore
<1>8. ASSUME NEW t \in Terminals, NEW r \in Routes, NEW k \in Keys \cup {NoKey}, Consume(t, r, k)
      PROVE  RequestsAreWhole'
  <2>1. Passes(t, r, k, FALSE)
    BY <1>8 DEF Consume
  <2> QED BY <2>1, <1>1, PassesAdmits, AdmittedIsWhole, ActorsAre
<1>9. ASSUME NEW t \in Terminals, NEW r \in Routes, NEW k \in Keys \cup {NoKey}, CliRun(t, r, k)
      PROVE  RequestsAreWhole'
  <2>1. k \in Keys /\ Goes(t, Admitted(r, k, keys[k].scopes))
    BY <1>9 DEF CliRun, AdmitKey, ValidKey
  <2> QED BY <2>1, AdmittedIsWhole, ActorsAre
<1>10. ASSUME NEW t \in Terminals, NEW k \in Keys, ScriptRevokeFind(t, k) PROVE RequestsAreWhole'
  <2>1. Goes(t, [at |-> "scripting", row |-> k])
    BY <1>10 DEF ScriptRevokeFind
  <2> QED BY <2>1, HandlingIsWhole, ActorsAre
<1>11. ASSUME NEW t \in Terminals, ScriptRevokeEnd(t) PROVE RequestsAreWhole'
  BY <1>11, IdleIsWhole, ActorsAre DEF ScriptRevokeEnd
<1>12. ASSUME NEW a \in Actors, NEW k \in Keys, RevokeFind(a, k) PROVE RequestsAreWhole'
  <2>1. Goes(a, [at |-> "revoking", row |-> k])
    BY <1>12 DEF RevokeFind
  <2> QED BY <2>1, HandlingIsWhole
<1>13. ASSUME NEW a \in Actors, TurnedAway(a) \/ Serve(a) \/ RevokeEnd(a) PROVE RequestsAreWhole'
  BY <1>13, IdleIsWhole DEF TurnedAway, Serve, RevokeEnd, Refused, Done
<1>14. ASSUME NEW a \in Actors, NEW scopes \in GrantedScopes, Mint(a, scopes) PROVE RequestsAreWhole'
  BY <1>14, IdleIsWhole DEF Mint, Done
<1>15. CASE BootSteps
  BY <1>15, <1>1, <1>2 DEF BootSteps, DatabaseComesUp, WaitForDb, SeedCount, SeedCreate
<1>16. CASE SessionSteps
  BY <1>16, <1>1, <1>3, <1>4, <1>5, <1>6, <1>7 DEF SessionSteps, Logout
<1>17. CASE TerminalSteps
  BY <1>17, <1>1, <1>8, <1>9, <1>10, <1>11 DEF TerminalSteps, CliFails, CliCut, ScriptCreate
<1>18. CASE HandlerSteps
  BY <1>18, <1>12, <1>13, <1>14 DEF HandlerSteps
<1>19. CASE ClockSteps \/ UNCHANGED vars
  BY <1>19, <1>1 DEF ClockSteps, vars, accessVars
<1> QED BY <1>15, <1>16, <1>17, <1>18, <1>19 DEF AccessNext

-----------------------------------------------------------------------------
(* The limiter.                                                            *)

\* A handler counts its request in a bucket the limiter has, or not at all.
LEMMA CountsAreLimiterSteps ==
  ASSUME BucketsSuffice, RequestsAreWhole, NEW a \in Actors, req[a].at = "admitted", Counts(a)
  PROVE  [LimiterNext]_limiterVars
<1>1. CASE req[a].route \in Unlimited
  BY <1>1 DEF Counts
<1>2. CASE req[a].route \notin Unlimited
  <2>1. BucketOf(a, req[a].route, req[a].by) \in Buckets
    BY <1>2 DEF BucketsSuffice, RequestsAreWhole
  <2>2. Grant(BucketOf(a, req[a].route, req[a].by))
    BY <1>2 DEF Counts
  <2> QED BY <2>1, <2>2 DEF LimiterNext
<1> QED BY <1>1, <1>2

\* Every step of the server is one step of the limiter, or none.
LEMMA StepsAreLimiterSteps ==
  ASSUME AccessAssumption, BucketsSuffice, RequestsAreWhole, [AccessNext]_vars
  PROVE  [LimiterNext]_limiterVars
<1>1. ASSUME NEW r \in Replicas, Restart(r) PROVE [LimiterNext]_limiterVars
  BY <1>1 DEF Restart, LimiterNext
<1>2. ASSUME NEW d \in Devices, NEW p \in Passwords, LoginVerify(d, p)
      PROVE  [LimiterNext]_limiterVars
  <2>1. <<"login", ClientIp(d)>> \in Buckets
    BY DEF BucketsSuffice
  <2>2. Grant(<<"login", ClientIp(d)>>) \/ Deny(<<"login", ClientIp(d)>>)
    BY <1>2 DEF LoginVerify
  <2> QED BY <2>1, <2>2 DEF LimiterNext
<1>3. ASSUME NEW a \in Actors, TurnedAway(a) PROVE [LimiterNext]_limiterVars
  <2> DEFINE b == BucketOf(a, req[a].route, req[a].by)
  <2>1. req[a].at = "admitted"
    BY <1>3 DEF TurnedAway
  <2>2. req[a].route \notin Unlimited => b \in Buckets
    BY <2>1 DEF BucketsSuffice, RequestsAreWhole
  <2>3. \/ UNCHANGED limiterVars
        \/ req[a].route \notin Unlimited /\ (Deny(b) \/ Grant(b))
    BY <1>3 DEF TurnedAway, Unlimited
  <2> HIDE DEF b
  <2> QED BY <2>2, <2>3 DEF LimiterNext
<1>4. ASSUME NEW a \in Actors, Serve(a) PROVE [LimiterNext]_limiterVars
  BY <1>4, CountsAreLimiterSteps DEF Serve
<1>5. ASSUME NEW a \in Actors, NEW scopes \in GrantedScopes, Mint(a, scopes)
      PROVE  [LimiterNext]_limiterVars
  BY <1>5, CountsAreLimiterSteps DEF Mint, Handling
<1>6. ASSUME NEW a \in Actors, NEW k \in Keys, RevokeFind(a, k) PROVE [LimiterNext]_limiterVars
  BY <1>6, CountsAreLimiterSteps DEF RevokeFind, Handling
<1>7. ASSUME NEW d \in Devices, NEW old \in Passwords, NEW new \in Passwords,
             PasswordVerify(d, old, new)
      PROVE  [LimiterNext]_limiterVars
  BY <1>7, CountsAreLimiterSteps, ActorsAre DEF PasswordVerify, Handling
<1>8. CASE BootSteps
  BY <1>8, <1>1 DEF BootSteps, DatabaseComesUp, WaitForDb, SeedCount, SeedCreate
<1>9. CASE SessionSteps
  BY <1>9, <1>2, <1>7 DEF SessionSteps, LoginSeal, Logout, Browse, PasswordStore
<1>10. CASE TerminalSteps
  BY <1>10 DEF TerminalSteps, Consume, CliRun, CliFails, CliCut, ScriptCreate, ScriptRevokeFind,
    ScriptRevokeEnd
<1>11. CASE HandlerSteps
  BY <1>11, <1>3, <1>4, <1>5, <1>6 DEF HandlerSteps, RevokeEnd
<1>12. CASE ClockSteps \/ UNCHANGED vars
  BY <1>12 DEF ClockSteps, LimiterNext, vars
<1> QED BY <1>8, <1>9, <1>10, <1>11, <1>12 DEF AccessNext

LEMMA RequestsStayWhole ==
  ASSUME AccessAssumption
  PROVE  Spec => []RequestsAreWhole
<1>1. AccessInit => RequestsAreWhole
  BY IdleIsNothing DEF AccessInit, RequestsAreWhole
<1>2. RequestsAreWhole /\ [AccessNext]_vars => RequestsAreWhole'
  BY RoutedKeeps
<1> QED BY <1>1, <1>2, PTL DEF Spec

\* What the handlers do to the limiter is what a limiter does: each request is
\* counted once, refused once or not counted, in the bucket of its route and
\* caller, and only a restart forgets (rateLimit.ts, its callers).
THEOREM AccessImplementsLimiter ==
  ASSUME AccessAssumption, BucketsSuffice
  PROVE  Spec => LimiterSpec
<1>1. AccessInit => LimiterInit
  BY DEF AccessInit
<1>2. RequestsAreWhole /\ [AccessNext]_vars => [LimiterNext]_limiterVars
  BY StepsAreLimiterSteps
<1> QED BY <1>1, <1>2, RequestsStayWhole, PTL DEF Spec, LimiterSpec

\* So whatever the callers, their overlapping requests and the restarts do, no
\* window of a bucket admits more than its limit.
THEOREM AccessLimitsHold ==
  ASSUME AccessAssumption, BucketsSuffice, LimiterAssumption, WindowsFit
  PROVE  Spec => []LimitsAreKept
  BY AccessImplementsLimiter, LimitsHold, PTL

-----------------------------------------------------------------------------
(* Sessions.                                                               *)

\* A passwordVersion that a device was given: not of the future, and if it is the
\* one in force the device has typed the password in force.
Knows(v, d) ==
  /\ v \in Nat /\ v <= user.version /\ user # NoUser
  /\ v = user.version => user.password \in typed[d]

\* What cookies, and requests between two steps of their handlers, may hold.
SessionsAreKnown ==
  \A d \in Devices :
    /\ cookie[d] # NoCookie => Knows(cookie[d], d)
    /\ req[d].at = "verified" => Knows(req[d].version, d)
    /\ req[d].at = "hashing" => user # NoUser /\ req[d].password \in typed[d]
    /\ req[d].at = "admitted" /\ req[d].route = "password" => user # NoUser

SessionIInv == AccessTypeOK /\ SessionsAreKnown

\* Steps that change neither the user nor a cookie, and leave each device's request
\* as it was or with nothing to know.
LEMMA QuietStepsKeep ==
  ASSUME SessionIInv, UNCHANGED <<user, cookie>>,
         \A d \in Devices : typed[d] \subseteq typed'[d],
         \A d \in Devices :
           \/ req'[d] = req[d]
           \/ /\ req'[d].at \notin {"verified", "hashing"}
              /\ req'[d].at = "admitted" /\ req'[d].route = "password" => user # NoUser
  PROVE  SessionsAreKnown'
  BY DEF SessionIInv, SessionsAreKnown, Knows

\* Who gets a "password" request past the middlewares has a session.
LEMMA PasswordNeedsSession ==
  ASSUME SessionIInv, NEW d \in Devices, NEW r, NEW k, NEW cross, Passes(d, r, k, cross)
  PROVE  \/ UNCHANGED req
         \/ \E by, scopes : /\ Goes(d, Admitted(r, by, scopes)) /\ UNCHANGED cookie
                            /\ r = "password" => user # NoUser
<1>1. CASE AdmitSession(d, r, cross)
  <2>1. cookie[d] # NoCookie
    BY <1>1 DEF AdmitSession, CookieSent
  <2>2. user # NoUser
    BY <2>1 DEF SessionIInv, SessionsAreKnown, Knows
  <2> QED BY <1>1, <2>2 DEF AdmitSession
<1>2. CASE RejectSession(d, r, cross)
  BY <1>2 DEF RejectSession
<1>3. CASE AdmitKey(d, r, k, cross)
  <2>1. r # "password"
    BY <1>3 DEF AdmitKey, TokenAllowed, PublicRoutes, TokenRoutes
  <2> QED BY <1>3, <2>1 DEF AdmitKey
<1>4. CASE AdmitElsewhere(d, r, k)
  <2>1. r # "password"
    BY <1>4 DEF AdmitElsewhere, Graphql, Open
  <2> QED BY <1>4, <2>1 DEF AdmitElsewhere
<1> QED BY <1>1, <1>2, <1>3, <1>4 DEF Passes

\* A request that lands at a place without anything to know.
LEMMA OneQuietRequest ==
  ASSUME SessionIInv, RequestsAreWhole, UNCHANGED <<user, cookie, typed>>,
         NEW a \in Actors, NEW q, Goes(a, q), q.at \in {"idle", "revoking", "scripting"}
  PROVE  SessionsAreKnown'
<1>1. \A d \in Devices : req'[d] = req[d] \/ req'[d] = q
  BY OneRequest, ActorsAre
<1> QED BY <1>1, QuietStepsKeep

\* The steps of a browser.
LEMMA SessionStepsKeep ==
  ASSUME AccessAssumption, SessionIInv, RequestsAreWhole, SessionSteps
  PROVE  SessionsAreKnown'
<1>1. ASSUME NEW d \in Devices, NEW p \in Passwords, LoginVerify(d, p) PROVE SessionsAreKnown'
  <2>1. user' = user /\ cookie' = cookie
    BY <1>1 DEF LoginVerify
  <2>2. CASE UNCHANGED <<typed, req>>
    BY <2>1, <2>2, QuietStepsKeep
  <2>3. CASE /\ typed' = [typed EXCEPT ![d] = @ \cup {p}]
             /\ user # NoUser /\ user.password = p
             /\ Goes(d, [at |-> "verified", version |-> user.version])
    <3> DEFINE q == [at |-> "verified", version |-> user.version]
    <3>1. /\ \A c \in Devices : typed[c] \subseteq typed'[c]
          /\ p \in typed'[d]
      BY <2>3 DEF SessionIInv, AccessTypeOK
    <3>2. req'[d] = q /\ \A c \in Devices \ {d} : req'[c] = req[c]
      BY <2>3, OneRequest, ActorsAre
    <3>3. q.at = "verified" /\ q.version = user.version /\ user.version \in Nat
      BY DEF SessionIInv, AccessTypeOK
    <3>4. \A v : v = q.version => Knows(v, d)'
      BY <2>1, <2>3, <3>1, <3>3 DEF Knows, NoUser
    <3>5. \A c \in Devices : \A v : Knows(v, c) => Knows(v, c)'
      BY <2>1, <3>1 DEF Knows, NoUser
    <3> HIDE DEF q
    <3> QED BY <2>1, <3>1, <3>2, <3>3, <3>4, <3>5 DEF SessionIInv, SessionsAreKnown, NoUser, NoCookie
  <2>4. CASE typed' = [typed EXCEPT ![d] = @ \cup {p}] /\ UNCHANGED req
    <3>1. \A c \in Devices : typed[c] \subseteq typed'[c]
      BY <2>4 DEF SessionIInv, AccessTypeOK
    <3> QED BY <2>1, <2>4, <3>1, QuietStepsKeep
  <2> QED BY <1>1, <2>2, <2>3, <2>4 DEF LoginVerify
<1>2. ASSUME NEW d \in Devices, LoginSeal(d) PROVE SessionsAreKnown'
  <2>1. /\ req[d].at = "verified" /\ Goes(d, Idle) /\ user' = user /\ typed' = typed
        /\ cookie' = [cookie EXCEPT ![d] = req[d].version] \/ cookie' = cookie
    BY <1>2 DEF LoginSeal
  <2>2. CASE cookie' = cookie
    BY <2>1, <2>2, IdleIsNothing, OneQuietRequest, ActorsAre
  <2>3. CASE cookie' = [cookie EXCEPT ![d] = req[d].version]
    <3>1. cookie'[d] = req[d].version /\ \A c \in Devices \ {d} : cookie'[c] = cookie[c]
      BY <2>3 DEF SessionIInv, AccessTypeOK
    <3>2. req'[d].at = "idle" /\ \A c \in Devices \ {d} : req'[c] = req[c]
      BY <2>1, OneRequest, IdleIsNothing, ActorsAre
    <3>3. Knows(req[d].version, d)
      BY <2>1 DEF SessionIInv, SessionsAreKnown
    <3> QED BY <2>1, <3>1, <3>2, <3>3 DEF SessionIInv, SessionsAreKnown, Knows
  <2> QED BY <2>1, <2>2, <2>3
<1>3. ASSUME NEW d \in Devices, Logout(d) PROVE SessionsAreKnown'
  <2>1. cookie'[d] = NoCookie /\ \A c \in Devices \ {d} : cookie'[c] = cookie[c]
    BY <1>3 DEF Logout, SessionIInv, AccessTypeOK
  <2>2. user' = user /\ typed' = typed /\ req' = req
    BY <1>3 DEF Logout
  <2> QED BY <2>1, <2>2 DEF SessionIInv, SessionsAreKnown, Knows, NoCookie
<1>4. ASSUME NEW d \in Devices, NEW r \in Routes, NEW cross \in BOOLEAN, Browse(d, r, cross)
      PROVE  SessionsAreKnown'
  <2>1. Passes(d, r, NoKey, cross) /\ user' = user /\ typed' = typed
    BY <1>4 DEF Browse
  <2>2. CASE RejectSession(d, r, cross)
    <3>1. cookie'[d] = NoCookie /\ \A c \in Devices \ {d} : cookie'[c] = cookie[c]
      BY <2>2 DEF RejectSession, SessionIInv, AccessTypeOK
    <3>2. req' = req
      BY <2>2 DEF RejectSession
    <3> QED BY <2>1, <3>1, <3>2 DEF SessionIInv, SessionsAreKnown, Knows, NoCookie
  <2>3. CASE ~RejectSession(d, r, cross)
    <3>1. cookie' = cookie
      BY <2>1, <2>3 DEF Passes, AdmitSession, AdmitKey, AdmitElsewhere
    <3>2. CASE UNCHANGED req
      BY <2>1, <3>1, <3>2, QuietStepsKeep
    <3>3. CASE \E by, scopes : /\ Goes(d, Admitted(r, by, scopes)) /\ UNCHANGED cookie
                               /\ r = "password" => user # NoUser
      <4>1. PICK by, scopes : Goes(d, Admitted(r, by, scopes))
        BY <3>3
      <4>2. Admitted(r, by, scopes).at = "admitted" /\ Admitted(r, by, scopes).route = r
        BY DEF Admitted
      <4>3. /\ req'[d] = Admitted(r, by, scopes)
            /\ \A c \in Devices \ {d} : req'[c] = req[c]
        BY <4>1, OneRequest, ActorsAre
      <4> QED BY <2>1, <3>1, <3>3, <4>2, <4>3, QuietStepsKeep
    <3> QED BY <2>1, <3>2, <3>3, PasswordNeedsSession
  <2> QED BY <2>2, <2>3
<1>5. ASSUME NEW d \in Devices, NEW old \in Passwords, NEW new \in Passwords,
             PasswordVerify(d, old, new)
      PROVE  SessionsAreKnown'
  <2>1. /\ user' = user /\ cookie' = cookie /\ typed' = [typed EXCEPT ![d] = @ \cup {old, new}]
        /\ req[d].at = "admitted" /\ req[d].route = "password"
    BY <1>5 DEF PasswordVerify, Handling
  <2>2. /\ \A c \in Devices : typed[c] \subseteq typed'[c]
        /\ new \in typed'[d]
    BY <2>1 DEF SessionIInv, AccessTypeOK
  <2>3. user # NoUser
    BY <2>1 DEF SessionIInv, SessionsAreKnown
  <2>4. CASE Goes(d, [at |-> "hashing", password |-> new])
    <3> DEFINE q == [at |-> "hashing", password |-> new]
    <3>1. req'[d] = q /\ \A c \in Devices \ {d} : req'[c] = req[c]
      BY <2>4, OneRequest, ActorsAre
    <3>2. q.at = "hashing" /\ q.password = new
      OBVIOUS
    <3> HIDE DEF q
    <3> QED BY <2>1, <2>2, <2>3, <3>1, <3>2 DEF SessionIInv, SessionsAreKnown, Knows, NoUser
  <2>5. CASE Goes(d, Idle)
    <3>1. \A c \in Devices : req'[c] = req[c] \/ req'[c] = Idle
      BY <2>5, OneRequest, ActorsAre
    <3> QED BY <2>1, <2>2, <3>1, IdleIsNothing, QuietStepsKeep
  <2> QED BY <1>5, <2>4, <2>5 DEF PasswordVerify
<1>6. ASSUME NEW d \in Devices, PasswordStore(d) PROVE SessionsAreKnown'
  <2>1. /\ req[d].at = "hashing" /\ Goes(d, Idle) /\ typed' = typed
        /\ user' = [password |-> req[d].password, version |-> user.version + 1]
        /\ cookie' = [cookie EXCEPT ![d] = user.version + 1] \/ cookie' = cookie
    BY <1>6 DEF PasswordStore
  <2>2. /\ user'.password = req[d].password /\ user'.version = user.version + 1
        /\ user.version \in Nat /\ user' # NoUser
    BY <2>1 DEF SessionIInv, AccessTypeOK, NoUser
  <2>3. req[d].password \in typed[d]
    BY <2>1 DEF SessionIInv, SessionsAreKnown
  <2>4. req'[d].at = "idle" /\ \A c \in Devices \ {d} : req'[c] = req[c]
    BY <2>1, OneRequest, IdleIsNothing, ActorsAre
  <2>5. \A c \in Devices : cookie'[c] = cookie[c] \/ (c = d /\ cookie'[c] = user.version + 1)
    BY <2>1 DEF SessionIInv, AccessTypeOK
  <2>6. \A c \in Devices : \A v : Knows(v, c) => Knows(v, c)'
    BY <2>2 DEF Knows
  <2>7. \A v : v = user.version + 1 => Knows(v, d)'
    BY <2>1, <2>2, <2>3 DEF Knows, NoUser
  <2>8. NoUser' = NoUser /\ NoCookie' = NoCookie
    BY DEF NoUser, NoCookie
  <2> QED BY <2>1, <2>2, <2>4, <2>5, <2>6, <2>7, <2>8 DEF SessionIInv, SessionsAreKnown
<1> QED BY <1>1, <1>2, <1>3, <1>4, <1>5, <1>6 DEF SessionSteps

\* The steps of a boot: only the container that serves forgets its requests, and
\* the administrator appears before anybody can have signed in.
LEMMA BootStepsKeep ==
  ASSUME AccessAssumption, SessionIInv, RequestsAreWhole, BootSteps
  PROVE  SessionsAreKnown'
<1>1. CASE UNCHANGED <<user, cookie, typed, req>>
  BY <1>1, QuietStepsKeep
<1>2. ASSUME NEW r \in Replicas, SeedCreate(r) PROVE SessionsAreKnown'
  <2>1. CASE user # NoUser
    BY <1>1, <1>2, <2>1 DEF SeedCreate
  <2>2. CASE user = NoUser
    <3>1. cookie' = cookie /\ typed' = typed /\ req' = req
      BY <1>2 DEF SeedCreate
    <3>2. \A d \in Devices : /\ cookie[d] = NoCookie
                             /\ req[d].at \notin {"verified", "hashing"}
                             /\ ~(req[d].at = "admitted" /\ req[d].route = "password")
      BY <2>2 DEF SessionIInv, SessionsAreKnown, Knows
    <3> QED BY <3>1, <3>2 DEF SessionsAreKnown, NoCookie
  <2> QED BY <2>1, <2>2
<1>3. ASSUME NEW r \in Replicas, Restart(r) PROVE SessionsAreKnown'
  <2>1. user' = user /\ cookie' = cookie /\ typed' = typed
    BY <1>3 DEF Restart
  <2>2. \A d \in Devices : req'[d] = req[d] \/ req'[d] = Idle
    BY <1>3, ActorsAre DEF Restart
  <2> QED BY <2>1, <2>2, IdleIsNothing, QuietStepsKeep
<1> QED BY <1>1, <1>2, <1>3 DEF BootSteps, DatabaseComesUp, WaitForDb, SeedCount

\* Terminals have no cookie, and no handler but the password's touches a session.
LEMMA OtherStepsKeep ==
  ASSUME AccessAssumption, SessionIInv, RequestsAreWhole,
         TerminalSteps \/ HandlerSteps \/ ClockSteps \/ UNCHANGED vars
  PROVE  SessionsAreKnown'
<1>1. CASE UNCHANGED <<user, cookie, typed, req>>
  BY <1>1, QuietStepsKeep
<1>2. ASSUME NEW t \in Terminals, user' = user, cookie' = cookie, typed' = typed,
             NEW q, Goes(t, q)
      PROVE  SessionsAreKnown'
  <2>1. \A d \in Devices : req'[d] = req[d]
    BY <1>2, OneRequest, ActorsAre DEF AccessAssumption
  <2> QED BY <1>2, <2>1, QuietStepsKeep
<1>3. ASSUME NEW t \in Terminals, NEW r \in Routes, NEW k \in Keys \cup {NoKey}, Consume(t, r, k)
      PROVE  SessionsAreKnown'
  <2>1. /\ Passes(t, r, k, FALSE) /\ user' = user /\ typed' = typed /\ t \notin Devices
    BY <1>3 DEF Consume, AccessAssumption
  <2>2. cookie' = cookie
    BY <2>1 DEF Passes, AdmitSession, RejectSession, AdmitKey, AdmitElsewhere, CookieSent
  <2> QED BY <1>1, <1>2, <2>1, <2>2, PassesAdmits
<1>4. ASSUME NEW t \in Terminals, NEW r \in Routes, NEW k \in Keys \cup {NoKey}, CliRun(t, r, k)
      PROVE  SessionsAreKnown'
  BY <1>2, <1>4 DEF CliRun, AdmitKey
<1>5. ASSUME NEW t \in Terminals, NEW k \in Keys, ScriptRevokeFind(t, k) PROVE SessionsAreKnown'
  BY <1>2, <1>5 DEF ScriptRevokeFind
<1>6. ASSUME NEW t \in Terminals, ScriptRevokeEnd(t) PROVE SessionsAreKnown'
  BY <1>2, <1>6 DEF ScriptRevokeEnd
<1>7. CASE TerminalSteps
  BY <1>1, <1>3, <1>4, <1>5, <1>6, <1>7 DEF TerminalSteps, CliFails, CliCut, ScriptCreate
<1>8. ASSUME NEW a \in Actors, TurnedAway(a) \/ Serve(a) \/ RevokeEnd(a) PROVE SessionsAreKnown'
  BY <1>8, IdleIsNothing, OneQuietRequest DEF TurnedAway, Serve, RevokeEnd, Refused, Done
<1>9. ASSUME NEW a \in Actors, NEW scopes \in GrantedScopes, Mint(a, scopes) PROVE SessionsAreKnown'
  BY <1>9, IdleIsNothing, OneQuietRequest DEF Mint, Done
<1>10. ASSUME NEW a \in Actors, NEW k \in Keys, RevokeFind(a, k) PROVE SessionsAreKnown'
  <2>1. Goes(a, [at |-> "revoking", row |-> k])
    BY <1>10 DEF RevokeFind
  <2> QED BY <1>10, <2>1, OneQuietRequest DEF RevokeFind
<1>11. CASE HandlerSteps
  BY <1>8, <1>9, <1>10, <1>11 DEF HandlerSteps
<1>12. CASE ClockSteps \/ UNCHANGED vars
  BY <1>1, <1>12 DEF ClockSteps, vars, accessVars
<1> QED BY <1>7, <1>11, <1>12

-----------------------------------------------------------------------------
(* Keys and commands.                                                      *)

\* A key made with a key's authority cannot make another, and the authority of
\* its parent, and of every request past the middlewares, is that of the row.
KeysAreTraced ==
  /\ \A k \in Keys : keys[k].by \in Keys =>
       /\ keys[keys[k].by].st # "none"
       /\ "apikey:write" \in keys[keys[k].by].scopes
       /\ "apikey:write" \notin keys[k].scopes
  /\ \A a \in Actors : req[a].at = "admitted" /\ req[a].by \in Keys =>
       keys[req[a].by].st # "none" /\ req[a].scopes = keys[req[a].by].scopes

LEMMA ScopeOfMinting == ScopeOf["apikeys.post"] = "apikey:write"
  BY DEF ScopeOf, PublicRoutes, TokenRoutes

\* Steps that leave the rows alone.
LEMMA RowsUntouchedKeep ==
  ASSUME KeysAreTraced, keys' = keys,
         \A a \in Actors :
           \/ req'[a] = req[a]
           \/ req'[a].at # "admitted"
           \/ req'[a].by \in Keys => /\ keys[req'[a].by].st # "none"
                                     /\ req'[a].scopes = keys[req'[a].by].scopes
  PROVE  KeysAreTraced'
  BY DEF KeysAreTraced

\* A new row is nobody's parent yet, and no request names it.
LEMMA NewKeyKeeps ==
  ASSUME AccessAssumption, AccessTypeOK, KeysAreTraced, NEW scopes, NEW by \in Keys \cup {Person},
         NewKey(scopes, by),
         by \in Keys => /\ keys[by].st # "none" /\ "apikey:write" \in keys[by].scopes
                        /\ "apikey:write" \notin scopes,
         \A a \in Actors : req'[a] = req[a] \/ req'[a].at # "admitted"
  PROVE  KeysAreTraced'
<1>1. PICK k \in Keys : /\ keys[k].st = "none"
                        /\ keys' = [keys EXCEPT ![k] =
                                      [st |-> "active", scopes |-> scopes, by |-> by]]
  BY DEF NewKey
<1> DEFINE row == [st |-> "active", scopes |-> scopes, by |-> by]
<1>2. keys'[k] = row /\ \A j \in Keys \ {k} : keys'[j] = keys[j]
  BY <1>1 DEF AccessTypeOK
<1>3. row.st = "active" /\ row.scopes = scopes /\ row.by = by
  OBVIOUS
<1> HIDE DEF row
<1>4. ASSUME NEW j \in Keys, keys'[j].by \in Keys
      PROVE  /\ keys'[keys'[j].by].st # "none"
             /\ "apikey:write" \in keys'[keys'[j].by].scopes
             /\ "apikey:write" \notin keys'[j].scopes
  <2>1. CASE j = k
    BY <1>1, <1>2, <1>3, <1>4, <2>1
  <2>2. CASE j # k
    <3>1. keys'[j] = keys[j]
      BY <1>2, <2>2
    <3>2. keys[j].by # k
      BY <1>1, <1>4, <3>1 DEF KeysAreTraced
    <3> QED BY <1>2, <1>4, <3>1, <3>2 DEF KeysAreTraced
  <2> QED BY <2>1, <2>2
<1>5. ASSUME NEW a \in Actors, req'[a].at = "admitted", req'[a].by \in Keys
      PROVE  /\ keys'[req'[a].by].st # "none"
             /\ req'[a].scopes = keys'[req'[a].by].scopes
  <2>1. req'[a] = req[a] /\ req[a].by # k
    BY <1>1, <1>5 DEF KeysAreTraced
  <2> QED BY <1>2, <1>5, <2>1 DEF KeysAreTraced
<1> QED BY <1>4, <1>5 DEF KeysAreTraced

\* A revoked row keeps its scopes and its parent.
LEMMA RevokedKeeps ==
  ASSUME AccessTypeOK, KeysAreTraced, NEW k \in Keys,
         keys' = [keys EXCEPT ![k].st = "revoked"],
         \A a \in Actors : req'[a] = req[a] \/ req'[a].at # "admitted"
  PROVE  KeysAreTraced'
<1>1. \A j \in Keys : /\ keys'[j].by = keys[j].by /\ keys'[j].scopes = keys[j].scopes
                      /\ keys[j].st # "none" => keys'[j].st # "none"
  BY DEF AccessTypeOK
<1> QED BY <1>1 DEF KeysAreTraced

\* What the middlewares admit has the scopes of its row.
LEMMA PassesTraced ==
  ASSUME AccessAssumption, RequestsAreWhole, KeysAreTraced, keys' = keys,
         NEW a \in Actors, NEW r, NEW k \in Keys \cup {NoKey}, NEW cross, Passes(a, r, k, cross)
  PROVE  KeysAreTraced'
<1>1. ASSUME Goes(a, Admitted(r, k, keys[k].scopes)), ValidKey(k) PROVE KeysAreTraced'
  <2>1. keys[k].st # "none"
    BY <1>1 DEF ValidKey
  <2>2. /\ Admitted(r, k, keys[k].scopes).by = k
        /\ Admitted(r, k, keys[k].scopes).scopes = keys[k].scopes
    BY DEF Admitted
  <2>3. /\ req'[a] = Admitted(r, k, keys[k].scopes)
        /\ \A b \in Actors \ {a} : req'[b] = req[b]
    BY <1>1, OneRequest
  <2> HIDE DEF Admitted
  <2> QED BY <2>1, <2>2, <2>3, RowsUntouchedKeep
<1>2. ASSUME Goes(a, Admitted(r, Person, {})) PROVE KeysAreTraced'
  <2>1. Admitted(r, Person, {}).by \notin Keys
    BY DEF Admitted, Person, AccessAssumption
  <2>2. req'[a] = Admitted(r, Person, {}) /\ \A b \in Actors \ {a} : req'[b] = req[b]
    BY <1>2, OneRequest
  <2> QED BY <2>1, <2>2, RowsUntouchedKeep
<1>3. CASE UNCHANGED req
  BY <1>3, RowsUntouchedKeep
<1> QED BY <1>1, <1>2, <1>3 DEF Passes, AdmitSession, RejectSession, AdmitKey, AdmitElsewhere

LEMMA TracedKeeps ==
  ASSUME AccessAssumption, AccessTypeOK, RequestsAreWhole, KeysAreTraced, [AccessNext]_vars
  PROVE  KeysAreTraced'
<1>1. CASE UNCHANGED <<keys, req>>
  BY <1>1, RowsUntouchedKeep
<1>2. ASSUME NEW a \in Actors, NEW q, Goes(a, q), q.at # "admitted", keys' = keys
      PROVE  KeysAreTraced'
  <2>1. \A b \in Actors : req'[b] = req[b] \/ req'[b] = q
    BY <1>2, OneRequest
  <2> QED BY <1>2, <2>1, RowsUntouchedKeep
<1>3. ASSUME NEW a \in Actors, Goes(a, Idle)
      PROVE  \A b \in Actors : req'[b] = req[b] \/ req'[b].at # "admitted"
  BY <1>3, OneRequest, IdleIsNothing
<1>4. CASE BootSteps
  <2>1. ASSUME NEW r \in Replicas, Restart(r) PROVE KeysAreTraced'
    <3>1. keys' = keys /\ \A a \in Actors : req'[a] = req[a] \/ req'[a] = Idle
      BY <2>1 DEF Restart
    <3> QED BY <3>1, IdleIsNothing, RowsUntouchedKeep
  <2> QED BY <1>1, <1>4, <2>1 DEF BootSteps, DatabaseComesUp, WaitForDb, SeedCount, SeedCreate
<1>5. CASE SessionSteps
  <2>1. ASSUME NEW d \in Devices, NEW p \in Passwords, LoginVerify(d, p) PROVE KeysAreTraced'
    <3>1. CASE UNCHANGED req
      BY <1>1, <2>1, <3>1 DEF LoginVerify
    <3>2. CASE Goes(d, [at |-> "verified", version |-> user.version])
      BY <1>2, <2>1, <3>2, ActorsAre DEF LoginVerify
    <3> QED BY <2>1, <3>1, <3>2 DEF LoginVerify
  <2>2. ASSUME NEW d \in Devices, LoginSeal(d) \/ PasswordStore(d) PROVE KeysAreTraced'
    BY <1>2, <2>2, IdleIsNothing, ActorsAre DEF LoginSeal, PasswordStore
  <2>3. ASSUME NEW d \in Devices, NEW r \in Routes, NEW cross \in BOOLEAN, Browse(d, r, cross)
        PROVE  KeysAreTraced'
    BY <2>3, PassesTraced, ActorsAre DEF Browse
  <2>4. ASSUME NEW d \in Devices, NEW old \in Passwords, NEW new \in Passwords,
               PasswordVerify(d, old, new)
        PROVE  KeysAreTraced'
    <3>1. CASE Goes(d, [at |-> "hashing", password |-> new])
      BY <1>2, <2>4, <3>1, ActorsAre DEF PasswordVerify
    <3>2. CASE Goes(d, Idle)
      BY <1>2, <2>4, <3>2, IdleIsNothing, ActorsAre DEF PasswordVerify
    <3> QED BY <2>4, <3>1, <3>2 DEF PasswordVerify
  <2> QED BY <1>1, <1>5, <2>1, <2>2, <2>3, <2>4 DEF SessionSteps, Logout
<1>6. CASE TerminalSteps
  <2>1. ASSUME NEW t \in Terminals, NEW r \in Routes, NEW k \in Keys \cup {NoKey}, Consume(t, r, k)
        PROVE  KeysAreTraced'
    BY <2>1, PassesTraced, ActorsAre DEF Consume
  <2>2. ASSUME NEW t \in Terminals, NEW r \in Routes, NEW k \in Keys \cup {NoKey}, CliRun(t, r, k)
        PROVE  KeysAreTraced'
    <3>1. k \in Keys /\ ValidKey(k) /\ Goes(t, Admitted(r, k, keys[k].scopes)) /\ keys' = keys
      BY <2>2 DEF CliRun, AdmitKey, ValidKey
    <3>2. /\ Admitted(r, k, keys[k].scopes).by = k
          /\ Admitted(r, k, keys[k].scopes).scopes = keys[k].scopes
      BY DEF Admitted
    <3>3. /\ req'[t] = Admitted(r, k, keys[k].scopes)
          /\ \A b \in Actors \ {t} : req'[b] = req[b]
      BY <3>1, OneRequest, ActorsAre
    <3>4. keys[k].st # "none"
      BY <3>1 DEF ValidKey
    <3> QED BY <3>1, <3>2, <3>3, <3>4, RowsUntouchedKeep
  <2>3. ASSUME NEW t \in Terminals, NEW scopes \in GrantedScopes, ScriptCreate(t, scopes)
        PROVE  KeysAreTraced'
    <3>1. NewKey(scopes, Person) /\ req' = req /\ Person \notin Keys
      BY <2>3 DEF ScriptCreate, AccessAssumption, Person
    <3> QED BY <3>1, NewKeyKeeps
  <2>4. ASSUME NEW t \in Terminals, NEW k \in Keys, ScriptRevokeFind(t, k) PROVE KeysAreTraced'
    <3>1. Goes(t, [at |-> "scripting", row |-> k]) /\ keys' = keys
      BY <2>4 DEF ScriptRevokeFind
    <3> QED BY <1>2, <3>1, ActorsAre
  <2>5. ASSUME NEW t \in Terminals, ScriptRevokeEnd(t) PROVE KeysAreTraced'
    <3>1. req[t].row \in Keys
      BY <2>5, ActorsAre DEF ScriptRevokeEnd, RequestsAreWhole
    <3> QED BY <1>3, <2>5, <3>1, RevokedKeeps, ActorsAre DEF ScriptRevokeEnd
  <2> QED BY <1>1, <1>6, <2>1, <2>2, <2>3, <2>4, <2>5 DEF TerminalSteps, CliFails, CliCut
<1>7. CASE HandlerSteps
  <2>1. ASSUME NEW a \in Actors, TurnedAway(a) \/ Serve(a) PROVE KeysAreTraced'
    BY <1>2, <2>1, IdleIsNothing DEF TurnedAway, Serve, Refused, Done
  <2>2. ASSUME NEW a \in Actors, RevokeEnd(a) PROVE KeysAreTraced'
    <3>1. req[a].row \in Keys
      BY <2>2 DEF RevokeEnd, RequestsAreWhole
    <3> QED BY <1>3, <2>2, <3>1, RevokedKeeps DEF RevokeEnd, Done
  <2>3. ASSUME NEW a \in Actors, NEW scopes \in GrantedScopes, Mint(a, scopes) PROVE KeysAreTraced'
    <3>1. /\ req[a].at = "admitted" /\ req[a].route = "apikeys.post"
          /\ req[a].by \in Keys \cup {Person}
      BY <2>3 DEF Mint, Handling, RequestsAreWhole
    <3>2. req[a].by \in Keys => "apikey:write" \in req[a].scopes
      BY <2>3, <3>1, ScopeOfMinting DEF Mint, Counts, ScopeOk
    <3>3. req[a].by \in Keys => /\ keys[req[a].by].st # "none"
                                /\ "apikey:write" \in keys[req[a].by].scopes
                                /\ "apikey:write" \notin scopes
      BY <2>3, <3>1, <3>2 DEF Mint, KeysAreTraced
    <3>4. NewKey(scopes, req[a].by) /\ Goes(a, Idle)
      BY <2>3 DEF Mint, Done
    <3> QED BY <1>3, <3>1, <3>3, <3>4, NewKeyKeeps
  <2>4. ASSUME NEW a \in Actors, NEW k \in Keys, RevokeFind(a, k) PROVE KeysAreTraced'
    <3>1. Goes(a, [at |-> "revoking", row |-> k]) /\ keys' = keys
      BY <2>4 DEF RevokeFind
    <3> QED BY <1>2, <3>1
  <2> QED BY <1>7, <2>1, <2>2, <2>3, <2>4 DEF HandlerSteps
<1>8. CASE ClockSteps \/ UNCHANGED vars
  BY <1>1, <1>8 DEF ClockSteps, vars, accessVars
<1> QED BY <1>4, <1>5, <1>6, <1>7, <1>8 DEF AccessNext

\* A command that ends well was carried out: what the terminal hears and what the
\* server did change together.
LEMMA CommandsKeep ==
  ASSUME AccessTypeOK, ExitZeroMeansDone, [AccessNext]_vars
  PROVE  ExitZeroMeansDone'
<1> USE DEF ExitZeroMeansDone
<1>1. CASE UNCHANGED <<cli, did>>
  BY <1>1
<1>2. ASSUME NEW a \in Actors, Refused(a) PROVE ExitZeroMeansDone'
  BY <1>2 DEF Refused, CliHears
<1>3. ASSUME NEW a \in Actors, Done(a) PROVE ExitZeroMeansDone'
  BY <1>3 DEF Done, CliHears
<1>4. ASSUME NEW t \in Terminals, CliFails(t) \/ CliCut(t) PROVE ExitZeroMeansDone'
  BY <1>4 DEF CliFails, CliCut, AccessTypeOK
<1>5. ASSUME NEW t \in Terminals, NEW r \in Routes, NEW k \in Keys \cup {NoKey}, CliRun(t, r, k)
      PROVE  ExitZeroMeansDone'
  BY <1>5 DEF CliRun, AccessTypeOK
<1>6. ASSUME NEW r \in Replicas, Restart(r) PROVE ExitZeroMeansDone'
  <2>1. did' = did /\ \A t \in Terminals : cli'[t] = "ok" => cli[t] = "ok"
    BY <1>6 DEF Restart
  <2> QED BY <2>1
<1>7. CASE BootSteps
  BY <1>1, <1>6, <1>7 DEF BootSteps, DatabaseComesUp, WaitForDb, SeedCount, SeedCreate
<1>8. CASE SessionSteps
  BY <1>1, <1>8 DEF SessionSteps, LoginVerify, LoginSeal, Logout, Browse, PasswordVerify,
    PasswordStore
<1>9. CASE TerminalSteps
  BY <1>1, <1>4, <1>5, <1>9 DEF TerminalSteps, Consume, ScriptCreate, ScriptRevokeFind,
    ScriptRevokeEnd
<1>10. CASE HandlerSteps
  BY <1>1, <1>2, <1>3, <1>10 DEF HandlerSteps, TurnedAway, Serve, RevokeEnd, Mint, RevokeFind
<1>11. CASE ClockSteps \/ UNCHANGED vars
  BY <1>1, <1>11 DEF ClockSteps, vars, accessVars
<1> QED BY <1>7, <1>8, <1>9, <1>10, <1>11 DEF AccessNext

-----------------------------------------------------------------------------
(* Types.                                                                  *)

\* The parts of the type invariant that the steps change together.
PeopleOK ==
  /\ user \in [password : Passwords \cup {"none"}, version : Nat]
  /\ cookie \in [Devices -> Nat \cup {NoCookie}]
  /\ typed \in [Devices -> SUBSET Passwords]
RowsOK ==
  keys \in [Keys -> [st : {"none", "active", "revoked"}, scopes : SUBSET Scopes,
                     by : Keys \cup {Person}]]
CommandsOK ==
  /\ cli \in [Terminals -> {"none", "running", "ok", "failed"}]
  /\ did \in [Terminals -> BOOLEAN]
BootOK ==
  /\ database \in BOOLEAN
  /\ boot \in [Replicas -> [at : {"wait", "seed", "hash", "up", "exited"}, deadline : Nat]]

LEMMA TypeParts ==
  AccessTypeOK <=> PeopleOK /\ RowsOK /\ CommandsOK /\ BootOK /\ DOMAIN req = Actors
  BY DEF AccessTypeOK, PeopleOK, RowsOK, CommandsOK, BootOK

LEMMA PeopleKeep ==
  ASSUME AccessAssumption, SessionIInv, RequestsAreWhole, [AccessNext]_vars
  PROVE  PeopleOK'
<1> USE TypeParts DEF SessionIInv
<1>1. CASE UNCHANGED <<user, cookie, typed>>
  BY <1>1 DEF PeopleOK, NoCookie
<1>2. ASSUME NEW d \in Devices, NEW p \in Passwords, LoginVerify(d, p) PROVE PeopleOK'
  BY <1>2 DEF LoginVerify, PeopleOK, NoCookie
<1>3. ASSUME NEW d \in Devices, LoginSeal(d) PROVE PeopleOK'
  <2>1. req[d].version \in Nat
    BY <1>3 DEF LoginSeal, SessionsAreKnown, Knows
  <2> QED BY <1>3, <2>1 DEF LoginSeal, PeopleOK, NoCookie
<1>4. ASSUME NEW d \in Devices, Logout(d) PROVE PeopleOK'
  BY <1>4 DEF Logout, PeopleOK, NoCookie
<1>5. ASSUME NEW a \in Actors, NEW r, NEW k, NEW cross, Passes(a, r, k, cross),
             user' = user, typed' = typed
      PROVE  PeopleOK'
  BY <1>5 DEF Passes, AdmitSession, RejectSession, AdmitKey, AdmitElsewhere, PeopleOK, NoCookie
<1>6. ASSUME NEW d \in Devices, NEW old \in Passwords, NEW new \in Passwords,
             PasswordVerify(d, old, new)
      PROVE  PeopleOK'
  BY <1>6 DEF PasswordVerify, PeopleOK, NoCookie
<1>7. ASSUME NEW d \in Devices, PasswordStore(d) PROVE PeopleOK'
  <2>1. req[d].password \in Passwords
    BY <1>7 DEF PasswordStore, SessionsAreKnown, PeopleOK
  <2> QED BY <1>7, <2>1 DEF PasswordStore, PeopleOK, NoCookie
<1>8. ASSUME NEW r \in Replicas, SeedCreate(r) PROVE PeopleOK'
  BY <1>8 DEF SeedCreate, PeopleOK, NoCookie, AccessAssumption
<1>9. CASE BootSteps
  BY <1>1, <1>8, <1>9 DEF BootSteps, DatabaseComesUp, WaitForDb, SeedCount, Restart
<1>10. CASE SessionSteps
  BY <1>2, <1>3, <1>4, <1>5, <1>6, <1>7, <1>10, ActorsAre DEF SessionSteps, Browse
<1>11. CASE TerminalSteps
  BY <1>1, <1>5, <1>11, ActorsAre, ZenonT(40) DEF TerminalSteps, Consume, CliRun, AdmitKey, CliFails, CliCut,
    ScriptCreate, ScriptRevokeFind, ScriptRevokeEnd
<1>12. CASE HandlerSteps
  BY <1>1, <1>12 DEF HandlerSteps, TurnedAway, Serve, RevokeEnd, Mint, RevokeFind
<1>13. CASE ClockSteps \/ UNCHANGED vars
  BY <1>1, <1>13 DEF ClockSteps, vars, accessVars
<1> QED BY <1>9, <1>10, <1>11, <1>12, <1>13 DEF AccessNext

LEMMA RowsKeep ==
  ASSUME AccessAssumption, ScopesExist, AccessTypeOK, RequestsAreWhole, [AccessNext]_vars
  PROVE  RowsOK'
<1> USE TypeParts
<1>1. CASE UNCHANGED keys
  BY <1>1 DEF RowsOK, Scopes, Person
<1>2. ASSUME NEW scopes \in GrantedScopes, NEW by \in Keys \cup {Person}, NewKey(scopes, by)
      PROVE  RowsOK'
  <2>1. PICK k \in Keys : keys' = [keys EXCEPT ![k] =
                                     [st |-> "active", scopes |-> scopes, by |-> by]]
    BY <1>2 DEF NewKey
  <2>2. scopes \in SUBSET Scopes
    BY DEF ScopesExist
  <2> QED BY <2>1, <2>2 DEF RowsOK, Scopes, Person
<1>3. ASSUME NEW k \in Keys, keys' = [keys EXCEPT ![k].st = "revoked"] PROVE RowsOK'
  BY <1>3 DEF RowsOK, Scopes, Person
<1>4. CASE BootSteps
  BY <1>1, <1>4 DEF BootSteps, DatabaseComesUp, WaitForDb, SeedCount, SeedCreate, Restart
<1>5. CASE SessionSteps
  BY <1>1, <1>5 DEF SessionSteps, LoginVerify, LoginSeal, Logout, Browse, PasswordVerify,
    PasswordStore
<1>6. ASSUME NEW t \in Terminals, ScriptRevokeEnd(t) PROVE RowsOK'
  <2>1. req[t].row \in Keys
    BY <1>6, ActorsAre DEF ScriptRevokeEnd, RequestsAreWhole
  <2> QED BY <1>3, <1>6, <2>1 DEF ScriptRevokeEnd
<1>7. CASE TerminalSteps
  BY <1>1, <1>2, <1>6, <1>7 DEF TerminalSteps, Consume, CliRun, CliFails, CliCut, ScriptCreate,
    ScriptRevokeFind
<1>8. ASSUME NEW a \in Actors, RevokeEnd(a) PROVE RowsOK'
  <2>1. req[a].row \in Keys
    BY <1>8 DEF RevokeEnd, RequestsAreWhole
  <2> QED BY <1>3, <1>8, <2>1 DEF RevokeEnd
<1>9. ASSUME NEW a \in Actors, NEW scopes \in GrantedScopes, Mint(a, scopes) PROVE RowsOK'
  <2>1. req[a].by \in Keys \cup {Person}
    BY <1>9 DEF Mint, Handling, RequestsAreWhole
  <2> QED BY <1>2, <1>9, <2>1 DEF Mint
<1>10. CASE HandlerSteps
  BY <1>1, <1>8, <1>9, <1>10 DEF HandlerSteps, TurnedAway, Serve, RevokeFind
<1>11. CASE ClockSteps \/ UNCHANGED vars
  BY <1>1, <1>11 DEF ClockSteps, vars, accessVars
<1> QED BY <1>4, <1>5, <1>7, <1>10, <1>11 DEF AccessNext

LEMMA CommandsStayTyped ==
  ASSUME AccessTypeOK, [AccessNext]_vars
  PROVE  CommandsOK'
<1> USE TypeParts DEF CommandsOK
<1>1. CASE UNCHANGED <<cli, did>>
  BY <1>1
<1>2. ASSUME NEW a \in Actors, Refused(a) PROVE CommandsOK'
  BY <1>2 DEF Refused, CliHears
<1>3. ASSUME NEW a \in Actors, Done(a) PROVE CommandsOK'
  BY <1>3 DEF Done, CliHears
<1>4. ASSUME NEW t \in Terminals, CliFails(t) \/ CliCut(t) PROVE CommandsOK'
  BY <1>4 DEF CliFails, CliCut
<1>5. ASSUME NEW t \in Terminals, NEW r \in Routes, NEW k \in Keys \cup {NoKey}, CliRun(t, r, k)
      PROVE  CommandsOK'
  BY <1>5 DEF CliRun
<1>6. ASSUME NEW r \in Replicas, Restart(r) PROVE CommandsOK'
  BY <1>6 DEF Restart
<1>7. CASE BootSteps
  BY <1>1, <1>6, <1>7 DEF BootSteps, DatabaseComesUp, WaitForDb, SeedCount, SeedCreate
<1>8. CASE SessionSteps
  BY <1>1, <1>8 DEF SessionSteps, LoginVerify, LoginSeal, Logout, Browse, PasswordVerify,
    PasswordStore
<1>9. CASE TerminalSteps
  BY <1>1, <1>4, <1>5, <1>9 DEF TerminalSteps, Consume, ScriptCreate, ScriptRevokeFind,
    ScriptRevokeEnd
<1>10. CASE HandlerSteps
  BY <1>1, <1>2, <1>3, <1>10 DEF HandlerSteps, TurnedAway, Serve, RevokeEnd, Mint, RevokeFind
<1>11. CASE ClockSteps \/ UNCHANGED vars
  BY <1>1, <1>11 DEF ClockSteps, vars, accessVars
<1> QED BY <1>7, <1>8, <1>9, <1>10, <1>11 DEF AccessNext

LEMMA BootsStayTyped ==
  ASSUME AccessAssumption, LimiterTypeOK, AccessTypeOK, [AccessNext]_vars
  PROVE  BootOK'
<1> USE TypeParts DEF BootOK
<1>1. CASE UNCHANGED <<database, boot>>
  BY <1>1
<1>2. CASE DatabaseComesUp
  BY <1>2 DEF DatabaseComesUp
<1>3. ASSUME NEW r \in Replicas, NEW at \in {"wait", "seed", "hash", "up", "exited"}, Step(r, at),
             database' = database
      PROVE  BootOK'
  BY <1>3 DEF Step
<1>4. ASSUME NEW r \in Replicas, Restart(r) PROVE BootOK'
  <2>1. now + WaitTimeout \in Nat
    BY DEF LimiterTypeOK, AccessAssumption
  <2> QED BY <1>4, <2>1 DEF Restart
<1>5. CASE BootSteps
  BY <1>2, <1>3, <1>4, <1>5 DEF BootSteps, WaitForDb, SeedCount, SeedCreate
<1>6. CASE SessionSteps
  BY <1>1, <1>6 DEF SessionSteps, LoginVerify, LoginSeal, Logout, Browse, PasswordVerify,
    PasswordStore
<1>7. CASE TerminalSteps
  BY <1>1, <1>7 DEF TerminalSteps, Consume, CliRun, CliFails, CliCut, ScriptCreate,
    ScriptRevokeFind, ScriptRevokeEnd
<1>8. CASE HandlerSteps
  BY <1>1, <1>8 DEF HandlerSteps, TurnedAway, Serve, RevokeEnd, Mint, RevokeFind
<1>9. CASE ClockSteps \/ UNCHANGED vars
  BY <1>1, <1>9 DEF ClockSteps, vars, accessVars
<1> QED BY <1>5, <1>6, <1>7, <1>8, <1>9 DEF AccessNext

-----------------------------------------------------------------------------
(* The results.                                                            *)

AccessIInv ==
  /\ LimiterTypeOK
  /\ SessionIInv
  /\ RequestsAreWhole
  /\ KeysAreTraced
  /\ ExitZeroMeansDone

Assumptions ==
  AccessAssumption /\ ScopesExist /\ BucketsSuffice /\ LimiterAssumption /\ WindowsFit

\* The strengthened invariant, for any number of actors.
THEOREM AccessInductive ==
  ASSUME Assumptions
  PROVE  Spec => []AccessIInv
<1> USE DEF Assumptions
<1>1. AccessInit => AccessIInv
  <2> SUFFICES ASSUME AccessInit PROVE AccessIInv
    OBVIOUS
  <2>1. LimiterTypeOK /\ now + WaitTimeout \in Nat
    BY LimiterStarts DEF AccessInit, LimiterIInv, LimiterTypeOK, AccessAssumption
  <2>2. PeopleOK
    BY DEF AccessInit, PeopleOK, NoUser, NoCookie
  <2>3. RowsOK /\ CommandsOK
    BY DEF AccessInit, RowsOK, CommandsOK
  <2>4. BootOK
    BY <2>1 DEF AccessInit, BootOK
  <2>5. RequestsAreWhole /\ \A a \in Actors : req[a].at = "idle"
    BY IdleIsNothing DEF AccessInit, RequestsAreWhole
  <2>6. AccessTypeOK
    BY <2>2, <2>3, <2>4, <2>5, TypeParts DEF RequestsAreWhole
  <2>7. SessionsAreKnown
    BY <2>5, ActorsAre DEF AccessInit, SessionsAreKnown
  <2>8. KeysAreTraced
    BY <2>5 DEF AccessInit, KeysAreTraced, Person, AccessAssumption
  <2>9. ExitZeroMeansDone
    BY DEF AccessInit, ExitZeroMeansDone
  <2> QED BY <2>1, <2>5, <2>6, <2>7, <2>8, <2>9 DEF AccessIInv, SessionIInv
<1>2. ASSUME AccessIInv, LimiterTypeOK', [AccessNext]_vars PROVE AccessIInv'
  <2> USE <1>2 DEF AccessIInv
  <2>1. RequestsAreWhole'
    BY RoutedKeeps
  <2>2. AccessTypeOK'
    <3>1. PeopleOK' /\ RowsOK' /\ CommandsOK' /\ BootOK' /\ DOMAIN req' = Actors
      BY <2>1, PeopleKeep, RowsKeep, CommandsStayTyped, BootsStayTyped
        DEF SessionIInv, RequestsAreWhole
    <3> QED BY <3>1 DEF AccessTypeOK, PeopleOK, RowsOK, CommandsOK, BootOK
  <2>3. SessionsAreKnown'
    BY BootStepsKeep, SessionStepsKeep, OtherStepsKeep DEF AccessNext
  <2>4. KeysAreTraced'
    BY TracedKeeps DEF SessionIInv
  <2>5. ExitZeroMeansDone'
    BY CommandsKeep DEF SessionIInv
  <2> QED BY <2>1, <2>2, <2>3, <2>4, <2>5 DEF SessionIInv
<1>3. Spec => []LimiterTypeOK
  <2>1. LimiterIInv => LimiterTypeOK
    BY DEF LimiterIInv
  <2> QED BY <2>1, AccessImplementsLimiter, LimiterInductive, PTL
<1> QED BY <1>1, <1>2, <1>3, PTL DEF Spec

\* Whoever is signed in has typed the password in force (auth.ts, login.post.ts,
\* password.post.ts), however many devices log in and change it at once, and
\* every variable keeps its type.
THEOREM SessionsHold ==
  ASSUME Assumptions
  PROVE  Spec => []LiveSessionsKnowThePassword
<1>1. AccessIInv => LiveSessionsKnowThePassword
  <2> SUFFICES ASSUME AccessIInv, NEW d \in Devices, cookie[d] = user.version, user # NoUser
               PROVE  user.password \in typed[d]
    BY DEF AccessIInv, SessionIInv, TypeOK, LiveSessionsKnowThePassword
  <2>1. cookie[d] # NoCookie
    BY DEF AccessIInv, SessionIInv, AccessTypeOK, NoCookie
  <2> QED BY <2>1 DEF AccessIInv, SessionIInv, SessionsAreKnown, Knows
<1> QED BY <1>1, AccessInductive, PTL

\* A key made with a key's authority never makes another (apikeys/index.post.ts),
\* and a command that exits with 0 was carried out, for any number of keys and
\* terminals.
THEOREM KeysHold ==
  ASSUME Assumptions
  PROVE  Spec => []KeysAreAccountable
<1>1. AccessIInv => KeysAreAccountable
  <2> SUFFICES ASSUME AccessIInv, NEW k \in Keys, keys[k].by \in Keys
               PROVE  keys[keys[k].by].by = Person
    BY DEF AccessIInv, KeysAreAccountable, KeysBegetNoMinters
  <2>1. keys[keys[k].by].by \in Keys \cup {Person}
    BY DEF AccessIInv, SessionIInv, AccessTypeOK
  <2> QED BY <2>1 DEF AccessIInv, KeysAreTraced
<1> QED BY <1>1, AccessInductive, PTL
=============================================================================
