----------------------- MODULE WebhookDeliveryProofs -----------------------
(***************************************************************************)
(* Proofs, for every value of the constants, of the safety properties of   *)
(* WebhookDelivery: those that hold however ticks overlap, and the         *)
(* at-least-once bound that holds when they do not.                        *)
(***************************************************************************)
EXTENDS WebhookDelivery, SequenceTheorems, FiniteSetTheorems, TLAPS

Typed ==
    /\ hook \in [Webhooks -> {"absent", "on", "off"}]
    /\ row \in [Deliveries -> Delivery \cup {NoRow}]
    /\ batch \in [Ticks -> Seq(Selected)]
    /\ flight \in [Ticks -> Outcomes \cup {"none"}]
    /\ editor \in [Editors -> [op : {"cancel", "test"}, id : Deliveries] \cup {Idle}]
    /\ posts \in [Deliveries -> 0..MaxSeen]
    /\ accepted \in [Deliveries -> 0..MaxSeen]
    /\ crashes \in 0..MaxCrashes

\* A tick that awaits an outcome awaits that of the head of its batch.
AwaitsItsHead == \A t \in Ticks : flight[t] # "none" => batch[t] # <<>>

\* The attempts a PENDING row claims, and those a selection remembers, were seen
\* by the receiver; a selection remembers its row's webhook.
AttemptsWereMade ==
    /\ \A d \in Deliveries : row[d].status = "PENDING" =>
           row[d].attempts < MaxAttempts /\ row[d].attempts <= posts[d]
    /\ \A t \in Ticks : \A i \in DOMAIN batch[t] :
           /\ batch[t][i].attempts <= posts[batch[t][i].id]
           /\ Live(batch[t][i].id) => row[batch[t][i].id].hook = batch[t][i].hook

\* What an awaited outcome says of its delivery.
OutcomesAreTrue ==
    \A t \in Ticks : flight[t] # "none" =>
        /\ flight[t] = "ok" => accepted[batch[t][1].id] > 0
        /\ flight[t] \in {"ok", "error"} => batch[t][1].attempts + 1 <= posts[batch[t][1].id]
        /\ flight[t] = "unhandled" => batch[t][1].hook \in Internal \ Handlers

IInv == /\ Typed
        /\ AwaitsItsHead
        /\ AttemptsWereMade
        /\ OutcomesAreTrue
        /\ GivenUpOnlyWhenExhausted
        /\ SuccessWasAccepted
        /\ DeliveriesHaveWebhooks

(***************************************************************************)
(* Sequences and records.                                                  *)
(***************************************************************************)
LEMMA BatchHead ==
    ASSUME Typed, NEW t \in Ticks, batch[t] # <<>>
    PROVE  /\ batch[t] \in Seq(Selected)
           /\ 1 \in DOMAIN batch[t]
           /\ Head(batch[t]) = batch[t][1]
           /\ batch[t][1] \in Selected
           /\ Tail(batch[t]) \in Seq(Selected)
           /\ \A i \in DOMAIN Tail(batch[t]) :
                  /\ i \in Nat /\ i > 0
                  /\ i + 1 \in DOMAIN batch[t]
                  /\ Tail(batch[t])[i] = batch[t][i + 1]
<1>1. batch[t] \in Seq(Selected)
  BY DEF Typed
<1>2. Len(batch[t]) \in Nat /\ Len(batch[t]) > 0 /\ DOMAIN batch[t] = 1..Len(batch[t])
  BY <1>1, LenProperties, EmptySeq
<1>3. /\ Tail(batch[t]) \in Seq(Selected) /\ Len(Tail(batch[t])) = Len(batch[t]) - 1
      /\ \A i \in 1..Len(Tail(batch[t])) : Tail(batch[t])[i] = batch[t][i + 1]
  BY <1>1, HeadTailProperties
<1>4. DOMAIN Tail(batch[t]) = 1..Len(Tail(batch[t]))
  BY <1>3, LenProperties
<1>5. Head(batch[t]) = batch[t][1]
  BY <1>1
<1>6. batch[t][1] \in Selected
  BY <1>1, <1>2, ElementOfSeq
<1> QED BY <1>1, <1>2, <1>3, <1>4, <1>5, <1>6

LEMMA BatchElement ==
    ASSUME Typed, NEW t \in Ticks, NEW i \in DOMAIN batch[t]
    PROVE  /\ batch[t][i] \in Selected
           /\ batch[t][i].id \in Deliveries /\ batch[t][i].hook \in Webhooks
           /\ batch[t][i].attempts \in 0..(MaxAttempts - 1)
<1>1. batch[t] \in Seq(Selected)
  BY DEF Typed
<1>2. i \in 1..Len(batch[t])
  BY <1>1, LenProperties
<1>3. batch[t][i] \in Selected
  BY <1>1, <1>2, ElementOfSeq
<1> QED BY <1>3 DEF Selected

LEMMA LiveRow ==
    ASSUME Typed, NEW d \in Deliveries
    PROVE  /\ row[d] \in Delivery \cup {NoRow}
           /\ Live(d) <=> row[d] \in Delivery
           /\ row[d].status \in DeliveryStatus => row[d] \in Delivery
<1>1. NoRow.status \notin DeliveryStatus
  BY DEF NoRow, DeliveryStatus
<1>2. \A r \in Delivery : r.status \in DeliveryStatus
  BY DEF Delivery
<1> QED BY <1>1, <1>2 DEF Typed, Live

LEMMA FreshIsNotInHand ==
    ASSUME NEW d, FreshDelivery(d)
    PROVE  /\ ~Live(d)
           /\ \A t \in Ticks : \A i \in DOMAIN batch[t] : batch[t][i].id # d
BY DEF FreshDelivery, Named, InHand

(***************************************************************************)
(* Two facts that serve several actions.  A new row does not disturb what  *)
(* is known of the others, and a change of rows that keeps hooks, and does *)
(* not leave a row PENDING, SUCCESS or DEAD_LETTERED, keeps the invariant. *)
(***************************************************************************)
LEMMA NewRowKeeps ==
    ASSUME IInv, NEW d \in Deliveries, NEW w \in Webhooks, NEW b \in Bodies,
           hook[w] # "absent", NewRow(d, w, b),
           UNCHANGED <<hook, batch, flight, crashes>>,
           editor' \in [Editors -> [op : {"cancel", "test"}, id : Deliveries] \cup {Idle}]
    PROVE  IInv'
<1> DEFINE new == [hook |-> w, status |-> "PENDING", attempts |-> 0, body |-> b,
                   completed |-> FALSE]
<1>1. new \in Delivery /\ new # NoRow
  BY WebhookAssumption DEF Delivery, NoRow, DeliveryStatus
<1>2. /\ row' = [row EXCEPT ![d] = new]
      /\ posts' = [posts EXCEPT ![d] = 0]
      /\ accepted' = [accepted EXCEPT ![d] = 0]
      /\ FreshDelivery(d)
  BY DEF NewRow
<1>3. new.status = "PENDING" /\ new.attempts = 0 /\ new.hook = w
  OBVIOUS
<1> HIDE DEF new
<1>4. \A t \in Ticks : \A i \in DOMAIN batch[t] :
          batch[t][i].id \in Deliveries /\ batch[t][i].id # d
  BY <1>2, FreshIsNotInHand, BatchElement DEF IInv
<1>5. Typed'
  BY <1>1, <1>2, WebhookAssumption DEF IInv, Typed
<1>6. AwaitsItsHead'
  BY DEF IInv, AwaitsItsHead
<1>7. AttemptsWereMade'
  BY <1>2, <1>3, <1>4, WebhookAssumption DEF IInv, Typed, AttemptsWereMade, Live
<1>8. \A t \in Ticks : flight[t] # "none" => batch[t][1].id # d /\ batch[t][1].id \in Deliveries
  BY <1>4, BatchHead DEF IInv, AwaitsItsHead
<1>9. OutcomesAreTrue'
  BY <1>2, <1>8 DEF IInv, Typed, OutcomesAreTrue
<1>10. GivenUpOnlyWhenExhausted' /\ SuccessWasAccepted' /\ DeliveriesHaveWebhooks'
  BY <1>2, <1>3 DEF IInv, Typed, GivenUpOnlyWhenExhausted, SuccessWasAccepted,
     DeliveriesHaveWebhooks, Live
<1> QED BY <1>5, <1>6, <1>7, <1>9, <1>10 DEF IInv

LEMMA RowsSettleKeeps ==
    ASSUME IInv, UNCHANGED <<batch, flight, posts, accepted, crashes>>,
           hook' \in [Webhooks -> {"absent", "on", "off"}],
           row' \in [Deliveries -> Delivery \cup {NoRow}],
           editor' \in [Editors -> [op : {"cancel", "test"}, id : Deliveries] \cup {Idle}],
           \A d \in Deliveries :
               \/ row'[d] = NoRow
               \/ /\ Live(d) /\ hook'[row[d].hook] # "absent"
                  /\ row'[d].hook = row[d].hook
                  /\ \/ row'[d].status = "FAILED"
                     \/ row'[d].status = row[d].status /\ row'[d].attempts = row[d].attempts
    PROVE  IInv'
<1>1. Typed'
  BY DEF IInv, Typed
<1>2. AwaitsItsHead' /\ OutcomesAreTrue'
  BY DEF IInv, AwaitsItsHead, OutcomesAreTrue
<1>3. \A t \in Ticks : \A i \in DOMAIN batch[t] : batch[t][i].id \in Deliveries
  BY BatchElement DEF IInv
<1>4. AttemptsWereMade'
  <2>1. \A d \in Deliveries : row'[d].status = "PENDING" =>
            row'[d].attempts < MaxAttempts /\ row'[d].attempts <= posts[d]
    BY DEF IInv, AttemptsWereMade, NoRow
  <2>2. \A t \in Ticks : \A i \in DOMAIN batch[t] :
            /\ batch[t][i].attempts <= posts[batch[t][i].id]
            /\ row'[batch[t][i].id] # NoRow => row'[batch[t][i].id].hook = batch[t][i].hook
    BY <1>3 DEF IInv, AttemptsWereMade, Live
  <2> QED BY <2>1, <2>2 DEF AttemptsWereMade, Live
<1>5. GivenUpOnlyWhenExhausted' /\ SuccessWasAccepted' /\ DeliveriesHaveWebhooks'
  BY DEF IInv, GivenUpOnlyWhenExhausted, SuccessWasAccepted, DeliveriesHaveWebhooks,
     Live, NoRow
<1> QED BY <1>1, <1>2, <1>4, <1>5 DEF IInv

(***************************************************************************)
(* The worker's actions.                                                   *)
(***************************************************************************)
LEMMA SelectKeeps ==
    ASSUME IInv, NEW t \in Ticks, Select(t)
    PROVE  IInv'
<1>0. PICK n \in 1..BatchSize : \E ids \in [1..n -> Due] :
        batch' = [batch EXCEPT ![t] =
                  [i \in 1..n |-> [id |-> ids[i], hook |-> row[ids[i]].hook,
                                   attempts |-> row[ids[i]].attempts,
                                   body |-> row[ids[i]].body]]]
  BY DEF Select
<1>1. PICK ids \in [1..n -> Due] :
        batch' = [batch EXCEPT ![t] =
                  [i \in 1..n |-> [id |-> ids[i], hook |-> row[ids[i]].hook,
                                   attempts |-> row[ids[i]].attempts,
                                   body |-> row[ids[i]].body]]]
  BY <1>0
<1> DEFINE sel(i) == [id |-> ids[i], hook |-> row[ids[i]].hook,
                      attempts |-> row[ids[i]].attempts, body |-> row[ids[i]].body]
           picked == [i \in 1..n |-> sel(i)]
<1>2. n \in Nat /\ UNCHANGED <<hook, row, flight, editor, posts, accepted, crashes>>
  BY WebhookAssumption DEF Select, history
<1>3. \A i \in 1..n : ids[i] \in Deliveries /\ row[ids[i]].status = "PENDING"
  BY DEF Due
<1>4. \A i \in 1..n : row[ids[i]] \in Delivery /\ row[ids[i]].attempts < MaxAttempts
                      /\ row[ids[i]].attempts <= posts[ids[i]]
  BY <1>3, LiveRow DEF IInv, AttemptsWereMade, DeliveryStatus
<1>5. \A i \in 1..n : sel(i) \in Selected
  BY <1>3, <1>4, WebhookAssumption DEF Delivery, Selected
<1>6. picked \in Seq(Selected) /\ DOMAIN picked = 1..n
  BY <1>2, <1>5, IsASeq
<1>7. \A i \in 1..n : /\ picked[i].id = ids[i] /\ picked[i].hook = row[ids[i]].hook
                      /\ picked[i].attempts = row[ids[i]].attempts
  OBVIOUS
<1>8. batch' = [batch EXCEPT ![t] = picked]
  BY <1>1
<1> HIDE DEF picked, sel
<1>9. Typed'
  BY <1>2, <1>6, <1>8 DEF IInv, Typed
<1>10. flight[t] = "none"
  BY DEF IInv, AwaitsItsHead, Select
<1>11. AwaitsItsHead' /\ OutcomesAreTrue'
  BY <1>2, <1>8, <1>10 DEF IInv, Typed, AwaitsItsHead, OutcomesAreTrue
<1>12. AttemptsWereMade'
  <2>1. \A u \in Ticks : \A i \in DOMAIN batch'[u] :
            /\ batch'[u][i].attempts <= posts[batch'[u][i].id]
            /\ Live(batch'[u][i].id) => row[batch'[u][i].id].hook = batch'[u][i].hook
    <3>1. SUFFICES ASSUME NEW u \in Ticks, NEW i \in DOMAIN batch'[u]
                   PROVE  /\ batch'[u][i].attempts <= posts[batch'[u][i].id]
                          /\ Live(batch'[u][i].id) =>
                                 row[batch'[u][i].id].hook = batch'[u][i].hook
      OBVIOUS
    <3>2. CASE u = t
      <4>1. batch'[u] = picked
        BY <1>8, <3>2 DEF IInv, Typed
      <4> QED BY <1>4, <1>6, <1>7, <4>1
    <3>3. CASE u # t
      <4>1. batch'[u] = batch[u]
        BY <1>8, <3>3 DEF IInv, Typed
      <4> QED BY <4>1 DEF IInv, AttemptsWereMade
    <3> QED BY <3>2, <3>3
  <2>2. \A d \in Deliveries : row[d].status = "PENDING" =>
            row[d].attempts < MaxAttempts /\ row[d].attempts <= posts[d]
    BY DEF IInv, AttemptsWereMade
  <2> QED BY <1>2, <2>1, <2>2 DEF AttemptsWereMade, Live
<1>13. GivenUpOnlyWhenExhausted' /\ SuccessWasAccepted' /\ DeliveriesHaveWebhooks'
  BY <1>2 DEF IInv, GivenUpOnlyWhenExhausted, SuccessWasAccepted, DeliveriesHaveWebhooks,
     Live
<1> QED BY <1>9, <1>11, <1>12, <1>13 DEF IInv

LEMMA SendKeeps ==
    ASSUME IInv, NEW t \in Ticks, Send(t)
    PROVE  IInv'
<1> DEFINE p == batch[t][1]
<1>1. /\ p \in Selected /\ Head(batch[t]) = p /\ 1 \in DOMAIN batch[t]
      /\ p.id \in Deliveries /\ p.attempts \in 0..(MaxAttempts - 1)
  BY BatchHead, BatchElement DEF IInv, Send
<1>2. /\ UNCHANGED <<hook, row, batch, editor, crashes>>
      /\ batch[t] # <<>>
      /\ \E o \in Outcomes :
           /\ flight' = [flight EXCEPT ![t] = o]
           /\ o = "unhandled" => p.hook \in Internal \ Handlers
           /\ posts' = IF o \in {"ok", "error"}
                       THEN [posts EXCEPT ![p.id] = Counted(@)] ELSE posts
           /\ accepted' = IF o = "ok"
                          THEN [accepted EXCEPT ![p.id] = Counted(@)] ELSE accepted
  BY <1>1 DEF Send, Outcomes, history
<1>3. PICK o \in Outcomes :
           /\ flight' = [flight EXCEPT ![t] = o]
           /\ o = "unhandled" => p.hook \in Internal \ Handlers
           /\ posts' = IF o \in {"ok", "error"}
                       THEN [posts EXCEPT ![p.id] = Counted(@)] ELSE posts
           /\ accepted' = IF o = "ok"
                          THEN [accepted EXCEPT ![p.id] = Counted(@)] ELSE accepted
  BY <1>2
<1> HIDE DEF p
<1>4. Typed'
  <2>1. posts' \in [Deliveries -> 0..MaxSeen] /\ accepted' \in [Deliveries -> 0..MaxSeen]
    BY SMTT(30), <1>1, <1>3, WebhookAssumption DEF IInv, Typed, Counted
  <2>2. flight' \in [Ticks -> Outcomes \cup {"none"}]
    BY <1>3 DEF IInv, Typed
  <2> QED BY <1>2, <2>1, <2>2 DEF IInv, Typed
<1>5. \A d \in Deliveries : /\ posts[d] \in Nat /\ accepted[d] \in Nat
                            /\ posts'[d] \in Nat /\ accepted'[d] \in Nat
                            /\ posts'[d] >= posts[d] /\ accepted'[d] >= accepted[d]
  BY SMTT(30), <1>1, <1>3, WebhookAssumption DEF IInv, Typed, Counted
<1>6. AwaitsItsHead'
  BY <1>2, <1>3 DEF IInv, Typed, AwaitsItsHead
<1>7. \A u \in Ticks : \A i \in DOMAIN batch[u] :
          batch[u][i].id \in Deliveries /\ batch[u][i].attempts \in Nat
  BY BatchElement, WebhookAssumption DEF IInv
<1>8. \A d \in Deliveries : row[d].attempts \in Nat
  BY LiveRow, WebhookAssumption DEF IInv, Delivery, NoRow
<1>9. AttemptsWereMade'
  <2>1. \A d \in Deliveries : row[d].status = "PENDING" =>
           row[d].attempts < MaxAttempts /\ row[d].attempts <= posts'[d]
    BY <1>5, <1>8 DEF IInv, AttemptsWereMade
  <2>2. \A u \in Ticks : \A i \in DOMAIN batch[u] :
           /\ batch[u][i].attempts <= posts'[batch[u][i].id]
           /\ Live(batch[u][i].id) => row[batch[u][i].id].hook = batch[u][i].hook
    BY <1>5, <1>7 DEF IInv, AttemptsWereMade
  <2> QED BY <1>2, <2>1, <2>2 DEF AttemptsWereMade, Live
<1>10. p.attempts <= posts[p.id]
  BY <1>1 DEF IInv, AttemptsWereMade, p
<1>11. /\ o = "ok" => accepted'[p.id] > 0
       /\ o \in {"ok", "error"} => p.attempts + 1 <= posts'[p.id]
  BY <1>1, <1>3, <1>10, WebhookAssumption DEF IInv, Typed, Counted
<1>12. OutcomesAreTrue'
  <2>1. SUFFICES ASSUME NEW u \in Ticks, flight'[u] # "none"
                 PROVE  /\ flight'[u] = "ok" => accepted'[batch[u][1].id] > 0
                        /\ flight'[u] \in {"ok", "error"} =>
                               batch[u][1].attempts + 1 <= posts'[batch[u][1].id]
                        /\ flight'[u] = "unhandled" => batch[u][1].hook \in Internal \ Handlers
    BY <1>2 DEF OutcomesAreTrue
  <2>2. CASE u = t
    BY <1>3, <1>11, <2>2 DEF IInv, Typed, p
  <2>3. CASE u # t
    <3>1. flight'[u] = flight[u] /\ flight[u] # "none"
      BY <1>3, <2>1, <2>3 DEF IInv, Typed
    <3>2. 1 \in DOMAIN batch[u]
      BY <3>1, BatchHead DEF IInv, AwaitsItsHead
    <3> QED BY <1>5, <1>7, <3>1, <3>2 DEF IInv, OutcomesAreTrue
  <2> QED BY <2>2, <2>3
<1>13. GivenUpOnlyWhenExhausted' /\ SuccessWasAccepted'
  BY <1>2, <1>5, WebhookAssumption DEF IInv, GivenUpOnlyWhenExhausted, SuccessWasAccepted
<1>14. DeliveriesHaveWebhooks'
  BY <1>2 DEF IInv, DeliveriesHaveWebhooks, Live
<1> QED BY <1>4, <1>6, <1>9, <1>12, <1>13, <1>14 DEF IInv

LEMMA StatusAfterProperties ==
    ASSUME NEW p, p.attempts \in 0..(MaxAttempts - 1), NEW o \in Outcomes
    PROVE  /\ StatusAfter(p, o) \in DeliveryStatus
           /\ AttemptsAfter(p, o) \in 0..MaxAttempts
           /\ StatusAfter(p, o) = "SUCCESS" => o = "ok"
           /\ StatusAfter(p, o) = "PENDING" =>
                  o = "error" /\ AttemptsAfter(p, o) = p.attempts + 1
                  /\ AttemptsAfter(p, o) < MaxAttempts
           /\ StatusAfter(p, o) = "DEAD_LETTERED" =>
                  \/ o = "unhandled"
                  \/ o = "error" /\ p.attempts + 1 = MaxAttempts
<1>1. CASE o = "ok"
  BY <1>1, WebhookAssumption DEF StatusAfter, AttemptsAfter, DeliveryStatus
<1>2. CASE o \in {"gone", "blocked"}
  BY <1>2, WebhookAssumption DEF StatusAfter, AttemptsAfter, DeliveryStatus
<1>3. CASE o = "unhandled"
  BY <1>3, WebhookAssumption DEF StatusAfter, AttemptsAfter, DeliveryStatus
<1>4. CASE o = "error" /\ p.attempts + 1 < MaxAttempts
  BY <1>4, WebhookAssumption DEF StatusAfter, AttemptsAfter, DeliveryStatus
<1>5. CASE o = "error" /\ ~(p.attempts + 1 < MaxAttempts)
  <2>1. p.attempts + 1 = MaxAttempts
    BY <1>5, WebhookAssumption
  <2> QED BY <1>5, <2>1, WebhookAssumption DEF StatusAfter, AttemptsAfter, DeliveryStatus
<1> QED BY <1>1, <1>2, <1>3, <1>4, <1>5 DEF Outcomes

LEMMA RecordKeeps ==
    ASSUME IInv, NEW t \in Ticks, Record(t)
    PROVE  IInv'
<1> DEFINE p == batch[t][1]
           s == StatusAfter(p, flight[t])
           a == AttemptsAfter(p, flight[t])
<1>1. /\ flight[t] # "none" /\ batch[t] # <<>> /\ flight[t] \in Outcomes
  BY DEF IInv, Typed, AwaitsItsHead, Record
<1>2. /\ p \in Selected /\ Head(batch[t]) = p /\ 1 \in DOMAIN batch[t]
      /\ p.id \in Deliveries /\ p.attempts \in 0..(MaxAttempts - 1)
  BY <1>1, BatchHead, BatchElement DEF IInv
<1>3. /\ UNCHANGED <<hook, editor, posts, accepted, crashes>>
      /\ flight' = [flight EXCEPT ![t] = "none"]
      /\ \/ /\ Live(p.id)
            /\ row' = [row EXCEPT ![p.id].status = s, ![p.id].attempts = a,
                                  ![p.id].completed = @ \/ s # "PENDING"]
            /\ batch' = [batch EXCEPT ![t] = Tail(@)]
         \/ batch' = [batch EXCEPT ![t] = <<>>] /\ row' = row
  BY <1>2 DEF Record, history
<1>4. p.attempts \in 0..(MaxAttempts - 1) /\ flight[t] \in Outcomes
  BY <1>1, <1>2
<1> HIDE DEF p
<1>5. /\ s \in DeliveryStatus /\ a \in 0..MaxAttempts
      /\ s = "SUCCESS" => flight[t] = "ok"
      /\ s = "PENDING" => flight[t] = "error" /\ a = p.attempts + 1 /\ a < MaxAttempts
      /\ s = "DEAD_LETTERED" => \/ flight[t] = "unhandled"
                                \/ flight[t] = "error" /\ p.attempts + 1 = MaxAttempts
  BY <1>4, StatusAfterProperties
<1> USE DEF p
<1>6. /\ flight[t] = "ok" => accepted[p.id] > 0
      /\ flight[t] = "error" => p.attempts + 1 <= posts[p.id]
      /\ flight[t] = "unhandled" => p.hook \in Internal \ Handlers
      /\ Live(p.id) => row[p.id].hook = p.hook
  BY <1>1, <1>2 DEF IInv, OutcomesAreTrue, AttemptsWereMade
<1> HIDE DEF p, s, a
<1> DEFINE rest == Tail(batch[t])
<1>7. /\ rest \in Seq(Selected)
       /\ \A i \in DOMAIN rest : i + 1 \in DOMAIN batch[t] /\ rest[i] = batch[t][i + 1]
  BY <1>1, BatchHead DEF IInv
<1>8. <<>> \in Seq(Selected) /\ DOMAIN <<>> = {}
  BY EmptySeq
<1>9. batch' = [batch EXCEPT ![t] = rest] \/ batch' = [batch EXCEPT ![t] = <<>>]
  BY <1>3
<1> HIDE DEF rest
<1>10. \A u \in Ticks : \A i \in DOMAIN batch'[u] : \E j \in DOMAIN batch[u] :
          batch'[u][i] = batch[u][j]
  <2>1. CASE batch' = [batch EXCEPT ![t] = rest]
    BY <1>7, <2>1 DEF IInv, Typed
  <2>2. CASE batch' = [batch EXCEPT ![t] = <<>>]
    BY <1>8, <2>2 DEF IInv, Typed
  <2> QED BY <1>9, <2>1, <2>2
<1>11. batch' \in [Ticks -> Seq(Selected)]
  BY <1>7, <1>8, <1>9 DEF IInv, Typed
<1>12. \A u \in Ticks : u # t => flight'[u] = flight[u] /\ batch'[u] = batch[u]
  BY <1>3 DEF IInv, Typed
<1>13. AwaitsItsHead' /\ OutcomesAreTrue'
  BY <1>3, <1>12 DEF IInv, Typed, AwaitsItsHead, OutcomesAreTrue
<1>14. CASE row' = row
  <2>1. Typed'
    BY <1>3, <1>11, <1>14 DEF IInv, Typed
  <2>2. AttemptsWereMade'
    <3>1. SUFFICES ASSUME NEW u \in Ticks, NEW i \in DOMAIN batch'[u]
                   PROVE  /\ batch'[u][i].attempts <= posts[batch'[u][i].id]
                          /\ row[batch'[u][i].id] # NoRow =>
                                 row[batch'[u][i].id].hook = batch'[u][i].hook
      <4>1. \A d \in Deliveries : row[d].status = "PENDING" =>
                row[d].attempts < MaxAttempts /\ row[d].attempts <= posts[d]
        BY DEF IInv, AttemptsWereMade
      <4> QED BY <1>3, <1>14, <4>1 DEF AttemptsWereMade, Live
    <3>2. PICK j \in DOMAIN batch[u] : batch'[u][i] = batch[u][j]
      BY <1>10
    <3>3. /\ batch[u][j].attempts <= posts[batch[u][j].id]
          /\ row[batch[u][j].id] # NoRow => row[batch[u][j].id].hook = batch[u][j].hook
      BY DEF IInv, AttemptsWereMade, Live
    <3> QED BY <3>2, <3>3
  <2>3. GivenUpOnlyWhenExhausted' /\ SuccessWasAccepted' /\ DeliveriesHaveWebhooks'
    BY <1>3, <1>14 DEF IInv, GivenUpOnlyWhenExhausted, SuccessWasAccepted,
       DeliveriesHaveWebhooks, Live
  <2> QED BY <1>13, <2>1, <2>2, <2>3 DEF IInv
<1>15. CASE /\ Live(p.id)
            /\ row' = [row EXCEPT ![p.id].status = s, ![p.id].attempts = a,
                                  ![p.id].completed = @ \/ s # "PENDING"]
  <2>1. row[p.id] \in Delivery
    BY <1>2, <1>15, LiveRow DEF IInv
  <2>2. row'[p.id] = [row[p.id] EXCEPT !.status = s, !.attempts = a,
                                       !.completed = @ \/ s # "PENDING"]
    BY <1>2, <1>15 DEF IInv, Typed
  <2>3. /\ row'[p.id] \in Delivery /\ row'[p.id].status = s /\ row'[p.id].attempts = a
        /\ row'[p.id].hook = row[p.id].hook
    BY <1>5, <2>1, <2>2 DEF Delivery
  <2>4. \A d \in Deliveries : d # p.id => row'[d] = row[d]
    BY <1>15 DEF IInv, Typed
  <2>5. row' \in [Deliveries -> Delivery \cup {NoRow}]
    BY <1>2, <1>15, <2>3, <2>4 DEF IInv, Typed
  <2>6. Typed'
    BY <1>3, <1>11, <2>5 DEF IInv, Typed
  <2>7. \A d \in Deliveries : row'[d] # NoRow => row[d] # NoRow /\ row'[d].hook = row[d].hook
    BY <1>15, <2>3, <2>4 DEF Live
  <2>8. AttemptsWereMade'
    <3>1. \A d \in Deliveries : row'[d].status = "PENDING" =>
              row'[d].attempts < MaxAttempts /\ row'[d].attempts <= posts[d]
      BY <1>5, <1>6, <2>3, <2>4 DEF IInv, AttemptsWereMade
    <3>2. \A u \in Ticks : \A i \in DOMAIN batch[u] :
              /\ batch[u][i].id \in Deliveries
              /\ batch[u][i].attempts <= posts[batch[u][i].id]
              /\ row'[batch[u][i].id] # NoRow => row'[batch[u][i].id].hook = batch[u][i].hook
      BY <2>7, BatchElement DEF IInv, AttemptsWereMade, Live
    <3>3. SUFFICES ASSUME NEW u \in Ticks, NEW i \in DOMAIN batch'[u]
                   PROVE  /\ batch'[u][i].attempts <= posts'[batch'[u][i].id]
                          /\ row'[batch'[u][i].id] # NoRow =>
                                 row'[batch'[u][i].id].hook = batch'[u][i].hook
      BY <1>3, <3>1 DEF AttemptsWereMade, Live
    <3>4. PICK j \in DOMAIN batch[u] : batch'[u][i] = batch[u][j]
      BY <1>10
    <3> QED BY <1>3, <3>2, <3>4
  <2>9. GivenUpOnlyWhenExhausted' /\ SuccessWasAccepted'
    BY <1>3, <1>5, <1>6, <1>15, <2>3, <2>4 DEF IInv, GivenUpOnlyWhenExhausted,
       SuccessWasAccepted
  <2>10. DeliveriesHaveWebhooks'
    BY <1>3, <2>7 DEF IInv, DeliveriesHaveWebhooks, Live
  <2> QED BY <1>13, <2>6, <2>8, <2>9, <2>10 DEF IInv
<1> QED BY <1>3, <1>14, <1>15

(***************************************************************************)
(* The other actions.                                                      *)
(***************************************************************************)
LEMMA CrashKeeps ==
    ASSUME IInv, Crash
    PROVE  IInv'
<1>1. /\ hook' \in [Webhooks -> {"absent", "on", "off"}]
      /\ \A w \in Webhooks : hook[w] # "absent" => hook'[w] # "absent"
  BY DEF IInv, Typed, Crash, Ensured
<1>2. /\ UNCHANGED <<row, posts, accepted>> /\ crashes' \in 0..MaxCrashes
      /\ batch' = [t \in Ticks |-> <<>>] /\ flight' = [t \in Ticks |-> "none"]
      /\ editor' = [e \in Editors |-> Idle]
  BY WebhookAssumption DEF IInv, Typed, Crash, history
<1>3. <<>> \in Seq(Selected) /\ DOMAIN <<>> = {}
  BY EmptySeq
<1>4. Typed'
  BY <1>1, <1>2, <1>3 DEF IInv, Typed
<1>5. AwaitsItsHead' /\ OutcomesAreTrue'
  BY <1>2 DEF AwaitsItsHead, OutcomesAreTrue
<1>6. AttemptsWereMade'
  BY <1>2, <1>3 DEF IInv, AttemptsWereMade
<1>7. GivenUpOnlyWhenExhausted' /\ SuccessWasAccepted'
  BY <1>2 DEF IInv, GivenUpOnlyWhenExhausted, SuccessWasAccepted
<1>8. \A d \in Deliveries : Live(d) => row[d].hook \in Webhooks
  BY LiveRow DEF IInv, Delivery
<1>9. DeliveriesHaveWebhooks'
  BY <1>1, <1>2, <1>8 DEF IInv, DeliveriesHaveWebhooks, Live
<1> QED BY <1>4, <1>5, <1>6, <1>7, <1>9 DEF IInv

LEMMA EditorKeeps ==
    ASSUME IInv, NEW e \in Editors,
           TestFill(e) \/ CancelCommit(e) \/ \E d \in Deliveries : CancelRead(e, d)
    PROVE  IInv'
<1>1. /\ UNCHANGED <<hook, batch, flight, posts, accepted, crashes>>
      /\ editor' \in [Editors -> [op : {"cancel", "test"}, id : Deliveries] \cup {Idle}]
  <2>1. CASE TestFill(e) \/ CancelCommit(e)
    BY <2>1 DEF IInv, Typed, TestFill, CancelCommit, workerVars, history
  <2>2. ASSUME NEW d \in Deliveries, CancelRead(e, d)
        PROVE  <1>1
    BY <2>2 DEF IInv, Typed, CancelRead, workerVars, history
  <2> QED BY <2>1, <2>2
<1> DEFINE d0 == editor[e].id
<1>2. \/ row' = row
      \/ /\ d0 \in Deliveries /\ Live(d0)
         /\ \/ row' = [row EXCEPT ![d0].body = "composed"]
            \/ row' = [row EXCEPT ![d0].status = "FAILED", ![d0].completed = TRUE]
  <2>1. CASE TestFill(e) \/ CancelCommit(e)
    <3>1. editor[e] # Idle
      BY <2>1 DEF TestFill, CancelCommit, Idle
    <3>2. editor[e].id \in Deliveries
      BY <3>1 DEF IInv, Typed
    <3> QED BY <2>1, <3>2 DEF TestFill, CancelCommit
  <2>2. CASE \E d \in Deliveries : CancelRead(e, d)
    BY <2>2 DEF CancelRead
  <2> QED BY <2>1, <2>2
<1> HIDE DEF d0
<1>3. \A d \in Deliveries : Live(d) => row[d] \in Delivery /\ hook[row[d].hook] # "absent"
  BY LiveRow DEF IInv, DeliveriesHaveWebhooks
<1>4. \A d \in Deliveries : Live(d) =>
          /\ [row[d] EXCEPT !.body = "composed"] \in Delivery
          /\ [row[d] EXCEPT !.status = "FAILED", !.completed = TRUE] \in Delivery
  BY <1>3 DEF Delivery, DeliveryStatus, Bodies
<1>5. row' \in [Deliveries -> Delivery \cup {NoRow}]
  BY <1>2, <1>4 DEF IInv, Typed
<1>6. \A d \in Deliveries :
          \/ row'[d] = NoRow
          \/ /\ Live(d) /\ hook'[row[d].hook] # "absent"
             /\ row'[d].hook = row[d].hook
             /\ \/ row'[d].status = "FAILED"
                \/ row'[d].status = row[d].status /\ row'[d].attempts = row[d].attempts
  <2>1. CASE row' = row
    BY <1>1, <1>3, <2>1 DEF Live
  <2>2. CASE /\ d0 \in Deliveries /\ Live(d0)
             /\ \/ row' = [row EXCEPT ![d0].body = "composed"]
                \/ row' = [row EXCEPT ![d0].status = "FAILED", ![d0].completed = TRUE]
    <3>1. /\ row'[d0].hook = row[d0].hook
          /\ \/ row'[d0].status = "FAILED"
             \/ row'[d0].status = row[d0].status /\ row'[d0].attempts = row[d0].attempts
      BY <1>3, <2>2 DEF IInv, Typed, Delivery
    <3>2. \A d \in Deliveries : d # d0 => row'[d] = row[d]
      BY <2>2 DEF IInv, Typed
    <3> QED BY <1>1, <1>3, <2>2, <3>1, <3>2 DEF Live
  <2> QED BY <1>2, <2>1, <2>2
<1>7. hook' \in [Webhooks -> {"absent", "on", "off"}]
  BY <1>1 DEF IInv, Typed
<1> QED BY <1>1, <1>5, <1>6, <1>7, RowsSettleKeeps

LEMMA WebhookKeeps ==
    ASSUME IInv, NEW w \in Webhooks,
           CreateWebhook(w) \/ SetEnabled(w) \/ DeleteWebhook(w)
    PROVE  IInv'
<1>1. /\ UNCHANGED <<batch, flight, posts, accepted, crashes>>
      /\ editor' \in [Editors -> [op : {"cancel", "test"}, id : Deliveries] \cup {Idle}]
      /\ hook' \in [Webhooks -> {"absent", "on", "off"}]
      /\ \A x \in Webhooks : x # w => hook'[x] = hook[x]
  BY DEF IInv, Typed, CreateWebhook, SetEnabled, DeleteWebhook, workerVars, history
<1>2. \A d \in Deliveries : Live(d) => row[d].hook \in Webhooks /\ hook[row[d].hook] # "absent"
  BY LiveRow DEF IInv, DeliveriesHaveWebhooks, Delivery
<1>3. CASE CreateWebhook(w) \/ SetEnabled(w)
  <2>1. row' = row /\ hook'[w] # "absent"
    BY <1>3 DEF IInv, Typed, CreateWebhook, SetEnabled
  <2> QED BY <1>1, <1>2, <2>1, RowsSettleKeeps DEF IInv, Typed, Live
<1>4. CASE DeleteWebhook(w)
  <2>1. row' = [d \in Deliveries |-> IF row[d].hook = w THEN NoRow ELSE row[d]]
    BY <1>4 DEF DeleteWebhook
  <2> QED BY <1>1, <1>2, <2>1, RowsSettleKeeps DEF IInv, Typed, Live
<1> QED BY <1>3, <1>4

LEMMA CleanupKeeps ==
    ASSUME IInv, NEW d \in Deliveries, Cleanup(d)
    PROVE  IInv'
<1>1. /\ UNCHANGED <<hook, batch, flight, editor, posts, accepted, crashes>>
      /\ row' = [row EXCEPT ![d] = NoRow]
  BY DEF Cleanup, workerVars, history
<1> QED BY <1>1, RowsSettleKeeps DEF IInv, Typed, Live, DeliveriesHaveWebhooks

LEMMA EnqueueKeeps ==
    ASSUME IInv, NEW d \in Deliveries,
           \/ \E w \in Webhooks : Enqueue(d, w)
           \/ \E original \in Deliveries : Retry(d, original)
           \/ \E e \in Editors, w \in Webhooks : TestCreate(e, d, w)
    PROVE  IInv'
<1>1. CASE \E w \in Webhooks : Enqueue(d, w)
  BY <1>1, NewRowKeeps DEF IInv, Typed, Enqueue, workerVars, Bodies
<1>2. CASE \E original \in Deliveries : Retry(d, original)
  <2>1. PICK original \in Deliveries : Retry(d, original)
    BY <1>2
  <2>2. row[original] \in Delivery
    BY <2>1, LiveRow DEF IInv, Retry
  <2>3. row[original].hook \in Webhooks /\ row[original].body \in Bodies
    BY <2>2 DEF Delivery
  <2>4. hook[row[original].hook] # "absent"
    BY <2>1 DEF IInv, DeliveriesHaveWebhooks, Retry
  <2> QED BY <2>1, <2>3, <2>4, NewRowKeeps DEF IInv, Typed, Retry, workerVars
<1>3. CASE \E e \in Editors, w \in Webhooks : TestCreate(e, d, w)
  <2>1. PICK e \in Editors, w \in Webhooks : TestCreate(e, d, w)
    BY <1>3
  <2>2. editor' \in [Editors -> [op : {"cancel", "test"}, id : Deliveries] \cup {Idle}]
    BY <2>1 DEF IInv, Typed, TestCreate
  <2> QED BY <2>1, <2>2, NewRowKeeps DEF TestCreate, workerVars, Bodies
<1> QED BY <1>1, <1>2, <1>3

LEMMA BackoffEndsKeeps ==
    ASSUME IInv, NEW d \in Deliveries, BackoffEnds(d)
    PROVE  IInv'
BY DEF BackoffEnds, workerVars, history, IInv, Typed, AwaitsItsHead, AttemptsWereMade,
   OutcomesAreTrue, GivenUpOnlyWhenExhausted, SuccessWasAccepted, DeliveriesHaveWebhooks, Live

(***************************************************************************)
(* The theorems.                                                           *)
(***************************************************************************)
LEMMA InitIInv == Init => IInv
<1> SUFFICES ASSUME Init PROVE IInv
  OBVIOUS
<1>1. <<>> \in Seq(Selected) /\ DOMAIN <<>> = {}
  BY EmptySeq
<1>2. hook \in [Webhooks -> {"absent", "on", "off"}]
  BY DEF Init, Ensured
<1>3. Typed
  BY <1>1, <1>2, WebhookAssumption DEF Init, Typed
<1>4. AwaitsItsHead /\ OutcomesAreTrue /\ AttemptsWereMade
  BY <1>1 DEF Init, AwaitsItsHead, OutcomesAreTrue, AttemptsWereMade, NoRow
<1>5. GivenUpOnlyWhenExhausted /\ SuccessWasAccepted /\ DeliveriesHaveWebhooks
  BY DEF Init, GivenUpOnlyWhenExhausted, SuccessWasAccepted, DeliveriesHaveWebhooks,
     NoRow, Live
<1> QED BY <1>3, <1>4, <1>5 DEF IInv

LEMMA NextIInv == IInv /\ [Next]_vars => IInv'
<1> SUFFICES ASSUME IInv, [Next]_vars PROVE IInv'
  OBVIOUS
<1>1. ASSUME NEW d \in Deliveries,
             \/ \E w \in Webhooks : Enqueue(d, w)
             \/ \E original \in Deliveries : Retry(d, original)
             \/ BackoffEnds(d) \/ Cleanup(d)
      PROVE  IInv'
  BY <1>1, EnqueueKeeps, BackoffEndsKeeps, CleanupKeeps
<1>2. ASSUME NEW t \in Ticks, Select(t) \/ Send(t) \/ Record(t)
      PROVE  IInv'
  BY <1>2, SelectKeeps, SendKeeps, RecordKeeps
<1>3. ASSUME NEW e \in Editors, EditorStep(e)
      PROVE  IInv'
  BY <1>3, EditorKeeps, EnqueueKeeps DEF EditorStep
<1>4. ASSUME NEW w \in Webhooks, CreateWebhook(w) \/ SetEnabled(w) \/ DeleteWebhook(w)
      PROVE  IInv'
  BY <1>4, WebhookKeeps
<1>5. CASE UNCHANGED vars
  BY <1>5 DEF vars, IInv, Typed, AwaitsItsHead, AttemptsWereMade, OutcomesAreTrue,
     GivenUpOnlyWhenExhausted, SuccessWasAccepted, DeliveriesHaveWebhooks, Live
<1> QED BY <1>1, <1>2, <1>3, <1>4, <1>5, CrashKeeps DEF Next

\* The inductive invariant of the outbox and its worker: what ticks remember and
\* await is true of the history, whatever other ticks and editors have written.
THEOREM Invariance == Spec => []IInv
<1> QED BY InitIInv, NextIInv, PTL DEF Spec

\* However ticks overlap and processes crash, dispatch dead-letters a delivery
\* only after its receiver was tried MAX_ATTEMPTS times (or has no handler).
THEOREM NeverGivenUpEarly == Spec => []GivenUpOnlyWhenExhausted
<1>1. IInv => GivenUpOnlyWhenExhausted
  BY DEF IInv
<1> QED BY <1>1, Invariance, PTL

\* A PENDING row always has an attempt left, so backoffMs is never asked for a
\* delay past the end of its table.
THEOREM BackoffIsDefined == Spec => []PendingHasAnAttemptLeft
<1>1. IInv => PendingHasAnAttemptLeft
  BY DEF IInv, AttemptsWereMade, PendingHasAnAttemptLeft
<1> QED BY <1>1, Invariance, PTL

\* dispatch records SUCCESS only for a delivery its receiver accepted, even when
\* the update was computed from a stale selection.
THEOREM SuccessIsReal == Spec => []SuccessWasAccepted
<1>1. IInv => SuccessWasAccepted
  BY DEF IInv
<1> QED BY <1>1, Invariance, PTL

\* The cascade leaves no delivery without its webhook, so a dispatch that finds
\* no webhook finds no row either.
THEOREM NoOrphanDeliveries == Spec => []DeliveriesHaveWebhooks
<1>1. IInv => DeliveriesHaveWebhooks
  BY DEF IInv
<1> QED BY <1>1, Invariance, PTL

\* All of these together: what a row says of its delivery was earned.
THEOREM OutboxSound == Spec => []OutboxIsSound
BY NeverGivenUpEarly, BackoffIsDefined, SuccessIsReal, NoOrphanDeliveries, PTL
   DEF OutboxIsSound

(***************************************************************************)
(* The queue of due rows.                                                  *)
(***************************************************************************)
OnceEach(q) == \A i, j \in DOMAIN q : q[i] = q[j] => i = j

QueueIsDue ==
    /\ queue \in Seq(Deliveries)
    /\ OnceEach(queue)
    /\ \A i \in DOMAIN queue : row[queue[i]].status = "PENDING"

\* What is left of the queue is a queue.
LEMMA WithoutIsQueue ==
    ASSUME queue \in Seq(Deliveries), OnceEach(queue), NEW S, NEW q \in Without(S)
    PROVE  /\ q \in Seq(Deliveries)
           /\ OnceEach(q)
           /\ \A i \in DOMAIN q : q[i] \notin S /\ \E j \in DOMAIN queue : queue[j] = q[i]
<1> DEFINE n == Cardinality(Kept(S))
<1>1. Len(queue) \in Nat /\ DOMAIN queue = 1..Len(queue) /\ Kept(S) \subseteq 1..Len(queue)
  BY LenProperties DEF Kept
<1>2. IsFiniteSet(1..Len(queue))
  BY <1>1, FS_Interval
<1>3. n \in Nat
  BY <1>1, <1>2, FS_Subset, FS_CardinalityType
<1>4. PICK at \in [1..n -> Kept(S)] : /\ \A i, j \in DOMAIN at : i < j => at[i] < at[j]
                                     /\ q = [i \in DOMAIN at |-> queue[at[i]]]
  BY DEF Without
<1> HIDE DEF n
<1>5. /\ DOMAIN q = 1..n
      /\ \A i \in 1..n : /\ at[i] \in 1..Len(queue) /\ q[i] = queue[at[i]] /\ q[i] \notin S
                         /\ q[i] \in Deliveries
  BY <1>1, <1>4, ElementOfSeq DEF Kept
<1>6. q \in Seq(Deliveries)
  <2>1. q = [i \in 1..n |-> q[i]]
    BY <1>4, <1>5
  <2>2. [i \in 1..n |-> q[i]] \in Seq(Deliveries)
    BY <1>3, <1>5, IsASeq
  <2> QED BY <2>1, <2>2
<1>7. OnceEach(q)
  <2> SUFFICES ASSUME NEW i \in 1..n, NEW j \in 1..n, q[i] = q[j] PROVE i = j
    BY <1>5 DEF OnceEach
  <2>1. at[i] = at[j] /\ at[i] \in Nat
    BY <1>1, <1>5 DEF OnceEach
  <2>2. DOMAIN at = 1..n
    OBVIOUS
  <2> QED BY <1>3, <1>4, <2>1, <2>2
<1> QED BY <1>1, <1>5, <1>6, <1>7

LEMMA AppendIsQueue ==
    ASSUME NEW q \in Seq(Deliveries), OnceEach(q), NEW d \in Deliveries,
           \A i \in DOMAIN q : q[i] # d
    PROVE  /\ Append(q, d) \in Seq(Deliveries)
           /\ OnceEach(Append(q, d))
           /\ \A i \in DOMAIN Append(q, d) :
                 Append(q, d)[i] = d \/ \E j \in DOMAIN q : q[j] = Append(q, d)[i]
<1> DEFINE new == Append(q, d)
<1>1. Len(q) \in Nat /\ DOMAIN q = 1..Len(q)
  BY LenProperties
<1>2. /\ new \in Seq(Deliveries) /\ Len(new) = Len(q) + 1
      /\ \A i \in 1..Len(q) : new[i] = q[i]
      /\ new[Len(q) + 1] = d
  BY AppendProperties
<1> HIDE DEF new
<1>3. DOMAIN new = 1..(Len(q) + 1)
  BY <1>2, LenProperties
<1>4. \A i \in DOMAIN new : i = Len(q) + 1 \/ i \in 1..Len(q)
  BY <1>1, <1>3
<1>5. OnceEach(new)
  BY <1>1, <1>2, <1>4 DEF OnceEach
<1> QED BY <1>1, <1>2, <1>4, <1>5 DEF new

LEMMA InsertIsQueue ==
    ASSUME queue \in Seq(Deliveries), OnceEach(queue), NEW d \in Deliveries,
           \A i \in DOMAIN queue : queue[i] # d, NEW at \in 0..Len(queue)
    PROVE  /\ Insert(d, at) \in Seq(Deliveries)
           /\ OnceEach(Insert(d, at))
           /\ \A i \in DOMAIN Insert(d, at) :
                 Insert(d, at)[i] = d \/ \E j \in DOMAIN queue : queue[j] = Insert(d, at)[i]
<1> DEFINE n == Len(queue)
           before == SubSeq(queue, 1, at)
           after == SubSeq(queue, at + 1, n)
           half == before \o <<d>>
           new == half \o after
<1>1. n \in Nat /\ DOMAIN queue = 1..n /\ at \in Nat /\ at <= n
  BY LenProperties
<1>2. \A i \in 1..n : queue[i] \in Deliveries
  BY <1>1, ElementOfSeq
<1>3. /\ before \in Seq(Deliveries) /\ Len(before) = at
      /\ \A i \in 1..at : before[i] = queue[i]
  BY <1>1, <1>2, SubSeqProperties
<1>4. /\ after \in Seq(Deliveries) /\ Len(after) = n - at
      /\ \A i \in 1..(n - at) : after[i] = queue[at + i]
  BY <1>1, <1>2, SubSeqProperties
<1>5. <<d>> \in Seq(Deliveries) /\ Len(<<d>>) = 1 /\ <<d>>[1] = d
  OBVIOUS
<1> HIDE DEF n, before, after
<1>6. /\ half \in Seq(Deliveries) /\ Len(half) = at + 1
      /\ \A i \in 1..(at + 1) : half[i] = IF i <= at THEN before[i] ELSE <<d>>[i - at]
  BY <1>1, <1>3, <1>5, ConcatProperties
<1> HIDE DEF half
<1>7. /\ new \in Seq(Deliveries) /\ Len(new) = n + 1
      /\ \A i \in 1..(n + 1) : new[i] = IF i <= at + 1 THEN half[i] ELSE after[i - (at + 1)]
  <2>1. /\ new \in Seq(Deliveries) /\ Len(new) = Len(half) + Len(after)
        /\ \A i \in 1..(Len(half) + Len(after)) :
              new[i] = IF i <= Len(half) THEN half[i] ELSE after[i - Len(half)]
    BY <1>4, <1>6, ConcatProperties
  <2>2. Len(half) + Len(after) = n + 1
    BY <1>1, <1>4, <1>6
  <2> HIDE DEF new
  <2> QED BY <1>6, <2>1, <2>2
<1> HIDE DEF new
<1>8. DOMAIN new = 1..(n + 1)
  BY <1>7, LenProperties
<1>9. \A i \in 1..(n + 1) :
        \/ i = at + 1 /\ new[i] = d
        \/ i <= at /\ i \in 1..n /\ new[i] = queue[i]
        \/ i > at + 1 /\ i - 1 \in 1..n /\ new[i] = queue[i - 1]
  <2> SUFFICES ASSUME NEW i \in 1..(n + 1)
               PROVE  \/ i = at + 1 /\ new[i] = d
                      \/ i <= at /\ i \in 1..n /\ new[i] = queue[i]
                      \/ i > at + 1 /\ i - 1 \in 1..n /\ new[i] = queue[i - 1]
    OBVIOUS
  <2>1. CASE i = at + 1
    BY <1>1, <1>5, <1>6, <1>7, <2>1
  <2>2. CASE i <= at
    BY <1>1, <1>3, <1>6, <1>7, <2>2
  <2>3. CASE i > at + 1
    <3>1. i - (at + 1) \in 1..(n - at) /\ at + (i - (at + 1)) = i - 1 /\ i - 1 \in 1..n
      BY <1>1, <2>3
    <3> QED BY <1>1, <1>4, <1>7, <2>3, <3>1
  <2> QED BY <1>1, <2>1, <2>2, <2>3
<1>10. OnceEach(new)
  BY <1>1, <1>8, <1>9 DEF OnceEach
<1>11. Insert(d, at) = new
  BY DEF Insert, new, half, before, after, n
<1> QED BY <1>1, <1>7, <1>8, <1>9, <1>10, <1>11

\* The queue and the rows change together.
LEMMA QueueGrows ==
    ASSUME QueueIsDue, NEW d \in Deliveries, row'[d].status = "PENDING",
           \A c \in Deliveries \ {d} : row[c].status = "PENDING" => row'[c].status = "PENDING",
           queue' \in Seq(Deliveries), OnceEach(queue'),
           \A i \in DOMAIN queue' : queue'[i] = d \/ \E j \in DOMAIN queue : queue[j] = queue'[i]
    PROVE  QueueIsDue'
<1>1. \A i \in DOMAIN queue' : queue'[i] \in Deliveries
  BY LenProperties, ElementOfSeq
<1> QED BY <1>1 DEF QueueIsDue, OnceEach

LEMMA QueueShrinks ==
    ASSUME QueueIsDue, NEW S, queue' \in Without(S),
           \A c \in Deliveries \ S : row[c].status = "PENDING" => row'[c].status = "PENDING"
    PROVE  QueueIsDue'
<1>1. \A i \in DOMAIN queue : queue[i] \in Deliveries
  BY LenProperties, ElementOfSeq DEF QueueIsDue
<1>2. /\ queue' \in Seq(Deliveries) /\ OnceEach(queue')
      /\ \A i \in DOMAIN queue' :
           queue'[i] \notin S /\ \E j \in DOMAIN queue : queue[j] = queue'[i]
  BY WithoutIsQueue DEF QueueIsDue
<1> QED BY <1>1, <1>2 DEF QueueIsDue, OnceEach

LEMMA QueueStays ==
    ASSUME QueueIsDue, queue' = queue,
           \A c \in Deliveries : row[c].status = "PENDING" => row'[c].status = "PENDING"
    PROVE  QueueIsDue'
<1>1. \A i \in DOMAIN queue : queue[i] \in Deliveries
  BY LenProperties, ElementOfSeq DEF QueueIsDue
<1> QED BY <1>1 DEF QueueIsDue, OnceEach

LEMMA NewRowIsQueued ==
    ASSUME IInv, QueueIsDue, NEW d \in Deliveries, NEW w, NEW b, NewRow(d, w, b)
    PROVE  QueueIsDue'
<1>1. \A i \in DOMAIN queue : queue[i] # d
  BY DEF QueueIsDue, NewRow, FreshDelivery, Live, NoRow
<1>2. /\ row'[d].status = "PENDING" /\ \A c \in Deliveries \ {d} : row'[c] = row[c]
      /\ queue' = Append(queue, d)
  BY DEF NewRow, IInv, Typed
<1> QED BY <1>1, <1>2, AppendIsQueue, QueueGrows DEF QueueIsDue

LEMMA BackoffIsQueued ==
    ASSUME QueueIsDue, NEW d \in Deliveries, BackoffEnds(d)
    PROVE  QueueIsDue'
<1>1. \A i \in DOMAIN queue : queue[i] # d
  BY DEF QueueIsDue, BackoffEnds, Due
<1>2. PICK at \in 0..Len(queue) : queue' = Insert(d, at)
  BY DEF BackoffEnds
<1>3. row' = row /\ row[d].status = "PENDING"
  BY DEF BackoffEnds
<1> QED BY <1>1, <1>2, <1>3, InsertIsQueue, QueueGrows DEF QueueIsDue

LEMMA RecordDequeues ==
    ASSUME IInv, QueueIsDue, NEW t \in Ticks, Record(t)
    PROVE  QueueIsDue'
<1> DEFINE p == Head(batch[t])
<1>1. CASE Live(p.id)
  <2>1. queue' \in Without({p.id}) /\ \A c \in Deliveries \ {p.id} : row'[c] = row[c]
    BY <1>1 DEF Record, IInv, Typed
  <2> HIDE DEF p
  <2> QED BY <2>1, QueueShrinks
<1>2. CASE ~Live(p.id)
  BY <1>2, QueueStays DEF Record
<1> QED BY <1>1, <1>2

LEMMA EditorDequeues ==
    ASSUME IInv, QueueIsDue, NEW e \in Editors, TestFill(e) \/ CancelCommit(e)
    PROVE  QueueIsDue'
<1> PICK d : d = editor[e].id
  OBVIOUS
<1>1. CASE TestFill(e)
  <2>1. /\ queue' = queue
        /\ row' = row \/ row' = [row EXCEPT ![d].body = "composed"]
    BY <1>1 DEF TestFill
  <2>2. \A c \in Deliveries : row[c] \in Delivery \cup {NoRow}
    BY DEF IInv, Typed
  <2>3. ASSUME NEW c \in Deliveries PROVE row'[c].status = row[c].status
    <3>1. c \in DOMAIN row
      BY DEF IInv, Typed
    <3>2. row'[c] = row[c] \/ row'[c] = [row[c] EXCEPT !.body = "composed"]
      BY <2>1, <3>1
    <3> QED BY <2>2, <3>2 DEF Delivery, NoRow
  <2> QED BY <2>1, <2>3, QueueStays
<1>2. CASE CancelCommit(e) /\ Live(d)
  <2>1. queue' \in Without({d}) /\ \A c \in Deliveries \ {d} : row'[c] = row[c]
    BY <1>2 DEF CancelCommit, IInv, Typed
  <2> QED BY <2>1, QueueShrinks
<1>3. CASE CancelCommit(e) /\ ~Live(d)
  BY <1>3, QueueStays DEF CancelCommit
<1> QED BY <1>1, <1>2, <1>3

LEMMA RemovalDequeues ==
    ASSUME IInv, QueueIsDue,
           (\E d \in Deliveries : Cleanup(d)) \/ (\E w \in Webhooks : DeleteWebhook(w))
    PROVE  QueueIsDue'
<1>1. CASE \E d \in Deliveries : Cleanup(d)
  <2> PICK d \in Deliveries : Cleanup(d)
    BY <1>1
  <2>1. queue' \in Without({d}) /\ \A c \in Deliveries \ {d} : row'[c] = row[c]
    BY DEF Cleanup, IInv, Typed
  <2> QED BY <2>1, QueueShrinks
<1>2. CASE \E w \in Webhooks : DeleteWebhook(w)
  <2> PICK w \in Webhooks : DeleteWebhook(w)
    BY <1>2
  <2> DEFINE S == {d \in Deliveries : row[d].hook = w}
  <2>1. queue' \in Without(S) /\ \A c \in Deliveries \ S : row'[c] = row[c]
    BY DEF DeleteWebhook
  <2> HIDE DEF S
  <2> QED BY <2>1, QueueShrinks
<1> QED BY <1>1, <1>2

LEMMA QueueKeeps == IInv /\ QueueIsDue /\ [Next]_vars => QueueIsDue'
<1> SUFFICES ASSUME IInv, QueueIsDue, [Next]_vars PROVE QueueIsDue'
  OBVIOUS
<1>1. ASSUME NEW d \in Deliveries,
             \/ \E w \in Webhooks : Enqueue(d, w)
             \/ \E original \in Deliveries : Retry(d, original)
             \/ \E e \in Editors, w \in Webhooks : TestCreate(e, d, w)
      PROVE  QueueIsDue'
  BY <1>1, NewRowIsQueued DEF Enqueue, Retry, TestCreate
<1>2. ASSUME NEW d \in Deliveries, BackoffEnds(d) \/ Cleanup(d)
      PROVE  QueueIsDue'
  BY <1>2, BackoffIsQueued, RemovalDequeues
<1>3. ASSUME UNCHANGED <<queue, row>>
      PROVE  QueueIsDue'
  BY <1>3, QueueStays
<1>4. ASSUME NEW t \in Ticks, Select(t) \/ Send(t) \/ Record(t)
      PROVE  QueueIsDue'
  BY <1>3, <1>4, RecordDequeues DEF Select, Send
<1>5. ASSUME NEW e \in Editors, EditorStep(e)
      PROVE  QueueIsDue'
  BY <1>1, <1>3, <1>5, EditorDequeues DEF EditorStep, CancelRead
<1>6. ASSUME NEW w \in Webhooks, CreateWebhook(w) \/ SetEnabled(w) \/ DeleteWebhook(w)
      PROVE  QueueIsDue'
  BY <1>3, <1>6, RemovalDequeues DEF CreateWebhook, SetEnabled
<1>7. CASE Crash \/ UNCHANGED vars
  BY <1>3, <1>7 DEF Crash, vars
<1> QED BY <1>1, <1>2, <1>4, <1>5, <1>6, <1>7 DEF Next

\* The tables are well typed, and the queue of selectPending holds a due row once and
\* no row that is not PENDING, however ticks and editors overlap.
THEOREM TypeCorrect == Spec => []TypeOK
<1>1. Init => QueueIsDue
  <2>1. DOMAIN <<>> = {} /\ <<>> \in Seq(Deliveries)
    BY EmptySeq
  <2> QED BY <2>1 DEF Init, QueueIsDue, OnceEach
<1>2. IInv /\ QueueIsDue => TypeOK
  BY DEF IInv, Typed, QueueIsDue, OnceEach, TypeOK
<1> QED BY <1>1, <1>2, QueueKeeps, Invariance, PTL DEF Spec

(***************************************************************************)
(* At least once, and twice only for a crash: the case in which a tick     *)
(* ends before the next one starts.                                        *)
(***************************************************************************)
NoOverlap == \A t, u \in Ticks : t = u

\* The tick is recording that the receiver accepted d.
Accepting(d) == \E t \in Ticks : flight[t] = "ok" /\ batch[t][1].id = d

\* Whatever can still be sent has been accepted at most once per crash; one more
\* acceptance is awaiting its record, or recorded.
SpareAcceptances ==
    /\ \A d \in Deliveries : accepted[d] <= crashes + 1
    /\ \A d \in Deliveries :
           row[d].status = "PENDING" /\ ~Accepting(d) => accepted[d] <= crashes
    /\ \A t \in Ticks : \A i \in DOMAIN batch[t] :
           ~(i = 1 /\ flight[t] = "ok") => accepted[batch[t][i].id] <= crashes

SelectedOnce ==
    \A t \in Ticks : \A i, j \in DOMAIN batch[t] :
        batch[t][i].id = batch[t][j].id => i = j

SerialInv == IInv /\ SpareAcceptances /\ SelectedOnce

LEMMA SerialSelectKeeps ==
    ASSUME NoOverlap, SerialInv, NEW t \in Ticks, Select(t)
    PROVE  SpareAcceptances' /\ SelectedOnce'
<1>1. PICK n \in 1..BatchSize : \E ids \in [1..n -> Due] :
        /\ \A i, j \in 1..n : ids[i] = ids[j] => i = j
        /\ batch' = [batch EXCEPT ![t] =
                  [i \in 1..n |-> [id |-> ids[i], hook |-> row[ids[i]].hook,
                                   attempts |-> row[ids[i]].attempts,
                                   body |-> row[ids[i]].body]]]
  BY DEF Select
<1>2. PICK ids \in [1..n -> Due] :
        /\ \A i, j \in 1..n : ids[i] = ids[j] => i = j
        /\ batch' = [batch EXCEPT ![t] =
                  [i \in 1..n |-> [id |-> ids[i], hook |-> row[ids[i]].hook,
                                   attempts |-> row[ids[i]].attempts,
                                   body |-> row[ids[i]].body]]]
  BY <1>1
<1>3. /\ UNCHANGED <<row, flight, accepted, crashes>> /\ batch[t] = <<>>
  BY DEF Select, history
<1>4. \A u \in Ticks : flight[u] = "none"
  BY <1>3 DEF NoOverlap, SerialInv, IInv, AwaitsItsHead
<1>5. \A u \in Ticks : DOMAIN batch'[u] = 1..n /\ \A i \in 1..n : batch'[u][i].id = ids[i]
  BY <1>2 DEF NoOverlap, SerialInv, IInv, Typed
<1>6. \A d \in Deliveries : row[d].status = "PENDING" => accepted[d] <= crashes
  BY <1>4 DEF SerialInv, SpareAcceptances, Accepting
<1>7. \A i \in 1..n : ids[i] \in Deliveries /\ row[ids[i]].status = "PENDING"
  BY DEF Due
<1>8. SpareAcceptances'
  BY <1>3, <1>5, <1>6, <1>7 DEF SerialInv, SpareAcceptances
<1>9. SelectedOnce'
  BY <1>2, <1>5 DEF SelectedOnce
<1> QED BY <1>8, <1>9

LEMMA SerialSendKeeps ==
    ASSUME NoOverlap, SerialInv, NEW t \in Ticks, Send(t)
    PROVE  SpareAcceptances' /\ SelectedOnce'
<1> DEFINE d0 == batch[t][1].id
<1>1. /\ Head(batch[t]) = batch[t][1] /\ 1 \in DOMAIN batch[t] /\ d0 \in Deliveries
      /\ flight[t] = "none"
  BY BatchHead, BatchElement DEF SerialInv, IInv, Send
<1>2. /\ UNCHANGED <<row, batch, crashes>>
      /\ \/ /\ flight' = [flight EXCEPT ![t] = "ok"]
            /\ accepted' = [accepted EXCEPT ![d0] = Counted(@)]
         \/ \E o : o # "ok" /\ flight' = [flight EXCEPT ![t] = o] /\ accepted' = accepted
  BY <1>1 DEF Send, history
<1>3. accepted[d0] <= crashes
  BY <1>1 DEF SerialInv, SpareAcceptances
<1>4. \A u \in Ticks : u = t
  BY DEF NoOverlap
<1>5. crashes \in Nat /\ accepted \in [Deliveries -> 0..MaxSeen]
  BY WebhookAssumption DEF SerialInv, IInv, Typed
<1>6. \A i \in DOMAIN batch[t] : batch[t][i].id \in Deliveries /\ (i # 1 => batch[t][i].id # d0)
  BY <1>1, BatchElement DEF SerialInv, IInv, SelectedOnce
<1> HIDE DEF d0
<1>7. SelectedOnce'
  BY <1>2 DEF SerialInv, SelectedOnce
<1>8. CASE /\ flight' = [flight EXCEPT ![t] = "ok"]
           /\ accepted' = [accepted EXCEPT ![d0] = Counted(@)]
  <2>1. flight'[t] = "ok" /\ accepted'[d0] <= crashes + 1
    BY <1>1, <1>3, <1>5, <1>8, WebhookAssumption DEF SerialInv, IInv, Typed, Counted
  <2>2. \A d \in Deliveries : d # d0 => accepted'[d] = accepted[d]
    BY <1>5, <1>8
  <2>3. \A d \in Deliveries : accepted'[d] <= crashes + 1
    BY <2>1, <2>2 DEF SerialInv, SpareAcceptances
  <2>4. \A d \in Deliveries : row[d].status = "PENDING" /\ d # d0 => accepted'[d] <= crashes
    BY <1>1, <1>4, <2>2 DEF SerialInv, SpareAcceptances, Accepting
  <2>5. ASSUME NEW d \in Deliveries, d = d0
        PROVE  Accepting(d)'
    BY <1>2, <2>1, <2>5 DEF Accepting, d0
  <2>6. \A u \in Ticks : \A i \in DOMAIN batch[u] :
            i # 1 => accepted'[batch[u][i].id] <= crashes
    BY <1>1, <1>4, <1>6, <2>2 DEF SerialInv, SpareAcceptances
  <2>7. \A d \in Deliveries :
            row'[d].status = "PENDING" /\ ~Accepting(d)' => accepted'[d] <= crashes'
    BY <1>2, <2>4, <2>5
  <2> QED BY <1>2, <1>4, <1>7, <2>1, <2>3, <2>6, <2>7 DEF SpareAcceptances
<1>9. CASE \E o : o # "ok" /\ flight' = [flight EXCEPT ![t] = o] /\ accepted' = accepted
  <2>1. flight[t] # "ok" /\ flight'[t] # "ok"
    BY <1>1, <1>9 DEF SerialInv, IInv, Typed
  <2>2. SpareAcceptances'
    BY <1>2, <1>4, <1>9, <2>1 DEF SerialInv, SpareAcceptances, Accepting
  <2> QED BY <1>7, <2>2
<1> QED BY <1>2, <1>8, <1>9

LEMMA SerialRecordKeeps ==
    ASSUME NoOverlap, SerialInv, NEW t \in Ticks, Record(t)
    PROVE  SpareAcceptances' /\ SelectedOnce'
<1> DEFINE p == batch[t][1]
           s == StatusAfter(p, flight[t])
           rest == Tail(batch[t])
<1>1. /\ flight[t] # "none" /\ batch[t] # <<>> /\ flight[t] \in Outcomes
  BY DEF SerialInv, IInv, Typed, AwaitsItsHead, Record
<1>2. /\ p \in Selected /\ Head(batch[t]) = p /\ 1 \in DOMAIN batch[t]
      /\ p.id \in Deliveries /\ p.attempts \in 0..(MaxAttempts - 1)
      /\ \A i \in DOMAIN rest : /\ i \in Nat /\ i > 0 /\ i + 1 \in DOMAIN batch[t]
                               /\ rest[i] = batch[t][i + 1]
  BY <1>1, BatchHead, BatchElement DEF SerialInv, IInv
<1>3. /\ UNCHANGED <<accepted, crashes>> /\ flight'[t] = "none"
      /\ \/ /\ Live(p.id) /\ row'[p.id].status = s
            /\ \A d \in Deliveries : d # p.id => row'[d] = row[d]
            /\ batch'[t] = rest
         \/ ~Live(p.id) /\ batch'[t] = <<>> /\ row' = row
  <2>1. CASE Live(p.id)
    <3>1. row[p.id] \in Delivery
      BY <1>2, <2>1, LiveRow DEF SerialInv, IInv
    <3> QED BY <1>2, <2>1, <3>1 DEF Record, history, SerialInv, IInv, Typed, Delivery
  <2>2. CASE ~Live(p.id)
    BY <1>2, <2>2 DEF Record, history, SerialInv, IInv, Typed
  <2> QED BY <2>1, <2>2
<1>4. s = "PENDING" => flight[t] = "error"
  BY <1>1, <1>2, StatusAfterProperties
<1>5. \A u \in Ticks : u = t
  BY DEF NoOverlap
<1>6. \A d \in Deliveries : row[d].status = "PENDING" /\ d # p.id => accepted[d] <= crashes
  BY <1>5 DEF SerialInv, SpareAcceptances, Accepting
<1>7. s = "PENDING" => accepted[p.id] <= crashes
  BY <1>2, <1>4 DEF SerialInv, SpareAcceptances
<1>8. ~Live(p.id) => row[p.id].status # "PENDING"
  BY DEF Live, NoRow
<1> HIDE DEF p, s, rest
<1>9. \A d \in Deliveries : row'[d].status = "PENDING" => accepted[d] <= crashes
  BY <1>3, <1>6, <1>7, <1>8
<1>10. \A i \in DOMAIN rest : accepted[rest[i].id] <= crashes
  BY <1>2 DEF SerialInv, SpareAcceptances
<1>11. SpareAcceptances'
  <2>1. \A i \in DOMAIN batch'[t] : accepted[batch'[t][i].id] <= crashes
    BY <1>3, <1>10, EmptySeq
  <2> QED BY <1>3, <1>5, <1>9, <2>1 DEF SerialInv, SpareAcceptances
<1>12. \A i, j \in DOMAIN rest : rest[i].id = rest[j].id => i = j
  BY <1>2 DEF SerialInv, SelectedOnce
<1>13. SelectedOnce'
  BY <1>3, <1>5, <1>12, EmptySeq DEF SelectedOnce
<1> QED BY <1>11, <1>13

LEMMA SerialOthersKeep ==
    ASSUME SerialInv, UNCHANGED <<batch, flight, crashes>>,
           \A d \in Deliveries :
               \/ /\ accepted'[d] = accepted[d]
                  /\ row'[d].status = "PENDING" => row[d].status = "PENDING"
               \/ accepted'[d] = 0
    PROVE  SpareAcceptances' /\ SelectedOnce'
<1>1. crashes \in Nat
  BY WebhookAssumption DEF SerialInv, IInv, Typed
<1>2. \A t \in Ticks : \A i \in DOMAIN batch[t] : batch[t][i].id \in Deliveries
  BY BatchElement DEF SerialInv, IInv
<1>3. \A d \in Deliveries : accepted'[d] <= crashes + 1
  BY <1>1 DEF SerialInv, SpareAcceptances
<1>4. \A d \in Deliveries :
          row'[d].status = "PENDING" /\ ~Accepting(d) => accepted'[d] <= crashes
  BY <1>1 DEF SerialInv, SpareAcceptances
<1>5. \A t \in Ticks : \A i \in DOMAIN batch[t] :
          ~(i = 1 /\ flight[t] = "ok") => accepted'[batch[t][i].id] <= crashes
  BY <1>1, <1>2 DEF SerialInv, SpareAcceptances
<1>6. \A d : Accepting(d)' <=> Accepting(d)
  BY DEF Accepting
<1> QED BY <1>3, <1>4, <1>5, <1>6 DEF SerialInv, SpareAcceptances, SelectedOnce

LEMMA SerialNextKeeps ==
    ASSUME NoOverlap, SerialInv, [Next]_vars
    PROVE  SerialInv'
<1>1. IInv'
  BY NextIInv DEF SerialInv
<1>2. ASSUME NEW d \in Deliveries, NEW w, NEW b, NewRow(d, w, b),
             UNCHANGED <<batch, flight, crashes>>
      PROVE  SpareAcceptances' /\ SelectedOnce'
  BY <1>2, SerialOthersKeep DEF NewRow, SerialInv, IInv, Typed
<1>3. ASSUME NEW d \in Deliveries,
             \/ \E w \in Webhooks : Enqueue(d, w)
             \/ \E original \in Deliveries : Retry(d, original)
             \/ \E e \in Editors, w \in Webhooks : TestCreate(e, d, w)
      PROVE  SpareAcceptances' /\ SelectedOnce'
  BY <1>2, <1>3 DEF Enqueue, Retry, TestCreate, workerVars
<1>4. ASSUME NEW d \in Deliveries, BackoffEnds(d) \/ Cleanup(d)
      PROVE  SpareAcceptances' /\ SelectedOnce'
  <2>1. /\ UNCHANGED <<batch, flight, crashes, accepted>>
        /\ row' = row \/ row' = [row EXCEPT ![d] = NoRow]
    BY <1>4 DEF BackoffEnds, Cleanup, workerVars, history
  <2>2. \A x \in Deliveries : row'[x].status = "PENDING" => row[x].status = "PENDING"
    BY SMTT(30), <2>1 DEF SerialInv, IInv, Typed, NoRow
  <2> QED BY <2>1, <2>2, SerialOthersKeep
<1>5. ASSUME NEW e \in Editors,
             TestFill(e) \/ CancelCommit(e) \/ \E d \in Deliveries : CancelRead(e, d)
      PROVE  SpareAcceptances' /\ SelectedOnce'
  <2>1. /\ UNCHANGED <<batch, flight, crashes, accepted>>
        /\ \/ row' = row
           \/ row' = [row EXCEPT ![editor[e].id].body = "composed"]
           \/ row' = [row EXCEPT ![editor[e].id].status = "FAILED",
                                 ![editor[e].id].completed = TRUE]
    BY <1>5 DEF TestFill, CancelCommit, CancelRead, workerVars, history
  <2>2. ASSUME NEW d \in Deliveries, row'[d].status = "PENDING"
        PROVE  row[d].status = "PENDING"
    <3>1. CASE d # editor[e].id \/ row' = row
      BY <2>1, <2>2, <3>1 DEF SerialInv, IInv, Typed
    <3>2. CASE d = editor[e].id /\ row' # row
      <4>1. row[d] \in Delivery \cup {NoRow}
        BY DEF SerialInv, IInv, Typed
      <4> QED BY <2>1, <2>2, <3>2, <4>1 DEF SerialInv, IInv, Typed, Delivery, NoRow
    <3> QED BY <3>1, <3>2
  <2> QED BY <2>1, <2>2, SerialOthersKeep
<1>6. ASSUME NEW w \in Webhooks, CreateWebhook(w) \/ SetEnabled(w) \/ DeleteWebhook(w)
      PROVE  SpareAcceptances' /\ SelectedOnce'
  <2>1. UNCHANGED <<batch, flight, crashes, accepted>>
    BY <1>6 DEF CreateWebhook, SetEnabled, DeleteWebhook, workerVars, history
  <2>2. \A d \in Deliveries : row'[d].status = "PENDING" => row[d].status = "PENDING"
    BY <1>6 DEF CreateWebhook, SetEnabled, DeleteWebhook, NoRow
  <2> QED BY <2>1, <2>2, SerialOthersKeep
<1>7. ASSUME Crash
      PROVE  SpareAcceptances' /\ SelectedOnce'
  <2>1. /\ UNCHANGED <<row, accepted>> /\ crashes' = crashes + 1 /\ crashes \in Nat
        /\ batch' = [t \in Ticks |-> <<>>]
    BY <1>7, WebhookAssumption DEF Crash, history, SerialInv, IInv, Typed
  <2>2. DOMAIN <<>> = {}
    BY EmptySeq
  <2>3. accepted \in [Deliveries -> 0..MaxSeen]
    BY DEF SerialInv, IInv, Typed
  <2>4. SpareAcceptances'
    BY <2>1, <2>2, <2>3 DEF SerialInv, SpareAcceptances
  <2>5. SelectedOnce'
    BY <2>1, <2>2 DEF SelectedOnce
  <2> QED BY <2>4, <2>5
<1>8. ASSUME UNCHANGED vars
      PROVE  SpareAcceptances' /\ SelectedOnce'
  BY <1>8, SerialOthersKeep DEF vars
<1>9. ASSUME NEW t \in Ticks, Select(t) \/ Send(t) \/ Record(t)
      PROVE  SpareAcceptances' /\ SelectedOnce'
  BY <1>9, SerialSelectKeeps, SerialSendKeeps, SerialRecordKeeps
<1>10. ASSUME NEW e \in Editors, EditorStep(e)
       PROVE  SpareAcceptances' /\ SelectedOnce'
  BY <1>3, <1>5, <1>10 DEF EditorStep
<1>11. SpareAcceptances' /\ SelectedOnce'
  BY <1>3, <1>4, <1>6, <1>7, <1>8, <1>9, <1>10 DEF Next
<1> QED BY <1>1, <1>11 DEF SerialInv

\* The comment above dispatch(), for any number of deliveries, webhooks and
\* crashes: if no tick starts before the last one ended, a delivery its receiver
\* has accepted is accepted again at most once per crash.
THEOREM AtLeastOnce ==
    ASSUME NoOverlap
    PROVE  Spec => []DuplicatesNeedACrash
<1>1. Init => SerialInv
  <2>1. DOMAIN <<>> = {}
    BY EmptySeq
  <2> QED BY <2>1, InitIInv DEF Init, SerialInv, SpareAcceptances, SelectedOnce
<1>2. SerialInv /\ [Next]_vars => SerialInv'
  BY SerialNextKeeps
<1>3. SerialInv => DuplicatesNeedACrash
  <2>1. SerialInv => accepted \in [Deliveries -> 0..MaxSeen] /\ crashes \in Nat
    BY WebhookAssumption DEF SerialInv, IInv, Typed
  <2> QED BY <2>1 DEF SerialInv, SpareAcceptances, DuplicatesNeedACrash
<1> QED BY <1>1, <1>2, <1>3, PTL DEF Spec

(***************************************************************************)
(* No dispatch goes uncounted, and what is settled stays settled, when     *)
(* ticks do not overlap.                                                   *)
(***************************************************************************)
\* What the tick remembers of a row is what the row says.
InHandIsCurrent ==
    \A t \in Ticks : \A i \in DOMAIN batch[t] :
        Live(batch[t][i].id) => row[batch[t][i].id].attempts = batch[t][i].attempts

\* The tick is awaiting what the receiver of d has seen.
Posting(d) == \E t \in Ticks : flight[t] \in {"ok", "error"} /\ batch[t][1].id = d

PostsAreSpared ==
    \A d \in Deliveries : Live(d) =>
        posts[d] <= row[d].attempts + crashes + (IF Posting(d) THEN 1 ELSE 0)

CountInv == SerialInv /\ InHandIsCurrent /\ PostsAreSpared

LEMMA AttemptsAreNatural ==
    ASSUME NEW table \in [Deliveries -> Delivery \cup {NoRow}], NEW d \in Deliveries
    PROVE  table[d].attempts \in Nat
<1>1. table[d].attempts \in 0..MaxAttempts
  BY WebhookAssumption DEF Delivery, NoRow
<1> QED BY <1>1

LEMMA CountTypes ==
    ASSUME IInv
    PROVE  /\ crashes \in Nat /\ MaxSeen \in Nat /\ MaxAttempts \in Nat
           /\ \A d \in Deliveries : posts[d] \in Nat /\ posts[d] <= MaxSeen
           /\ \A d \in Deliveries : row[d].attempts \in Nat
BY AttemptsAreNatural, WebhookAssumption DEF IInv, Typed

\* Steps that are not the worker's.
LEMMA CountOthersKeep ==
    ASSUME CountInv, IInv', UNCHANGED <<batch, flight, crashes>>,
           \A d \in Deliveries :
               \/ /\ posts'[d] = posts[d]
                  /\ Live(d)' => Live(d) /\ row'[d].attempts = row[d].attempts
               \/ /\ posts'[d] = 0
                  /\ \A t \in Ticks : \A i \in DOMAIN batch[t] : batch[t][i].id # d
    PROVE  InHandIsCurrent' /\ PostsAreSpared'
<1>1. \A t \in Ticks : \A i \in DOMAIN batch[t] : batch[t][i].id \in Deliveries
  BY BatchElement DEF CountInv, SerialInv, IInv
<1>2. InHandIsCurrent'
  BY <1>1 DEF CountInv, InHandIsCurrent
<1>3. \A d : Posting(d)' <=> Posting(d)
  BY DEF Posting
<1>4. /\ crashes \in Nat /\ \A d \in Deliveries : posts[d] \in Nat
      /\ \A d \in Deliveries : row'[d].attempts \in Nat
  BY CountTypes, AttemptsAreNatural DEF CountInv, SerialInv, IInv, Typed
<1>5. ASSUME NEW d \in Deliveries, Live(d)'
      PROVE  posts'[d] <= row'[d].attempts + crashes' + (IF Posting(d)' THEN 1 ELSE 0)
  <2>1. CASE posts'[d] = 0
    BY <1>4, <2>1
  <2>2. CASE posts'[d] = posts[d] /\ Live(d) /\ row'[d].attempts = row[d].attempts
    BY <1>3, <2>2 DEF CountInv, PostsAreSpared
  <2> QED BY <1>5, <2>1, <2>2
<1> QED BY <1>2, <1>5 DEF PostsAreSpared

LEMMA CountSelectKeeps ==
    ASSUME NoOverlap, CountInv, NEW t \in Ticks, Select(t)
    PROVE  InHandIsCurrent' /\ PostsAreSpared'
<1>1. PICK n \in 1..BatchSize : \E ids \in [1..n -> Due] :
        batch' = [batch EXCEPT ![t] =
                  [i \in 1..n |-> [id |-> ids[i], hook |-> row[ids[i]].hook,
                                   attempts |-> row[ids[i]].attempts,
                                   body |-> row[ids[i]].body]]]
  BY DEF Select
<1>2. PICK ids \in [1..n -> Due] :
        batch' = [batch EXCEPT ![t] =
                  [i \in 1..n |-> [id |-> ids[i], hook |-> row[ids[i]].hook,
                                   attempts |-> row[ids[i]].attempts,
                                   body |-> row[ids[i]].body]]]
  BY <1>1
<1>3. UNCHANGED <<row, flight, posts, crashes>> /\ batch[t] = <<>>
  BY DEF Select, history
<1>4. \A u \in Ticks : u = t /\ flight[u] = "none"
  BY <1>3 DEF NoOverlap, CountInv, SerialInv, IInv, AwaitsItsHead
<1>5. \A u \in Ticks : /\ DOMAIN batch'[u] = 1..n
                       /\ \A i \in 1..n : /\ batch'[u][i].id = ids[i]
                                          /\ batch'[u][i].attempts = row[ids[i]].attempts
  BY <1>2, <1>4 DEF CountInv, SerialInv, IInv, Typed
<1>6. InHandIsCurrent'
  BY <1>3, <1>5 DEF InHandIsCurrent
<1>7. \A d : ~Posting(d) /\ ~Posting(d)'
  BY <1>3, <1>4 DEF Posting
<1>8. PostsAreSpared'
  BY <1>3, <1>7 DEF CountInv, PostsAreSpared, Live
<1> QED BY <1>6, <1>8

LEMMA CountSendKeeps ==
    ASSUME NoOverlap, CountInv, NEW t \in Ticks, Send(t)
    PROVE  InHandIsCurrent' /\ PostsAreSpared'
<1> PICK p : p = batch[t][1]
  OBVIOUS
<1>1. Head(batch[t]) = p /\ p.id \in Deliveries /\ flight[t] = "none"
  BY BatchHead, BatchElement DEF CountInv, SerialInv, IInv, Send
<1>2. \A u \in Ticks : u = t
  BY DEF NoOverlap
<1>3. /\ UNCHANGED <<row, batch, crashes>>
      /\ \/ posts' = posts
         \/ /\ flight'[t] \in {"ok", "error"}
            /\ posts' = [posts EXCEPT ![p.id] = Counted(@)]
  BY <1>1 DEF Send, history, CountInv, SerialInv, IInv, Typed
<1>4. InHandIsCurrent'
  BY <1>3 DEF CountInv, InHandIsCurrent, Live
<1>5. \A d : ~Posting(d)
  BY <1>1, <1>2 DEF Posting
<1>6. /\ crashes \in Nat /\ MaxSeen \in Nat
      /\ \A d \in Deliveries : posts[d] \in Nat /\ row[d].attempts \in Nat
  BY CountTypes DEF CountInv, SerialInv
<1>7. ASSUME NEW d \in Deliveries, Live(d)
      PROVE  posts'[d] <= row[d].attempts + crashes + (IF Posting(d)' THEN 1 ELSE 0)
  <2>1. posts[d] <= row[d].attempts + crashes
    BY <1>5, <1>6, <1>7 DEF CountInv, PostsAreSpared
  <2>2. CASE posts'[d] = posts[d]
    BY <1>6, <2>1, <2>2
  <2>3. CASE posts'[d] # posts[d]
    <3>1. d = p.id /\ flight'[t] \in {"ok", "error"} /\ posts'[d] = Counted(posts[d])
      BY <1>3, <2>3 DEF CountInv, SerialInv, IInv, Typed
    <3>2. Posting(d)'
      BY <1>3, <3>1 DEF Posting
    <3>3. posts'[d] <= posts[d] + 1
      BY <1>6, <3>1 DEF Counted
    <3>4. posts'[d] \in Nat
      BY <1>6, <3>1 DEF Counted
    <3> QED BY <1>6, <2>1, <3>2, <3>3, <3>4
  <2> QED BY <2>2, <2>3
<1> QED BY <1>3, <1>4, <1>7 DEF PostsAreSpared, Live

LEMMA CountRecordKeeps ==
    ASSUME NoOverlap, CountInv, IInv', NEW t \in Ticks, Record(t)
    PROVE  InHandIsCurrent' /\ PostsAreSpared'
<1> PICK p : p = batch[t][1]
  OBVIOUS
<1> PICK rest : rest = Tail(batch[t])
  OBVIOUS
<1> PICK o : o = flight[t]
  OBVIOUS
<1>1. o # "none" /\ batch[t] # <<>>
  BY DEF CountInv, SerialInv, IInv, AwaitsItsHead, Record
<1>2. /\ p \in Selected /\ Head(batch[t]) = p /\ 1 \in DOMAIN batch[t]
      /\ p.id \in Deliveries /\ p.attempts \in 0..(MaxAttempts - 1)
      /\ \A i \in DOMAIN rest : /\ i \in Nat /\ i > 0 /\ i + 1 \in DOMAIN batch[t]
                                /\ rest[i] = batch[t][i + 1]
  BY <1>1, BatchHead, BatchElement DEF CountInv, SerialInv, IInv
<1>3. /\ UNCHANGED <<posts, crashes>> /\ flight'[t] = "none"
      /\ \/ /\ Live(p.id) /\ row'[p.id].attempts = AttemptsAfter(p, o)
            /\ \A d \in Deliveries : d # p.id => row'[d] = row[d]
            /\ batch'[t] = rest
         \/ ~Live(p.id) /\ batch'[t] = <<>> /\ row' = row
  <2>1. CASE Live(p.id)
    <3>1. row[p.id] \in Delivery
      BY <1>2, <2>1, LiveRow DEF CountInv, SerialInv, IInv
    <3> QED BY <1>2, <2>1, <3>1 DEF Record, history, CountInv, SerialInv, IInv, Typed, Delivery
  <2>2. CASE ~Live(p.id)
    BY <1>2, <2>2 DEF Record, history, CountInv, SerialInv, IInv, Typed
  <2> QED BY <2>1, <2>2
<1>4. \A u \in Ticks : u = t
  BY DEF NoOverlap
<1>5. \A i \in DOMAIN rest : rest[i].id # p.id /\ rest[i].id \in Deliveries
  <2> SUFFICES ASSUME NEW i \in DOMAIN rest
               PROVE  rest[i].id # p.id /\ rest[i].id \in Deliveries
    OBVIOUS
  <2>1. i + 1 \in DOMAIN batch[t] /\ rest[i] = batch[t][i + 1] /\ i + 1 # 1
    BY <1>2
  <2> QED BY <1>2, <2>1, BatchElement DEF CountInv, SerialInv, IInv, SelectedOnce
<1>6. \A i \in DOMAIN rest : Live(rest[i].id) => row[rest[i].id].attempts = rest[i].attempts
  BY <1>2 DEF CountInv, InHandIsCurrent
<1>7. InHandIsCurrent'
  <2>1. \A i \in DOMAIN batch'[t] :
          row'[batch'[t][i].id] # NoRow =>
             row'[batch'[t][i].id].attempts = batch'[t][i].attempts
    <3>1. CASE batch'[t] = <<>>
      BY <3>1, EmptySeq
    <3>2. CASE batch'[t] = rest /\ \A d \in Deliveries : d # p.id => row'[d] = row[d]
      BY <1>5, <1>6, <3>2 DEF Live
    <3> QED BY <1>3, <3>1, <3>2
  <2> QED BY <1>4, <2>1 DEF InHandIsCurrent, Live
<1>8. \A d \in Deliveries : ~Posting(d)'
  BY <1>3, <1>4 DEF Posting
<1>9. /\ crashes \in Nat /\ MaxAttempts \in Nat
      /\ \A d \in Deliveries : posts[d] \in Nat /\ row[d].attempts \in Nat
  BY CountTypes DEF CountInv, SerialInv
<1>10. ASSUME NEW d \in Deliveries, Live(d)'
       PROVE  posts[d] <= row'[d].attempts + crashes
  <2>1. CASE d # p.id
    <3>1. row'[d] = row[d] /\ ~Posting(d)
      BY <1>3, <1>4, <2>1 DEF Posting
    <3> QED BY <1>9, <1>10, <3>1 DEF CountInv, PostsAreSpared, Live
  <2>2. CASE d = p.id
    <3>1. Live(d) /\ row'[d].attempts = AttemptsAfter(p, o)
      BY <1>3, <1>10, <2>2 DEF Live
    <3>2. row[d].attempts = p.attempts
      BY <1>2, <2>2, <3>1 DEF CountInv, InHandIsCurrent
    <3>3. posts[d] <= p.attempts + crashes + (IF Posting(d) THEN 1 ELSE 0)
      BY <3>1, <3>2 DEF CountInv, PostsAreSpared
    <3>4. CASE o = "gone"
      <4>1. ~Posting(d)
        BY <1>4, <3>4 DEF Posting
      <4> QED BY <1>9, <3>1, <3>2, <3>3, <3>4, <4>1 DEF AttemptsAfter
    <3>5. CASE o # "gone"
      <4>1. row'[d].attempts = p.attempts + 1 /\ p.attempts \in Nat
        BY <1>9, <3>1, <3>2, <3>5 DEF AttemptsAfter
      <4> QED BY <1>9, <3>3, <4>1
    <3> QED BY <3>4, <3>5
  <2> QED BY <2>1, <2>2
<1>11. PostsAreSpared'
  <2> SUFFICES ASSUME NEW d \in Deliveries, Live(d)'
               PROVE  posts'[d] <= row'[d].attempts + crashes' + (IF Posting(d)' THEN 1 ELSE 0)
    BY DEF PostsAreSpared
  <2>1. row'[d].attempts \in Nat
    BY AttemptsAreNatural DEF CountInv, SerialInv, IInv, Typed
  <2> QED BY <1>3, <1>8, <1>9, <1>10, <2>1
<1> QED BY <1>7, <1>11

LEMMA CountCrashKeeps ==
    ASSUME CountInv, Crash
    PROVE  InHandIsCurrent' /\ PostsAreSpared'
<1>1. /\ UNCHANGED <<row, posts>> /\ crashes' = crashes + 1
      /\ \A t \in Ticks : batch'[t] = <<>>
  BY DEF Crash, history
<1>2. InHandIsCurrent'
  BY <1>1, EmptySeq DEF InHandIsCurrent
<1>3. /\ crashes \in Nat
      /\ \A d \in Deliveries : posts[d] \in Nat /\ row[d].attempts \in Nat
  BY CountTypes DEF CountInv, SerialInv
<1>4. ASSUME NEW d \in Deliveries, Live(d)
      PROVE  posts[d] <= row[d].attempts + crashes + 1
  BY <1>3, <1>4 DEF CountInv, PostsAreSpared
<1>5. \A d \in Deliveries : Live(d) => posts[d] <= row[d].attempts + crashes'
  BY <1>1, <1>3, <1>4
<1>6. PostsAreSpared'
  <2> SUFFICES ASSUME NEW d \in Deliveries, Live(d)'
               PROVE  posts'[d] <= row'[d].attempts + crashes' + (IF Posting(d)' THEN 1 ELSE 0)
    BY DEF PostsAreSpared
  <2>1. posts[d] <= row[d].attempts + crashes'
    BY <1>1, <1>5 DEF Live
  <2> QED BY <1>1, <1>3, <2>1
<1> QED BY <1>2, <1>6

LEMMA CountNextKeeps ==
    ASSUME NoOverlap, CountInv, [Next]_vars
    PROVE  CountInv'
<1>1. SerialInv' /\ IInv'
  BY SerialNextKeeps DEF CountInv, SerialInv
<1>2. ASSUME NEW d \in Deliveries, NEW w, NEW b, NewRow(d, w, b),
             UNCHANGED <<batch, flight, crashes>>
      PROVE  InHandIsCurrent' /\ PostsAreSpared'
  <2>1. \A t \in Ticks : \A i \in DOMAIN batch[t] : batch[t][i].id # d
    BY <1>2, FreshIsNotInHand DEF NewRow
  <2>2. /\ posts'[d] = 0
        /\ \A c \in Deliveries : c # d => posts'[c] = posts[c] /\ row'[c] = row[c]
    BY <1>2 DEF NewRow, CountInv, SerialInv, IInv, Typed
  <2> QED BY <1>1, <1>2, <2>1, <2>2, CountOthersKeep DEF Live
<1>3. ASSUME NEW d \in Deliveries,
             \/ \E w \in Webhooks : Enqueue(d, w)
             \/ \E original \in Deliveries : Retry(d, original)
             \/ \E e \in Editors, w \in Webhooks : TestCreate(e, d, w)
      PROVE  InHandIsCurrent' /\ PostsAreSpared'
  BY <1>2, <1>3 DEF Enqueue, Retry, TestCreate, workerVars
<1>4. ASSUME UNCHANGED <<batch, flight, crashes, posts>>,
             \A d \in Deliveries :
                \/ row'[d] = NoRow
                \/ row'[d] = row[d]
                \/ row[d] \in Delivery /\ row'[d].attempts = row[d].attempts
      PROVE  InHandIsCurrent' /\ PostsAreSpared'
  <2>1. \A d \in Deliveries : Live(d)' => Live(d) /\ row'[d].attempts = row[d].attempts
    BY <1>4, LiveRow DEF CountInv, SerialInv, IInv, Live
  <2> QED BY <1>1, <1>4, <2>1, CountOthersKeep
<1>5. ASSUME NEW d \in Deliveries, BackoffEnds(d) \/ Cleanup(d)
      PROVE  InHandIsCurrent' /\ PostsAreSpared'
  <2>1. /\ UNCHANGED <<batch, flight, crashes, posts>>
        /\ row' = row \/ row' = [row EXCEPT ![d] = NoRow]
    BY <1>5 DEF BackoffEnds, Cleanup, workerVars, history
  <2>2. \A c \in Deliveries : row'[c] = NoRow \/ row'[c] = row[c]
    BY <2>1 DEF CountInv, SerialInv, IInv, Typed
  <2> QED BY <1>4, <2>1, <2>2
<1>6. ASSUME NEW e \in Editors,
             TestFill(e) \/ CancelCommit(e) \/ \E d \in Deliveries : CancelRead(e, d)
      PROVE  InHandIsCurrent' /\ PostsAreSpared'
  <2> PICK d : d = editor[e].id
    OBVIOUS
  <2>1. /\ UNCHANGED <<batch, flight, crashes, posts>>
        /\ \/ row' = row
           \/ Live(d) /\ row' = [row EXCEPT ![d].body = "composed"]
           \/ Live(d) /\ row' = [row EXCEPT ![d].status = "FAILED", ![d].completed = TRUE]
    BY <1>6 DEF TestFill, CancelCommit, CancelRead, workerVars, history
  <2>2. ASSUME NEW c \in Deliveries
        PROVE  \/ row'[c] = row[c]
               \/ row[c] \in Delivery /\ row'[c].attempts = row[c].attempts
    <3>1. c \in DOMAIN row /\ (Live(c) => row[c] \in Delivery)
      BY LiveRow DEF CountInv, SerialInv, IInv, Typed
    <3>2. c # d => row'[c] = row[c]
      BY <2>1, <3>1
    <3>3. ASSUME c = d
          PROVE  \/ row'[c] = row[c]
                 \/ Live(c) /\ row'[c] = [row[c] EXCEPT !.body = "composed"]
                 \/ Live(c) /\ row'[c] = [row[c] EXCEPT !.status = "FAILED", !.completed = TRUE]
      <4>1. CASE row' = row
        BY <4>1
      <4>2. CASE Live(d) /\ row' = [row EXCEPT ![d].body = "composed"]
        BY <3>1, <3>3, <4>2
      <4>3. CASE Live(d) /\ row' = [row EXCEPT ![d].status = "FAILED", ![d].completed = TRUE]
        BY <3>1, <3>3, <4>3
      <4> QED BY <2>1, <4>1, <4>2, <4>3
    <3>4. \/ row'[c] = row[c]
          \/ row[c] \in Delivery /\ row'[c].attempts = row[c].attempts
      <4>1. CASE c = d
        BY <3>1, <3>3, <4>1 DEF Delivery
      <4> QED BY <3>2, <4>1
    <3> QED BY <3>4
  <2> QED BY <1>4, <2>1, <2>2
<1>7. ASSUME NEW w \in Webhooks, CreateWebhook(w) \/ SetEnabled(w) \/ DeleteWebhook(w)
      PROVE  InHandIsCurrent' /\ PostsAreSpared'
  <2>1. UNCHANGED <<batch, flight, crashes, posts>>
    BY <1>7 DEF CreateWebhook, SetEnabled, DeleteWebhook, workerVars, history
  <2>2. \A d \in Deliveries : row'[d] = NoRow \/ row'[d] = row[d]
    BY <1>7 DEF CreateWebhook, SetEnabled, DeleteWebhook
  <2> QED BY <1>4, <2>1, <2>2
<1>8. ASSUME UNCHANGED vars
      PROVE  InHandIsCurrent' /\ PostsAreSpared'
  BY <1>4, <1>8 DEF vars
<1>9. ASSUME NEW t \in Ticks, Select(t) \/ Send(t) \/ Record(t)
      PROVE  InHandIsCurrent' /\ PostsAreSpared'
  BY <1>1, <1>9, CountSelectKeeps, CountSendKeeps, CountRecordKeeps
<1>10. ASSUME NEW e \in Editors, EditorStep(e)
       PROVE  InHandIsCurrent' /\ PostsAreSpared'
  BY <1>3, <1>6, <1>10 DEF EditorStep
<1>11. InHandIsCurrent' /\ PostsAreSpared'
  BY <1>3, <1>5, <1>7, <1>8, <1>9, <1>10, CountCrashKeeps DEF Next
<1> QED BY <1>1, <1>11 DEF CountInv

\* dispatch() counts every attempt before it is forgotten: if no tick starts before
\* the last one ended, a receiver never sees a delivery more often than its row says,
\* but for the POST in flight and one for every crash, whatever editors do meanwhile.
THEOREM NoPostUncounted ==
    ASSUME NoOverlap
    PROVE  Spec => []PostsAreCounted
<1>1. Init => CountInv
  <2>1. DOMAIN <<>> = {}
    BY EmptySeq
  <2>2. Init => SerialInv
    BY <2>1, InitIInv DEF Init, SerialInv, SpareAcceptances, SelectedOnce
  <2>3. Init => InHandIsCurrent /\ PostsAreSpared
    BY <2>1 DEF Init, InHandIsCurrent, PostsAreSpared, Live
  <2> QED BY <2>2, <2>3 DEF CountInv
<1>2. CountInv /\ [Next]_vars => CountInv'
  BY CountNextKeeps
<1>3. TypeOK /\ CountInv => PostsAreCounted
  <2> SUFFICES ASSUME TypeOK, CountInv, NEW d \in Deliveries
               PROVE  InFlight(d) <=> Posting(d)
    BY DEF CountInv, PostsAreSpared, PostsAreCounted
  <2>1. \A t \in Ticks : flight[t] \in {"ok", "error"} => Head(batch[t]) = batch[t][1]
    BY BatchHead DEF CountInv, SerialInv, IInv, AwaitsItsHead
  <2> QED BY <2>1 DEF InFlight, Posting
<1> QED BY <1>1, <1>2, <1>3, TypeCorrect, PTL DEF Spec

\* Without editors, whatever the tick has in hand is still PENDING.
InHandIsPending ==
    \A t \in Ticks : \A i \in DOMAIN batch[t] :
        Live(batch[t][i].id) => row[batch[t][i].id].status = "PENDING"

\* What no step may do to a settled row.
StaysSettled ==
    \A d \in Deliveries :
        row[d].status \in Terminal => row'[d].status \in {row[d].status, "NONE"}

LEMMA PendingOthersKeep ==
    ASSUME SerialInv, InHandIsPending, UNCHANGED batch,
           \A d \in Deliveries :
              \/ row'[d] = row[d] \/ row'[d] = NoRow
              \/ ~Live(d) /\ \A t \in Ticks : \A i \in DOMAIN batch[t] : batch[t][i].id # d
    PROVE  InHandIsPending' /\ StaysSettled
<1>1. \A t \in Ticks : \A i \in DOMAIN batch[t] : batch[t][i].id \in Deliveries
  BY BatchElement DEF SerialInv, IInv
<1>2. InHandIsPending'
  BY <1>1 DEF InHandIsPending, Live
<1>3. StaysSettled
  BY DEF StaysSettled, Live, NoRow, Terminal, DeliveryStatus
<1> QED BY <1>2, <1>3

LEMMA PendingSelectKeeps ==
    ASSUME NoOverlap, SerialInv, NEW t \in Ticks, Select(t)
    PROVE  InHandIsPending' /\ StaysSettled
<1>1. PICK n \in 1..BatchSize : \E ids \in [1..n -> Due] :
        batch' = [batch EXCEPT ![t] =
                  [i \in 1..n |-> [id |-> ids[i], hook |-> row[ids[i]].hook,
                                   attempts |-> row[ids[i]].attempts,
                                   body |-> row[ids[i]].body]]]
  BY DEF Select
<1>2. PICK ids \in [1..n -> Due] :
        batch' = [batch EXCEPT ![t] =
                  [i \in 1..n |-> [id |-> ids[i], hook |-> row[ids[i]].hook,
                                   attempts |-> row[ids[i]].attempts,
                                   body |-> row[ids[i]].body]]]
  BY <1>1
<1>3. row' = row /\ \A u \in Ticks : u = t
  BY DEF Select, NoOverlap
<1>4. \A u \in Ticks : DOMAIN batch'[u] = 1..n /\ \A i \in 1..n : batch'[u][i].id = ids[i]
  BY <1>2, <1>3 DEF SerialInv, IInv, Typed
<1>5. \A i \in 1..n : row[ids[i]].status = "PENDING"
  BY DEF Due
<1> QED BY <1>3, <1>4, <1>5 DEF InHandIsPending, StaysSettled

LEMMA PendingRecordKeeps ==
    ASSUME NoOverlap, SerialInv, InHandIsPending, NEW t \in Ticks, Record(t)
    PROVE  InHandIsPending' /\ StaysSettled
<1> PICK p : p = batch[t][1]
  OBVIOUS
<1> PICK rest : rest = Tail(batch[t])
  OBVIOUS
<1>1. flight[t] # "none" /\ batch[t] # <<>>
  BY DEF SerialInv, IInv, AwaitsItsHead, Record
<1>2. /\ Head(batch[t]) = p /\ 1 \in DOMAIN batch[t] /\ p.id \in Deliveries
      /\ \A i \in DOMAIN rest : /\ i \in Nat /\ i > 0 /\ i + 1 \in DOMAIN batch[t]
                                /\ rest[i] = batch[t][i + 1]
  BY <1>1, BatchHead, BatchElement DEF SerialInv, IInv
<1>3. /\ \A d \in Deliveries : d # p.id => row'[d] = row[d]
      /\ \/ Live(p.id) /\ batch'[t] = rest
         \/ batch'[t] = <<>> /\ row' = row
  BY <1>2 DEF Record, SerialInv, IInv, Typed
<1>4. \A u \in Ticks : u = t
  BY DEF NoOverlap
<1>5. \A i \in DOMAIN rest : /\ rest[i].id # p.id /\ rest[i].id \in Deliveries
                             /\ Live(rest[i].id) => row[rest[i].id].status = "PENDING"
  <2> SUFFICES ASSUME NEW i \in DOMAIN rest
               PROVE  /\ rest[i].id # p.id /\ rest[i].id \in Deliveries
                      /\ Live(rest[i].id) => row[rest[i].id].status = "PENDING"
    OBVIOUS
  <2>1. i + 1 \in DOMAIN batch[t] /\ rest[i] = batch[t][i + 1] /\ i + 1 # 1
    BY <1>2
  <2> QED BY <1>2, <2>1, BatchElement DEF SerialInv, IInv, SelectedOnce, InHandIsPending
<1>6. \A i \in DOMAIN batch'[t] :
        row'[batch'[t][i].id] # NoRow => row'[batch'[t][i].id].status = "PENDING"
  <2>1. CASE batch'[t] = <<>>
    BY <2>1, EmptySeq
  <2>2. CASE batch'[t] = rest
    BY <1>3, <1>5, <2>2 DEF Live
  <2> QED BY <1>3, <2>1, <2>2
<1>7. InHandIsPending'
  BY <1>4, <1>6 DEF InHandIsPending, Live
<1>8. Live(p.id) => row[p.id].status = "PENDING"
  BY <1>2 DEF InHandIsPending
<1>9. StaysSettled
  BY <1>3, <1>8 DEF StaysSettled, Terminal
<1> QED BY <1>7, <1>9

LEMMA PendingNextKeeps ==
    ASSUME NoOverlap, Editors = {}, SerialInv, InHandIsPending, [Next]_vars
    PROVE  InHandIsPending' /\ StaysSettled
<1>1. ASSUME NEW d \in Deliveries,
             \/ \E w \in Webhooks : Enqueue(d, w)
             \/ \E original \in Deliveries : Retry(d, original)
      PROVE  InHandIsPending' /\ StaysSettled
  <2>1. batch' = batch /\ \E w, b : NewRow(d, w, b)
    BY <1>1 DEF Enqueue, Retry, workerVars
  <2>2. FreshDelivery(d) /\ \A c \in Deliveries : c # d => row'[c] = row[c]
    BY <2>1 DEF NewRow, SerialInv, IInv, Typed
  <2> QED BY <2>1, <2>2, FreshIsNotInHand, PendingOthersKeep
<1>2. ASSUME NEW d \in Deliveries, BackoffEnds(d) \/ Cleanup(d)
      PROVE  InHandIsPending' /\ StaysSettled
  <2>1. batch' = batch /\ (row' = row \/ row' = [row EXCEPT ![d] = NoRow])
    BY <1>2 DEF BackoffEnds, Cleanup, workerVars
  <2>2. \A c \in Deliveries : row'[c] = row[c] \/ row'[c] = NoRow
    BY <2>1 DEF SerialInv, IInv, Typed
  <2> QED BY <2>1, <2>2, PendingOthersKeep
<1>3. ASSUME NEW w \in Webhooks, CreateWebhook(w) \/ SetEnabled(w) \/ DeleteWebhook(w)
      PROVE  InHandIsPending' /\ StaysSettled
  <2>1. batch' = batch /\ \A c \in Deliveries : row'[c] = row[c] \/ row'[c] = NoRow
    BY <1>3 DEF CreateWebhook, SetEnabled, DeleteWebhook, workerVars
  <2> QED BY <2>1, PendingOthersKeep
<1>4. ASSUME UNCHANGED <<row, batch>>
      PROVE  InHandIsPending' /\ StaysSettled
  BY <1>4, PendingOthersKeep
<1>5. ASSUME NEW t \in Ticks, Select(t) \/ Send(t) \/ Record(t)
      PROVE  InHandIsPending' /\ StaysSettled
  BY <1>4, <1>5, PendingSelectKeeps, PendingRecordKeeps DEF Send
<1>6. CASE Crash
  <2>1. row' = row /\ \A t \in Ticks : batch'[t] = <<>>
    BY <1>6 DEF Crash
  <2> QED BY <2>1, EmptySeq DEF InHandIsPending, StaysSettled
<1>7. CASE UNCHANGED vars
  BY <1>4, <1>7 DEF vars
<1> QED BY <1>1, <1>2, <1>3, <1>5, <1>6, <1>7 DEF Next

\* What webhookWorker.ts settles stays settled: if no tick starts before the last one
\* ended and no editor cancels, nothing revives a delivery or rewrites how it ended.
THEOREM SettledStays ==
    ASSUME NoOverlap, Editors = {}
    PROVE  Spec => TerminalIsFinal
<1> DEFINE I == SerialInv /\ InHandIsPending
<1>1. Init => I
  <2>1. DOMAIN <<>> = {}
    BY EmptySeq
  <2>2. Init => SerialInv
    BY <2>1, InitIInv DEF Init, SerialInv, SpareAcceptances, SelectedOnce
  <2> QED BY <2>1, <2>2 DEF Init, InHandIsPending
<1>2. I /\ [Next]_vars => I'
  BY SerialNextKeeps, PendingNextKeeps
<1>3. I /\ [Next]_vars =>
        [\A d \in Deliveries :
           row[d].status \in Terminal => row'[d].status \in {row[d].status, "NONE"}]_vars
  BY PendingNextKeeps DEF StaysSettled
<1> HIDE DEF I
<1> QED BY <1>1, <1>2, <1>3, PTL DEF Spec, TerminalIsFinal
============================================================================
