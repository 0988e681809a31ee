------------------------- MODULE MCWebhookDelivery -------------------------
(* Small instances of WebhookDelivery for TLC. *)
EXTENDS WebhookDelivery, TLC

\* Delivery ids are UUIDs, and overlapping ticks run the same code.
DeliverySymmetry == Permutations(Deliveries)
OverlapSymmetry == Permutations(Deliveries) \cup Permutations(Ticks)
============================================================================
