-------------------------- MODULE MCWebhookDelivery --------------------------
(* WebhookDelivery on small instances; overlapping runs are                *)
(* interchangeable.                                                        *)
EXTENDS WebhookDelivery, TLC

Interchangeable == Permutations(Workers)
=============================================================================
