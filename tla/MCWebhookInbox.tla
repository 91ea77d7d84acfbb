--------------------------- MODULE MCWebhookInbox ---------------------------
(* Instances of WebhookInbox for TLC.                                      *)
EXTENDS WebhookInbox, TLC

Interchangeable == Permutations(Deliveries)
=============================================================================
