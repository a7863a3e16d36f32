-------------------------- MODULE MCWebhookDelivery -------------------------
(* Small instances of WebhookDelivery for TLC.                             *)
EXTENDS WebhookDelivery, TLC

CONSTANTS s1, s2, e1

MCSymmetry == Permutations(Sessions)
=============================================================================
