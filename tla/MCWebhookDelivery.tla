------------------------- MODULE MCWebhookDelivery --------------------------
(***************************************************************************)
(* WebhookDelivery for TLC.  The constants come from the cfgs.             *)
(***************************************************************************)
EXTENDS WebhookDelivery

=============================================================================
