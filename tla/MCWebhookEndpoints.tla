-------------------------- MODULE MCWebhookEndpoints --------------------------
(***************************************************************************)
(* WebhookEndpoints for TLC.  The constants come from the cfg.             *)
(***************************************************************************)
EXTENDS WebhookEndpoints

=============================================================================
