----------------------------- MODULE MCWebhooks -----------------------------
(* Webhooks, instantiated by Webhooks.cfg and WebhooksReset.cfg.           *)
EXTENDS Webhooks
=============================================================================
