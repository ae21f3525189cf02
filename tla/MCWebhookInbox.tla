--------------------------- MODULE MCWebhookInbox ---------------------------
EXTENDS WebhookInbox, TLC

RequestSymmetry == Permutations(Handlers)
=============================================================================
