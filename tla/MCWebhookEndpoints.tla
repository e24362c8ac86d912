------------------------- MODULE MCWebhookEndpoints -------------------------
(* WebhookEndpoints for TLC. *)
EXTENDS WebhookEndpoints, TLC

\* Calls, users and target URLs are alike.
NamesAreAlike ==
    Permutations(Callers) \cup Permutations(Users) \cup Permutations(Urls)
=============================================================================
