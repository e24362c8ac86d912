-------------------------- MODULE MCWebhookDelivery --------------------------
(* Instances of WebhookDelivery for TLC. *)
EXTENDS WebhookDelivery, TLC

CONSTANTS ev1, ev2, e1, w1, w2, c1

Events1 == {ev1}
Events2 == {ev1, ev2}
Endpoints1 == {e1}
Workers1 == {w1}
Workers2 == {w1, w2}
Callers1 == {c1}

Delays2 == <<1, 2>>

\* Events, endpoints, workers and API calls are interchangeable.
Symmetry ==
    Permutations(Events) \cup Permutations(Endpoints)
        \cup Permutations(Workers) \cup Permutations(Callers)
=============================================================================
