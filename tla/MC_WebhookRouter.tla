------------------------- MODULE MC_WebhookRouter -------------------------
(* Two processes, two overlapping deliveries, posted to either of them.    *)
EXTENDS WebhookRouter, TLC

CONSTANTS r1, r2, k1, k2

\* The batches come in opposite orders, and one repeats an event.
Overlapping == r1 :> <<k1, k2>> @@ r2 :> <<k2, k1, k2>>
=============================================================================
