-------------------------- MODULE MCWebhookOutbox --------------------------
(* Small instances of WebhookOutbox for TLC.                               *)
EXTENDS WebhookOutbox

OneAddress == {"a1"}
SmallTotals == {0, 1}
UnsetOnly == {-1}
UnsetOrOne == {-1, 1}
=============================================================================
