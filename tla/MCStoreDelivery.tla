-------------------------- MODULE MCStoreDelivery --------------------------
(* Small instances of StoreDelivery for TLC.                               *)
EXTENDS StoreDelivery

TwoPrices == {"p1", "p2"}
PaidOrNot == {0, 1}
=============================================================================
