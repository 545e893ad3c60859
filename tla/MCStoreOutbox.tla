--------------------------- MODULE MCStoreOutbox ---------------------------
(* Small instances of StoreOutbox for TLC.                                 *)
EXTENDS StoreOutbox

OneAddress == {"a1"}
SmallTotals == {0, 1}
UnsetOnly == {-1}
OnePrice == {"p1"}
=============================================================================
