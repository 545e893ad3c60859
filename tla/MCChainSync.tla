---------------------------- MODULE MCChainSync ----------------------------
(* Small instances of ChainSync for TLC.                                   *)
EXTENDS ChainSync, TLC

OneTx == {"t1"}
TwoTxs == {"t1", "t2"}
TxSymmetry == Permutations(Txs)
OneAddress == {"a1"}
OneOwner == [t \in Txs |-> "a1"]

\* What a later step or a property of the run can still read: at "idle" the
\* locals of the last iteration are dead, after the scan its cursor is, of an
\* inactive receipt only an outdated mempool row matters, and unrecorded is
\* read by ReorgLowersTotal alone.
Live(row) ==
    IF row.active THEN row ELSE row.kind = "mempool" => row.fresh

LiveView ==
    << network, [t \in Txs |-> Live(rows[t])], totals, dirty, dropped, meta, pc,
       fetched, affected, snapshot, cut,
       IF pc = "idle" THEN << >> ELSE << tip, quiet >>,
       IF pc \in AfterScan \cup {"idle"} THEN << >> ELSE << cursor >> >>
=============================================================================
