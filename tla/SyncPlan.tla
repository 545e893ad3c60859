------------------------------ MODULE SyncPlan ------------------------------
(***************************************************************************)
(* Which block heights a sync iteration reads (src/wallet_runtime.rs): the *)
(* overlap that is read again in case of a reorganisation, the forward     *)
(* range up to the tip, and the batches that tile it.  Heights are u32 and *)
(* the arithmetic saturates; MaxU32 stands for u32::MAX.                   *)
(***************************************************************************)
EXTENDS Integers

CONSTANT MaxU32

ASSUME WidthAssumption == MaxU32 \in Nat \ {0}

Heights == 0 .. MaxU32

Lower(x, y) == IF x <= y THEN x ELSE y

Higher(x, y) == IF x >= y THEN x ELSE y

SaturatingAdd(x, y) == Lower(x + y, MaxU32)

SaturatingSub(x, y) == Higher(x - y, 0)

-----------------------------------------------------------------------------
(* A ScanBatch is an inclusive range; None is the empty range.             *)

ScanBatch == [start : Heights, end : Heights]

NoBatch == [start |-> 1, end |-> 0]

HeightsOf(batch) == batch.start .. batch.end

NextScanBatch(next, final, size) ==
    IF next > final THEN NoBatch
    ELSE [start |-> next,
          end   |-> Lower(SaturatingAdd(next, SaturatingSub(size, 1)), final)]

\* last_scanned_height is an i64 column; above u32::MAX it acts as the tip.
ForwardScanStartHeight(birthday, lastScanned, tip) ==
    IF lastScanned <= 0 THEN birthday
    ELSE Higher(SaturatingAdd(Lower(lastScanned, tip), 1), birthday)

ReorgOverlapBatch(birthday, lastScanned, tip, finality) ==
    LET end == Lower(lastScanned, tip)
    IN  IF lastScanned <= 0 \/ lastScanned > MaxU32 \/ end < birthday
        THEN NoBatch
        ELSE [start |-> Higher(SaturatingSub(end, SaturatingSub(finality, 1)), birthday),
              end   |-> end]

\* should_mark_catching_up of plan_scan_range.
MarksCatchingUp(next, tip, threshold) ==
    next <= tip /\ tip - next + 1 >= threshold
=============================================================================
