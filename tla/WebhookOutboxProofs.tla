------------------------ MODULE WebhookOutboxProofs ------------------------
(***************************************************************************)
(* Proofs about WebhookOutbox, for every set of addresses, totals and      *)
(* settings, every attempt limit and every combination of faults: its      *)
(* invariants, what its steps may do, and that it implements               *)
(* ReportedTotal.                                                          *)
(***************************************************************************)
EXTENDS WebhookOutbox, TLAPS

USE DEF OutstandingStates

-----------------------------------------------------------------------------
(* Types of the operators the actions are built from.                      *)

\* Every report a recompute or a rebuild can produce is a report, and so is
\* the NULL one of a fresh address.
LEMMA ReportType ==
    /\ FreshReport \in Report
    /\ \A n \in Settings \cup {-1} : ReportsUnder(n) \subseteq Report
<1>1. << >> \in Arrays(-1)
  BY DEF Arrays
<1>2. << >> \in Array
  BY <1>1 DEF Array
<1>3. FreshReport \in Report
  BY <1>2, OutboxAssumption DEF FreshReport, Report
<1>4. ASSUME NEW n \in Settings \cup {-1}
      PROVE  ReportsUnder(n) \subseteq Report
  BY DEF ReportsUnder, Report, Array
<1> QED
  BY <1>3, <1>4

\* A fresh address has a well-formed row.
LEMMA FreshRowType == FreshRow \in Row
  BY ReportType DEF FreshRow, Row

\* queue_webhook_deliveries_in_tx keeps rows and logs well formed, and adds at
\* most one delivery at the end of the log.
LEMMA QueueType ==
    ASSUME NEW row \in Row, NEW log \in Seq(Delivery)
    PROVE  /\ QueuedRow(row, log) \in Row
           /\ QueuedLog(row, log) \in Seq(Delivery)
           /\ Len(QueuedLog(row, log)) >= Len(log)
           /\ \A i \in 1 .. Len(log) : QueuedLog(row, log)[i] = log[i]
<1>1. QueuedRow(row, log) \in Row
  BY DEF QueuedRow, Row
<1>2. NewDelivery(row) \in Delivery
  BY DEF NewDelivery, Delivery, Row
<1>3. CASE QueuedLog(row, log) = log
  BY <1>1, <1>3
<1>4. CASE QueuedLog(row, log) = Append(log, NewDelivery(row))
  BY <1>1, <1>2, <1>4
<1> QED
  BY <1>3, <1>4 DEF QueuedLog

\* Moving one delivery to another state changes that field and its count only.
LEMMA SetDeliveryType ==
    ASSUME NEW log \in Seq(Delivery), NEW i \in 1 .. Len(log),
           NEW state \in OutstandingStates \cup {"succeeded", "permanent_failure"},
           NEW n \in Nat
    PROVE  LET new == SetDelivery(log, i, state, n)
           IN  /\ new \in Seq(Delivery)
               /\ Len(new) = Len(log)
               /\ \A k \in 1 .. Len(log) :
                    /\ k # i => new[k] = log[k]
                    /\ new[k].version = log[k].version
                    /\ new[k].report = log[k].report
               /\ new[i].state = state
               /\ new[i].attempts = n
<1> DEFINE new == SetDelivery(log, i, state, n)
           d == [log[i] EXCEPT !.state = state, !.attempts = n]
<1>0. log[i] \in Delivery
  OBVIOUS
<1>1. /\ d \in Delivery
      /\ d.version = log[i].version
      /\ d.report = log[i].report
      /\ d.state = state
      /\ d.attempts = n
  BY <1>0 DEF Delivery
<1>2. new = [log EXCEPT ![i] = d]
  BY DEF SetDelivery
<1> HIDE DEF d, new
<1>3. /\ new \in Seq(Delivery)
      /\ Len(new) = Len(log)
      /\ \A k \in 1 .. Len(log) : new[k] = IF k = i THEN d ELSE log[k]
  BY <1>1, <1>2
<1> QED
  BY <1>1, <1>3 DEF new

\* The startup recovery only turns 'sending' into 'retry_wait'.
LEMMA RecoveredType ==
    ASSUME NEW log \in Seq(Delivery)
    PROVE  /\ RecoveredLog(log) \in Seq(Delivery)
           /\ Len(RecoveredLog(log)) = Len(log)
           /\ \A k \in 1 .. Len(log) :
                /\ RecoveredLog(log)[k].version = log[k].version
                /\ RecoveredLog(log)[k].report = log[k].report
                /\ RecoveredLog(log)[k].attempts = log[k].attempts
                /\ RecoveredLog(log)[k].state =
                     IF log[k].state = "sending" THEN "retry_wait" ELSE log[k].state
<1> DEFINE new == RecoveredLog(log)
<1>1. /\ DOMAIN new = 1 .. Len(log)
      /\ \A k \in 1 .. Len(log) :
            new[k] = IF log[k].state = "sending"
                     THEN [log[k] EXCEPT !.state = "retry_wait"] ELSE log[k]
  BY DEF RecoveredLog
<1>0. \A k \in 1 .. Len(log) : log[k] \in Delivery
  OBVIOUS
<1> HIDE DEF new
<1>2. ASSUME NEW k \in 1 .. Len(log)
      PROVE  /\ new[k] \in Delivery
             /\ new[k].version = log[k].version
             /\ new[k].report = log[k].report
             /\ new[k].attempts = log[k].attempts
             /\ new[k].state =
                  IF log[k].state = "sending" THEN "retry_wait" ELSE log[k].state
  <2>1. log[k] \in Delivery
    BY <1>0
  <2>2. CASE log[k].state = "sending"
    <3>1. new[k] = [log[k] EXCEPT !.state = "retry_wait"]
      BY <1>1, <2>2
    <3> QED
      BY <2>1, <2>2, <3>1 DEF Delivery
  <2>3. CASE log[k].state # "sending"
    BY <1>1, <2>1, <2>3
  <2> QED
    BY <2>2, <2>3
<1>3. new = [k \in 1 .. Len(log) |-> new[k]]
  BY DEF RecoveredLog, new
<1>4. new \in Seq(Delivery) /\ Len(new) = Len(log)
  BY <1>1, <1>2, <1>3
<1> QED
  BY <1>2, <1>4 DEF new

-----------------------------------------------------------------------------
(* What each operator does to the invariant of one address.                *)

\* queue_webhook_deliveries_in_tx establishes LastWord for a dirty row: the
\* newest outstanding delivery, the acknowledged one or the one just added
\* carries the total, and an ignored duplicate is the last delivery of the log.
LEMMA QueueKeepsRowOK ==
    ASSUME NEW row \in Row, NEW log \in Seq(Delivery), RowOK(row, log)
    PROVE  /\ RowOK(QueuedRow(row, log), QueuedLog(row, log))
           /\ QueuedRow(row, log).acked = row.acked
<1> DEFINE nrow == QueuedRow(row, log)
           nlog == QueuedLog(row, log)
<1>1. CASE row.dirty # "dirty"
  BY <1>1 DEF QueuedRow, QueuedLog
<1>2. CASE row.dirty = "dirty"
  <2>1. /\ nrow \in Row
        /\ nrow.dirty # "dirty"
        /\ nrow.report = row.report
        /\ nrow.version = row.version
        /\ nrow.notified = row.notified
        /\ nrow.acked = row.acked
    BY <1>2 DEF QueuedRow, Row
  <2>d. DOMAIN log = 1 .. Len(log)
    OBVIOUS
  <2>2. /\ Len(log) \in Nat
        /\ row.acked \in 0 .. Len(log)
        /\ row.version \in Nat
    BY DEF RowOK, Row
  <2>a. ASSUME NEW k \in 1 .. Len(log), k > row.acked, k \notin Outstanding(row, log)
        PROVE  log[k].state = "permanent_failure"
    <3>1. log[k] \in Delivery
      OBVIOUS
    <3>2. log[k].state \in OutstandingStates \cup {"succeeded", "permanent_failure"}
      BY <3>1 DEF Delivery
    <3>3. log[k].state # "succeeded"
      BY <2>a DEF RowOK
    <3> QED
      BY <2>a, <2>d, <3>2, <3>3 DEF Outstanding
  <2>3. CASE AlreadyCarried(row, log)
    <3>1. nlog = log
      BY <2>3 DEF QueuedLog
    <3>2. LastWordOf(row, log)
      <4>1. CASE Outstanding(row, log) = {}
        <5>1. TotalAt(log, row.acked) = row.report.total
          BY <2>3, <4>1 DEF AlreadyCarried, RowOK
        <5>2. \A k \in (row.acked + 1) .. Len(log) : log[k].state = "permanent_failure"
          BY <2>2, <2>a, <4>1
        <5> QED
          BY <2>2, <5>1, <5>2 DEF LastWordOf
      <4>2. CASE Outstanding(row, log) # {}
        <5>1. PICK i \in Outstanding(row, log) :
                 /\ \A j \in Outstanding(row, log) : j <= i
                 /\ row.report = log[i].report
          BY <2>3, <4>2 DEF AlreadyCarried
        <5>2. i \in row.acked .. Len(log) /\ i # 0
          BY <2>2, <2>d DEF Outstanding
        <5>3. \A k \in (i + 1) .. Len(log) : log[k].state = "permanent_failure"
          BY <2>2, <2>a, <5>1, <5>2
        <5> QED
          BY <5>1, <5>2, <5>3 DEF LastWordOf, TotalAt
      <4> QED
        BY <4>1, <4>2
    <3>3. LastWordOf(nrow, log)
      BY <2>1, <3>2 DEF LastWordOf
    <3> QED
      BY <2>1, <3>1, <3>3 DEF RowOK
  <2>4. CASE ~AlreadyCarried(row, log) /\ EventExists(row, log)
    <3>1. nlog = log
      BY <2>4 DEF QueuedLog
    <3>2. PICK i \in 1 .. Len(log) : log[i].version = row.version
      BY <2>4, <2>d DEF EventExists
    <3>3. i = Len(log)
      <4>1. SUFFICES ASSUME i # Len(log) PROVE FALSE
        OBVIOUS
      <4>2. /\ Len(log) \in 1 .. Len(log)
            /\ i < Len(log)
        BY <2>2, <3>2, <4>1
      <4>3. /\ log[i].version < log[Len(log)].version
            /\ log[Len(log)].version \in 1 .. row.version
        BY <4>2 DEF RowOK
      <4> QED
        BY <2>2, <3>2, <4>3
    <3>4. log[i].report.total = row.report.total
      BY <3>2 DEF RowOK
    <3>5. LastWordOf(nrow, log)
      BY <2>1, <2>2, <3>3, <3>4 DEF LastWordOf, TotalAt
    <3> QED
      BY <2>1, <3>1, <3>5 DEF RowOK
  <2>5. CASE ~AlreadyCarried(row, log) /\ ~EventExists(row, log)
    <3> DEFINE d == NewDelivery(row)
    <3>1. /\ d \in Delivery
          /\ d.version = row.version
          /\ d.report = row.report
          /\ d.state = "queued"
          /\ d.attempts = 0
      BY DEF NewDelivery, Delivery, Row
    <3>2. nlog = Append(log, d)
      BY <1>2, <2>5 DEF QueuedLog
    <3> HIDE DEF d, nrow, nlog
    <3>3. /\ Len(nlog) = Len(log) + 1
          /\ nlog[Len(nlog)] = d
          /\ \A k \in 1 .. Len(log) : nlog[k] = log[k]
      BY <3>1, <3>2
    <3>4. \A k \in 1 .. Len(log) : log[k].version < row.version
      BY <2>2, <2>5, <2>d DEF EventExists, RowOK
    <3>5. row.version >= 1
      BY <1>2 DEF RowOK
    <3>6. LastWordOf(nrow, nlog)
      BY <2>1, <2>2, <3>1, <3>3 DEF LastWordOf, TotalAt
    <3>7. nrow.acked \in 0 .. Len(nlog) /\ nrow.notified.total = TotalAt(nlog, nrow.acked)
      BY <2>1, <2>2, <3>3 DEF RowOK, TotalAt
    <3>8. \A i, j \in 1 .. Len(nlog) : i < j => nlog[i].version < nlog[j].version
      <4> SUFFICES ASSUME NEW i \in 1 .. Len(nlog), NEW j \in 1 .. Len(nlog), i < j
                   PROVE  nlog[i].version < nlog[j].version
        OBVIOUS
      <4>1. i \in 1 .. Len(log) /\ nlog[i] = log[i]
        BY <2>2, <3>3
      <4>2. CASE j = Len(nlog)
        BY <3>1, <3>3, <3>4, <4>1, <4>2
      <4>3. CASE j # Len(nlog)
        <5>1. j \in 1 .. Len(log) /\ nlog[j] = log[j]
          BY <2>2, <3>3, <4>3
        <5> QED
          BY <4>1, <5>1 DEF RowOK
      <4> QED
        BY <4>2, <4>3
    <3>9. ASSUME NEW i \in 1 .. Len(nlog)
          PROVE  /\ nlog[i].version \in 1 .. nrow.version
                 /\ nlog[i].version = nrow.version => nlog[i].report.total = nrow.report.total
                 /\ i > nrow.acked => nlog[i].state # "succeeded"
                 /\ nlog[i].attempts <= MaxAttempts
                 /\ nlog[i].state \in OutstandingStates => nlog[i].attempts < MaxAttempts
      <4>1. CASE i = Len(nlog)
        BY <2>1, <2>2, <3>1, <3>3, <3>5, <4>1, OutboxAssumption
      <4>2. CASE i # Len(nlog)
        <5>1. i \in 1 .. Len(log) /\ nlog[i] = log[i]
          BY <2>2, <3>3, <4>2
        <5> QED
          BY <2>1, <5>1 DEF RowOK
      <4> QED
        BY <4>1, <4>2
    <3> QED
      BY <2>1, <3>6, <3>7, <3>8, <3>9 DEF RowOK, nrow, nlog
  <2> QED
    BY <2>3, <2>4, <2>5
<1> QED
  BY <1>1, <1>2

\* recompute_address_totals: a changed report opens a new version, which no
\* event carries yet; an unchanged one changes nothing.
LEMMA RecomputeKeepsRowOK ==
    ASSUME NEW row \in Row, NEW log \in Seq(Delivery), RowOK(row, log),
           NEW r \in Report
    PROVE  /\ RecomputedRow(row, r) \in Row
           /\ RowOK(RecomputedRow(row, r), log)
           /\ RecomputedRow(row, r).acked = row.acked
<1>1. CASE r = row.report
  BY <1>1 DEF RecomputedRow
<1>2. CASE r # row.report
  <2> DEFINE nrow == RecomputedRow(row, r)
  <2>1. /\ nrow \in Row
        /\ nrow.version = row.version + 1
        /\ nrow.dirty = "dirty"
        /\ nrow.notified = row.notified
        /\ nrow.acked = row.acked
        /\ row.version \in Nat
    <3>1. nrow = [row EXCEPT !.report = r, !.version = row.version + 1, !.dirty = "dirty"]
      BY <1>2 DEF RecomputedRow
    <3>2. row.version + 1 \in Nat
      BY DEF Row
    <3> HIDE DEF nrow
    <3> QED
      BY <3>1, <3>2 DEF Row
  <2> HIDE DEF nrow
  <2>2. ASSUME NEW i \in 1 .. Len(log)
        PROVE  log[i].version \in 1 .. nrow.version /\ log[i].version # nrow.version
    <3>1. log[i].version \in 1 .. row.version
      BY DEF RowOK
    <3> QED
      BY <2>1, <3>1
  <2> QED
    BY <2>1, <2>2 DEF RowOK, nrow
<1> QED
  BY <1>1, <1>2

\* The silent rebuild of received_by_confirmations keeps the total.
LEMMA RebuildKeepsRowOK ==
    ASSUME NEW row \in Row, NEW log \in Seq(Delivery), RowOK(row, log),
           NEW r \in Report, r.total = row.report.total
    PROVE  /\ [row EXCEPT !.report = r] \in Row
           /\ RowOK([row EXCEPT !.report = r], log)
           /\ [row EXCEPT !.report = r].acked = row.acked
<1> DEFINE nrow == [row EXCEPT !.report = r]
<1>1. /\ nrow \in Row
      /\ nrow.report.total = row.report.total
      /\ nrow.version = row.version
      /\ nrow.dirty = row.dirty
      /\ nrow.notified = row.notified
      /\ nrow.acked = row.acked
  BY DEF Row
<1> HIDE DEF nrow
<1> QED
  BY <1>1 DEF RowOK, LastWordOf, nrow

\* Claiming, retrying and giving up: a delivery that is still to be sent is
\* not after the last word, where every delivery has failed for good.
LEMMA SetKeepsRowOK ==
    ASSUME NEW row \in Row, NEW log \in Seq(Delivery), RowOK(row, log),
           NEW i \in 1 .. Len(log), log[i].state \in OutstandingStates,
           NEW state \in OutstandingStates \cup {"permanent_failure"},
           NEW n \in Nat, n <= MaxAttempts,
           state \in OutstandingStates => n < MaxAttempts
    PROVE  RowOK(row, SetDelivery(log, i, state, n))
<1> DEFINE new == SetDelivery(log, i, state, n)
<1>1. /\ Len(new) = Len(log)
      /\ \A k \in 1 .. Len(log) : /\ k # i => new[k] = log[k]
                                  /\ new[k].version = log[k].version
                                  /\ new[k].report = log[k].report
      /\ new[i].state = state
      /\ new[i].attempts = n
  BY SetDeliveryType
<1> HIDE DEF new
<1>2. Len(log) \in Nat /\ row.acked \in 0 .. Len(log)
  BY DEF RowOK
<1>3. ASSUME row.dirty # "dirty"
      PROVE  LastWordOf(row, new)
  <2>1. PICK w \in row.acked .. Len(log) :
            /\ TotalAt(log, w) = row.report.total
            /\ \A k \in (w + 1) .. Len(log) : log[k].state = "permanent_failure"
    BY <1>3 DEF RowOK, LastWordOf
  <2>2. ~(i \in (w + 1) .. Len(log))
    BY <2>1
  <2>3. \A k \in (w + 1) .. Len(new) : new[k].state = "permanent_failure"
    BY <1>1, <1>2, <2>1, <2>2
  <2>4. TotalAt(new, w) = row.report.total
    BY <1>1, <1>2, <2>1 DEF TotalAt
  <2> QED
    BY <1>1, <2>3, <2>4 DEF LastWordOf
<1>4. row.notified.total = TotalAt(new, row.acked)
  BY <1>1, <1>2 DEF RowOK, TotalAt
<1>5. \A j, k \in 1 .. Len(new) : j < k => new[j].version < new[k].version
  BY <1>1 DEF RowOK
<1>6. ASSUME NEW k \in 1 .. Len(new)
      PROVE  /\ new[k].version \in 1 .. row.version
             /\ new[k].version = row.version => new[k].report.total = row.report.total
             /\ k > row.acked => new[k].state # "succeeded"
             /\ new[k].attempts <= MaxAttempts
             /\ new[k].state \in OutstandingStates => new[k].attempts < MaxAttempts
  <2>1. CASE k = i
    BY <1>1, <2>1 DEF RowOK
  <2>2. CASE k # i
    BY <1>1, <2>2 DEF RowOK
  <2> QED
    BY <2>1, <2>2
<1> QED
  BY <1>1, <1>2, <1>3, <1>4, <1>5, <1>6 DEF RowOK, new

\* A success of an older delivery than the acknowledged one changes nothing
\* that matters; any other one moves the acknowledgment to it and leaves the
\* row dirty for the queue helper.
LEMMA SuccessKeepsRowOK ==
    ASSUME NEW row \in Row, NEW log \in Seq(Delivery), RowOK(row, log),
           NEW i \in 1 .. Len(log), NEW n \in Nat, n <= MaxAttempts
    PROVE  LET new == SetDelivery(log, i, "succeeded", n)
           IN  /\ row.acked > i => RowOK(row, new)
               /\ AckedRow(row, new, i) \in Row
               /\ AckedRow(row, new, i).acked = i
               /\ ~(row.acked > i) => RowOK(AckedRow(row, new, i), new)
<1> DEFINE new == SetDelivery(log, i, "succeeded", n)
           nrow == AckedRow(row, new, i)
<1>1. /\ new \in Seq(Delivery)
      /\ Len(new) = Len(log)
      /\ \A k \in 1 .. Len(log) : /\ k # i => new[k] = log[k]
                                  /\ new[k].version = log[k].version
                                  /\ new[k].report = log[k].report
      /\ new[i].state = "succeeded"
      /\ new[i].attempts = n
  BY SetDeliveryType, SMTT(40)
<1>2. Len(log) \in Nat /\ row.acked \in 0 .. Len(log) /\ row.version \in Nat
  BY DEF RowOK, Row
<1> HIDE DEF new
<1>3. new[i].report \in Report
  <2>1. new[i] \in Delivery
    BY <1>1
  <2> QED
    BY <2>1 DEF Delivery
<1>4. /\ nrow \in Row
      /\ nrow.report = row.report
      /\ nrow.version = row.version
      /\ nrow.dirty = "dirty"
      /\ nrow.notified = new[i].report
      /\ nrow.acked = i
  <2>1. nrow = [row EXCEPT !.notified = new[i].report, !.acked = i, !.dirty = "dirty"]
    BY DEF AckedRow
  <2>2. i \in Nat
    BY <1>2
  <2> HIDE DEF nrow
  <2> QED
    BY <1>3, <2>1, <2>2 DEF Row
<1> HIDE DEF nrow
<1>5. \A j, k \in 1 .. Len(new) : j < k => new[j].version < new[k].version
  BY <1>1 DEF RowOK
<1>6. ASSUME NEW k \in 1 .. Len(new)
      PROVE  /\ new[k].version \in 1 .. row.version
             /\ new[k].version = row.version => new[k].report.total = row.report.total
             /\ k > row.acked /\ k # i => new[k].state # "succeeded"
             /\ new[k].attempts <= MaxAttempts
             /\ new[k].state \in OutstandingStates => new[k].attempts < MaxAttempts
  <2>1. CASE k = i
    BY <1>1, <2>1 DEF RowOK
  <2>2. CASE k # i
    BY <1>1, <2>2 DEF RowOK
  <2> QED
    BY <2>1, <2>2
<1>7. ASSUME row.acked > i
      PROVE  RowOK(row, new)
  <2>1. ASSUME row.dirty # "dirty"
        PROVE  LastWordOf(row, new)
    <3>1. PICK w \in row.acked .. Len(log) :
              /\ TotalAt(log, w) = row.report.total
              /\ \A k \in (w + 1) .. Len(log) : log[k].state = "permanent_failure"
      BY <2>1 DEF RowOK, LastWordOf
    <3>2. ASSUME NEW k \in (w + 1) .. Len(new)
          PROVE  new[k].state = "permanent_failure"
      <4>1. k \in 1 .. Len(log) /\ k \in (w + 1) .. Len(log) /\ k # i
        BY <1>1, <1>2, <1>7
      <4>2. new[k] = log[k]
        BY <1>1, <4>1
      <4> QED
        BY <3>1, <4>1, <4>2
    <3>3. TotalAt(new, w) = row.report.total
      BY <1>1, <1>2, <3>1 DEF TotalAt
    <3> QED
      BY <1>1, <3>2, <3>3 DEF LastWordOf
  <2>2. row.notified.total = TotalAt(new, row.acked)
    BY <1>1, <1>2 DEF RowOK, TotalAt
  <2>3. \A k \in 1 .. Len(new) : k > row.acked => new[k].state # "succeeded"
    BY <1>1, <1>2, <1>6, <1>7
  <2> QED
    BY <1>1, <1>2, <1>5, <1>6, <2>1, <2>2, <2>3 DEF RowOK
<1>8. ASSUME ~(row.acked > i)
      PROVE  RowOK(nrow, new)
  <2>1. nrow.acked \in 0 .. Len(new) /\ nrow.notified.total = TotalAt(new, nrow.acked)
    BY <1>1, <1>2, <1>4 DEF TotalAt
  <2>2. \A k \in 1 .. Len(new) : k > nrow.acked => new[k].state # "succeeded"
    BY <1>1, <1>2, <1>4, <1>6, <1>8
  <2>3. nrow.version >= 1
    BY <1>1, <1>2, <1>4, <1>6
  <2> QED
    BY <1>4, <1>5, <1>6, <2>1, <2>2, <2>3 DEF RowOK
<1> QED
  BY <1>4, <1>7, <1>8 DEF new, nrow

\* Startup recovery.
LEMMA RecoverKeepsRowOK ==
    ASSUME NEW row \in Row, NEW log \in Seq(Delivery), RowOK(row, log)
    PROVE  RowOK(row, RecoveredLog(log))
<1> DEFINE new == RecoveredLog(log)
<1>1. /\ Len(new) = Len(log)
      /\ \A k \in 1 .. Len(log) :
            /\ new[k].version = log[k].version
            /\ new[k].report = log[k].report
            /\ new[k].attempts = log[k].attempts
            /\ new[k].state = IF log[k].state = "sending" THEN "retry_wait" ELSE log[k].state
  BY RecoveredType
<1> HIDE DEF new
<1>2. Len(log) \in Nat /\ row.acked \in 0 .. Len(log)
  BY DEF RowOK
<1>3. \A w \in 0 .. Len(log) : TotalAt(new, w) = TotalAt(log, w)
  BY <1>1 DEF TotalAt
<1>4. LastWordOf(row, log) => LastWordOf(row, new)
  <2>1. SUFFICES ASSUME NEW w \in row.acked .. Len(log),
                        TotalAt(log, w) = row.report.total,
                        \A k \in (w + 1) .. Len(log) : log[k].state = "permanent_failure"
                 PROVE  LastWordOf(row, new)
    BY DEF LastWordOf
  <2>2. \A k \in (w + 1) .. Len(new) : new[k].state = "permanent_failure"
    BY <1>1, <1>2, <2>1
  <2>3. TotalAt(new, w) = row.report.total
    BY <1>2, <1>3, <2>1
  <2> QED
    BY <1>1, <2>2, <2>3 DEF LastWordOf
<1>5. ASSUME NEW k \in 1 .. Len(new)
      PROVE  /\ new[k].version \in 1 .. row.version
             /\ new[k].version = row.version => new[k].report.total = row.report.total
             /\ k > row.acked => new[k].state # "succeeded"
             /\ new[k].attempts <= MaxAttempts
             /\ new[k].state \in OutstandingStates => new[k].attempts < MaxAttempts
  BY <1>1 DEF RowOK
<1>6. \A j, k \in 1 .. Len(new) : j < k => new[j].version < new[k].version
  BY <1>1 DEF RowOK
<1> QED
  BY <1>1, <1>2, <1>3, <1>4, <1>5, <1>6 DEF RowOK, new

-----------------------------------------------------------------------------
(* Steps.                                                                  *)

\* new continues log: the events of log are in new, at the same positions.
Continues(log, new) ==
    /\ Len(log) <= Len(new)
    /\ \A k \in 1 .. Len(log) :
        new[k].version = log[k].version /\ new[k].report = log[k].report

\* What the receiver holds stays consistent while logs only grow and the
\* acknowledgment stays where it is.
LEMMA ReceiverFrame ==
    ASSUME TypeOK, OutboxInv, NEW a \in Addresses,
           deliveries'[a] \in Seq(Delivery),
           Continues(deliveries[a], deliveries'[a]),
           totals'[a].acked = totals[a].acked,
           received'[a] = received[a]
    PROVE  ReceiverOK(a)'
<1>1. /\ Len(deliveries[a]) \in Nat
      /\ Len(deliveries'[a]) \in Nat
      /\ totals[a].acked \in 0 .. Len(deliveries[a])
  BY DEF TypeOK, OutboxInv, RowOK
<1>2. ReceiverOK(a)
  BY DEF OutboxInv
<1> QED
  BY <1>1, <1>2, SMTT(40) DEF ReceiverOK, Continues

\* A queue transaction for any set of addresses, by the sync loop or at
\* startup.
LEMMA QueueTxStep ==
    ASSUME TypeOK, OutboxInv, NEW S, QueueTx(S),
           UNCHANGED << job, answered, wire, received >>,
           ~Idle => phase' = "up"
    PROVE  /\ totals' \in [Addresses -> Row]
           /\ deliveries' \in [Addresses -> Seq(Delivery)]
           /\ OutboxInv'
<1>1. ASSUME NEW a \in Addresses
      PROVE  /\ totals'[a] \in Row
             /\ deliveries'[a] \in Seq(Delivery)
             /\ Len(deliveries[a]) <= Len(deliveries'[a])
             /\ \A k \in 1 .. Len(deliveries[a]) : deliveries'[a][k] = deliveries[a][k]
             /\ totals'[a].acked = totals[a].acked
             /\ RowOK(totals[a], deliveries[a])'
  <2>1. /\ totals[a] \in Row
        /\ deliveries[a] \in Seq(Delivery)
        /\ RowOK(totals[a], deliveries[a])
    BY DEF TypeOK, OutboxInv
  <2>2. CASE a \in S
    <3>1. /\ totals'[a] = QueuedRow(totals[a], deliveries[a])
          /\ deliveries'[a] = QueuedLog(totals[a], deliveries[a])
      BY <2>2 DEF QueueTx
    <3> QED
      BY <2>1, <3>1, QueueType, QueueKeepsRowOK, ZenonT(60)
  <2>3. CASE a \notin S
    <3>1. totals'[a] = totals[a] /\ deliveries'[a] = deliveries[a]
      BY <2>3 DEF QueueTx
    <3> QED
      BY <2>1, <3>1
  <2> QED
    BY <2>2, <2>3
<1>2. /\ totals' \in [Addresses -> Row]
      /\ deliveries' \in [Addresses -> Seq(Delivery)]
  BY <1>1 DEF QueueTx
<1>3. \A a \in Addresses : ReceiverOK(a)'
  BY <1>1, ReceiverFrame DEF Continues
<1>4. JobOK'
  <2>1. CASE Idle
    BY <2>1 DEF OutboxInv, JobOK, Idle
  <2>2. CASE ~Idle
    <3>1. job.addr \in Addresses /\ job.index \in 1 .. Len(deliveries[job.addr])
      BY <2>2 DEF OutboxInv, JobOK, TypeOK, Idle, Message
    <3>2. /\ deliveries'[job.addr][job.index] = deliveries[job.addr][job.index]
          /\ job.index \in 1 .. Len(deliveries'[job.addr])
      BY <1>1, <3>1, SMTT(40)
    <3> QED
      BY <2>2, <3>1, <3>2 DEF OutboxInv, JobOK, Idle
  <2> QED
    BY <2>1, <2>2
<1>5. ASSUME NEW m \in wire
      PROVE  m.index \in 1 .. Len(deliveries'[m.addr])
  <2>1. m.addr \in Addresses /\ m.index \in 1 .. Len(deliveries[m.addr])
    BY DEF TypeOK, OutboxInv, Message
  <2> QED
    BY <1>1, <2>1
<1> QED
  BY <1>1, <1>2, <1>3, <1>4, <1>5 DEF OutboxInv

\* The worker's claim, as the other steps use it.
LEMMA JobFacts ==
    ASSUME TypeOK, OutboxInv, ~Idle
    PROVE  /\ job.addr \in Addresses
           /\ job.index \in 1 .. Len(deliveries[job.addr])
           /\ job.attempt \in Nat
           /\ deliveries[job.addr] \in Seq(Delivery)
           /\ totals[job.addr] \in Row
           /\ RowOK(totals[job.addr], deliveries[job.addr])
           /\ deliveries[job.addr][job.index].state = "sending"
           /\ deliveries[job.addr][job.index].attempts = job.attempt
           /\ job.attempt < MaxAttempts
<1>1. job \in Message
  BY DEF TypeOK, Idle
<1>2. /\ job.addr \in Addresses
      /\ job.attempt \in Nat
      /\ job.index \in 1 .. Len(deliveries[job.addr])
      /\ deliveries[job.addr][job.index].state = "sending"
      /\ deliveries[job.addr][job.index].attempts = job.attempt
  BY <1>1 DEF OutboxInv, JobOK, Message
<1>3. /\ deliveries[job.addr] \in Seq(Delivery)
      /\ totals[job.addr] \in Row
      /\ RowOK(totals[job.addr], deliveries[job.addr])
  BY <1>2 DEF TypeOK, OutboxInv
<1> QED
  BY <1>2, <1>3 DEF RowOK

\* Every step that ends an attempt: the row invariants it establishes, logs
\* that only continue, and an acknowledgment that stays or moves to an event
\* the receiver has are enough.
LEMMA EndAttemptStep ==
    ASSUME TypeOK, OutboxInv, EndAttempt,
           totals' \in [Addresses -> Row],
           deliveries' \in [Addresses -> Seq(Delivery)],
           \A a \in Addresses :
              /\ RowOK(totals'[a], deliveries'[a])
              /\ Continues(deliveries[a], deliveries'[a])
              /\ \/ totals'[a].acked = totals[a].acked
                 \/ /\ totals'[a].acked \in 1 .. Len(deliveries[a])
                    /\ received[a].version >= deliveries[a][totals'[a].acked].version
    PROVE  TypeOK' /\ OutboxInv'
<1>1. /\ phase' = phase
      /\ required' = required
      /\ affected' = affected
      /\ received' = received
      /\ job' = NoJob
      /\ answered' = FALSE
      /\ wire' \subseteq wire
  BY DEF EndAttempt
<1>2. TypeOK'
  BY <1>1 DEF TypeOK
<1>3. ASSUME NEW a \in Addresses
      PROVE  ReceiverOK(a)'
  <2>1. CASE totals'[a].acked = totals[a].acked
    BY <1>1, <2>1, ReceiverFrame
  <2>2. CASE /\ totals'[a].acked \in 1 .. Len(deliveries[a])
             /\ received[a].version >= deliveries[a][totals'[a].acked].version
    <3>1. /\ Len(deliveries[a]) \in Nat
          /\ Len(deliveries'[a]) \in Nat
      BY DEF TypeOK
    <3>2. ReceiverOK(a) /\ Continues(deliveries[a], deliveries'[a])
      BY DEF OutboxInv
    <3>3. received'[a].version >= deliveries'[a][totals'[a].acked].version
      BY <1>1, <2>2, <3>1, <3>2 DEF Continues
    <3>4. \/ received'[a].version = 0 /\ received'[a].report.total = 0
          \/ \E k \in 1 .. Len(deliveries'[a]) :
                /\ received'[a].version = deliveries'[a][k].version
                /\ received'[a].report.total = deliveries'[a][k].report.total
      BY <1>1, <3>1, <3>2 DEF ReceiverOK, Continues
    <3> QED
      BY <3>3, <3>4 DEF ReceiverOK
  <2> QED
    BY <2>1, <2>2
<1>4. JobOK'
  BY <1>1 DEF JobOK, Idle
<1>5. ASSUME NEW m \in wire'
      PROVE  m.index \in 1 .. Len(deliveries'[m.addr])
  <2>1. m.addr \in Addresses /\ m.index \in 1 .. Len(deliveries[m.addr])
    BY <1>1 DEF TypeOK, OutboxInv, Message
  <2>2. Len(deliveries[m.addr]) \in Nat /\ Len(deliveries'[m.addr]) \in Nat
    BY <2>1 DEF TypeOK
  <2> QED
    BY <2>1, <2>2 DEF Continues
<1> QED
  BY <1>2, <1>3, <1>4, <1>5 DEF OutboxInv

\* A retry or a permanent failure is recorded for the claimed delivery.
LEMMA SetJobStep ==
    ASSUME TypeOK, OutboxInv, ~Idle, EndAttempt, UNCHANGED totals,
           NEW state \in {"retry_wait", "permanent_failure"},
           state = "retry_wait" => job.attempt + 1 < MaxAttempts,
           SetJob(state)
    PROVE  TypeOK' /\ OutboxInv'
<1> DEFINE a == job.addr
           i == job.index
           new == SetDelivery(deliveries[a], i, state, job.attempt + 1)
<1>1. /\ a \in Addresses
      /\ i \in 1 .. Len(deliveries[a])
      /\ job.attempt \in Nat
      /\ deliveries[a] \in Seq(Delivery)
      /\ totals[a] \in Row
      /\ RowOK(totals[a], deliveries[a])
      /\ deliveries[a][i].state = "sending"
      /\ deliveries[a][i].attempts = job.attempt
      /\ job.attempt < MaxAttempts
  BY JobFacts
<1>2. job.attempt + 1 \in Nat /\ job.attempt + 1 <= MaxAttempts
  BY <1>1, OutboxAssumption
<1>3. deliveries' = [deliveries EXCEPT ![a] = new]
  BY <1>1 DEF SetJob
<1>4. /\ new \in Seq(Delivery)
      /\ Continues(deliveries[a], new)
  <2>1. state \in OutstandingStates \cup {"succeeded", "permanent_failure"}
    OBVIOUS
  <2>2. /\ new \in Seq(Delivery)
        /\ Len(new) = Len(deliveries[a])
        /\ \A k \in 1 .. Len(deliveries[a]) :
              /\ new[k].version = deliveries[a][k].version
              /\ new[k].report = deliveries[a][k].report
    <3> DEFINE n == job.attempt + 1
               l == deliveries[a]
    <3>1. l \in Seq(Delivery) /\ i \in 1 .. Len(l) /\ n \in Nat
      BY <1>1, <1>2
    <3>2. new = SetDelivery(l, i, state, n)
      OBVIOUS
    <3> HIDE DEF n, l, i, new
    <3>3. /\ new \in Seq(Delivery)
          /\ Len(new) = Len(l)
          /\ \A k \in 1 .. Len(l) :
                new[k].version = l[k].version /\ new[k].report = l[k].report
      BY <2>1, <3>1, <3>2, SetDeliveryType
    <3> QED
      BY <3>3 DEF l
  <2>3. Len(deliveries[a]) \in Nat
    BY <1>1
  <2> QED
    BY <2>2, <2>3 DEF Continues
<1>5. RowOK(totals[a], new)
  BY <1>1, <1>2, SetKeepsRowOK
<1> HIDE DEF new
<1>6. totals' \in [Addresses -> Row] /\ deliveries' \in [Addresses -> Seq(Delivery)]
  BY <1>3, <1>4 DEF TypeOK
<1>7. ASSUME NEW b \in Addresses
      PROVE  /\ RowOK(totals'[b], deliveries'[b])
             /\ Continues(deliveries[b], deliveries'[b])
             /\ totals'[b].acked = totals[b].acked
  <2>1. CASE b = a
    BY <1>1, <1>3, <1>4, <1>5, <2>1 DEF TypeOK
  <2>2. CASE b # a
    BY <1>3, <2>2 DEF TypeOK, OutboxInv, Continues
  <2> QED
    BY <2>1, <2>2
<1> QED
  BY <1>6, <1>7, EndAttemptStep

\* A success is recorded: the acknowledged event is one the receiver applied,
\* and the queue helper runs on the acknowledged row.
LEMMA SuccessStep ==
    ASSUME TypeOK, OutboxInv, RecordWebhookDeliverySuccess
    PROVE  /\ TypeOK' /\ OutboxInv'
           /\ \A b \in Addresses : totals'[b].acked >= totals[b].acked
<1> DEFINE a == job.addr
           i == job.index
           log == SetDelivery(deliveries[a], i, "succeeded", deliveries[a][i].attempts + 1)
           row == AckedRow(totals[a], log, i)
<1>1. /\ ~Idle
      /\ answered
      /\ EndAttempt
  BY DEF RecordWebhookDeliverySuccess
<1>2. /\ a \in Addresses
      /\ i \in 1 .. Len(deliveries[a])
      /\ deliveries[a] \in Seq(Delivery)
      /\ totals[a] \in Row
      /\ RowOK(totals[a], deliveries[a])
      /\ deliveries[a][i].attempts + 1 \in Nat
      /\ deliveries[a][i].attempts + 1 <= MaxAttempts
  BY <1>1, JobFacts, OutboxAssumption, SMTT(40)
<1>3. received[a].version >= deliveries[a][i].version
  BY <1>1 DEF OutboxInv, JobOK
<1>4. log \in Seq(Delivery) /\ Continues(deliveries[a], log)
  BY <1>2, SetDeliveryType, SMTT(40) DEF Continues
<1>5. /\ totals[a].acked > i => RowOK(totals[a], log)
      /\ row \in Row
      /\ row.acked = i
      /\ ~(totals[a].acked > i) => RowOK(row, log)
  BY <1>2, SuccessKeepsRowOK
<1> DEFINE trow == IF totals[a].acked > i THEN totals[a] ELSE QueuedRow(row, log)
           tlog == IF totals[a].acked > i THEN log ELSE QueuedLog(row, log)
<1>6. /\ totals' = [totals EXCEPT ![a] = trow]
      /\ deliveries' = [deliveries EXCEPT ![a] = tlog]
  BY <1>2 DEF RecordWebhookDeliverySuccess, NewerIsAcked, TypeOK
<1> HIDE DEF log, row
<1>7. /\ trow \in Row
      /\ tlog \in Seq(Delivery)
      /\ RowOK(trow, tlog)
      /\ Continues(deliveries[a], tlog)
      /\ \/ trow.acked = totals[a].acked
         \/ trow.acked = i
      /\ trow.acked >= totals[a].acked
  <2>0. totals[a].acked \in Nat /\ i \in Nat
    BY <1>2 DEF Row
  <2>1. CASE totals[a].acked > i
    BY <1>2, <1>4, <1>5, <2>0, <2>1
  <2>2. CASE ~(totals[a].acked > i)
    <3>1. /\ QueuedRow(row, log) \in Row
          /\ QueuedLog(row, log) \in Seq(Delivery)
          /\ Len(QueuedLog(row, log)) >= Len(log)
          /\ \A k \in 1 .. Len(log) : QueuedLog(row, log)[k] = log[k]
      BY <1>4, <1>5, QueueType
    <3>2. /\ RowOK(QueuedRow(row, log), QueuedLog(row, log))
          /\ QueuedRow(row, log).acked = i
      BY <1>4, <1>5, <2>2, QueueKeepsRowOK
    <3>3. Continues(deliveries[a], QueuedLog(row, log))
      <4>1. /\ Len(log) \in Nat
            /\ Len(deliveries[a]) \in Nat
            /\ Len(QueuedLog(row, log)) \in Nat
        BY <1>2, <1>4, <3>1
      <4> QED
        BY <1>4, <3>1, <4>1 DEF Continues
    <3> QED
      BY <2>0, <2>2, <3>1, <3>2, <3>3
  <2> QED
    BY <2>1, <2>2
<1> HIDE DEF trow, tlog
<1>8. totals' \in [Addresses -> Row] /\ deliveries' \in [Addresses -> Seq(Delivery)]
  BY <1>6, <1>7 DEF TypeOK
<1>9. ASSUME NEW b \in Addresses
      PROVE  /\ RowOK(totals'[b], deliveries'[b])
             /\ Continues(deliveries[b], deliveries'[b])
             /\ \/ totals'[b].acked = totals[b].acked
                \/ /\ totals'[b].acked \in 1 .. Len(deliveries[b])
                   /\ received[b].version >= deliveries[b][totals'[b].acked].version
             /\ totals'[b].acked >= totals[b].acked
  <2>1. CASE b = a
    <3>1. totals'[a] = trow /\ deliveries'[a] = tlog
      BY <1>2, <1>6 DEF TypeOK
    <3> QED
      BY <1>2, <1>3, <1>7, <2>1, <3>1
  <2>2. CASE b # a
    <3>1. totals'[b] = totals[b] /\ deliveries'[b] = deliveries[b]
      BY <1>6, <2>2 DEF TypeOK
    <3>2. /\ RowOK(totals[b], deliveries[b])
          /\ totals[b].acked \in Nat
          /\ Len(deliveries[b]) \in Nat
      BY DEF OutboxInv, TypeOK, Row
    <3> QED
      BY <3>1, <3>2 DEF Continues
  <2> QED
    BY <2>1, <2>2
<1>10. TypeOK' /\ OutboxInv'
  BY <1>1, <1>8, <1>9, EndAttemptStep
<1> QED
  BY <1>9, <1>10

\* A claim: the row goes to 'sending' and becomes the worker's job.
LEMMA ClaimStep ==
    ASSUME TypeOK, OutboxInv, NEW a \in Addresses, NEW i \in DOMAIN deliveries[a],
           ClaimReadyWebhookDelivery(a, i)
    PROVE  TypeOK' /\ OutboxInv'
<1> DEFINE l == deliveries[a]
           n == deliveries[a][i].attempts
           new == SetDelivery(deliveries[a], i, "sending", n)
<1>1. /\ l \in Seq(Delivery)
      /\ i \in 1 .. Len(l)
      /\ totals[a] \in Row
      /\ RowOK(totals[a], l)
  BY DEF TypeOK, OutboxInv
<1>2. l[i] \in Delivery
  BY <1>1
<1>3. /\ l[i].state \in OutstandingStates
      /\ n \in Nat
      /\ n < MaxAttempts
  <2>1. l[i].state \in OutstandingStates
    BY DEF ClaimReadyWebhookDelivery
  <2>2. n \in Nat
    BY <1>2 DEF Delivery
  <2> QED
    BY <1>1, <2>1, <2>2 DEF RowOK
<1>4. /\ deliveries' = [deliveries EXCEPT ![a] = new]
      /\ job' = [addr |-> a, index |-> i, attempt |-> n]
      /\ wire' = wire \cup {job'}
      /\ answered' = FALSE
      /\ phase = "up"
      /\ UNCHANGED << phase, required, totals, affected, received >>
  BY DEF ClaimReadyWebhookDelivery
<1> HIDE DEF l, n
<1>5. /\ new \in Seq(Delivery)
      /\ Len(new) = Len(l)
      /\ \A k \in 1 .. Len(l) :
            new[k].version = l[k].version /\ new[k].report = l[k].report
      /\ new[i].state = "sending"
      /\ new[i].attempts = n
  BY <1>1, <1>3, SetDeliveryType DEF l
<1>6. RowOK(totals[a], new)
  <2>1. n <= MaxAttempts
    BY <1>3, OutboxAssumption
  <2> QED
    BY <1>1, <1>3, <2>1, SetKeepsRowOK DEF l
<1> HIDE DEF new
<1>7. job' \in Message /\ job'.addr = a /\ job'.index = i /\ job'.attempt = n
  BY <1>1, <1>3, <1>4 DEF Message
<1>8. TypeOK'
  BY <1>4, <1>5, <1>7 DEF TypeOK
<1>9. ASSUME NEW b \in Addresses
      PROVE  /\ RowOK(totals'[b], deliveries'[b])
             /\ Continues(deliveries[b], deliveries'[b])
  <2>1. CASE b = a
    <3>1. totals'[a] = totals[a] /\ deliveries'[a] = new
      BY <1>4 DEF TypeOK
    <3>2. Len(l) \in Nat
      BY <1>1
    <3> QED
      BY <1>5, <1>6, <2>1, <3>1, <3>2 DEF Continues, l
  <2>2. CASE b # a
    <3>1. totals'[b] = totals[b] /\ deliveries'[b] = deliveries[b]
      BY <1>4, <2>2 DEF TypeOK
    <3>2. RowOK(totals[b], deliveries[b]) /\ Len(deliveries[b]) \in Nat
      BY DEF OutboxInv, TypeOK
    <3> QED
      BY <3>1, <3>2 DEF Continues
  <2> QED
    BY <2>1, <2>2
<1>10. \A b \in Addresses : ReceiverOK(b)'
  <2> SUFFICES ASSUME NEW b \in Addresses PROVE ReceiverOK(b)'
    OBVIOUS
  <2>1. deliveries'[b] \in Seq(Delivery)
    BY <1>8 DEF TypeOK
  <2>2. totals'[b].acked = totals[b].acked /\ received'[b] = received[b]
    BY <1>4
  <2> QED
    BY <1>9, <2>1, <2>2, ReceiverFrame
<1>11. JobOK'
  <2>1. deliveries'[a] = new
    BY <1>4 DEF TypeOK
  <2> QED
    BY <1>1, <1>4, <1>5, <1>7, <2>1 DEF JobOK
<1>12. ASSUME NEW m \in wire'
       PROVE  m.index \in 1 .. Len(deliveries'[m.addr])
  <2>1. m.addr \in Addresses /\ m.index \in 1 .. Len(deliveries[m.addr])
    BY <1>1, <1>4, <1>7 DEF TypeOK, OutboxInv, Message, l
  <2>2. Len(deliveries[m.addr]) \in Nat /\ Len(deliveries'[m.addr]) \in Nat
    BY <1>8, <2>1 DEF TypeOK
  <2>3. Continues(deliveries[m.addr], deliveries'[m.addr])
    BY <1>9, <2>1
  <2> QED
    BY <2>1, <2>2, <2>3 DEF Continues
<1> QED
  BY <1>8, <1>9, <1>10, <1>11, <1>12 DEF OutboxInv

\* The receiver applies a request, in time or late.
LEMMA ReceiverStep ==
    ASSUME TypeOK, OutboxInv, NEW m \in wire, ReceiverApplies(m)
    PROVE  TypeOK' /\ OutboxInv'
<1> DEFINE a == m.addr
           event == deliveries[a][m.index]
<1>1. /\ m \in Message
      /\ a \in Addresses
      /\ m.index \in 1 .. Len(deliveries[a])
      /\ deliveries[a] \in Seq(Delivery)
  BY DEF TypeOK, OutboxInv, Message
<1>2. event \in Delivery
  BY <1>1
<1>3. /\ event.version \in Nat
      /\ event.report \in Report
  BY <1>2 DEF Delivery
<1>4. /\ wire' = wire \ {m}
      /\ answered' = (answered \/ (phase = "up" /\ m = job))
      /\ UNCHANGED << phase, required, totals, deliveries, affected, job >>
  BY DEF ReceiverApplies
<1>5. \A b \in Addresses : received[b] \in [version : Nat, report : Report]
  BY DEF TypeOK
<1>6. /\ received' \in [Addresses -> [version : Nat, report : Report]]
      /\ \A b \in Addresses : b # a => received'[b] = received[b]
      /\ received'[a] = IF event.version > received[a].version
                        THEN [version |-> event.version, report |-> event.report]
                        ELSE received[a]
  <2>1. received' = [received EXCEPT ![a] =
                        IF event.version > received[a].version
                        THEN [version |-> event.version, report |-> event.report]
                        ELSE received[a]]
    BY DEF ReceiverApplies, TypeOK
  <2> HIDE DEF a, event
  <2>2. received \in [Addresses -> [version : Nat, report : Report]]
    BY DEF TypeOK
  <2> QED
    BY <1>1, <1>3, <1>5, <2>1, <2>2
<1>7. /\ received'[a].version >= received[a].version
      /\ received'[a].version >= event.version
      /\ received[a].version \in Nat
      /\ \/ received'[a] = received[a]
         \/ received'[a].version = event.version /\ received'[a].report = event.report
  <2>1. received[a].version \in Nat
    BY <1>1, <1>5
  <2>2. CASE event.version > received[a].version
    BY <1>3, <1>6, <2>1, <2>2
  <2>3. CASE ~(event.version > received[a].version)
    BY <1>3, <1>6, <2>1, <2>3
  <2> QED
    BY <2>1, <2>2, <2>3
<1>8. TypeOK'
  BY <1>4, <1>6 DEF TypeOK
<1>9. ASSUME NEW b \in Addresses
      PROVE  ReceiverOK(b)'
  <2>1. ReceiverOK(b)
    BY DEF OutboxInv
  <2>2. CASE b # a
    BY <1>4, <1>6, <2>1, <2>2 DEF ReceiverOK
  <2>3. CASE b = a
    <3>1. totals[a].acked > 0 =>
              /\ deliveries[a][totals[a].acked].version \in Nat
              /\ received[a].version >= deliveries[a][totals[a].acked].version
      <4>1. SUFFICES ASSUME totals[a].acked > 0
                     PROVE  /\ deliveries[a][totals[a].acked].version \in Nat
                            /\ received[a].version >= deliveries[a][totals[a].acked].version
        OBVIOUS
      <4>2. totals[a].acked \in 1 .. Len(deliveries[a])
        BY <1>1, <4>1 DEF OutboxInv, RowOK
      <4>3. deliveries[a][totals[a].acked] \in Delivery
        BY <1>1, <4>2
      <4> QED
        BY <2>1, <2>3, <4>1, <4>3 DEF ReceiverOK, Delivery
    <3>2. totals[a].acked > 0 =>
              received'[a].version >= deliveries[a][totals[a].acked].version
      BY <1>3, <1>7, <3>1, <1>6
    <3>3. \/ received'[a].version = 0 /\ received'[a].report.total = 0
          \/ \E k \in 1 .. Len(deliveries[a]) :
                /\ received'[a].version = deliveries[a][k].version
                /\ received'[a].report.total = deliveries[a][k].report.total
      <4>1. CASE received'[a] = received[a]
        BY <2>1, <2>3, <4>1 DEF ReceiverOK
      <4>2. CASE received'[a].version = event.version /\ received'[a].report = event.report
        BY <1>1, <4>2
      <4> QED
        BY <1>7, <4>1, <4>2
    <3> QED
      BY <1>4, <2>3, <3>2, <3>3 DEF ReceiverOK
  <2> QED
    BY <2>2, <2>3
<1>10. JobOK'
  <2>1. CASE Idle
    <3>1. m # job
      BY <1>1, <2>1, OutboxAssumption DEF Idle, NoJob
    <3> QED
      BY <1>4, <2>1, <3>1 DEF JobOK, OutboxInv, Idle
  <2>2. CASE ~Idle
    <3>1. /\ job.addr \in Addresses
          /\ job.index \in 1 .. Len(deliveries[job.addr])
          /\ deliveries[job.addr] \in Seq(Delivery)
      BY <2>2, JobFacts
    <3>2. deliveries[job.addr][job.index] \in Delivery
      BY <3>1
    <3>3. /\ deliveries[job.addr][job.index].version \in Nat
          /\ received[job.addr].version \in Nat
          /\ received'[job.addr].version \in Nat
      BY <1>5, <1>6, <3>1, <3>2 DEF Delivery
    <3>4. received'[job.addr].version >= received[job.addr].version
      BY <1>6, <1>7, <3>1, <3>3
    <3>5. ASSUME answered'
          PROVE  received'[job.addr].version >= deliveries[job.addr][job.index].version
      <4>1. CASE answered
        BY <2>2, <3>3, <3>4, <4>1 DEF OutboxInv, JobOK
      <4>2. CASE m = job
        BY <1>7, <4>2
      <4> QED
        BY <1>4, <3>5, <4>1, <4>2
    <3> QED
      BY <1>4, <2>2, <3>5 DEF JobOK, OutboxInv, Idle
  <2> QED
    BY <2>1, <2>2
<1> QED
  BY <1>4, <1>8, <1>9, <1>10 DEF OutboxInv

\* Steps that change reports in the rows and no log: a recompute of some
\* addresses, and the silent rebuild at startup.
LEMMA RowsStep ==
    ASSUME TypeOK, OutboxInv,
           totals' \in [Addresses -> Row],
           \A a \in Addresses : /\ RowOK(totals'[a], deliveries[a])
                                /\ totals'[a].acked = totals[a].acked,
           UNCHANGED << deliveries, job, answered, wire, received >>,
           ~Idle => phase' = phase
    PROVE  OutboxInv'
<1>1. ASSUME NEW a \in Addresses
      PROVE  RowOK(totals[a], deliveries[a])' /\ ReceiverOK(a)'
  BY DEF OutboxInv, ReceiverOK
<1>2. JobOK'
  BY DEF OutboxInv, JobOK, Idle
<1> QED
  BY <1>1, <1>2 DEF OutboxInv

\* recompute_address_totals of a set of addresses preserves the invariant and
\* touches no acknowledgment.
LEMMA RecomputeStep ==
    ASSUME TypeOK, OutboxInv, NEW S \in SUBSET Addresses, RecomputeAddressTotals(S)
    PROVE  TypeOK' /\ OutboxInv' /\ \A a \in Addresses : totals'[a].acked = totals[a].acked
<1>1. PICK new \in [S -> ReportsUnder(required)] :
          totals' = [a \in Addresses |->
                        IF a \in S THEN RecomputedRow(totals[a], new[a]) ELSE totals[a]]
  BY DEF RecomputeAddressTotals
<1>2. \A a \in S : new[a] \in Report
  BY ReportType DEF TypeOK
<1>3. ASSUME NEW a \in Addresses
      PROVE  /\ totals'[a] \in Row
             /\ RowOK(totals'[a], deliveries[a])
             /\ totals'[a].acked = totals[a].acked
  <2>1. totals[a] \in Row /\ deliveries[a] \in Seq(Delivery) /\ RowOK(totals[a], deliveries[a])
    BY DEF TypeOK, OutboxInv
  <2>2. CASE a \in S
    <3>1. totals'[a] = RecomputedRow(totals[a], new[a])
      BY <1>1, <2>2
    <3> QED
      BY <1>2, <2>1, <2>2, <3>1, RecomputeKeepsRowOK
  <2>3. CASE a \notin S
    <3>1. totals'[a] = totals[a]
      BY <1>1, <2>3
    <3> QED
      BY <2>1, <3>1
  <2> QED
    BY <2>2, <2>3
<1>4. totals' \in [Addresses -> Row]
  BY <1>1, <1>3
<1>5. /\ affected' \in SUBSET Addresses
      /\ UNCHANGED << phase, required, deliveries, job, answered, wire, received >>
  BY DEF RecomputeAddressTotals, TypeOK
<1>6. OutboxInv'
  BY <1>3, <1>4, <1>5, RowsStep
<1> QED
  BY <1>3, <1>4, <1>5, <1>6 DEF TypeOK

\* The process starts: the settings may rebuild every array.
LEMMA InitializeStep ==
    ASSUME TypeOK, OutboxInv, NEW n \in Settings \cup {-1}, Initialize(n)
    PROVE  TypeOK' /\ OutboxInv' /\ \A a \in Addresses : totals'[a].acked = totals[a].acked
<1>1. /\ phase = "down"
      /\ phase' = "initialized"
      /\ required' = n
      /\ UNCHANGED << deliveries, affected, job, answered, wire, received >>
  BY DEF Initialize
<1>2. Idle
  BY <1>1 DEF OutboxInv, JobOK
<1>3. ASSUME NEW a \in Addresses
      PROVE  /\ totals'[a] \in Row
             /\ RowOK(totals'[a], deliveries[a])
             /\ totals'[a].acked = totals[a].acked
  <2>1. totals[a] \in Row /\ deliveries[a] \in Seq(Delivery) /\ RowOK(totals[a], deliveries[a])
    BY DEF TypeOK, OutboxInv
  <2>2. CASE n = required
    BY <2>1, <2>2 DEF Initialize
  <2>3. CASE n # required
    <3>1. PICK new \in [Addresses -> ReportsUnder(n)] :
              /\ \A b \in Addresses : new[b].total = totals[b].report.total
              /\ totals' = [b \in Addresses |-> [totals[b] EXCEPT !.report = new[b]]]
      BY <2>3 DEF Initialize
    <3>2. /\ new[a] \in Report
          /\ new[a].total = totals[a].report.total
          /\ totals'[a] = [totals[a] EXCEPT !.report = new[a]]
      BY <3>1, ReportType
    <3> QED
      BY <2>1, <3>2, RebuildKeepsRowOK
  <2> QED
    BY <2>2, <2>3
<1>4. totals' \in [Addresses -> Row]
  <2>1. CASE n = required
    BY <2>1 DEF Initialize, TypeOK
  <2>2. CASE n # required
    <3>1. PICK new \in [Addresses -> ReportsUnder(n)] :
              totals' = [b \in Addresses |-> [totals[b] EXCEPT !.report = new[b]]]
      BY <2>2 DEF Initialize
    <3> QED
      BY <1>3, <3>1
  <2> QED
    BY <2>1, <2>2
<1>5. OutboxInv'
  BY <1>1, <1>2, <1>3, <1>4, RowsStep
<1> QED
  BY <1>1, <1>3, <1>4, <1>5 DEF TypeOK

\* The startup recovery of rows left in 'sending'.
LEMMA RecoverStep ==
    ASSUME TypeOK, OutboxInv, RecoverInterruptedWebhookDeliveries
    PROVE  TypeOK' /\ OutboxInv'
<1>1. /\ phase = "initialized"
      /\ phase' = "recovered"
      /\ deliveries' = [a \in Addresses |-> RecoveredLog(deliveries[a])]
      /\ UNCHANGED << required, totals, affected, job, answered, wire, received >>
  BY DEF RecoverInterruptedWebhookDeliveries
<1>2. Idle
  BY <1>1 DEF OutboxInv, JobOK
<1>3. ASSUME NEW a \in Addresses
      PROVE  /\ deliveries'[a] \in Seq(Delivery)
             /\ Len(deliveries'[a]) = Len(deliveries[a])
             /\ Continues(deliveries[a], deliveries'[a])
             /\ RowOK(totals[a], deliveries'[a])
  <2>1. totals[a] \in Row /\ deliveries[a] \in Seq(Delivery) /\ RowOK(totals[a], deliveries[a])
    BY DEF TypeOK, OutboxInv
  <2>2. deliveries'[a] = RecoveredLog(deliveries[a])
    BY <1>1
  <2>3. Len(deliveries[a]) \in Nat
    BY <2>1
  <2> QED
    BY <2>1, <2>2, <2>3, RecoveredType, RecoverKeepsRowOK DEF Continues
<1>4. TypeOK'
  BY <1>1, <1>3 DEF TypeOK
<1>5. \A a \in Addresses : ReceiverOK(a)'
  BY <1>1, <1>3, ReceiverFrame
<1>6. JobOK'
  BY <1>1, <1>2 DEF JobOK, Idle, OutboxInv
<1>7. ASSUME NEW m \in wire
      PROVE  m.index \in 1 .. Len(deliveries'[m.addr])
  <2>1. m.addr \in Addresses /\ m.index \in 1 .. Len(deliveries[m.addr])
    BY DEF TypeOK, OutboxInv, Message
  <2> QED
    BY <1>3, <2>1
<1> QED
  BY <1>1, <1>3, <1>4, <1>5, <1>6, <1>7 DEF OutboxInv

-----------------------------------------------------------------------------
(* Theorems.                                                               *)

\* One step of the whole system keeps the invariant and never moves an
\* acknowledgment back.
LEMMA NextStep ==
    ASSUME TypeOK, OutboxInv, [Next]_vars
    PROVE  /\ TypeOK' /\ OutboxInv'
           /\ \A a \in Addresses : totals'[a].acked >= totals[a].acked
<1>0. \A a \in Addresses : totals[a].acked \in Nat /\ totals[a].acked >= totals[a].acked
  BY DEF TypeOK, Row
<1>1. ASSUME NEW S \in SUBSET Addresses, RecomputeAddressTotals(S)
      PROVE  TypeOK' /\ OutboxInv' /\ \A a \in Addresses : totals'[a].acked >= totals[a].acked
  BY <1>0, <1>1, RecomputeStep
<1>2. ASSUME NEW S, QueueTx(S)
      PROVE  \A a \in Addresses : totals'[a].acked = totals[a].acked
  <2> SUFFICES ASSUME NEW a \in Addresses PROVE totals'[a].acked = totals[a].acked
    OBVIOUS
  <2>1. totals[a] \in Row /\ deliveries[a] \in Seq(Delivery) /\ RowOK(totals[a], deliveries[a])
    BY DEF TypeOK, OutboxInv
  <2>2. CASE a \in S
    <3>1. totals'[a] = QueuedRow(totals[a], deliveries[a])
      BY <1>2, <2>2 DEF QueueTx
    <3> QED
      BY <2>1, <3>1, QueueKeepsRowOK
  <2>3. CASE a \notin S
    BY <1>2, <2>3 DEF QueueTx
  <2> QED
    BY <2>2, <2>3
<1>3. CASE QueueWebhookDeliveriesForDirtyAddresses
  <2>1. /\ phase = "up"
        /\ QueueTx(affected)
        /\ affected' = {}
        /\ UNCHANGED << phase, required, job, answered, wire, received >>
    BY <1>3 DEF QueueWebhookDeliveriesForDirtyAddresses
  <2>2. /\ totals' \in [Addresses -> Row]
        /\ deliveries' \in [Addresses -> Seq(Delivery)]
        /\ OutboxInv'
    BY <2>1, QueueTxStep
  <2> QED
    BY <1>0, <1>2, <2>1, <2>2 DEF TypeOK
<1>4. CASE SyncIterationFails
  <2>1. UNCHANGED << phase, totals, deliveries, job, answered, wire, received >>
    BY <1>4 DEF SyncIterationFails
  <2>2. OutboxInv'
    BY <2>1 DEF OutboxInv, ReceiverOK, JobOK, Idle
  <2> QED
    BY <1>0, <1>4, <2>1, <2>2 DEF SyncIterationFails, TypeOK
<1>5. ASSUME NEW a \in Addresses, NEW i \in DOMAIN deliveries[a],
             ClaimReadyWebhookDelivery(a, i)
      PROVE  TypeOK' /\ OutboxInv' /\ \A b \in Addresses : totals'[b].acked >= totals[b].acked
  <2>1. UNCHANGED totals
    BY <1>5 DEF ClaimReadyWebhookDelivery
  <2> QED
    BY <1>0, <1>5, <2>1, ClaimStep
<1>6. CASE RecordWebhookDeliverySuccess
  BY <1>6, SuccessStep
<1>7. CASE RecordWebhookDeliveryRetry
  <2>1. /\ ~Idle
        /\ EndAttempt
        /\ UNCHANGED totals
        /\ SetJob("retry_wait")
        /\ ~(job.attempt + 1 >= MaxAttempts)
    BY <1>7 DEF RecordWebhookDeliveryRetry, ShouldPermanentlyFail
  <2>2. job.attempt + 1 < MaxAttempts
    BY <2>1, JobFacts, OutboxAssumption
  <2> QED
    BY <1>0, <2>1, <2>2, SetJobStep
<1>8. CASE RecordWebhookDeliveryPermanentFailure
  <2>1. /\ ~Idle
        /\ EndAttempt
        /\ UNCHANGED totals
        /\ SetJob("permanent_failure")
    BY <1>8 DEF RecordWebhookDeliveryPermanentFailure
  <2> QED
    BY <1>0, <2>1, SetJobStep
<1>9. CASE RecordOutcomeFails
  <2>1. EndAttempt /\ UNCHANGED << totals, deliveries >>
    BY <1>9 DEF RecordOutcomeFails
  <2>2. \A a \in Addresses : /\ RowOK(totals'[a], deliveries'[a])
                             /\ Continues(deliveries[a], deliveries'[a])
                             /\ totals'[a].acked = totals[a].acked
    <3> SUFFICES ASSUME NEW a \in Addresses
                 PROVE  /\ RowOK(totals'[a], deliveries'[a])
                        /\ Continues(deliveries[a], deliveries'[a])
                        /\ totals'[a].acked = totals[a].acked
      OBVIOUS
    <3>1. RowOK(totals[a], deliveries[a]) /\ Len(deliveries[a]) \in Nat
      BY DEF OutboxInv, TypeOK
    <3> QED
      BY <2>1, <3>1 DEF Continues
  <2>3. totals' \in [Addresses -> Row] /\ deliveries' \in [Addresses -> Seq(Delivery)]
    BY <2>1 DEF TypeOK
  <2> QED
    BY <1>0, <2>1, <2>2, <2>3, EndAttemptStep
<1>10. ASSUME NEW m \in wire, ReceiverApplies(m)
       PROVE  TypeOK' /\ OutboxInv' /\ \A a \in Addresses : totals'[a].acked >= totals[a].acked
  <2>1. UNCHANGED totals
    BY <1>10 DEF ReceiverApplies
  <2> QED
    BY <1>0, <1>10, <2>1, ReceiverStep
<1>11. CASE Crash
  <2>1. /\ phase' = "down"
        /\ affected' = {}
        /\ job' = NoJob
        /\ answered' = FALSE
        /\ UNCHANGED << required, totals, deliveries, wire, received >>
    BY <1>11 DEF Crash
  <2>2. JobOK'
    BY <2>1 DEF JobOK, Idle
  <2>3. OutboxInv'
    BY <2>1, <2>2 DEF OutboxInv, ReceiverOK
  <2> QED
    BY <1>0, <2>1, <2>3 DEF TypeOK
<1>12. ASSUME NEW n \in Settings \cup {-1}, Initialize(n)
       PROVE  TypeOK' /\ OutboxInv' /\ \A a \in Addresses : totals'[a].acked >= totals[a].acked
  BY <1>0, <1>12, InitializeStep
<1>13. CASE RecoverInterruptedWebhookDeliveries
  <2>1. UNCHANGED totals
    BY <1>13 DEF RecoverInterruptedWebhookDeliveries
  <2> QED
    BY <1>0, <1>13, <2>1, RecoverStep
<1>14. CASE QueueAllDirtyWebhookDeliveries
  <2> DEFINE D == {a \in Addresses : totals[a].dirty = "dirty"}
  <2>1. /\ phase' = "up"
        /\ QueueTx(D)
        /\ UNCHANGED << required, affected, job, answered, wire, received >>
    BY <1>14 DEF QueueAllDirtyWebhookDeliveries
  <2> HIDE DEF D
  <2>2. /\ totals' \in [Addresses -> Row]
        /\ deliveries' \in [Addresses -> Seq(Delivery)]
        /\ OutboxInv'
    BY <2>1, QueueTxStep
  <2> QED
    BY <1>0, <1>2, <2>1, <2>2 DEF TypeOK
<1>15. CASE UNCHANGED vars
  <2>1. TypeOK'
    BY <1>15 DEF vars, TypeOK
  <2>2. OutboxInv'
    BY <1>15 DEF vars, OutboxInv, ReceiverOK, JobOK, Idle
  <2> QED
    BY <1>0, <1>15, <2>1, <2>2 DEF vars
<1> QED
  BY <1>1, <1>3, <1>4, <1>5, <1>6, <1>7, <1>8, <1>9, <1>10, <1>11, <1>12,
     <1>13, <1>14, <1>15 DEF Next, Worker, Startup

\* The initial states satisfy the invariant.
LEMMA InitStep == Init => TypeOK /\ OutboxInv
<1> SUFFICES ASSUME Init PROVE TypeOK /\ OutboxInv
  OBVIOUS
<1>1. TypeOK
  <2>1. totals \in [Addresses -> Row]
    BY FreshRowType DEF Init
  <2>2. deliveries \in [Addresses -> Seq(Delivery)]
    <3>1. << >> \in Seq(Delivery)
      OBVIOUS
    <3> QED
      BY <3>1 DEF Init
  <2>3. received \in [Addresses -> [version : Nat, report : Report]]
    <3>1. [version |-> 0, report |-> FreshReport] \in [version : Nat, report : Report]
      BY ReportType
    <3> QED
      BY <3>1 DEF Init
  <2>4. /\ phase = "up"
        /\ required \in Settings \cup {-1}
        /\ affected = {}
        /\ job = NoJob
        /\ answered = FALSE
        /\ wire = {}
    BY DEF Init
  <2> QED
    BY <2>1, <2>2, <2>3, <2>4 DEF TypeOK
<1>2. ASSUME NEW a \in Addresses
      PROVE  RowOK(totals[a], deliveries[a]) /\ ReceiverOK(a)
  <2>1. /\ totals[a] = FreshRow
        /\ deliveries[a] = << >>
        /\ received[a] = [version |-> 0, report |-> FreshReport]
    BY DEF Init
  <2>2. Len(deliveries[a]) = 0
    BY <2>1
  <2>3. LastWordOf(totals[a], deliveries[a])
    BY <2>1, <2>2 DEF LastWordOf, TotalAt, FreshRow, FreshReport
  <2> QED
    BY <2>1, <2>2, <2>3 DEF RowOK, ReceiverOK, TotalAt, FreshRow, FreshReport
<1>3. JobOK
  BY DEF Init, JobOK, Idle
<1> QED
  BY <1>1, <1>2, <1>3 DEF OutboxInv, Init

\* Type correctness and the inductive invariant of the whole outbox.
THEOREM Invariance == Spec => [](TypeOK /\ OutboxInv)
<1>1. TypeOK /\ OutboxInv /\ [Next]_vars => (TypeOK /\ OutboxInv)'
  BY NextStep
<1> QED
  BY <1>1, InitStep, PTL DEF Spec

\* Every variable of the outbox keeps its type.
THEOREM TypeCorrect == Spec => []TypeOK
  BY Invariance, PTL

\* An address that is not dirty never has an older event as its last word
\* (queue_webhook_deliveries_in_tx and everything that runs around it).
THEOREM LastWordTheorem == Spec => []LastWord
<1>1. OutboxInv => LastWord
  BY DEF OutboxInv, RowOK, LastWord
<1> QED
  BY <1>1, Invariance, PTL

\* A delivery still to be sent always has attempts left, and no delivery is
\* recorded as attempted more often than WEBHOOK_MAX_ATTEMPTS.
THEOREM RetryBudgetTheorem == Spec => []RetryBudget
<1>1. TypeOK /\ OutboxInv => RetryBudget
  <2> SUFFICES ASSUME TypeOK, OutboxInv, NEW a \in Addresses, NEW i \in DOMAIN deliveries[a]
               PROVE  /\ deliveries[a][i].attempts <= MaxAttempts
                      /\ deliveries[a][i].state \in OutstandingStates =>
                            deliveries[a][i].attempts < MaxAttempts
    BY DEF RetryBudget
  <2>1. i \in 1 .. Len(deliveries[a])
    BY DEF TypeOK
  <2> QED
    BY <2>1 DEF OutboxInv, RowOK
<1> QED
  BY <1>1, Invariance, PTL

\* Once an address is not dirty and its newest delivery is acknowledged, the
\* receiver holds the current total, for every interleaving of retries, late
\* requests, crashes and failed writes.
THEOREM ReceiverAgreesTheorem == Spec => []ReceiverAgrees
<1>1. TypeOK /\ OutboxInv => ReceiverAgrees
  <2> SUFFICES ASSUME TypeOK, OutboxInv, NEW a \in Addresses,
                      totals[a].dirty # "dirty",
                      totals[a].acked = Len(deliveries[a])
               PROVE  received[a].report.total = totals[a].report.total
    BY DEF ReceiverAgrees
  <2> DEFINE log == deliveries[a]
             n == Len(deliveries[a])
  <2>1. /\ n \in Nat
        /\ RowOK(totals[a], log)
        /\ ReceiverOK(a)
        /\ received[a].version \in Nat
        /\ totals[a].version \in Nat
    BY DEF TypeOK, OutboxInv, Row
  <2>2. TotalAt(log, n) = totals[a].report.total
    BY <2>1 DEF RowOK, LastWordOf
  <2>3. CASE n = 0
    BY <2>1, <2>2, <2>3 DEF ReceiverOK, TotalAt
  <2>4. CASE n > 0
    <3>1. /\ received[a].version >= log[n].version
          /\ log[n].version \in 1 .. totals[a].version
      BY <2>1, <2>4 DEF ReceiverOK, RowOK
    <3>2. PICK i \in 1 .. n : /\ received[a].version = log[i].version
                              /\ received[a].report.total = log[i].report.total
      BY <2>1, <3>1 DEF ReceiverOK
    <3>3. i = n
      <4>1. log[i].version \in 1 .. totals[a].version
        BY <2>1, <3>2 DEF RowOK
      <4>2. i < n => log[i].version < log[n].version
        BY <2>1, <2>4, <3>2 DEF RowOK
      <4> QED
        BY <2>1, <3>1, <3>2, <4>1, <4>2
    <3> QED
      BY <2>2, <2>4, <3>2, <3>3 DEF TotalAt
  <2> QED
    BY <2>1, <2>3, <2>4
<1> QED
  BY <1>1, Invariance, PTL

\* record_webhook_delivery_success never moves an acknowledgment backwards,
\* and nothing else moves it at all.
THEOREM AckTheorem == Spec => AckNeverMovesBack
<1>1. TypeOK /\ OutboxInv /\ [Next]_vars =>
        [\A a \in Addresses : totals'[a].acked >= totals[a].acked]_vars
  BY NextStep
<1> QED
  BY <1>1, Invariance, PTL DEF Spec, AckNeverMovesBack

-----------------------------------------------------------------------------
(* Claims: which rows are in 'sending'.                                    *)

\* The rows in 'sending' after a queue transaction were so before it.
LEMMA QueueAddsNoClaim ==
    ASSUME NEW row \in Row, NEW log \in Seq(Delivery),
           NEW k \in 1 .. Len(QueuedLog(row, log)),
           QueuedLog(row, log)[k].state = "sending"
    PROVE  k \in 1 .. Len(log) /\ log[k].state = "sending"
<1>1. CASE QueuedLog(row, log) = log
  BY <1>1
<1>2. CASE QueuedLog(row, log) = Append(log, NewDelivery(row))
  <2>1. NewDelivery(row).state = "queued"
    BY DEF NewDelivery
  <2>2. /\ Len(log) \in Nat /\ Len(QueuedLog(row, log)) = Len(log) + 1
        /\ QueuedLog(row, log)[Len(log) + 1] = NewDelivery(row)
        /\ \A j \in 1 .. Len(log) : QueuedLog(row, log)[j] = log[j]
    BY <1>2
  <2>3. k # Len(log) + 1
    BY <2>1, <2>2
  <2> QED
    BY <2>2, <2>3
<1> QED
  BY <1>1, <1>2 DEF QueuedLog

\* Without a failure to write an outcome, every step keeps the claims owned.
LEMMA OwnedStep ==
    ASSUME TypeOK, OutboxInv, SendingIsOwned, [Next]_vars, "record_error" \notin Faults
    PROVE  SendingIsOwned'
<1> SUFFICES ASSUME phase' \in {"recovered", "up"},
                    NEW a \in Addresses, NEW i \in DOMAIN deliveries'[a],
                    deliveries'[a][i].state = "sending"
             PROVE  job'.addr = a /\ job'.index = i
  BY DEF SendingIsOwned
<1>1. TypeOK' /\ OutboxInv'
  BY NextStep
<1>2. /\ deliveries[a] \in Seq(Delivery) /\ deliveries'[a] \in Seq(Delivery)
      /\ totals[a] \in Row /\ i \in 1 .. Len(deliveries'[a])
  BY <1>1 DEF TypeOK
<1>3. ASSUME phase \in {"recovered", "up"}, i \in 1 .. Len(deliveries[a]),
             deliveries[a][i].state = "sending"
      PROVE  job.addr = a /\ job.index = i
  BY <1>2, <1>3 DEF SendingIsOwned
<1>4. ASSUME NEW S, QueueTx(S)
      PROVE  i \in 1 .. Len(deliveries[a]) /\ deliveries[a][i].state = "sending"
  <2>1. CASE a \in S
    <3>1. deliveries'[a] = QueuedLog(totals[a], deliveries[a])
      BY <1>4, <2>1 DEF QueueTx
    <3> QED
      BY <1>2, <3>1, QueueAddsNoClaim
  <2>2. CASE a \notin S
    <3>1. deliveries'[a] = deliveries[a]
      BY <1>4, <2>2 DEF QueueTx
    <3> QED
      BY <1>2, <3>1
  <2> QED
    BY <2>1, <2>2
<1>5. CASE QueueWebhookDeliveriesForDirtyAddresses
  <2>1. QueueTx(affected) /\ phase = "up" /\ job' = job
    BY <1>5 DEF QueueWebhookDeliveriesForDirtyAddresses
  <2> QED
    BY <1>3, <1>4, <2>1
<1>6. CASE QueueAllDirtyWebhookDeliveries
  <2> DEFINE D == {b \in Addresses : totals[b].dirty = "dirty"}
  <2>1. QueueTx(D) /\ phase = "recovered" /\ job' = job
    BY <1>6 DEF QueueAllDirtyWebhookDeliveries
  <2> HIDE DEF D
  <2> QED
    BY <1>3, <1>4, <2>1
<1>7. ASSUME UNCHANGED << phase, deliveries, job >>
      PROVE  job'.addr = a /\ job'.index = i
  BY <1>2, <1>3, <1>7
<1>8. ASSUME NEW b \in Addresses, NEW k \in DOMAIN deliveries[b],
             ClaimReadyWebhookDelivery(b, k)
      PROVE  job'.addr = a /\ job'.index = i
  <2>1. /\ phase = "up" /\ job = NoJob /\ job'.addr = b /\ job'.index = k
        /\ deliveries' = [deliveries EXCEPT ![b] =
                            SetDelivery(deliveries[b], k, "sending", deliveries[b][k].attempts)]
    BY <1>8 DEF ClaimReadyWebhookDelivery, Idle
  <2>2. CASE a = b /\ i = k
    BY <2>1, <2>2
  <2>3. CASE ~(a = b /\ i = k)
    <3>1. i \in 1 .. Len(deliveries[a]) /\ deliveries'[a][i] = deliveries[a][i]
      BY <1>2, <2>1, <2>3 DEF TypeOK, SetDelivery
    <3>2. job.addr = a
      BY <1>3, <2>1, <3>1
    <3> QED
      BY <2>1, <3>2, OutboxAssumption DEF NoJob
  <2> QED
    BY <2>2, <2>3
<1>9. ASSUME ~Idle, NEW state \in {"retry_wait", "permanent_failure"}, SetJob(state),
             phase = "up"
      PROVE  FALSE
  <2>1. /\ job.addr \in Addresses /\ job.index \in 1 .. Len(deliveries[job.addr])
        /\ deliveries[job.addr] \in Seq(Delivery)
    BY <1>9, JobFacts
  <2>2. CASE a = job.addr /\ i = job.index
    <3>1. deliveries'[a][i].state = state
      <4>1. deliveries[a][i] \in Delivery
        BY <2>1, <2>2
      <4> QED
        BY <1>9, <2>1, <2>2, <4>1 DEF SetJob, SetDelivery, TypeOK, Delivery
    <3> QED
      BY <3>1
  <2>3. CASE ~(a = job.addr /\ i = job.index)
    <3>1. i \in 1 .. Len(deliveries[a]) /\ deliveries'[a][i] = deliveries[a][i]
      BY <1>2, <1>9, <2>1, <2>3 DEF TypeOK, SetDelivery, SetJob
    <3> QED
      BY <1>3, <1>9, <2>3, <3>1
  <2> QED
    BY <2>2, <2>3
<1>10. CASE RecordWebhookDeliveryRetry \/ RecordWebhookDeliveryPermanentFailure
  BY <1>9, <1>10 DEF RecordWebhookDeliveryRetry, RecordWebhookDeliveryPermanentFailure
<1>11. CASE RecordWebhookDeliverySuccess
  <2> DEFINE b == job.addr
             k == job.index
             old == deliveries[b]
             n == old[k].attempts + 1
             log == SetDelivery(old, k, "succeeded", n)
             row == AckedRow(totals[b], log, k)
  <2>1. ~Idle /\ phase = "up"
    BY <1>11 DEF RecordWebhookDeliverySuccess
  <2>2. /\ b \in Addresses /\ k \in 1 .. Len(deliveries[b])
        /\ deliveries[b] \in Seq(Delivery) /\ totals[b] \in Row
        /\ deliveries[b][k].attempts + 1 \in Nat
    BY <2>1, JobFacts
  <2>3. /\ log \in Seq(Delivery) /\ Len(log) = Len(old)
        /\ \A j \in 1 .. Len(old) : j # k => log[j] = old[j]
        /\ log[k].state = "succeeded"
    <3>1. /\ old \in Seq(Delivery) /\ k \in 1 .. Len(old) /\ n \in Nat
          /\ "succeeded" \in OutstandingStates \cup {"succeeded", "permanent_failure"}
      BY <2>2
    <3>2. log = SetDelivery(old, k, "succeeded", n)
      OBVIOUS
    <3> HIDE DEF log, old, n, k
    <3> QED
      BY <3>1, <3>2, SetDeliveryType
  <2>4. \/ deliveries' = [deliveries EXCEPT ![b] = log]
        \/ deliveries' = [deliveries EXCEPT ![b] = QueuedLog(row, log)]
    BY <1>11 DEF RecordWebhookDeliverySuccess
  <2> HIDE DEF log
  <2>5. CASE a # b
    <3>1. deliveries'[a] = deliveries[a]
      BY <2>4, <2>5 DEF TypeOK
    <3> QED
      BY <1>2, <1>3, <2>1, <2>5, <3>1
  <2>6. CASE a = b
    <3>1. deliveries'[a] = log \/ deliveries'[a] = QueuedLog(row, log)
      BY <2>2, <2>4, <2>6 DEF TypeOK
    <3>2. row \in Row
      <4>1. log[k] \in Delivery /\ k \in Nat
        BY <2>2, <2>3
      <4> QED
        BY <2>2, <4>1 DEF AckedRow, Row, Delivery
    <3> HIDE DEF row
    <3>3. i \in 1 .. Len(log) /\ log[i].state = "sending"
      BY <1>2, <2>3, <3>1, <3>2, QueueAddsNoClaim
    <3>4. i # k /\ i \in 1 .. Len(deliveries[a]) /\ deliveries[a][i].state = "sending"
      BY <2>3, <2>6, <3>3
    <3> QED
      BY <1>3, <2>1, <3>4
  <2> QED
    BY <2>5, <2>6
<1>12. CASE RecoverInterruptedWebhookDeliveries
  <2>1. deliveries'[a] = RecoveredLog(deliveries[a])
    BY <1>12 DEF RecoverInterruptedWebhookDeliveries
  <2> QED
    BY <1>2, <2>1, RecoveredType
<1>13. CASE Crash \/ \E n \in Settings \cup {-1} : Initialize(n)
  BY <1>13 DEF Crash, Initialize
<1>14. CASE \/ \E S \in SUBSET Addresses : RecomputeAddressTotals(S)
            \/ SyncIterationFails
            \/ \E m \in wire : ReceiverApplies(m)
            \/ UNCHANGED vars
  BY <1>7, <1>14 DEF RecomputeAddressTotals, SyncIterationFails, ReceiverApplies, vars
<1>15. ~RecordOutcomeFails
  BY DEF RecordOutcomeFails
<1> QED
  BY <1>5, <1>6, <1>8, <1>10, <1>11, <1>12, <1>13, <1>14, <1>15 DEF Next, Worker, Startup

\* SendingTheorem: recover_interrupted_webhook_deliveries leaves no row of an
\* earlier process in 'sending', and from then on such a row is the one the
\* worker holds, unless an outcome could not be written.
THEOREM SendingTheorem == Spec => []SendingIsOwned
<1>1. Init => SendingIsOwned
  BY DEF Init, SendingIsOwned
<1>2. TypeOK /\ OutboxInv /\ SendingIsOwned /\ [Next]_vars => SendingIsOwned'
  <2>1. CASE "record_error" \in Faults
    BY <2>1 DEF SendingIsOwned
  <2>2. CASE "record_error" \notin Faults
    BY <2>2, OwnedStep
  <2> QED
    BY <2>1, <2>2
<1> QED
  BY <1>1, <1>2, Invariance, PTL DEF Spec
-----------------------------------------------------------------------------
(* The outbox implements ReportedTotal.  TypeOK and OutboxInv hold in      *)
(* every state; from such a state a recompute is a Change, a queue         *)
(* transaction a Publish, an applied request a Hear, a recorded success a  *)
(* Learn or a Publish, and every other step a stutter.  First, the         *)
(* refinement mapping on one address.                                      *)

\* Two logs with the same versions and reports publish the same, and a row
\* that acknowledges the same position knows the same version.
LEMMA SameLog ==
    ASSUME NEW log \in Seq(Delivery), NEW new \in Seq(Delivery),
           Len(new) = Len(log), Continues(log, new)
    PROVE  /\ PublishedOf(new) = PublishedOf(log)
           /\ \A row, row2 \in Row :
                (row.acked \in 0 .. Len(log) /\ row2.acked = row.acked) =>
                    KnownVersion(row2, new) = KnownVersion(row, log)
<1>1. DOMAIN log = 1 .. Len(log) /\ DOMAIN new = 1 .. Len(log) /\ Len(log) \in Nat
  OBVIOUS
<1>2. \A k \in 1 .. Len(log) : StampOf(new[k]) = StampOf(log[k])
  BY DEF Continues, StampOf
<1>3. PublishedOf(new) = PublishedOf(log)
  BY <1>1, <1>2, Zenon DEF PublishedOf
<1>4. ASSUME NEW row \in Row, NEW row2 \in Row,
             row.acked \in 0 .. Len(log), row2.acked = row.acked
      PROVE  KnownVersion(row2, new) = KnownVersion(row, log)
  BY <1>1, <1>4 DEF KnownVersion, Continues
<1> QED
  BY <1>3, <1>4

\* Appending a delivery publishes its stamp.
LEMMA AppendPublishes ==
    ASSUME NEW log \in Seq(Delivery), NEW d \in Delivery
    PROVE  PublishedOf(Append(log, d)) = PublishedOf(log) \cup {StampOf(d)}
<1> DEFINE new == Append(log, d)
<1>1. /\ Len(log) \in Nat
      /\ DOMAIN log = 1 .. Len(log) /\ DOMAIN new = 1 .. (Len(log) + 1)
      /\ \A k \in 1 .. Len(log) : new[k] = log[k]
      /\ new[Len(log) + 1] = d
  OBVIOUS
<1>2. 1 .. (Len(log) + 1) = (1 .. Len(log)) \cup {Len(log) + 1}
  BY <1>1
<1> HIDE DEF new
<1>3. ASSUME NEW x
      PROVE  x \in PublishedOf(new) <=> x \in PublishedOf(log) \cup {StampOf(d)}
  BY <1>1, <1>2, Zenon DEF PublishedOf
<1> QED
  BY <1>3 DEF new

\* queue_webhook_deliveries_in_tx publishes the current total or nothing, and
\* changes neither the total nor what is acknowledged.
LEMMA QueueStamps ==
    ASSUME NEW row \in Row, NEW log \in Seq(Delivery), row.acked \in 0 .. Len(log)
    PROVE  /\ StampOf(QueuedRow(row, log)) = StampOf(row)
           /\ KnownVersion(QueuedRow(row, log), QueuedLog(row, log)) = KnownVersion(row, log)
           /\ \/ PublishedOf(QueuedLog(row, log)) = PublishedOf(log)
              \/ PublishedOf(QueuedLog(row, log)) = PublishedOf(log) \cup {StampOf(row)}
<1>1. /\ QueuedRow(row, log).version = row.version
      /\ QueuedRow(row, log).report = row.report
      /\ QueuedRow(row, log).acked = row.acked
  BY DEF QueuedRow, Row
<1>2. /\ NewDelivery(row) \in Delivery
      /\ StampOf(NewDelivery(row)) = StampOf(row)
  <2>1. NewDelivery(row) \in Delivery
    BY DEF NewDelivery, Delivery, Row
  <2>2. NewDelivery(row).version = row.version /\ NewDelivery(row).report = row.report
    BY DEF NewDelivery
  <2> QED
    BY <2>1, <2>2 DEF StampOf
<1>3. StampOf(QueuedRow(row, log)) = StampOf(row)
  BY <1>1 DEF StampOf
<1>4. KnownVersion(QueuedRow(row, log), QueuedLog(row, log)) = KnownVersion(row, log)
  <2>1. \A i \in 1 .. Len(log) : QueuedLog(row, log)[i] = log[i]
    BY QueueType
  <2>2. row.acked # 0 => row.acked \in 1 .. Len(log)
    OBVIOUS
  <2> QED
    BY <1>1, <2>1, <2>2 DEF KnownVersion
<1>5. \/ PublishedOf(QueuedLog(row, log)) = PublishedOf(log)
      \/ PublishedOf(QueuedLog(row, log)) = PublishedOf(log) \cup {StampOf(row)}
  <2>1. QueuedLog(row, log) = log \/ QueuedLog(row, log) = Append(log, NewDelivery(row))
    BY DEF QueuedLog
  <2>2. PublishedOf(Append(log, NewDelivery(row))) = PublishedOf(log) \cup {StampOf(row)}
    BY <1>2, AppendPublishes
  <2> QED
    BY <2>1, <2>2
<1> QED
  BY <1>3, <1>4, <1>5

-----------------------------------------------------------------------------
(* Steps.                                                                  *)

\* A step that changes no stamp is a stutter of the register.
LEMMA Unseen ==
    ASSUME \A a \in Addresses :
              /\ StampOf(totals'[a]) = StampOf(totals[a])
              /\ PublishedOf(deliveries'[a]) = PublishedOf(deliveries[a])
              /\ StampOf(received'[a]) = StampOf(received[a])
              /\ KnownVersion(totals'[a], deliveries'[a])
                    = KnownVersion(totals[a], deliveries[a])
    PROVE  UNCHANGED Abstract!avars
  BY DEF Abstract!avars

\* Steps that leave the rows, and the versions and reports in the logs, alone.
LEMMA LogsContinue ==
    ASSUME TypeOK, OutboxInv, deliveries' \in [Addresses -> Seq(Delivery)],
           UNCHANGED << totals, received >>,
           \A a \in Addresses : /\ Len(deliveries'[a]) = Len(deliveries[a])
                                /\ Continues(deliveries[a], deliveries'[a])
    PROVE  UNCHANGED Abstract!avars
<1> SUFFICES ASSUME NEW a \in Addresses
             PROVE  /\ PublishedOf(deliveries'[a]) = PublishedOf(deliveries[a])
                    /\ KnownVersion(totals[a], deliveries'[a])
                         = KnownVersion(totals[a], deliveries[a])
  BY Unseen
<1>1. /\ deliveries[a] \in Seq(Delivery) /\ deliveries'[a] \in Seq(Delivery)
      /\ totals[a] \in Row /\ totals[a].acked \in 0 .. Len(deliveries[a])
  BY DEF TypeOK, OutboxInv, RowOK
<1> QED
  BY <1>1, SameLog

\* A queue transaction for any set of addresses publishes.
LEMMA QueueTxPublishes ==
    ASSUME TypeOK, OutboxInv, NEW S, QueueTx(S), UNCHANGED received
    PROVE  \E T \in SUBSET Addresses : Abstract!Publish(T)
<1> DEFINE T == {a \in Addresses : PublishedOf(deliveries'[a]) # PublishedOf(deliveries[a])}
<1>1. ASSUME NEW a \in Addresses
      PROVE  /\ StampOf(totals'[a]) = StampOf(totals[a])
             /\ KnownVersion(totals'[a], deliveries'[a])
                  = KnownVersion(totals[a], deliveries[a])
             /\ \/ PublishedOf(deliveries'[a]) = PublishedOf(deliveries[a])
                \/ PublishedOf(deliveries'[a])
                     = PublishedOf(deliveries[a]) \cup {StampOf(totals[a])}
  <2>1. /\ deliveries[a] \in Seq(Delivery)
        /\ totals[a] \in Row /\ totals[a].acked \in 0 .. Len(deliveries[a])
    BY DEF TypeOK, OutboxInv, RowOK
  <2>2. CASE a \in S
    <3>1. /\ totals'[a] = QueuedRow(totals[a], deliveries[a])
          /\ deliveries'[a] = QueuedLog(totals[a], deliveries[a])
      BY <2>2 DEF QueueTx
    <3> QED
      BY <2>1, <3>1, QueueStamps
  <2>3. CASE a \notin S
    BY <2>3 DEF QueueTx
  <2> QED
    BY <2>2, <2>3
<1>2. \A a \in Addresses :
        PublishedOf(deliveries'[a]) = IF a \in T
            THEN PublishedOf(deliveries[a]) \cup {StampOf(totals[a])}
            ELSE PublishedOf(deliveries[a])
  BY <1>1
<1>3. T \in SUBSET Addresses
  OBVIOUS
<1> HIDE DEF T
<1>4. Abstract!Publish(T)
  BY <1>1, <1>2 DEF Abstract!Publish
<1> QED
  BY <1>3, <1>4

\* recompute_address_totals: the addresses whose report changed take the next
\* version.
LEMMA RecomputeChanges ==
    ASSUME TypeOK, OutboxInv, NEW S \in SUBSET Addresses, RecomputeAddressTotals(S)
    PROVE  \E T \in SUBSET Addresses : Abstract!Change(T)
<1>1. PICK new \in [S -> ReportsUnder(required)] :
          totals' = [a \in Addresses |->
                        IF a \in S THEN RecomputedRow(totals[a], new[a]) ELSE totals[a]]
  BY DEF RecomputeAddressTotals
<1>2. UNCHANGED << deliveries, received >>
  BY DEF RecomputeAddressTotals
<1> DEFINE T == {a \in S : new[a] # totals[a].report}
           total == [a \in T |-> new[a].total]
<1>3. \A a \in S : new[a] \in Report
  BY ReportType DEF TypeOK
<1>4. T \in SUBSET Addresses /\ total \in [T -> Totals]
  BY <1>3 DEF Report
<1>5. ASSUME NEW a \in Addresses
      PROVE  /\ totals[a] \in Row
             /\ a \in T => totals'[a] = [totals[a] EXCEPT !.report = new[a],
                                           !.version = @ + 1, !.dirty = "dirty"]
             /\ a \notin T => totals'[a] = totals[a]
  BY <1>1 DEF RecomputedRow, TypeOK
<1>6. ASSUME NEW a \in Addresses
      PROVE  /\ totals'[a].acked = totals[a].acked
             /\ StampOf(totals'[a]) =
                  IF a \in T
                  THEN [version |-> StampOf(totals[a]).version + 1, total |-> total[a]]
                  ELSE StampOf(totals[a])
  <2>1. CASE a \in T
    <3>0. /\ totals[a] \in Row
          /\ totals'[a] = [totals[a] EXCEPT !.report = new[a],
                              !.version = @ + 1, !.dirty = "dirty"]
      BY <1>5, <2>1
    <3>1. /\ totals'[a].version = totals[a].version + 1
          /\ totals'[a].report = new[a] /\ totals'[a].acked = totals[a].acked
      BY <3>0 DEF Row
    <3>2. total[a] = new[a].total
      BY <2>1
    <3> HIDE DEF T, total
    <3> QED
      BY <2>1, <3>1, <3>2 DEF StampOf
  <2>2. CASE a \notin T
    BY <1>5, <2>2
  <2> QED
    BY <2>1, <2>2
<1> HIDE DEF T, total
<1>7. \A a \in Addresses :
        KnownVersion(totals'[a], deliveries'[a]) = KnownVersion(totals[a], deliveries[a])
  BY <1>2, <1>6 DEF KnownVersion
<1>8. Abstract!Change(T)
  BY <1>2, <1>4, <1>6, <1>7 DEF Abstract!Change
<1> QED
  BY <1>4, <1>8

\* The silent rebuild of a start changes no total.
LEMMA InitializeUnseen ==
    ASSUME TypeOK, OutboxInv, NEW n \in Settings \cup {-1}, Initialize(n)
    PROVE  UNCHANGED Abstract!avars
<1>1. UNCHANGED << deliveries, received >>
  BY DEF Initialize
<1>2. ASSUME NEW a \in Addresses
      PROVE  StampOf(totals'[a]) = StampOf(totals[a]) /\ totals'[a].acked = totals[a].acked
  <2>1. CASE n = required
    BY <2>1 DEF Initialize
  <2>2. CASE n # required
    <3>1. PICK new \in [Addresses -> ReportsUnder(n)] :
              /\ \A b \in Addresses : new[b].total = totals[b].report.total
              /\ totals' = [b \in Addresses |-> [totals[b] EXCEPT !.report = new[b]]]
      BY <2>2 DEF Initialize
    <3>2. totals[a] \in Row /\ totals'[a] = [totals[a] EXCEPT !.report = new[a]]
      BY <3>1 DEF TypeOK
    <3>3. /\ totals'[a].version = totals[a].version
          /\ totals'[a].report = new[a] /\ totals'[a].acked = totals[a].acked
      BY <3>2 DEF Row
    <3> QED
      BY <3>1, <3>3 DEF StampOf
  <2> QED
    BY <2>1, <2>2
<1> QED
  BY <1>1, <1>2, Unseen DEF KnownVersion

\* A claim, a retry or a final failure rewrites a state and a count only.
LEMMA SetUnseen ==
    ASSUME TypeOK, OutboxInv, NEW a \in Addresses, NEW i \in 1 .. Len(deliveries[a]),
           NEW state \in OutstandingStates \cup {"succeeded", "permanent_failure"},
           NEW n \in Nat,
           deliveries' = [deliveries EXCEPT ![a] = SetDelivery(deliveries[a], i, state, n)],
           UNCHANGED << totals, received >>
    PROVE  UNCHANGED Abstract!avars
<1> DEFINE log == deliveries[a]
           new == SetDelivery(log, i, state, n)
<1>1. log \in Seq(Delivery) /\ Len(log) \in Nat /\ i \in 1 .. Len(log)
  BY DEF TypeOK
<1> HIDE DEF log
<1>2. /\ new \in Seq(Delivery) /\ Len(new) = Len(log)
      /\ \A k \in 1 .. Len(log) :
            new[k].version = log[k].version /\ new[k].report = log[k].report
  BY <1>1, SetDeliveryType
<1>3. deliveries' = [deliveries EXCEPT ![a] = new]
  BY DEF log
<1> HIDE DEF new
<1>4. ASSUME NEW b \in Addresses
      PROVE  /\ deliveries'[b] \in Seq(Delivery)
             /\ Len(deliveries'[b]) = Len(deliveries[b])
             /\ Continues(deliveries[b], deliveries'[b])
  <2>1. CASE b = a
    <3>1. deliveries'[b] = new /\ deliveries[b] = log
      BY <1>3, <2>1 DEF TypeOK, log
    <3> QED
      BY <1>1, <1>2, <3>1 DEF Continues
  <2>2. CASE b # a
    <3>1. deliveries'[b] = deliveries[b] /\ deliveries[b] \in Seq(Delivery)
      BY <1>3, <2>2 DEF TypeOK
    <3>2. Len(deliveries[b]) \in Nat
      BY <3>1
    <3> QED
      BY <3>1, <3>2 DEF Continues
  <2> QED
    BY <2>1, <2>2
<1>5. deliveries' \in [Addresses -> Seq(Delivery)]
  BY <1>3, <1>4 DEF TypeOK
<1> QED
  BY <1>4, <1>5, LogsContinue

LEMMA ClaimUnseen ==
    ASSUME TypeOK, OutboxInv, NEW a \in Addresses, NEW i \in DOMAIN deliveries[a],
           ClaimReadyWebhookDelivery(a, i)
    PROVE  UNCHANGED Abstract!avars
<1> DEFINE n == deliveries[a][i].attempts
<1>1. /\ deliveries' = [deliveries EXCEPT ![a] = SetDelivery(deliveries[a], i, "sending", n)]
      /\ UNCHANGED << totals, received >>
  BY DEF ClaimReadyWebhookDelivery
<1>2. deliveries[a] \in Seq(Delivery) /\ i \in 1 .. Len(deliveries[a])
  BY DEF TypeOK
<1>3. deliveries[a][i] \in Delivery
  BY <1>2
<1>4. n \in Nat
  BY <1>3 DEF Delivery
<1> HIDE DEF n
<1>5. "sending" \in OutstandingStates \cup {"succeeded", "permanent_failure"}
  OBVIOUS
<1> QED
  BY <1>1, <1>2, <1>4, <1>5, SetUnseen

LEMMA SetJobUnseen ==
    ASSUME TypeOK, OutboxInv, ~Idle, EndAttempt, UNCHANGED totals,
           NEW state \in {"retry_wait", "permanent_failure"}, SetJob(state)
    PROVE  UNCHANGED Abstract!avars
<1> DEFINE a == job.addr
           i == job.index
           n == deliveries[a][i].attempts + 1
<1>1. /\ a \in Addresses /\ i \in 1 .. Len(deliveries[a]) /\ n \in Nat
  BY JobFacts
<1>2. deliveries' = [deliveries EXCEPT ![a] = SetDelivery(deliveries[a], i, state, n)]
  BY <1>1 DEF SetJob
<1>3. UNCHANGED << totals, received >>
  BY DEF EndAttempt
<1>4. state \in OutstandingStates \cup {"succeeded", "permanent_failure"}
  OBVIOUS
<1> HIDE DEF a, i, n
<1> QED
  BY <1>1, <1>2, <1>3, <1>4, SetUnseen

\* The receiver hears a published event that is newer than what it has.
LEMMA ReceiverHears ==
    ASSUME TypeOK, OutboxInv, NEW m \in wire, ReceiverApplies(m)
    PROVE  (\E a \in Addresses : Abstract!Hear(a)) \/ UNCHANGED Abstract!avars
<1> DEFINE a == m.addr
           event == deliveries[a][m.index]
<1>1. /\ a \in Addresses
      /\ m.index \in 1 .. Len(deliveries[a])
      /\ deliveries[a] \in Seq(Delivery)
  BY DEF TypeOK, OutboxInv, Message
<1>2. UNCHANGED << totals, deliveries >>
  BY DEF ReceiverApplies
<1>3. received' = [received EXCEPT ![a] =
                        IF event.version > received[a].version
                        THEN [version |-> event.version, report |-> event.report]
                        ELSE received[a]]
  BY <1>1 DEF ReceiverApplies, TypeOK
<1>4. CASE event.version > received[a].version
  <2>1. ASSUME NEW b \in Addresses
        PROVE  StampOf(received'[b]) = IF b = a THEN StampOf(event) ELSE StampOf(received[b])
    <3>1. b = a => received'[b] = [version |-> event.version, report |-> event.report]
      BY <1>1, <1>3, <1>4 DEF TypeOK
    <3>2. b # a => received'[b] = received[b]
      BY <1>3 DEF TypeOK
    <3> QED
      BY <3>1, <3>2 DEF StampOf
  <2>2. StampOf(event) \in PublishedOf(deliveries[a])
    BY <1>1 DEF PublishedOf
  <2>3. StampOf(event).version > StampOf(received[a]).version
    BY <1>4 DEF StampOf
  <2> HIDE DEF event, a
  <2>4. Abstract!Hear(a)
    BY <1>1, <1>2, <2>1, <2>2, <2>3 DEF Abstract!Hear
  <2> QED
    BY <1>1, <2>4
<1>5. CASE ~(event.version > received[a].version)
  <2>1. received' = received
    BY <1>1, <1>3, <1>5 DEF TypeOK
  <2> QED
    BY <1>2, <2>1, Unseen
<1> QED
  BY <1>4, <1>5

\* record_webhook_delivery_success: the service learns that the receiver has
\* the event; an older success, or one already acknowledged, teaches nothing.
LEMMA SuccessLearns ==
    ASSUME TypeOK, OutboxInv, RecordWebhookDeliverySuccess
    PROVE  \/ \E b \in Addresses : Abstract!Learn(b)
           \/ \E T \in SUBSET Addresses : Abstract!Publish(T)
           \/ UNCHANGED Abstract!avars
<1> DEFINE a == job.addr
           i == job.index
           old == deliveries[a]
           n == old[i].attempts + 1
           log == SetDelivery(old, i, "succeeded", n)
           row == AckedRow(totals[a], log, i)
<1>1. /\ ~Idle /\ answered /\ UNCHANGED received
  BY DEF RecordWebhookDeliverySuccess, EndAttempt
<1>2. /\ a \in Addresses /\ i \in 1 .. Len(old) /\ old \in Seq(Delivery)
      /\ totals[a] \in Row /\ RowOK(totals[a], old) /\ n \in Nat
  BY <1>1, JobFacts
<1>3. received[a].version >= old[i].version
  BY <1>1 DEF OutboxInv, JobOK
<1>4. CASE NewerIsAcked(totals[a], i)
  <2>1. /\ deliveries' = [deliveries EXCEPT ![a] = SetDelivery(deliveries[a], i, "succeeded", n)]
        /\ UNCHANGED << totals, received >>
    BY <1>1, <1>4 DEF RecordWebhookDeliverySuccess
  <2>2. "succeeded" \in OutstandingStates \cup {"succeeded", "permanent_failure"}
    OBVIOUS
  <2> HIDE DEF a, i, n
  <2>3. i \in 1 .. Len(deliveries[a])
    BY <1>2
  <2> QED
    BY <1>2, <2>1, <2>2, <2>3, SetUnseen
<1>5. CASE ~NewerIsAcked(totals[a], i)
  <2>1. /\ totals' = [totals EXCEPT ![a] = QueuedRow(row, log)]
        /\ deliveries' = [deliveries EXCEPT ![a] = QueuedLog(row, log)]
    BY <1>5 DEF RecordWebhookDeliverySuccess
  <2>2. /\ log \in Seq(Delivery) /\ Len(log) = Len(old)
        /\ \A k \in 1 .. Len(old) :
              log[k].version = old[k].version /\ log[k].report = old[k].report
    <3> HIDE DEF a, i, n, old
    <3>1. "succeeded" \in OutstandingStates \cup {"succeeded", "permanent_failure"}
      OBVIOUS
    <3>2. old \in Seq(Delivery) /\ i \in 1 .. Len(old) /\ n \in Nat
      BY <1>2
    <3>3. log = SetDelivery(old, i, "succeeded", n)
      OBVIOUS
    <3> HIDE DEF log
    <3> QED
      BY <3>1, <3>2, <3>3, SetDeliveryType
  <2>3. /\ Len(old) \in Nat /\ old[i] \in Delivery /\ log[i] \in Delivery
        /\ i \in Nat /\ i # 0
    BY <1>2, <2>2
  <2> HIDE DEF log
  <2>4. /\ row \in Row /\ row.version = totals[a].version
        /\ row.report = totals[a].report /\ row.acked = i
    <3>1. log[i].report \in Report
      BY <2>3 DEF Delivery
    <3> QED
      BY <1>2, <2>3, <3>1 DEF AckedRow, Row
  <2> HIDE DEF row
  <2>5. StampOf(row) = StampOf(totals[a])
    BY <2>4 DEF StampOf
  <2>6. KnownVersion(row, log) = old[i].version
    BY <1>2, <2>2, <2>3, <2>4 DEF KnownVersion
  <2>7. PublishedOf(log) = PublishedOf(old)
    <3>1. Continues(old, log)
      BY <2>2, <2>3 DEF Continues
    <3> QED
      BY <1>2, <2>2, <3>1, SameLog
  <2>8. /\ StampOf(QueuedRow(row, log)) = StampOf(totals[a])
        /\ KnownVersion(QueuedRow(row, log), QueuedLog(row, log)) = old[i].version
        /\ \/ PublishedOf(QueuedLog(row, log)) = PublishedOf(old)
           \/ PublishedOf(QueuedLog(row, log)) = PublishedOf(old) \cup {StampOf(totals[a])}
    <3>1. row.acked \in 0 .. Len(log)
      BY <1>2, <2>2, <2>3, <2>4
    <3> QED
      BY <2>2, <2>4, <2>5, <2>6, <2>7, <3>1, QueueStamps
  <2>9. /\ totals'[a] = QueuedRow(row, log) /\ deliveries'[a] = QueuedLog(row, log)
        /\ \A b \in Addresses : b # a => totals'[b] = totals[b] /\ deliveries'[b] = deliveries[b]
    BY <1>2, <2>1 DEF TypeOK
  <2>10. \A b \in Addresses : StampOf(totals'[b]) = StampOf(totals[b])
    BY <2>8, <2>9
  <2>11. \/ \A b \in Addresses : PublishedOf(deliveries'[b]) = PublishedOf(deliveries[b])
         \/ \A b \in Addresses : PublishedOf(deliveries'[b]) =
                IF b = a THEN PublishedOf(deliveries[a]) \cup {StampOf(totals[a])}
                ELSE PublishedOf(deliveries[b])
    BY <2>8, <2>9
  <2>12. \A b \in Addresses : KnownVersion(totals'[b], deliveries'[b]) =
                IF b = a THEN old[i].version ELSE KnownVersion(totals[b], deliveries[b])
    BY <2>8, <2>9
  <2>13. CASE totals[a].acked = i
    <3>1. KnownVersion(totals[a], deliveries[a]) = old[i].version
      BY <2>3, <2>13 DEF KnownVersion
    <3>2. \A b \in Addresses :
            KnownVersion(totals'[b], deliveries'[b]) = KnownVersion(totals[b], deliveries[b])
      BY <2>12, <3>1
    <3> HIDE DEF a, i, old
    <3>3. CASE \A b \in Addresses : PublishedOf(deliveries'[b]) = PublishedOf(deliveries[b])
      BY <1>1, <2>10, <3>2, <3>3, Unseen
    <3>4. CASE \A b \in Addresses : PublishedOf(deliveries'[b]) =
                IF b = a THEN PublishedOf(deliveries[a]) \cup {StampOf(totals[a])}
                ELSE PublishedOf(deliveries[b])
      <4>1. \A b \in Addresses : PublishedOf(deliveries'[b]) =
                IF b \in {a} THEN PublishedOf(deliveries[b]) \cup {StampOf(totals[b])}
                ELSE PublishedOf(deliveries[b])
        BY <3>4
      <4>2. Abstract!Publish({a})
        BY <1>1, <2>10, <3>2, <4>1 DEF Abstract!Publish
      <4> QED
        BY <1>2, <4>2
    <3> QED
      BY <2>11, <3>3, <3>4
  <2>14. CASE totals[a].acked # i
    <3>1. KnownVersion(totals[a], old) < old[i].version
      <4>1. totals[a].acked < i
        BY <1>2, <1>5, <2>3, <2>14 DEF NewerIsAcked, RowOK
      <4>2. CASE totals[a].acked = 0
        BY <1>2, <2>3, <4>2 DEF KnownVersion, RowOK
      <4>3. CASE totals[a].acked # 0
        <5>1. totals[a].acked \in 1 .. Len(old)
          BY <1>2, <4>3 DEF RowOK
        <5>2. \A j, k \in 1 .. Len(old) : j < k => old[j].version < old[k].version
          BY <1>2 DEF RowOK
        <5>3. old[totals[a].acked].version < old[i].version
          BY <1>2, <4>1, <5>1, <5>2
        <5> QED
          BY <4>3, <5>3 DEF KnownVersion
      <4> QED
        BY <4>2, <4>3
    <3>2. /\ StampOf(old[i]) \in PublishedOf(deliveries[a])
          /\ StampOf(old[i]).version = old[i].version
          /\ StampOf(received[a]).version = received[a].version
      BY <1>2 DEF PublishedOf, StampOf
    <3>3. old[i].version \in Nat /\ received[a].version \in Nat
      BY <1>2, <2>3 DEF Delivery, TypeOK
    <3>4. /\ StampOf(old[i]).version > KnownVersion(totals[a], deliveries[a])
          /\ StampOf(old[i]).version <= StampOf(received[a]).version
      <4>1. KnownVersion(totals[a], old) \in Int
        <5>1. totals[a].acked \in 0 .. Len(old)
          BY <1>2 DEF RowOK
        <5>2. totals[a].acked # 0 => old[totals[a].acked] \in Delivery
          BY <1>2, <5>1
        <5> QED
          BY <5>2 DEF KnownVersion, Delivery
      <4> QED
        BY <1>3, <3>1, <3>2, <3>3, <4>1
    <3> DEFINE event == StampOf(old[i])
    <3>5. \A b \in Addresses : KnownVersion(totals'[b], deliveries'[b]) =
                IF b = a THEN event.version ELSE KnownVersion(totals[b], deliveries[b])
      BY <2>12, <3>2
    <3>6. event \in PublishedOf(deliveries[a])
      BY <3>2
    <3> HIDE DEF event, a, i, old
    <3>7. /\ event.version > KnownVersion(totals[a], deliveries[a])
          /\ event.version <= StampOf(received[a]).version
      BY <3>4 DEF event
    <3>8. Abstract!Learn(a)
      BY <1>1, <1>2, <2>10, <2>11, <3>5, <3>6, <3>7 DEF Abstract!Learn
    <3> QED
      BY <1>2, <3>8
  <2> QED
    BY <2>13, <2>14
<1> QED
  BY <1>4, <1>5

\* The startup recovery rewrites states only.
LEMMA RecoverUnseen ==
    ASSUME TypeOK, OutboxInv, RecoverInterruptedWebhookDeliveries
    PROVE  UNCHANGED Abstract!avars
<1>1. /\ deliveries' = [a \in Addresses |-> RecoveredLog(deliveries[a])]
      /\ UNCHANGED << totals, received >>
  BY DEF RecoverInterruptedWebhookDeliveries
<1>2. ASSUME NEW a \in Addresses
      PROVE  /\ deliveries'[a] \in Seq(Delivery)
             /\ Len(deliveries'[a]) = Len(deliveries[a])
             /\ Continues(deliveries[a], deliveries'[a])
  <2>1. deliveries[a] \in Seq(Delivery) /\ deliveries'[a] = RecoveredLog(deliveries[a])
    BY <1>1 DEF TypeOK
  <2>2. Len(deliveries[a]) \in Nat
    BY <2>1
  <2> QED
    BY <2>1, <2>2, RecoveredType DEF Continues
<1>3. deliveries' \in [Addresses -> Seq(Delivery)]
  BY <1>1, <1>2
<1> QED
  BY <1>1, <1>2, <1>3, LogsContinue

-----------------------------------------------------------------------------
\* Every step of the outbox is a step of the register or a stutter.
LEMMA StepSimulation ==
    ASSUME TypeOK, OutboxInv, [Next]_vars
    PROVE  [Abstract!Next]_(Abstract!avars)
<1>1. ASSUME NEW S \in SUBSET Addresses, RecomputeAddressTotals(S) PROVE Abstract!Next
  BY <1>1, RecomputeChanges DEF Abstract!Next
<1>2. CASE QueueWebhookDeliveriesForDirtyAddresses
  BY <1>2, QueueTxPublishes DEF QueueWebhookDeliveriesForDirtyAddresses, Abstract!Next
<1>3. CASE QueueAllDirtyWebhookDeliveries
  <2> DEFINE D == {a \in Addresses : totals[a].dirty = "dirty"}
  <2>1. QueueTx(D) /\ UNCHANGED received
    BY <1>3 DEF QueueAllDirtyWebhookDeliveries
  <2> HIDE DEF D
  <2> QED
    BY <2>1, QueueTxPublishes DEF Abstract!Next
<1>4. ASSUME UNCHANGED << totals, deliveries, received >> PROVE UNCHANGED Abstract!avars
  BY <1>4, Unseen
<1>5. CASE SyncIterationFails \/ RecordOutcomeFails \/ Crash \/ UNCHANGED vars
  BY <1>4, <1>5 DEF SyncIterationFails, RecordOutcomeFails, EndAttempt, Crash, vars
<1>6. ASSUME NEW a \in Addresses, NEW i \in DOMAIN deliveries[a],
             ClaimReadyWebhookDelivery(a, i)
      PROVE  UNCHANGED Abstract!avars
  BY <1>6, ClaimUnseen
<1>7. CASE RecordWebhookDeliverySuccess
  BY <1>7, SuccessLearns DEF Abstract!Next
<1>8. CASE RecordWebhookDeliveryRetry
  BY <1>8, SetJobUnseen DEF RecordWebhookDeliveryRetry
<1>9. CASE RecordWebhookDeliveryPermanentFailure
  BY <1>9, SetJobUnseen DEF RecordWebhookDeliveryPermanentFailure
<1>10. ASSUME NEW m \in wire, ReceiverApplies(m)
       PROVE  Abstract!Next \/ UNCHANGED Abstract!avars
  BY <1>10, ReceiverHears DEF Abstract!Next
<1>11. ASSUME NEW n \in Settings \cup {-1}, Initialize(n) PROVE UNCHANGED Abstract!avars
  BY <1>11, InitializeUnseen
<1>12. CASE RecoverInterruptedWebhookDeliveries
  BY <1>12, RecoverUnseen
<1> QED
  BY <1>1, <1>2, <1>3, <1>5, <1>6, <1>7, <1>8, <1>9, <1>10, <1>11, <1>12
  DEF Next, Worker, Startup

LEMMA InitSimulation == Init => Abstract!Init
<1> SUFFICES ASSUME Init PROVE Abstract!Init
  OBVIOUS
<1>1. ASSUME NEW a \in Addresses
      PROVE  /\ StampOf(totals[a]) = [version |-> 0, total |-> 0]
             /\ PublishedOf(deliveries[a]) = {}
             /\ StampOf(received[a]) = [version |-> 0, total |-> 0]
             /\ KnownVersion(totals[a], deliveries[a]) = 0
  BY DEF Init, StampOf, PublishedOf, KnownVersion, FreshRow, FreshReport
<1> QED
  BY <1>1 DEF Abstract!Init, Abstract!Unstamped

\* Refinement: the webhook outbox is a versioned register.  No version is used
\* for two totals, an event carries the total that was current when it was
\* queued, the receiver moves to newer published totals only, and what the
\* service takes for acknowledged was heard, for every set of addresses and
\* totals, every attempt limit and every combination of faults.
THEOREM Refinement == Spec => ImplementsReportedTotal
<1>1. TypeOK /\ OutboxInv /\ [Next]_vars => [Abstract!Next]_(Abstract!avars)
  BY StepSimulation
<1> QED
  BY <1>1, InitSimulation, Invariance, PTL DEF Spec, ImplementsReportedTotal, Abstract!Spec
=============================================================================
