----------------------- MODULE DownloadPipelineProofs -----------------------
(***************************************************************************)
(* Proofs about DownloadPipeline, for every concurrency, channel depth,    *)
(* batch size and range of heights below MaxU32.                           *)
(***************************************************************************)
EXTENDS DownloadPipeline, SyncPlanProofs

-----------------------------------------------------------------------------
(* Queues of fetches that tile a range of heights.                         *)

\* A fetch that starts where the queue ends extends it.
LEMMA TilesAppend ==
    ASSUME NEW q \in Seq(Fetch), NEW x \in Fetch, NEW from, NEW to,
           Tiles(q, from, to), x.batch.start = to
    PROVE  Tiles(Append(q, x), from, x.batch.end + 1)
<1> DEFINE r == Append(q, x)
<1>1. /\ Len(r) = Len(q) + 1 /\ Len(q) \in Nat /\ r # << >>
      /\ r[Len(r)] = x
      /\ \A k \in 1 .. Len(q) : r[k] = q[k]
  OBVIOUS
<1> HIDE DEF r
<1>2. CASE q = << >>
  <2>1. Len(q) = 0 /\ from = to
    BY <1>2 DEF Tiles
  <2> QED
    BY <1>1, <2>1 DEF Tiles, r
<1>3. CASE q # << >>
  <2>1. Len(q) > 0
    BY <1>3
  <2>2. r[1].batch.start = from
    BY <1>1, <1>3, <2>1 DEF Tiles
  <2>3. ASSUME NEW k \in 1 .. (Len(r) - 1)
        PROVE  r[k + 1].batch.start = r[k].batch.end + 1
    <3>1. CASE k < Len(q)
      <4>1. k \in 1 .. (Len(q) - 1) /\ k + 1 \in 1 .. Len(q) /\ k \in 1 .. Len(q)
        BY <1>1, <3>1
      <4> QED
        BY <1>1, <1>3, <4>1 DEF Tiles
    <3>2. CASE k = Len(q)
      <4>1. r[k + 1] = x /\ r[k] = q[k]
        BY <1>1, <2>1, <3>2
      <4> QED
        BY <1>3, <3>2, <4>1 DEF Tiles
    <3> QED
      BY <1>1, <3>1, <3>2
  <2> QED
    BY <1>1, <2>2, <2>3 DEF Tiles, r
<1> QED
  BY <1>2, <1>3

\* Taking the first fetch leaves a queue that starts after it.
LEMMA TilesTail ==
    ASSUME NEW q \in Seq(Fetch), q # << >>, NEW from, NEW to, Tiles(q, from, to)
    PROVE  /\ Head(q).batch.start = from
           /\ Tiles(Tail(q), Head(q).batch.end + 1, to)
<1> DEFINE r == Tail(q)
<1>1. /\ Len(q) \in Nat /\ Len(q) > 0
      /\ Len(r) = Len(q) - 1 /\ r \in Seq(Fetch)
      /\ \A k \in 1 .. Len(r) : r[k] = q[k + 1]
      /\ Head(q) = q[1]
  OBVIOUS
<1> HIDE DEF r
<1>2. q[1].batch.start = from
  BY DEF Tiles
<1>3. CASE Len(q) = 1
  <2>1. r = << >> /\ q[1].batch.end + 1 = to
    BY <1>1, <1>3 DEF Tiles
  <2> QED
    BY <1>1, <1>2, <2>1 DEF Tiles, r
<1>4. CASE Len(q) > 1
  <2>1. r # << >> /\ 1 \in 1 .. Len(r) /\ Len(r) \in 1 .. Len(r)
    BY <1>1, <1>4
  <2>2. r[1].batch.start = q[1].batch.end + 1
    BY <1>1, <1>4, <2>1 DEF Tiles
  <2>3. ASSUME NEW k \in 1 .. (Len(r) - 1)
        PROVE  r[k + 1].batch.start = r[k].batch.end + 1
    <3>1. k \in 1 .. Len(r) /\ k + 1 \in 1 .. Len(r) /\ k + 1 \in 1 .. (Len(q) - 1)
      BY <1>1
    <3>2. r[k] = q[k + 1] /\ r[k + 1] = q[(k + 1) + 1]
      BY <1>1, <3>1
    <3> QED
      BY <3>1, <3>2 DEF Tiles
  <2>4. r[Len(r)].batch.end + 1 = to
    BY <1>1, <2>1 DEF Tiles
  <2> QED
    BY <1>1, <1>2, <2>1, <2>2, <2>3, <2>4 DEF Tiles, r
<1> QED
  BY <1>1, <1>3, <1>4

\* What a queue tiles depends on its batches only.
LEMMA TilesSame ==
    ASSUME NEW q \in Seq(Fetch), NEW r \in Seq(Fetch), Len(r) = Len(q),
           \A k \in 1 .. Len(q) : r[k].batch = q[k].batch,
           NEW from, NEW to, Tiles(q, from, to)
    PROVE  Tiles(r, from, to)
<1>1. CASE q = << >>
  <2>1. r = << >>
    BY <1>1
  <2> QED
    BY <1>1, <2>1 DEF Tiles
<1>2. CASE q # << >>
  <2>1. r # << >> /\ Len(q) \in Nat /\ Len(q) > 0
    BY <1>2
  <2>2. \A k \in 1 .. (Len(q) - 1) :
            r[k + 1].batch = q[k + 1].batch /\ r[k].batch = q[k].batch
    BY <2>1
  <2> QED
    BY <1>2, <2>1, <2>2 DEF Tiles
<1> QED
  BY <1>1, <1>2

\* A single fetch tiles its own batch.
LEMMA TilesOne ==
    ASSUME NEW x \in Fetch
    PROVE  Tiles(<< x >>, x.batch.start, x.batch.end + 1)
  BY DEF Tiles
-----------------------------------------------------------------------------
(* PipelineInv is inductive: one lemma per action.                         *)

LEMMA InitInv == Init => PipelineInv
<1> SUFFICES ASSUME Init PROVE PipelineInv
  OBVIOUS
<1>1. /\ first \in Heights /\ final \in Heights /\ final < MaxU32
      /\ size \in Nat \ {0} /\ first <= final /\ first \in Nat
  BY PipelineAssumption, WidthAssumption DEF Init, Heights
<1>2. /\ nextBatch \in ScanBatch /\ nextBatch # NoBatch
      /\ nextBatch.start = first /\ nextBatch.end <= final
  BY <1>1, NextBatch DEF Init
<1>3. TypeOK
  BY <1>1, <1>2, NoBatchType, PipelineAssumption DEF Init, TypeOK, Heights
<1>4. InOrder /\ Complete /\ InFlightBound /\ ErrorIsLast
  BY PipelineAssumption DEF Init, InOrder, Complete, InFlightBound, ErrorIsLast
<1>5. NextWithin /\ OpenWhileScanning /\ StoppedIsEmpty
  BY <1>1, <1>2 DEF Init, NextWithin, OpenWhileScanning, StoppedIsEmpty
<1>6. Tiles(channel, Expected, first) /\ RestTiled(first)
  BY <1>1, <1>2 DEF Init, Tiles, Expected, RestTiled, SpawnFrom, Heights
<1> QED
  BY <1>1, <1>3, <1>4, <1>5, <1>6 DEF PipelineInv, RangeTiled

\* Spawning: the new fetch starts where the queue ends, and the batch after it
\* where the new fetch ends; past the tip there is none.
LEMMA SpawnInv == PipelineInv /\ Spawn => PipelineInv'
<1> SUFFICES ASSUME PipelineInv, Spawn PROVE PipelineInv'
  OBVIOUS
<1> DEFINE x == [batch |-> nextBatch, state |-> "running"]
<1>1. /\ nextBatch \in ScanBatch /\ nextBatch # NoBatch
      /\ nextBatch.end <= final /\ nextBatch.start <= final
      /\ nextBatch.end \in Nat /\ nextBatch.start \in Nat
      /\ final \in Heights /\ final < MaxU32 /\ MaxU32 \in Nat /\ size \in Nat \ {0}
  BY PipelineAssumption, WidthAssumption
  DEF PipelineInv, TypeOK, NextWithin, Spawn, ScanBatch, Heights
<1>2. SaturatingAdd(nextBatch.end, 1) = nextBatch.end + 1
  BY <1>1 DEF SaturatingAdd, Lower, Heights
<1>3. /\ nextBatch.end + 1 > final => nextBatch' = NoBatch
      /\ nextBatch.end + 1 <= final =>
            /\ nextBatch' \in ScanBatch /\ nextBatch' # NoBatch
            /\ nextBatch'.start = nextBatch.end + 1
            /\ nextBatch'.end \in (nextBatch.end + 1) .. final
  BY <1>1, <1>2, NextBatch DEF Spawn
<1>4. x \in Fetch /\ x.batch = nextBatch
  BY <1>1 DEF Fetch
<1>5. /\ inFlight \in Seq(Fetch) /\ inFlight' = Append(inFlight, x)
      /\ Len(inFlight) < Concurrency /\ head = << >> /\ head' = << >>
  BY DEF PipelineInv, TypeOK, Spawn
<1> HIDE DEF x
<1>6. inFlight' \in Seq(Fetch) /\ Len(inFlight') <= Concurrency
  BY <1>4, <1>5, PipelineAssumption
<1>7. TypeOK'
  BY <1>1, <1>3, <1>6, NoBatchType DEF PipelineInv, TypeOK, Spawn, plan, Heights
<1>8. InOrder' /\ Complete' /\ ErrorIsLast'
  BY DEF PipelineInv, InOrder, Complete, ErrorIsLast, Spawn, plan
<1>9. InFlightBound'
  BY <1>4, <1>5, PipelineAssumption DEF InFlightBound
<1>10. NextWithin' /\ OpenWhileScanning' /\ StoppedIsEmpty'
  BY <1>1, <1>3 DEF PipelineInv, NextWithin, OpenWhileScanning, StoppedIsEmpty, Spawn, plan, Heights
<1>11. SpawnFrom = nextBatch.start /\ SpawnFrom' = nextBatch.end + 1
  BY <1>1, <1>3 DEF SpawnFrom, Spawn, plan, Heights
<1>12. RangeTiled'
  <2> SUFFICES ASSUME open PROVE \E m \in Heights : Tiles(channel', Expected', m) /\ RestTiled(m)'
    BY DEF RangeTiled, Spawn
  <2>1. PICK m \in Heights : Tiles(channel, Expected, m) /\ RestTiled(m)
    BY DEF PipelineInv, RangeTiled
  <2>2. PICK n \in Heights : Tiles(head, m, n) /\ Tiles(inFlight, n, nextBatch.start)
    BY <1>11, <2>1 DEF RestTiled, Spawn
  <2>3. Tiles(inFlight', n, nextBatch.end + 1)
    BY <1>4, <1>5, <2>2, TilesAppend
  <2>4. RestTiled(m)'
    BY <1>5, <1>11, <2>2, <2>3 DEF RestTiled, Spawn
  <2>5. Tiles(channel', Expected', m)
    BY <2>1 DEF Spawn, Expected
  <2> QED
    BY <2>4, <2>5
<1> QED
  BY <1>7, <1>8, <1>9, <1>10, <1>12 DEF PipelineInv

\* Popping: the oldest fetch starts where the channel ends.
LEMMA PopInv == PipelineInv /\ PopHandle => PipelineInv'
<1> SUFFICES ASSUME PipelineInv, PopHandle PROVE PipelineInv'
  OBVIOUS
<1>1. /\ inFlight \in Seq(Fetch) /\ inFlight # << >> /\ Len(inFlight) <= Concurrency
      /\ head = << >> /\ head' = << Head(inFlight) >> /\ inFlight' = Tail(inFlight)
  BY DEF PipelineInv, TypeOK, PopHandle
<1>2. /\ Head(inFlight) \in Fetch /\ head' \in Seq(Fetch) /\ Len(head') = 1
      /\ inFlight' \in Seq(Fetch) /\ Len(inFlight') = Len(inFlight) - 1
      /\ Len(inFlight) \in Nat
  BY <1>1
<1>3. TypeOK'
  <2>1. Len(inFlight') <= Concurrency /\ Len(head') <= 1
    BY <1>1, <1>2, PipelineAssumption
  <2> QED
    BY <1>2, <2>1 DEF PipelineInv, TypeOK, PopHandle, plan
<1>4. InOrder' /\ Complete' /\ ErrorIsLast'
  BY DEF PipelineInv, InOrder, Complete, ErrorIsLast, PopHandle, plan
<1>5. InFlightBound'
  BY <1>1, <1>2, PipelineAssumption DEF InFlightBound
<1>6. NextWithin' /\ OpenWhileScanning' /\ StoppedIsEmpty'
  BY DEF PipelineInv, NextWithin, OpenWhileScanning, StoppedIsEmpty, PopHandle, plan
<1>7. RangeTiled'
  <2> SUFFICES ASSUME open PROVE \E m \in Heights : Tiles(channel', Expected', m) /\ RestTiled(m)'
    BY DEF RangeTiled, PopHandle
  <2>1. PICK m \in Heights : Tiles(channel, Expected, m) /\ RestTiled(m)
    BY DEF PipelineInv, RangeTiled
  <2>2. PICK n \in Heights : Tiles(head, m, n) /\ Tiles(inFlight, n, SpawnFrom)
    BY <2>1 DEF RestTiled, PopHandle
  <2>3. m = n
    BY <1>1, <2>2 DEF Tiles
  <2> DEFINE x == Head(inFlight)
             k == x.batch.end + 1
  <2>4. x.batch.start = m /\ Tiles(inFlight', k, SpawnFrom)
    BY <1>1, <2>2, <2>3, TilesTail
  <2>5. Tiles(head', m, k)
    BY <1>1, <1>2, <2>4, TilesOne
  <2>6. k \in Heights
    \* The queue has a height after its first batch: the start of the next one,
    \* of the batch to be spawned, or the one after the tip.
    <3>1. /\ final \in Nat /\ final < MaxU32 /\ MaxU32 \in Nat
          /\ nextBatch \in ScanBatch
      BY PipelineAssumption, WidthAssumption DEF PipelineInv, TypeOK, Heights
    <3>2. CASE inFlight' = << >>
      <4>1. k = SpawnFrom
        BY <2>4, <3>2 DEF Tiles
      <4> QED
        BY <3>1, <4>1 DEF SpawnFrom, ScanBatch, Heights
    <3>3. CASE inFlight' # << >>
      <4>1. inFlight'[1] \in Fetch /\ inFlight'[1].batch.start = k
        BY <1>2, <2>4, <3>3 DEF Tiles
      <4> QED
        BY <4>1 DEF Fetch, ScanBatch
    <3> QED
      BY <3>2, <3>3
  <2> HIDE DEF k
  <2>7. SpawnFrom' = SpawnFrom
    BY DEF SpawnFrom, PopHandle, plan
  <2>8. RestTiled(m)'
    BY <2>4, <2>5, <2>6, <2>7 DEF RestTiled, PopHandle
  <2>9. Tiles(channel', Expected', m)
    BY <2>1 DEF PopHandle, Expected
  <2> QED
    BY <2>8, <2>9
<1> QED
  BY <1>3, <1>4, <1>5, <1>6, <1>7 DEF PipelineInv

\* Returning with every batch sent: the channel ends at the tip.
LEMMA DoneInv == PipelineInv /\ DownloadsDone => PipelineInv'
<1> SUFFICES ASSUME PipelineInv, DownloadsDone PROVE PipelineInv'
  OBVIOUS
<1>1. TypeOK'
  BY DEF PipelineInv, TypeOK, DownloadsDone, plan
<1>2. InOrder' /\ Complete' /\ InFlightBound' /\ ErrorIsLast'
  BY DEF PipelineInv, InOrder, Complete, InFlightBound, ErrorIsLast, DownloadsDone, plan
<1>3. NextWithin' /\ OpenWhileScanning' /\ StoppedIsEmpty'
  BY DEF PipelineInv, NextWithin, OpenWhileScanning, StoppedIsEmpty, DownloadsDone, plan
<1>4. RangeTiled'
  <2> SUFFICES ASSUME open PROVE \E m \in Heights : Tiles(channel', Expected', m) /\ RestTiled(m)'
    BY DEF RangeTiled, DownloadsDone
  <2>1. PICK m \in Heights : Tiles(channel, Expected, m) /\ RestTiled(m)
    BY DEF PipelineInv, RangeTiled
  <2>2. m = final + 1
    BY <2>1 DEF RestTiled, DownloadsDone, Tiles, SpawnFrom
  <2> QED
    BY <2>1, <2>2 DEF RestTiled, DownloadsDone, Expected, plan
<1> QED
  BY <1>1, <1>2, <1>3, <1>4 DEF PipelineInv

\* What abort_all leaves.
LEMMA StopType ==
    ASSUME NEW result, Stop(result)
    PROVE  /\ inFlight' = << >> /\ head' = << >> /\ nextBatch' = NoBatch
           /\ inFlight' \in Seq(Fetch) /\ head' \in Seq(Fetch)
           /\ nextBatch' \in ScanBatch
           /\ Len(inFlight') = 0 /\ Len(head') = 0 /\ downloader' = result
  BY NoBatchType DEF Stop

LEMMA PanicInv == PipelineInv /\ FetchPanicked => PipelineInv'
<1> SUFFICES ASSUME PipelineInv, FetchPanicked PROVE PipelineInv'
  OBVIOUS
<1>1. /\ inFlight' = << >> /\ head' = << >> /\ nextBatch' = NoBatch
      /\ inFlight' \in Seq(Fetch) /\ head' \in Seq(Fetch) /\ nextBatch' \in ScanBatch
      /\ Len(inFlight') = 0 /\ Len(head') = 0 /\ downloader' = "error"
  BY StopType DEF FetchPanicked
<1>2. TypeOK'
  BY <1>1, PipelineAssumption DEF PipelineInv, TypeOK, FetchPanicked, plan
<1>3. InOrder' /\ Complete'
  BY DEF PipelineInv, InOrder, Complete, FetchPanicked, plan
<1>4. InFlightBound' /\ NextWithin' /\ OpenWhileScanning' /\ StoppedIsEmpty'
  BY <1>1, PipelineAssumption
  DEF PipelineInv, InFlightBound, NextWithin, OpenWhileScanning, StoppedIsEmpty, FetchPanicked
<1>5. ErrorIsLast'
  BY DEF PipelineInv, ErrorIsLast, FetchPanicked
<1>6. RangeTiled'
  BY <1>1 DEF PipelineInv, RangeTiled, RestTiled, FetchPanicked, Expected
<1> QED
  BY <1>2, <1>3, <1>4, <1>5, <1>6 DEF PipelineInv

LEMMA AtMostOne ==
    ASSUME NEW q \in Seq(Fetch), Len(q) <= 1, q # << >>
    PROVE  Len(q) = 1 /\ q[1] \in Fetch
<1>1. Len(q) \in Nat /\ Len(q) # 0
  OBVIOUS
<1>2. Len(q) = 1
  BY <1>1
<1> QED
  BY <1>2

\* Sending: a block goes to the end of the channel; a failed fetch goes there
\* too and is the last.
LEMMA SendInv == PipelineInv /\ Send => PipelineInv'
<1> SUFFICES ASSUME PipelineInv, Send PROVE PipelineInv'
  OBVIOUS
<1> DEFINE x == head[1]
<1>1. /\ head \in Seq(Fetch) /\ Len(head) = 1 /\ x \in Fetch
      /\ head # << >> /\ x.state \in {"ok", "error"}
  <2>1. head \in Seq(Fetch) /\ Len(head) <= 1
    BY DEF PipelineInv, TypeOK
  <2>2. head # << >>
    BY DEF Send
  <2>3. Len(head) = 1 /\ head[1] \in Fetch
    BY <2>1, <2>2, AtMostOne
  <2>4. x.state \in {"ok", "error"}
    BY DEF Send
  <2> QED
    BY <2>1, <2>2, <2>3, <2>4
<1>2. /\ channel \in Seq(Fetch) /\ channel' = Append(channel, x)
      /\ Len(channel) < Depth /\ Len(channel) \in Nat
  BY DEF PipelineInv, TypeOK, Send
<1>3. head = << x >>
  BY <1>1
<1> HIDE DEF x
<1>4. /\ channel' \in Seq(Fetch) /\ Len(channel') = Len(channel) + 1
      /\ channel' # << >> /\ channel'[Len(channel')] = x
      /\ \A k \in 1 .. Len(channel) : channel'[k] = channel[k]
  BY <1>1, <1>2
<1>5. Len(channel') <= Depth
  BY <1>2, <1>4, PipelineAssumption
<1>6. \A k \in 1 .. Len(channel) : channel[k].state = "ok"
  BY DEF PipelineInv, ErrorIsLast, Send
<1>7. PICK m \in Heights : Tiles(channel, Expected, m) /\ RestTiled(m)
  BY DEF PipelineInv, RangeTiled, Send
<1>8. PICK n \in Heights : Tiles(head, m, n) /\ Tiles(inFlight, n, SpawnFrom)
  BY <1>7 DEF RestTiled, Send
<1>9. x.batch.start = m /\ x.batch.end + 1 = n
  BY <1>1, <1>3, <1>8 DEF Tiles
<1>10. Tiles(channel', Expected', n)
  <2>1. Tiles(channel', Expected, n)
    BY <1>1, <1>2, <1>7, <1>9, TilesAppend
  <2> QED
    BY <2>1 DEF Send, Expected, plan
<1>11. InOrder' /\ Complete' /\ OpenWhileScanning'
  BY DEF PipelineInv, InOrder, Complete, OpenWhileScanning, Send, plan
<1>12. CASE x.state = "ok"
  <2>1. /\ head' = << >> /\ head' \in Seq(Fetch) /\ Len(head') = 0
        /\ UNCHANGED << nextBatch, inFlight, downloader >>
    BY <1>12 DEF Send, x
  <2>2. TypeOK'
    BY <1>4, <1>5, <2>1 DEF PipelineInv, TypeOK, Send, plan
  <2>3. InFlightBound' /\ NextWithin' /\ StoppedIsEmpty'
    BY <1>1, <2>1, PipelineAssumption
    DEF PipelineInv, TypeOK, InFlightBound, NextWithin, StoppedIsEmpty, Send, plan
  <2>4. ErrorIsLast'
    <3> SUFFICES ASSUME NEW k \in 1 .. Len(channel') PROVE channel'[k].state = "ok"
      BY DEF ErrorIsLast
    <3> QED
      BY <1>2, <1>4, <1>6, <1>12
  <2>5. RestTiled(n)'
    <3>1. Tiles(head', n, n) /\ Tiles(inFlight', n, SpawnFrom')
      BY <1>8, <2>1 DEF Tiles, SpawnFrom, Send, plan
    <3> QED
      BY <2>1, <3>1 DEF RestTiled, Send
  <2> QED
    BY <1>10, <1>11, <2>2, <2>3, <2>4, <2>5 DEF PipelineInv, RangeTiled
<1>13. CASE x.state = "error"
  <2>1. Stop("ok")
    BY <1>13 DEF Send, x
  <2>2. /\ inFlight' = << >> /\ head' = << >> /\ nextBatch' = NoBatch
        /\ inFlight' \in Seq(Fetch) /\ head' \in Seq(Fetch) /\ nextBatch' \in ScanBatch
        /\ Len(inFlight') = 0 /\ Len(head') = 0 /\ downloader' = "ok"
    BY <2>1, StopType
  <2>3. TypeOK'
    BY <1>4, <1>5, <2>2, PipelineAssumption DEF PipelineInv, TypeOK, Send, plan
  <2>4. InFlightBound' /\ NextWithin' /\ StoppedIsEmpty'
    BY <2>2, PipelineAssumption DEF InFlightBound, NextWithin, StoppedIsEmpty
  <2>5. ErrorIsLast'
    <3> SUFFICES ASSUME NEW k \in 1 .. Len(channel')
                 PROVE  k = Len(channel') \/ channel'[k].state = "ok"
      BY <1>4, <1>13, <2>2 DEF ErrorIsLast
    <3> QED
      BY <1>2, <1>4, <1>6
  <2>6. RestTiled(n)'
    BY <1>4, <1>13, <2>2 DEF RestTiled
  <2> QED
    BY <1>10, <1>11, <2>3, <2>4, <2>5, <2>6 DEF PipelineInv, RangeTiled
<1> QED
  BY <1>1, <1>12, <1>13

LEMMA SendRefusedInv == PipelineInv /\ SendRefused => PipelineInv'
<1> SUFFICES ASSUME PipelineInv, SendRefused PROVE PipelineInv'
  OBVIOUS
<1>1. /\ inFlight' = << >> /\ head' = << >> /\ nextBatch' = NoBatch
      /\ inFlight' \in Seq(Fetch) /\ head' \in Seq(Fetch) /\ nextBatch' \in ScanBatch
      /\ Len(inFlight') = 0 /\ Len(head') = 0 /\ downloader' = "ok"
  BY StopType DEF SendRefused
<1>2. TypeOK'
  BY <1>1, PipelineAssumption DEF PipelineInv, TypeOK, SendRefused, plan
<1>3. InOrder' /\ Complete' /\ OpenWhileScanning' /\ ErrorIsLast'
  BY DEF PipelineInv, InOrder, Complete, OpenWhileScanning, ErrorIsLast, SendRefused, plan
<1>4. InFlightBound' /\ NextWithin' /\ StoppedIsEmpty'
  BY <1>1, PipelineAssumption DEF InFlightBound, NextWithin, StoppedIsEmpty
<1>5. RangeTiled'
  BY DEF RangeTiled, SendRefused
<1> QED
  BY <1>2, <1>3, <1>4, <1>5 DEF PipelineInv

\* A fetch ends: no batch changes, whichever fetch it is.
LEMMA FetchEndsInv ==
    ASSUME PipelineInv, NEW outcome \in Outcome, FetchEnds(outcome)
    PROVE  PipelineInv'
<1>1. /\ inFlight \in Seq(Fetch) /\ head \in Seq(Fetch)
      /\ Len(inFlight) <= Concurrency /\ Len(head) <= 1
  BY DEF PipelineInv, TypeOK
<1> DEFINE SameBatches ==
        /\ inFlight' \in Seq(Fetch) /\ Len(inFlight') = Len(inFlight)
        /\ head' \in Seq(Fetch) /\ Len(head') = Len(head)
        /\ \A k \in 1 .. Len(inFlight) : inFlight'[k].batch = inFlight[k].batch
        /\ \A k \in 1 .. Len(head) : head'[k].batch = head[k].batch
<1>2. SameBatches
  <2>1. ASSUME NEW i \in DOMAIN inFlight,
               inFlight' = [inFlight EXCEPT ![i].state = outcome], UNCHANGED head
        PROVE  SameBatches
    <3>1. /\ inFlight[i] \in Fetch /\ DOMAIN inFlight = 1 .. Len(inFlight)
          /\ Len(inFlight) \in Nat
      BY <1>1
    <3> DEFINE y == [inFlight[i] EXCEPT !.state = outcome]
    <3>2. y \in Fetch /\ y.batch = inFlight[i].batch
      BY <3>1 DEF Fetch, Outcome
    <3>3. inFlight' = [inFlight EXCEPT ![i] = y]
      BY <2>1
    <3> HIDE DEF y
    <3>4. inFlight' \in Seq(Fetch) /\ Len(inFlight') = Len(inFlight)
      BY <1>1, <3>1, <3>2, <3>3
    <3>5. \A k \in 1 .. Len(inFlight) : inFlight'[k].batch = inFlight[k].batch
      BY <1>1, <3>1, <3>2, <3>3
    <3> QED
      BY <1>1, <2>1, <3>4, <3>5
  <2>2. ASSUME head # << >>, head' = << [head[1] EXCEPT !.state = outcome] >>, UNCHANGED inFlight
        PROVE  SameBatches
    <3>1. Len(head) = 1 /\ head[1] \in Fetch
      BY <1>1, <2>2
    <3> DEFINE y == [head[1] EXCEPT !.state = outcome]
    <3>2. y \in Fetch /\ y.batch = head[1].batch
      BY <3>1 DEF Fetch, Outcome
    <3>3. head' = << y >>
      BY <2>2
    <3> HIDE DEF y
    <3>4. head' \in Seq(Fetch) /\ Len(head') = 1 /\ head'[1] = y
      BY <3>2, <3>3
    <3> QED
      BY <1>1, <2>2, <3>1, <3>2, <3>4
  <2> QED
    BY <2>1, <2>2 DEF FetchEnds
<1>3. TypeOK'
  BY <1>1, <1>2 DEF PipelineInv, TypeOK, FetchEnds, plan
<1>4. InOrder' /\ Complete' /\ ErrorIsLast' /\ NextWithin' /\ OpenWhileScanning'
  BY DEF PipelineInv, InOrder, Complete, ErrorIsLast, NextWithin, OpenWhileScanning,
         FetchEnds, plan
<1>5. InFlightBound'
  BY <1>2 DEF PipelineInv, InFlightBound
<1>6. StoppedIsEmpty'
  BY <1>1, <1>2 DEF PipelineInv, StoppedIsEmpty, FetchEnds
<1>7. RangeTiled'
  <2> SUFFICES ASSUME open PROVE \E m \in Heights : Tiles(channel', Expected', m) /\ RestTiled(m)'
    BY DEF RangeTiled, FetchEnds
  <2>1. PICK m \in Heights : Tiles(channel, Expected, m) /\ RestTiled(m)
    BY DEF PipelineInv, RangeTiled
  <2>2. Tiles(channel', Expected', m)
    BY <2>1 DEF FetchEnds, Expected
  <2>3. ASSUME NEW n \in Heights, Tiles(head, m, n), Tiles(inFlight, n, SpawnFrom)
        PROVE  Tiles(head', m, n) /\ Tiles(inFlight', n, SpawnFrom')
    <3>1. SpawnFrom' = SpawnFrom
      BY DEF SpawnFrom, FetchEnds, plan
    <3>2. Tiles(head', m, n)
      BY <1>1, <1>2, <2>3, TilesSame
    <3>3. Tiles(inFlight', n, SpawnFrom)
      BY <1>1, <1>2, <2>3, TilesSame
    <3> QED
      BY <3>1, <3>2, <3>3
  <2>4. RestTiled(m)'
    BY <2>1, <2>3 DEF RestTiled, FetchEnds, plan
  <2> QED
    BY <2>2, <2>4
<1> QED
  BY <1>3, <1>4, <1>5, <1>6, <1>7 DEF PipelineInv

\* Returning early drops the receiver, and the tiling with it.
LEMMA ReturnErrorInv ==
    ASSUME PipelineInv, Return("error"),
           UNCHANGED << plan, nextBatch, inFlight, head, downloader, current, reached >>
    PROVE  PipelineInv'
<1>1. /\ channel' \in Seq(Fetch) /\ Len(channel') = 0 /\ channel' = << >>
      /\ scanner' = "error"
  BY DEF Return
<1>2. open' \in BOOLEAN /\ ~open' /\ open' = FALSE
  BY DEF Return
<1>3. TypeOK' /\ InOrder' /\ Complete' /\ OpenWhileScanning' /\ RangeTiled'
  <2>1. TypeOK'
    BY <1>1, <1>2, PipelineAssumption DEF PipelineInv, TypeOK, plan
  <2>2. InOrder' /\ Complete'
    BY <1>1 DEF InOrder, Complete
  <2>3. OpenWhileScanning'
    BY <1>1, <1>2 DEF OpenWhileScanning
  <2>4. RangeTiled'
    BY <1>2 DEF RangeTiled
  <2> QED
    BY <2>1, <2>2, <2>3, <2>4
<1>4. ErrorIsLast'
  BY <1>1 DEF ErrorIsLast
<1>5. InFlightBound' /\ NextWithin' /\ StoppedIsEmpty'
  BY DEF PipelineInv, InFlightBound, NextWithin, StoppedIsEmpty, plan
<1> QED
  BY <1>3, <1>4, <1>5 DEF PipelineInv

\* Receiving: the oldest result starts right after the recorded height.
LEMMA ReceiveInv == PipelineInv /\ Receive => PipelineInv'
<1> SUFFICES ASSUME PipelineInv, Receive PROVE PipelineInv'
  OBVIOUS
<1> DEFINE x == Head(channel)
<1>1. CASE x.state = "error"
  BY <1>1, ReturnErrorInv DEF Receive
<1>2. CASE x.state = "ok"
  <2>1. /\ channel \in Seq(Fetch) /\ channel # << >> /\ scanner = "receiving"
        /\ channel' = Tail(channel) /\ scanner' = "scanning" /\ current' = x.batch
        /\ UNCHANGED << plan, open, nextBatch, inFlight, head, downloader, reached >>
        /\ Len(channel) <= Depth
    BY <1>2 DEF PipelineInv, TypeOK, Receive
  <2>2. /\ x \in Fetch /\ channel' \in Seq(Fetch) /\ Len(channel') = Len(channel) - 1
        /\ Len(channel) \in Nat /\ Len(channel) > 0
        /\ \A k \in 1 .. Len(channel') : channel'[k] = channel[k + 1]
    BY <2>1
  <2>3. PICK m \in Heights : Tiles(channel, Expected, m) /\ RestTiled(m)
    BY <2>1 DEF PipelineInv, RangeTiled, OpenWhileScanning
  <2>4. x.batch.start = reached + 1 /\ Tiles(channel', x.batch.end + 1, m)
    BY <2>1, <2>3, TilesTail DEF Expected
  <2>5. TypeOK'
    <3>1. current' \in ScanBatch
      BY <2>1, <2>2 DEF Fetch
    <3>2. Len(channel') <= Depth
      BY <2>1, <2>2, PipelineAssumption
    <3> QED
      BY <2>1, <2>2, <3>1, <3>2 DEF PipelineInv, TypeOK, plan
  <2>6. InOrder' /\ Complete' /\ OpenWhileScanning'
    BY <2>1, <2>4 DEF PipelineInv, InOrder, Complete, OpenWhileScanning, plan
  <2>7. InFlightBound' /\ NextWithin' /\ StoppedIsEmpty'
    BY <2>1 DEF PipelineInv, InFlightBound, NextWithin, StoppedIsEmpty, plan
  <2>8. ErrorIsLast'
    <3> SUFFICES ASSUME NEW k \in 1 .. Len(channel')
                 PROVE  /\ channel'[k].state \in {"ok", "error"}
                        /\ channel'[k].state = "error" => k = Len(channel') /\ downloader' = "ok"
      BY DEF ErrorIsLast
    <3>1. k + 1 \in 1 .. Len(channel) /\ channel'[k] = channel[k + 1]
      BY <2>2
    <3>2. /\ channel[k + 1].state \in {"ok", "error"}
          /\ channel[k + 1].state = "error" => k + 1 = Len(channel) /\ downloader = "ok"
      BY <3>1 DEF PipelineInv, ErrorIsLast
    <3>3. k + 1 = Len(channel) => k = Len(channel')
      BY <2>2
    <3>4. downloader' = downloader
      BY <2>1
    <3> QED
      BY <3>1, <3>2, <3>3, <3>4
  <2>9. RestTiled(m)'
    <3>1. SpawnFrom' = SpawnFrom
      BY <2>1 DEF SpawnFrom, plan
    <3>2. CASE channel[Len(channel)].state = "error"
      <4>1. Len(channel) # 1
        BY <1>2, <2>1, <3>2
      <4>2. channel' # << >> /\ channel'[Len(channel')] = channel[Len(channel)]
        BY <2>2, <4>1
      <4>3. downloader = "ok"
        <5>1. Len(channel) \in 1 .. Len(channel)
          BY <2>2
        <5> QED
          BY <3>2, <5>1 DEF PipelineInv, ErrorIsLast
      <4> QED
        BY <2>1, <3>2, <4>2, <4>3 DEF RestTiled
    <3>3. CASE channel[Len(channel)].state # "error"
      BY <2>1, <2>3, <3>1, <3>3 DEF RestTiled, plan
    <3> QED
      BY <3>2, <3>3
  <2> QED
    BY <2>1, <2>4, <2>5, <2>6, <2>7, <2>8, <2>9 DEF PipelineInv, RangeTiled, Expected
<1> QED
  BY <1>1, <1>2 DEF Receive

\* Recording the height: the next batch is expected right after it.
LEMMA ScanBatchDoneInv == PipelineInv /\ ScanBatchDone => PipelineInv'
<1> SUFFICES ASSUME PipelineInv, ScanBatchDone PROVE PipelineInv'
  OBVIOUS
<1>1. TypeOK'
  BY DEF PipelineInv, TypeOK, ScanBatchDone, plan, ScanBatch, Heights
<1>2. InOrder' /\ Complete' /\ OpenWhileScanning'
  BY DEF PipelineInv, InOrder, Complete, OpenWhileScanning, ScanBatchDone, plan
<1>3. InFlightBound' /\ NextWithin' /\ StoppedIsEmpty' /\ ErrorIsLast'
  BY DEF PipelineInv, InFlightBound, NextWithin, StoppedIsEmpty, ErrorIsLast,
         ScanBatchDone, plan
<1>4. Expected' = Expected /\ SpawnFrom' = SpawnFrom
  BY DEF Expected, SpawnFrom, ScanBatchDone, plan
<1>5. RangeTiled'
  BY <1>4 DEF PipelineInv, RangeTiled, RestTiled, ScanBatchDone, plan
<1> QED
  BY <1>1, <1>2, <1>3, <1>5 DEF PipelineInv

\* The drained channel: with everything sent, the tip has been reached.
LEMMA ChannelClosedInv == PipelineInv /\ ChannelClosed => PipelineInv'
<1> SUFFICES ASSUME PipelineInv, ChannelClosed PROVE PipelineInv'
  OBVIOUS
<1>1. CASE downloader = "error"
  BY <1>1, ReturnErrorInv DEF ChannelClosed
<1>2. CASE downloader = "ok"
  <2>1. /\ channel' \in Seq(Fetch) /\ Len(channel') = 0 /\ channel' = << >>
        /\ scanner' = "ok"
        /\ UNCHANGED << plan, nextBatch, inFlight, head, downloader, current, reached >>
    BY <1>2 DEF ChannelClosed, Return
  <2> open' \in BOOLEAN /\ ~open' /\ open' = FALSE
    BY DEF ChannelClosed, Return
  <2>2. reached = final
    <3>1. PICK m \in Heights : Tiles(channel, Expected, m) /\ RestTiled(m)
      BY DEF PipelineInv, RangeTiled, ChannelClosed, OpenWhileScanning
    <3>2. m = final + 1
      BY <1>2, <3>1 DEF RestTiled, ChannelClosed
    <3>3. reached + 1 = m
      BY <3>1 DEF Tiles, Expected, ChannelClosed
    <3>4. reached \in Int /\ final \in Int
      BY PipelineAssumption DEF PipelineInv, TypeOK, Heights
    <3> QED
      BY <3>2, <3>3, <3>4
  <2>3. TypeOK'
    BY <2>1, PipelineAssumption DEF PipelineInv, TypeOK, plan
  <2>4. InOrder' /\ Complete' /\ OpenWhileScanning' /\ RangeTiled' /\ ErrorIsLast'
    BY <2>1, <2>2 DEF InOrder, Complete, OpenWhileScanning, RangeTiled, ErrorIsLast, plan
  <2>5. InFlightBound' /\ NextWithin' /\ StoppedIsEmpty'
    BY <2>1 DEF PipelineInv, InFlightBound, NextWithin, StoppedIsEmpty, plan
  <2> QED
    BY <2>3, <2>4, <2>5 DEF PipelineInv
<1> QED
  BY <1>1, <1>2 DEF ChannelClosed, PipelineInv, TypeOK

LEMMA StutterInv == PipelineInv /\ UNCHANGED vars => PipelineInv'
<1> SUFFICES ASSUME PipelineInv, UNCHANGED vars PROVE PipelineInv'
  OBVIOUS
<1>1. Expected' = Expected /\ SpawnFrom' = SpawnFrom
  BY DEF vars, Expected, SpawnFrom
<1>2. RangeTiled'
  BY <1>1 DEF vars, PipelineInv, RangeTiled, RestTiled
<1>3. TypeOK' /\ InOrder' /\ Complete' /\ InFlightBound' /\ ErrorIsLast'
  BY DEF vars, PipelineInv, TypeOK, InOrder, Complete, InFlightBound, ErrorIsLast
<1>4. NextWithin' /\ OpenWhileScanning' /\ StoppedIsEmpty'
  BY DEF vars, PipelineInv, NextWithin, OpenWhileScanning, StoppedIsEmpty
<1> QED
  BY <1>2, <1>3, <1>4 DEF PipelineInv

LEMMA NextInv == PipelineInv /\ [Next]_vars => PipelineInv'
<1> SUFFICES ASSUME PipelineInv, [Next]_vars PROVE PipelineInv'
  OBVIOUS
<1>1. CASE Downloader
  BY <1>1, SpawnInv, PopInv, DoneInv, PanicInv, SendInv, SendRefusedInv DEF Downloader
<1>2. CASE Network
  BY <1>2, FetchEndsInv DEF Network
<1>3. CASE SetupFails
  BY <1>3, ReturnErrorInv DEF SetupFails
<1>4. CASE Receive \/ ScanBatchDone \/ ChannelClosed
  BY <1>4, ReceiveInv, ScanBatchDoneInv, ChannelClosedInv
<1>5. CASE ScanBatchFails
  BY <1>5, ReturnErrorInv DEF ScanBatchFails
<1>6. CASE UNCHANGED vars
  BY <1>6, StutterInv
<1> QED
  BY <1>1, <1>2, <1>3, <1>4, <1>5, <1>6 DEF Next, Scanner

-----------------------------------------------------------------------------
\* PipelineInvariance: for every concurrency, depth and batch size, the
\* channel, the popped fetch and the fetches in flight of run_ordered_downloads
\* always tile what is left of the range, in this order.
THEOREM PipelineInvariance == Spec => []PipelineInv
  BY InitInv, NextInv, PTL DEF Spec

\* InOrderTheorem: scan_batches_with_pipeline always scans the batch that
\* starts right after the recorded height.
THEOREM InOrderTheorem == Spec => []InOrder
<1>1. PipelineInv => InOrder
  BY DEF PipelineInv
<1> QED
  BY <1>1, PipelineInvariance, PTL

\* CompleteTheorem: scan_batches_with_pipeline returns Ok only with the whole
\* planned range scanned.
THEOREM CompleteTheorem == Spec => []Complete
<1>1. PipelineInv => Complete
  BY DEF PipelineInv
<1> QED
  BY <1>1, PipelineInvariance, PTL
=============================================================================
