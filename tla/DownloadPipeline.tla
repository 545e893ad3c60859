-------------------------- MODULE DownloadPipeline --------------------------
(***************************************************************************)
(* The pipelined forward scan of one sync iteration                        *)
(* (scan_batches_with_pipeline and run_ordered_downloads,                  *)
(* src/wallet_runtime.rs).  A downloader task keeps up to Concurrency      *)
(* fetches in flight and hands the results, in height order, to a bounded  *)
(* channel; the sync task takes them out, scans each batch and records the *)
(* height it has reached.  Both stop at the first failure.                 *)
(***************************************************************************)
EXTENDS SyncPlan, Sequences, FiniteSets

CONSTANTS
    Concurrency,    \* DOWNLOAD_CONCURRENCY
    Depth,          \* DOWNLOAD_PIPELINE_DEPTH
    FirstHeights,   \* bound: forward_start_height values explored
    FinalHeights,   \* bound: tip values explored
    BatchSizes      \* bound: CATCH_UP_BATCH_SIZE values explored

ASSUME PipelineAssumption ==
    /\ Concurrency \in Nat \ {0}
    /\ Depth \in Nat \ {0}
    /\ FirstHeights \subseteq Heights
    /\ FinalHeights \subseteq Heights \ {MaxU32}
    /\ BatchSizes \subseteq Nat \ {0}

Outcome == {"ok", "error", "panic"}

\* A spawned fetch: the batch it reads and how far it is.
Fetch == [batch : ScanBatch, state : {"running"} \cup Outcome]

VARIABLES
    first, final, size,  \* the plan: arguments of scan_batches_with_pipeline
    nextBatch,     \* downloader: the batch it will spawn next (NoBatch: none)
    inFlight,      \* downloader: queue of spawned fetches
    head,          \* downloader: << >>, or the fetch it has popped
    downloader,    \* "running", "ok" (returned) or "error" (a fetch panicked)
    channel,       \* results on their way to the scanner
    open,          \* the receiver has not been dropped
    scanner,       \* "receiving", "scanning", "ok" or "error"
    current,       \* the batch being scanned
    reached        \* last height the scanner has recorded, first - 1 at the start

plan == << first, final, size >>
vars == << first, final, size, nextBatch, inFlight, head, downloader, channel,
           open, scanner, current, reached >>

TypeOK ==
    /\ first \in FirstHeights /\ final \in FinalHeights /\ size \in BatchSizes
    /\ nextBatch \in ScanBatch
    /\ inFlight \in Seq(Fetch) /\ Len(inFlight) <= Concurrency
    /\ head \in Seq(Fetch) /\ Len(head) <= 1
    /\ downloader \in {"running", "ok", "error"}
    /\ channel \in Seq(Fetch) /\ Len(channel) <= Depth
    /\ open \in BOOLEAN
    /\ scanner \in {"receiving", "scanning", "ok", "error"}
    /\ current \in ScanBatch
    /\ reached \in Int

Init ==
    /\ first \in FirstHeights /\ final \in FinalHeights /\ size \in BatchSizes
    /\ first <= final
    /\ nextBatch = NextScanBatch(first, final, size)
    /\ inFlight = << >> /\ head = << >> /\ downloader = "running"
    /\ channel = << >> /\ open = TRUE
    /\ scanner = "receiving" /\ current = NoBatch /\ reached = first - 1

-----------------------------------------------------------------------------
(* The downloader task.                                                    *)

\* The inner while loop: keep spawning before looking at a result.
Spawn ==
    /\ downloader = "running" /\ head = << >>
    /\ Len(inFlight) < Concurrency
    /\ nextBatch # NoBatch
    /\ inFlight' = Append(inFlight, [batch |-> nextBatch, state |-> "running"])
    /\ nextBatch' = NextScanBatch(SaturatingAdd(nextBatch.end, 1), final, size)
    /\ UNCHANGED << plan, head, downloader, channel, open, scanner, current, reached >>

\* Mutant: whichever fetch ends first is handed on first.
PopAnyReady ==
    /\ downloader = "running" /\ head = << >>
    /\ Len(inFlight) = Concurrency \/ nextBatch = NoBatch
    /\ \E i \in DOMAIN inFlight :
        /\ inFlight[i].state # "running"
        /\ head' = << inFlight[i] >>
        /\ inFlight' = SubSeq(inFlight, 1, i - 1) \o SubSeq(inFlight, i + 1, Len(inFlight))
    /\ UNCHANGED << plan, nextBatch, downloader, channel, open, scanner, current, reached >>

PopHandle ==
    /\ downloader = "running" /\ head = << >>
    /\ Len(inFlight) = Concurrency \/ nextBatch = NoBatch
    /\ inFlight # << >>
    /\ head' = << Head(inFlight) >>
    /\ inFlight' = Tail(inFlight)
    /\ UNCHANGED << plan, nextBatch, downloader, channel, open, scanner, current, reached >>

\* Every batch has been handed on: the task returns and drops the sender.
DownloadsDone ==
    /\ downloader = "running" /\ head = << >>
    /\ nextBatch = NoBatch /\ inFlight = << >>
    /\ downloader' = "ok"
    /\ UNCHANGED << plan, nextBatch, inFlight, head, channel, open, scanner, current, reached >>

\* abort_all: what is still in flight is dropped and the task returns.
Stop(result) ==
    /\ downloader' = result
    /\ inFlight' = << >>
    /\ head' = << >>
    /\ nextBatch' = NoBatch

\* The awaited task panicked: nothing is sent, the task returns the error.
FetchPanicked ==
    /\ downloader = "running" /\ head # << >> /\ head[1].state = "panic"
    /\ Stop("error")
    /\ UNCHANGED << plan, channel, open, scanner, current, reached >>

\* Mutant: a failed fetch is not handed on, the downloader just continues.
SendOnlyBlocks ==
    /\ downloader = "running" /\ head # << >> /\ head[1].state \in {"ok", "error"}
    /\ open /\ Len(channel) < Depth
    /\ channel' = IF head[1].state = "ok" THEN Append(channel, head[1]) ELSE channel
    /\ head' = << >>
    /\ UNCHANGED << plan, nextBatch, inFlight, downloader, open, scanner, current, reached >>

\* send: waits while the channel is full; a failed fetch is the last thing sent.
Send ==
    /\ downloader = "running" /\ head # << >> /\ head[1].state \in {"ok", "error"}
    /\ open /\ Len(channel) < Depth
    /\ channel' = Append(channel, head[1])
    /\ \/ head[1].state = "ok" /\ head' = << >> /\ UNCHANGED << nextBatch, inFlight, downloader >>
       \/ head[1].state = "error" /\ Stop("ok")
    /\ UNCHANGED << plan, open, scanner, current, reached >>

\* Mutant: a refused result is offered again.
OfferAgain ==
    /\ downloader = "running" /\ head # << >> /\ head[1].state \in {"ok", "error"}
    /\ ~open
    /\ UNCHANGED vars

\* send fails: the sync task has returned and dropped the receiver.
SendRefused ==
    /\ downloader = "running" /\ head # << >> /\ head[1].state \in {"ok", "error"}
    /\ ~open
    /\ Stop("ok")
    /\ UNCHANGED << plan, channel, open, scanner, current, reached >>

\* fetch_compact_blocks_for_height_range ends (external: lightwalletd), for a
\* queued fetch or the popped one.
FetchEnds(outcome) ==
    /\ \/ \E i \in DOMAIN inFlight :
            /\ inFlight[i].state = "running"
            /\ inFlight' = [inFlight EXCEPT ![i].state = outcome]
            /\ UNCHANGED head
       \/ /\ head # << >> /\ head[1].state = "running"
          /\ head' = << [head[1] EXCEPT !.state = outcome] >>
          /\ UNCHANGED inFlight
    /\ UNCHANGED << plan, nextBatch, downloader, channel, open, scanner, current, reached >>

-----------------------------------------------------------------------------
(* The sync task.                                                          *)

\* The ? operator: the function returns, which drops the receiver and what is
\* in the channel, and detaches the downloader.
Return(result) ==
    /\ scanner' = result
    /\ open' = FALSE
    /\ channel' = << >>

\* The scanning keys or the thread pool cannot be made, with the downloader
\* already running.
SetupFails ==
    /\ scanner = "receiving" /\ current = NoBatch
    /\ Return("error")
    /\ UNCHANGED << plan, nextBatch, inFlight, head, downloader, current, reached >>

Receive ==
    /\ scanner = "receiving" /\ channel # << >>
    /\ \/ /\ Head(channel).state = "ok"
          /\ scanner' = "scanning"
          /\ current' = Head(channel).batch
          /\ channel' = Tail(channel)
          /\ UNCHANGED open
       \/ /\ Head(channel).state = "error"
          /\ Return("error")
          /\ UNCHANGED current
    /\ UNCHANGED << plan, nextBatch, inFlight, head, downloader, reached >>

\* Trial decryption, reconciliation, queueing and record_sync_status succeed.
ScanBatchDone ==
    /\ scanner = "scanning"
    /\ reached' = current.end
    /\ scanner' = "receiving"
    /\ UNCHANGED << plan, nextBatch, inFlight, head, downloader, channel, open, current >>

ScanBatchFails ==
    /\ scanner = "scanning"
    /\ Return("error")
    /\ UNCHANGED << plan, nextBatch, inFlight, head, downloader, current, reached >>

\* Mutant: the error of the joined downloader is dropped.
ClosedMeansDone ==
    /\ scanner = "receiving" /\ channel = << >> /\ downloader # "running"
    /\ Return("ok")
    /\ UNCHANGED << plan, nextBatch, inFlight, head, downloader, current, reached >>

\* recv returns None: the sender is dropped and the channel is drained; then
\* the downloader is joined and its error, if any, is returned.
ChannelClosed ==
    /\ scanner = "receiving" /\ channel = << >> /\ downloader # "running"
    /\ Return(downloader)
    /\ UNCHANGED << plan, nextBatch, inFlight, head, downloader, current, reached >>

-----------------------------------------------------------------------------
Downloader == Spawn \/ PopHandle \/ DownloadsDone \/ FetchPanicked \/ Send \/ SendRefused

Network == \E outcome \in Outcome : FetchEnds(outcome)

Scanner == SetupFails \/ Receive \/ ScanBatchDone \/ ScanBatchFails \/ ChannelClosed

Finished == scanner \in {"ok", "error"} /\ downloader # "running"

Next == Downloader \/ Network \/ Scanner \/ (Finished /\ UNCHANGED vars)

\* The runtime runs both tasks; HTTP/2 keepalive and the retry limit end every
\* fetch one way or another.
Spec == Init /\ [][Next]_vars

Fairness == WF_vars(Downloader) /\ WF_vars(Network) /\ WF_vars(Scanner)

FairSpec == Spec /\ Fairness

-----------------------------------------------------------------------------
(* Properties.                                                             *)

\* InOrder: the batch being scanned starts right after the recorded height,
\* in whatever order the concurrent fetches end, so record_sync_status never
\* claims a block that was skipped, and no block is scanned twice.
InOrder == scanner = "scanning" => current.start = reached + 1

\* Complete: the scan returns Ok only when it has reached the tip it planned
\* for; a failed or panicked fetch, or a dropped channel, is never taken for
\* the end of the range.
Complete == scanner = "ok" => reached = final

\* InFlightBound: no more than Concurrency fetches exist at once, the popped
\* one included.
InFlightBound == Len(inFlight) + Len(head) <= Concurrency

\* A queue of fetches that covers the heights from .. to - 1 without a gap.
Tiles(queue, from, to) ==
    IF queue = << >> THEN from = to
    ELSE /\ queue[1].batch.start = from
         /\ \A k \in 1 .. (Len(queue) - 1) :
                queue[k + 1].batch.start = queue[k].batch.end + 1
         /\ queue[Len(queue)].batch.end + 1 = to

\* Where the next batch to be received must start.
Expected == IF scanner = "scanning" THEN current.end + 1 ELSE reached + 1

\* Where the next batch to be spawned starts; past the tip when there is none.
SpawnFrom == IF nextBatch = NoBatch THEN final + 1 ELSE nextBatch.start

\* A failed fetch can only be the last result in the channel.
ErrorIsLast ==
    \A k \in 1 .. Len(channel) :
        /\ channel[k].state \in {"ok", "error"}
        /\ channel[k].state = "error" => k = Len(channel) /\ downloader = "ok"

\* The batch to be spawned next lies below the tip.
NextWithin == nextBatch # NoBatch => nextBatch.end <= final /\ nextBatch.start <= final

\* The receiver lives as long as the scan.
OpenWhileScanning == open = (scanner \in {"receiving", "scanning"})

\* A downloader that has returned has nothing left.
StoppedIsEmpty ==
    downloader # "running" => head = << >> /\ inFlight = << >> /\ nextBatch = NoBatch

\* The popped fetch and the fetches in flight tile what follows height m - 1,
\* or the downloader has stopped: with everything sent, after a failed fetch
\* that is still in the channel, or with an error.
RestTiled(m) ==
    \/ /\ downloader = "running"
       /\ \E n \in Heights : Tiles(head, m, n) /\ Tiles(inFlight, n, SpawnFrom)
    \/ downloader = "ok" /\ m = final + 1
    \/ downloader = "ok" /\ channel # << >> /\ channel[Len(channel)].state = "error"
    \/ downloader = "error"

RangeTiled == open => \E m \in Heights : Tiles(channel, Expected, m) /\ RestTiled(m)

\* PipelineInv: the state is well typed, and the channel, the popped fetch and
\* the fetches in flight tile what is left of the range, in this order.
PipelineInv ==
    /\ TypeOK /\ InOrder /\ Complete /\ InFlightBound /\ ErrorIsLast
    /\ NextWithin /\ OpenWhileScanning /\ StoppedIsEmpty /\ RangeTiled

\* Terminates: under fair scheduling the scan returns and the downloader it
\* may leave behind stops too, also when the scan failed while the downloader
\* was waiting for room in the channel.
Terminates == <>Finished
=============================================================================
