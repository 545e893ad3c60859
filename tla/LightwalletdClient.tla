------------------------- MODULE LightwalletdClient -------------------------
(***************************************************************************)
(* The lightwalletd client (src/scanner.rs) as the sync loop uses it: one  *)
(* cached channel shared by concurrent calls, up to three attempts per     *)
(* call, request timeouts on some calls, and the wait for the next block   *)
(* on a mempool stream with a tip poll beside it and periodic mempool      *)
(* reconciliations in between (src/wallet_runtime.rs).                     *)
(*                                                                         *)
(* A call is one run of with_lightwalletd_retry.  A channel number stands  *)
(* for one connection made by Endpoint::connect.                           *)
(***************************************************************************)
EXTENDS Integers, Sequences

CONSTANTS
    Fetchers,      \* the block downloads that run side by side in an iteration
    Channels,      \* bound: channel numbers in use at the same time
    NoChannel,
    RetryLimit,    \* LIGHTWALLETD_RETRY_ATTEMPT_LIMIT
    RangeLength,   \* blocks of a range; a ScanBatch is never empty
    MaxFaults      \* bound: failures of network and server

ASSUME ClientAssumption ==
    /\ Channels \subseteq Nat /\ NoChannel \notin Channels
    /\ RetryLimit \in Nat \ {0} /\ RangeLength \in Nat \ {0} /\ MaxFaults \in Nat
    /\ Fetchers \cap {"stream", "tip", "snapshot", "transaction"} = {}

\* The calls of the waiting sync loop: open the mempool stream, latest block;
\* and those of a periodic reconciliation: mempool txids, raw transaction.
Waiters == {"stream", "tip"}
Reconcilers == {"snapshot", "transaction"}
Callers == Fetchers \cup Waiters \cup Reconcilers

VARIABLES
    urlValid,   \* LIGHTWALLETD_URL makes an endpoint (never changes)
    conns,      \* per channel: "up", "half_open", "mute" or "broken"
    cache,      \* lightwalletd_channels: the channel of the URL
    call,       \* per caller: its call
    phase,      \* the sync loop: "iterate", "opening", "checking", "watching",
                \*   or "polling" the tip beside the stream
    stream,     \* the channel of the open mempool stream
    periodic,   \* a periodic reconciliation is running
    moved,      \* the chain's tip is above the one the loop waits to be passed
    faults      \* failures so far

vars == << urlValid, conns, cache, call, phase, stream, periodic, moved, faults >>

\* A call: the attempt it is in, its channel, what it has read, the blocks the
\* server has sent in this attempt, the channels of attempts that failed.
Call == [step : {"off", "get", "connect", "request", "sleep", "ok", "error"},
         attempt : 0 .. RetryLimit, chan : Channels \cup {NoChannel},
         got : Seq(Nat), sent : 0 .. RangeLength, tried : SUBSET Channels]

Off == [step |-> "off", attempt |-> 0, chan |-> NoChannel, got |-> << >>,
        sent |-> 0, tried |-> {}]
Begun == [Off EXCEPT !.step = "get", !.attempt = 1]

Init ==
    /\ urlValid \in BOOLEAN
    /\ conns = [k \in Channels |-> "broken"]
    /\ cache = NoChannel
    /\ call = [c \in Callers |-> Off]
    /\ phase = "iterate" /\ stream = NoChannel /\ periodic = FALSE
    /\ moved = FALSE /\ faults = 0

Active(c) == call[c].step \notin {"off", "ok", "error"}

\* The wait is not polled while a periodic reconciliation runs.
Runs(c) == c \in Waiters => ~periodic

Loop == << phase, stream, periodic >>

Fault == faults < MaxFaults /\ faults' = faults + 1

Unused ==
    Channels \ ({cache, stream} \cup
                 UNION {call[c].tried \cup {call[c].chan} : c \in Callers})

\* A connection is closed when its last channel handle is dropped.
Connections(now) ==
    LET gone == Unused'
    IN  conns' = [k \in Channels |-> IF k \in gone THEN "broken" ELSE now[k]]

-----------------------------------------------------------------------------
(* with_lightwalletd_retry.                                                *)

\* get_lightwalletd_channel: the cached channel, or connect without the lock.
GetChannel(c) ==
    /\ call[c].step = "get" /\ Runs(c)
    /\ call' = [call EXCEPT ![c].step = IF cache # NoChannel THEN "request"
                                        ELSE "connect",
                            ![c].chan = cache]
    /\ UNCHANGED << urlValid, cache, Loop, moved, faults >>
    /\ Connections(conns)

\* The connection stands; it replaces the channel another call may have cached
\* in the meantime.  (Unused is never empty within the bound Channels.)
Connect(c) ==
    /\ call[c].step = "connect" /\ Runs(c) /\ urlValid
    /\ Unused # {}
    /\ LET k == CHOOSE n \in Unused : TRUE
       IN  /\ cache' = k
           /\ call' = [call EXCEPT ![c].step = "request", ![c].chan = k]
           /\ UNCHANGED << urlValid, Loop, moved, faults >>
           /\ Connections([conns EXCEPT ![k] = "up"])

Retries(attempt) == attempt < RetryLimit

\* Mutant: the channel stays in the cache.
ChannelKept(c) == UNCHANGED cache

\* remove_lightwalletd_channel, whichever channel is cached by now.
RemoveChannel(c) == cache' = NoChannel

\* Mutant: blocks of a failed attempt are kept.
KeepsBlocks(c) == [call[c] EXCEPT !.step = "sleep", !.chan = NoChannel, !.sent = 0,
                                  !.tried = @ \cup ({call[c].chan} \ {NoChannel})]

\* A call between two attempts: what it had read is dropped.
Retrying(c) == [call[c] EXCEPT !.step = "sleep", !.chan = NoChannel, !.got = << >>,
                               !.sent = 0, !.tried = @ \cup ({call[c].chan} \ {NoChannel})]

\* The attempt failed with AppError::Wallet.
AttemptFails(c) ==
    \/ /\ Retries(call[c].attempt)
       /\ call' = [call EXCEPT ![c] = Retrying(c)]
       /\ RemoveChannel(c)
    \/ /\ ~Retries(call[c].attempt)
       /\ call' = [call EXCEPT ![c] = [Off EXCEPT !.step = "error"]]
       /\ UNCHANGED cache

\* An unusable URL is AppError::InvalidConfig, which is not retried.
RefuseUrl(c) ==
    /\ call[c].step = "connect" /\ Runs(c) /\ ~urlValid
    /\ call' = [call EXCEPT ![c] = [Off EXCEPT !.step = "error"]]
    /\ UNCHANGED << urlValid, cache, Loop, moved, faults >>
    /\ Connections(conns)

ConnectFails(c) ==
    /\ call[c].step = "connect" /\ Runs(c) /\ urlValid
    /\ AttemptFails(c)
    /\ Fault
    /\ UNCHANGED << urlValid, Loop, moved >>
    /\ Connections(conns)

\* The answer of a standing connection.  A range is read block by block; the
\* latest block is 0 or 1 blocks above the awaited tip; a mempool transaction that has
\* vanished is an answer too.
Answer(c) ==
    LET next == call[c].sent + 1
        got  == IF c \in Fetchers THEN Append(call[c].got, next)
                ELSE << IF c = "tip" /\ moved THEN 1 ELSE 0 >>
    IN  /\ call[c].step = "request" /\ Runs(c)
        /\ conns[call[c].chan] = "up"
        /\ call' = [call EXCEPT ![c] =
                IF c \in Fetchers /\ next < RangeLength
                THEN [@ EXCEPT !.got = got, !.sent = next]
                ELSE [Off EXCEPT !.step = "ok", !.got = got,
                                 !.chan = IF c = "stream" THEN call[c].chan ELSE NoChannel]]
        /\ UNCHANGED << urlValid, cache, Loop, moved, faults >>
        /\ Connections(conns)

\* The server answers with an error status.
ServerError(c) ==
    /\ call[c].step = "request" /\ Runs(c)
    /\ conns[call[c].chan] = "up"
    /\ AttemptFails(c)
    /\ Fault
    /\ UNCHANGED << urlValid, Loop, moved >>
    /\ Connections(conns)

ConnectionLost(c) ==
    /\ call[c].step = "request" /\ Runs(c)
    /\ conns[call[c].chan] = "broken"
    /\ AttemptFails(c)
    /\ UNCHANGED << urlValid, Loop, moved, faults >>
    /\ Connections(conns)

\* Mutant: streams of the mempool's transaction ids are not timed.
TimedUnary == {"tip", "transaction"}

\* Calls under LIGHTWALLETD_REQUEST_TIMEOUT.
Timed == {"tip", "snapshot", "transaction"}

RequestTimeout(c) ==
    /\ c \in Timed
    /\ call[c].step = "request" /\ Runs(c)
    /\ conns[call[c].chan] # "up"
    /\ AttemptFails(c)
    /\ UNCHANGED << urlValid, Loop, moved, faults >>
    /\ Connections(conns)

\* LIGHTWALLETD_RETRY_DELAY has passed.
NextAttempt(c) ==
    /\ call[c].step = "sleep" /\ Runs(c)
    /\ call' = [call EXCEPT ![c].step = "get", ![c].attempt = @ + 1]
    /\ UNCHANGED << urlValid, cache, Loop, moved, faults >>
    /\ Connections(conns)

CallStep(c) ==
    \/ GetChannel(c) \/ Connect(c) \/ RefuseUrl(c) \/ ConnectFails(c)
    \/ Answer(c) \/ ServerError(c) \/ ConnectionLost(c) \/ RequestTimeout(c)
    \/ NextAttempt(c)

-----------------------------------------------------------------------------
(* The network (external): connections fail, or a server stays connected   *)
(* and answers nothing.  HTTP/2 pings end a half-open connection; a broken *)
(* channel may connect again.                                              *)

Breaks(k) ==
    /\ conns[k] = "up" /\ k \notin Unused
    /\ \E how \in {"half_open", "mute", "broken"} : conns' = [conns EXCEPT ![k] = how]
    /\ Fault
    /\ UNCHANGED << urlValid, cache, call, Loop, moved >>

KeepaliveTimeout(k) ==
    /\ conns[k] = "half_open"
    /\ conns' = [conns EXCEPT ![k] = "broken"]
    /\ UNCHANGED << urlValid, cache, call, Loop, moved, faults >>

\* Nothing obliges a mute server to go away.
MuteEnds(k) ==
    /\ conns[k] = "mute" /\ k \notin Unused
    /\ conns' = [conns EXCEPT ![k] = "broken"]
    /\ UNCHANGED << urlValid, cache, call, Loop, moved, faults >>

Reconnects(k) ==
    /\ conns[k] = "broken" /\ k \notin Unused
    /\ conns' = [conns EXCEPT ![k] = "up"]
    /\ UNCHANGED << urlValid, cache, call, Loop, moved, faults >>

NewBlock ==
    /\ ~moved
    /\ moved' = TRUE
    /\ UNCHANGED << urlValid, cache, call, Loop, faults >>
    /\ Connections(conns)

-----------------------------------------------------------------------------
(* The sync loop.                                                          *)

StartFetch(f) ==
    /\ phase = "iterate" /\ call[f].step = "off"
    /\ call' = [call EXCEPT ![f] = Begun]
    /\ UNCHANGED << urlValid, cache, Loop, moved, faults >>
    /\ Connections(conns)

\* Every download has ended: wait for the next block, or start over when one
\* failed.
EndIteration ==
    /\ phase = "iterate"
    /\ \A f \in Fetchers : call[f].step \in {"ok", "error"}
    /\ LET failed == \E f \in Fetchers : call[f].step = "error"
       IN  /\ phase' = IF failed THEN "iterate" ELSE "opening"
           /\ call' = [c \in Callers |-> IF c = "stream" /\ ~failed THEN Begun ELSE Off]
           /\ moved' = (moved /\ failed)
    /\ UNCHANGED << urlValid, cache, stream, periodic, faults >>
    /\ Connections(conns)

\* The wait is over, or failed; calls still under way are dropped.
EndWait ==
    /\ phase' = "iterate" /\ stream' = NoChannel /\ periodic' = FALSE
    /\ call' = [c \in Callers |-> Off]
    /\ UNCHANGED << urlValid, cache, moved, faults >>
    /\ Connections(conns)

\* wait_for_block_mempool_stream: the stream is open; check the tip first.
StreamOpened ==
    /\ phase = "opening" /\ ~periodic
    /\ \/ call["stream"].step = "error" /\ EndWait
       \/ /\ call["stream"].step = "ok"
          /\ phase' = "checking"
          /\ stream' = call["stream"].chan
          /\ call' = [call EXCEPT !["stream"] = Off, !["tip"] = Begun]
          /\ UNCHANGED << urlValid, cache, periodic, moved, faults >>
          /\ Connections(conns)

TipAnswered ==
    /\ phase \in {"checking", "polling"} /\ ~periodic
    /\ \/ /\ \/ call["tip"].step = "error"
             \/ call["tip"].step = "ok" /\ call["tip"].got[1] > 0
          /\ EndWait
       \/ /\ call["tip"].step = "ok" /\ call["tip"].got[1] = 0
          /\ phase' = "watching"
          /\ call' = [call EXCEPT !["tip"] = Off]
          /\ UNCHANGED << urlValid, cache, stream, periodic, moved, faults >>
          /\ Connections(conns)

\* The stream ends with a block, or its connection is lost; it is watched also
\* while the tip request runs.
StreamEnds ==
    /\ phase \in {"watching", "polling"} /\ ~periodic
    /\ \/ conns[stream] = "up" /\ moved
       \/ conns[stream] = "broken"
    /\ EndWait

\* Mutant: the tip is polled only beside a stream that is up.
PollWithStream ==
    /\ phase = "watching" /\ ~periodic
    /\ conns[stream] = "up"
    /\ phase' = "polling"
    /\ call' = [call EXCEPT !["tip"] = Begun]
    /\ UNCHANGED << urlValid, cache, stream, periodic, moved, faults >>
    /\ Connections(conns)

\* MEMPOOL_STREAM_TIP_POLL_INTERVAL has passed.
PollTip ==
    /\ phase = "watching" /\ ~periodic
    /\ phase' = "polling"
    /\ call' = [call EXCEPT !["tip"] = Begun]
    /\ UNCHANGED << urlValid, cache, stream, periodic, moved, faults >>
    /\ Connections(conns)

\* wait_for_next_block_with_periodic_mempool_reconciliation: an interval tick.
StartReconcile ==
    /\ phase # "iterate" /\ ~periodic
    /\ periodic' = TRUE
    /\ call' = [call EXCEPT !["snapshot"] = Begun]
    /\ UNCHANGED << urlValid, cache, phase, stream, moved, faults >>
    /\ Connections(conns)

\* The txids were read: fetch a transaction, or none is new; then go back to
\* the wait.  An error ends the wait as well.
Reconciling ==
    /\ periodic
    /\ \/ (\E c \in Reconcilers : call[c].step = "error") /\ EndWait
       \/ /\ call["snapshot"].step = "ok"
          /\ call' = [call EXCEPT !["snapshot"] = Off, !["transaction"] = Begun]
          /\ UNCHANGED << urlValid, cache, Loop, moved, faults >>
          /\ Connections(conns)
       \/ /\ \E c \in Reconcilers : call[c].step = "ok"
          /\ call' = [call EXCEPT !["snapshot"] = Off, !["transaction"] = Off]
          /\ periodic' = FALSE
          /\ UNCHANGED << urlValid, cache, phase, stream, moved, faults >>
          /\ Connections(conns)

WaitStep ==
    \/ \E c \in Waiters : CallStep(c)
    \/ StreamOpened \/ TipAnswered \/ StreamEnds \/ PollTip

ReconcileStep == Reconciling \/ \E c \in Reconcilers : CallStep(c)

Next ==
    \/ \E f \in Fetchers : StartFetch(f) \/ CallStep(f)
    \/ EndIteration \/ WaitStep \/ StartReconcile \/ ReconcileStep
    \/ \E k \in Channels : Breaks(k) \/ KeepaliveTimeout(k) \/ MuteEnds(k) \/ Reconnects(k)
    \/ NewBlock

\* Calls go on and their timers fire; a standing connection is answered; pings
\* find half-open connections.  Reconciliations suspend the wait again and
\* again, but select! comes back to it.
Fairness ==
    /\ \A f \in Fetchers : WF_vars(CallStep(f))
    /\ WF_vars(ReconcileStep)
    /\ SF_vars(WaitStep)
    /\ \A k \in Channels : WF_vars(KeepaliveTimeout(k))

Spec == Init /\ [][Next]_vars /\ Fairness

-----------------------------------------------------------------------------
(* Properties.                                                             *)

TypeOK ==
    /\ urlValid \in BOOLEAN /\ periodic \in BOOLEAN /\ moved \in BOOLEAN
    /\ conns \in [Channels -> {"up", "half_open", "mute", "broken"}]
    /\ cache \in Channels \cup {NoChannel} /\ stream \in Channels \cup {NoChannel}
    /\ call \in [Callers -> Call]
    /\ phase \in {"iterate", "opening", "checking", "watching", "polling"}
    /\ faults \in 0 .. MaxFaults

\* RetryOnFresh: a call makes at most RetryLimit attempts, and none of them uses
\* a channel on which an earlier one failed, although other calls connect,
\* cache and remove channels at the same time and a removal does not look at
\* what it removes.
RetryOnFresh ==
    \A c \in Callers :
        /\ call[c].attempt <= RetryLimit
        /\ call[c].step = "request" => call[c].chan \notin call[c].tried

\* RangeExact: a range that was read has each block once, also when attempts
\* before it failed half way.
RangeExact ==
    \A f \in Fetchers :
        call[f].step = "ok" => call[f].got = [i \in 1 .. RangeLength |-> i]

\* ClientInv: the inductive invariant behind both.  The cached channel is one
\* on which no running call has failed; a call that waits for its next attempt
\* has one left; a download has read the blocks the server has sent.
ClientInv ==
    /\ TypeOK
    /\ \A c \in Callers :
        /\ cache \notin call[c].tried
        /\ call[c].step = "request" => call[c].chan \in Channels \ call[c].tried
        /\ call[c].step = "sleep" => call[c].attempt < RetryLimit
    /\ \A f \in Fetchers : Active(f) =>
        call[f].sent < RangeLength /\ call[f].got = [i \in 1 .. call[f].sent |-> i]

\* CallsEnd: every call ends; only one without a request timeout may hang, on a
\* server that stays connected and answers nothing.
CallsEnd ==
    \A c \in Callers :
        Active(c) ~> (~Active(c) \/ (/\ c \in Fetchers \cup {"stream"}
                                     /\ call[c].chan # NoChannel
                                     /\ conns[call[c].chan] = "mute"))

\* TipMoveWakes: once the stream is open, a higher tip ends the wait, even if
\* the stream stalls for ever and reconciliations keep interrupting the wait.
TipMoveWakes ==
    (phase \in {"checking", "watching", "polling"} /\ moved) ~> phase = "iterate"
=============================================================================
