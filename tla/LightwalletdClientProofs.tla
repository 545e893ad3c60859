---------------------- MODULE LightwalletdClientProofs ----------------------
(***************************************************************************)
(* Proofs about LightwalletdClient, for every number of downloads,         *)
(* channels, attempts and blocks, and any number of failures.              *)
(***************************************************************************)
EXTENDS LightwalletdClient, TLAPS

ConnState == {"up", "half_open", "mute", "broken"}

\* What the invariant says of caller c when its call is x and k is cached.
Good(c, x, k) ==
    /\ x \in Call
    /\ k \notin x.tried
    /\ x.step = "request" => x.chan \in Channels \ x.tried
    /\ x.step = "sleep" => x.attempt < RetryLimit
    /\ c \in Fetchers =>
        /\ x.step \notin {"off", "ok", "error"} =>
                x.sent < RangeLength /\ x.got = [i \in 1 .. x.sent |-> i]
        /\ x.step = "ok" => x.got = [i \in 1 .. RangeLength |-> i]

\* The part of TypeOK that the calls do not touch.
LoopOK ==
    /\ urlValid \in BOOLEAN /\ periodic \in BOOLEAN /\ moved \in BOOLEAN
    /\ conns \in [Channels -> ConnState]
    /\ cache \in Channels \cup {NoChannel} /\ stream \in Channels \cup {NoChannel}
    /\ phase \in {"iterate", "opening", "checking", "watching", "polling"}
    /\ faults \in 0 .. MaxFaults

Inv == LoopOK /\ call \in [Callers -> Call] /\ \A c \in Callers : Good(c, call[c], cache)

LEMMA InvIsClientInv == Inv <=> ClientInv /\ RangeExact
<1>1. Fetchers \subseteq Callers
  BY DEF Callers
<1>2. ASSUME Inv PROVE ClientInv /\ RangeExact
  BY <1>1, <1>2 DEF Inv, LoopOK, Good, ClientInv, RangeExact, TypeOK, ConnState, Active
<1>3. ASSUME ClientInv, RangeExact PROVE Inv
  BY <1>1, <1>3 DEF Inv, LoopOK, Good, ClientInv, RangeExact, TypeOK, ConnState, Active
<1> QED
  BY <1>2, <1>3

-----------------------------------------------------------------------------
(* Calls.                                                                  *)

\* A call that is off, has failed or has just begun.
LEMMA IdleGood ==
    ASSUME NEW c, NEW k
    PROVE  /\ Good(c, Off, k) /\ Good(c, Begun, k)
           /\ Good(c, [Off EXCEPT !.step = "error"], k)
<1>1. << >> \in Seq(Nat) /\ << >> = [i \in 1 .. 0 |-> i]
  OBVIOUS
<1>2. /\ 0 \in 0 .. RetryLimit /\ 1 \in 0 .. RetryLimit
      /\ 0 \in 0 .. RangeLength /\ 0 < RangeLength
  BY ClientAssumption
<1>3. Good(c, Off, k)
  BY <1>1, <1>2 DEF Good, Off, Call
<1>4. Good(c, Begun, k)
  BY <1>1, <1>2 DEF Good, Off, Begun, Call
<1>5. Good(c, [Off EXCEPT !.step = "error"], k)
  BY <1>1, <1>2 DEF Good, Off, Call
<1> QED
  BY <1>3, <1>4, <1>5

\* Removing a channel from the cache disturbs no call.
LEMMA EmptyCacheGood ==
    ASSUME NEW c, NEW x, NEW k, Good(c, x, k)
    PROVE  Good(c, x, NoChannel)
  BY ClientAssumption DEF Good, Call

\* A failed attempt: the channel it used is tried, and what it read is gone.
LEMMA RetryingGood ==
    ASSUME NEW c \in Callers, Good(c, call[c], cache), Retries(call[c].attempt)
    PROVE  Good(c, Retrying(c), NoChannel)
<1>1. << >> \in Seq(Nat) /\ << >> = [i \in 1 .. 0 |-> i]
  OBVIOUS
<1>2. 0 \in 0 .. RangeLength /\ 0 < RangeLength
  BY ClientAssumption
<1>3. call[c] \in Call /\ call[c].attempt < RetryLimit
  BY DEF Good, Retries
<1>4. /\ Retrying(c) \in Call /\ Retrying(c).step = "sleep"
      /\ Retrying(c).attempt = call[c].attempt
      /\ Retrying(c).got = << >> /\ Retrying(c).sent = 0
      /\ NoChannel \notin Retrying(c).tried
  BY <1>1, <1>2, <1>3, ClientAssumption DEF Retrying, Call
<1> QED
  BY <1>1, <1>2, <1>3, <1>4 DEF Good

\* An answer: one more block of a range, or the end of the call.
LEMMA AnswerGood ==
    ASSUME NEW c \in Callers, Inv, Answer(c)
    PROVE  Good(c, call'[c], cache)
<1> DEFINE x == call[c]
           next == x.sent + 1
           got == IF c \in Fetchers THEN Append(x.got, next)
                  ELSE << IF c = "tip" /\ moved THEN 1 ELSE 0 >>
           chan == IF c = "stream" THEN x.chan ELSE NoChannel
<1>1. /\ x \in Call /\ x.step = "request" /\ Good(c, x, cache)
      /\ x.chan \in Channels \cup {NoChannel} /\ x.sent \in Nat /\ x.got \in Seq(Nat)
  BY DEF Inv, Answer, Call
<1>2. got \in Seq(Nat)
  BY <1>1
<1>3. c \in Fetchers =>
        x.sent < RangeLength /\ got = [i \in 1 .. next |-> i]
  <2> SUFFICES ASSUME c \in Fetchers
               PROVE  x.sent < RangeLength /\ got = [i \in 1 .. next |-> i]
    OBVIOUS
  <2>1. x.sent < RangeLength /\ x.got = [i \in 1 .. x.sent |-> i]
    BY <1>1 DEF Good
  <2>2. Append([i \in 1 .. x.sent |-> i], x.sent + 1) = [i \in 1 .. (x.sent + 1) |-> i]
    <3>1. ASSUME NEW n \in Nat
          PROVE  Append([i \in 1 .. n |-> i], n + 1) = [i \in 1 .. (n + 1) |-> i]
      <4> DEFINE q == [i \in 1 .. n |-> i]
                 r == [i \in 1 .. (n + 1) |-> i]
      <4>1. q \in Seq(Nat) /\ Len(q) = n /\ r \in Seq(Nat) /\ Len(r) = n + 1
        OBVIOUS
      <4>2. \A i \in 1 .. n : q[i] = i
        OBVIOUS
      <4>3. \A i \in 1 .. (n + 1) : r[i] = i
        OBVIOUS
      <4> HIDE DEF q, r
      <4>4. Append(q, n + 1) \in Seq(Nat) /\ Len(Append(q, n + 1)) = n + 1
        BY <4>1
      <4>5. ASSUME NEW i \in 1 .. (n + 1) PROVE Append(q, n + 1)[i] = r[i]
        BY <4>1, <4>2, <4>3
      <4>6. Append(q, n + 1) = r
        BY <4>1, <4>4, <4>5
      <4> QED
        BY <4>6 DEF q, r
    <3> QED
      BY <1>1, <3>1
  <2> QED
    BY <2>1, <2>2
<1> HIDE DEF got
<1>4. CASE c \in Fetchers /\ next < RangeLength
  <2>1. call'[c] = [x EXCEPT !.got = got, !.sent = next]
    BY <1>4 DEF Answer, Inv, got
  <2>2. next \in 0 .. RangeLength
    BY <1>1, <1>4, ClientAssumption
  <2>3. /\ call'[c] \in Call /\ call'[c].got = got /\ call'[c].sent = next
        /\ call'[c].step = x.step /\ call'[c].tried = x.tried /\ call'[c].chan = x.chan
    BY <1>1, <1>2, <2>1, <2>2 DEF Call
  <2> QED
    BY <1>1, <1>3, <1>4, <2>3 DEF Good
<1>5. CASE ~(c \in Fetchers /\ next < RangeLength)
  <2>1. call'[c] = [Off EXCEPT !.step = "ok", !.got = got, !.chan = chan]
    BY <1>5 DEF Answer, Inv, got
  <2>2. chan \in Channels \cup {NoChannel}
    BY <1>1
  <2>3. /\ call'[c] \in Call /\ call'[c].got = got /\ call'[c].step = "ok"
        /\ call'[c].tried = {}
    <3>1. 0 \in 0 .. RetryLimit /\ 0 \in 0 .. RangeLength
      BY ClientAssumption
    <3> HIDE DEF chan
    <3> DEFINE y == [Off EXCEPT !.step = "ok", !.got = got, !.chan = chan]
    <3>2. y \in Call /\ y.got = got /\ y.step = "ok" /\ y.tried = {}
      BY <1>2, <2>2, <3>1 DEF Call, Off
    <3> QED
      BY <2>1, <3>2
  <2>4. c \in Fetchers => next = RangeLength
    BY <1>1, <1>3, <1>5, ClientAssumption
  <2> QED
    BY <1>3, <2>3, <2>4 DEF Good
<1> QED
  BY <1>4, <1>5

-----------------------------------------------------------------------------
(* Steps.                                                                  *)

LEMMA ConnectionsType ==
    ASSUME NEW now \in [Channels -> ConnState], Connections(now)
    PROVE  conns' \in [Channels -> ConnState]
  BY DEF Connections, ConnState

\* A step that replaces one call, and the cached channel if need be.
LEMMA OneCall ==
    ASSUME Inv, NEW c \in Callers, LoopOK',
           call' = [call EXCEPT ![c] = call'[c]], Good(c, call'[c], cache'),
           \A d \in Callers : Good(d, call[d], cache')
    PROVE  Inv'
<1>1. \A d \in Callers : Good(d, call'[d], cache') /\ call'[d] \in Call
  <2> SUFFICES ASSUME NEW d \in Callers
               PROVE  Good(d, call'[d], cache') /\ call'[d] \in Call
    OBVIOUS
  <2>1. CASE d = c
    BY <2>1 DEF Good
  <2>2. CASE d # c
    <3>1. call'[d] = call[d]
      BY <2>2 DEF Inv
    <3> QED
      BY <3>1 DEF Good
  <2> QED
    BY <2>1, <2>2
<1>2. call' \in [Callers -> Call]
  BY <1>1 DEF Inv
<1> QED
  BY <1>1, <1>2 DEF Inv

\* A step that replaces every call.
LEMMA AllCalls ==
    ASSUME LoopOK', call' = [c \in Callers |-> call'[c]],
           \A c \in Callers : Good(c, call'[c], cache')
    PROVE  Inv'
<1>1. call' \in [Callers -> Call]
  BY DEF Good
<1> QED
  BY <1>1 DEF Inv

\* A step that leaves the calls and the cache alone.
LEMMA NoCall ==
    ASSUME Inv, LoopOK', UNCHANGED << call, cache >>
    PROVE  Inv'
  BY DEF Inv

\* An attempt fails, for whatever reason.
LEMMA FailsStep ==
    ASSUME Inv, NEW c \in Callers, AttemptFails(c),
           UNCHANGED << urlValid, Loop, moved >>, Connections(conns),
           faults' \in 0 .. MaxFaults
    PROVE  Inv'
<1>1. /\ Good(c, call[c], cache) /\ \A d \in Callers : Good(d, call[d], cache)
      /\ conns \in [Channels -> ConnState] /\ call \in [Callers -> Call]
      /\ LoopOK
  BY DEF Inv, LoopOK
<1>2. conns' \in [Channels -> ConnState]
  BY <1>1, ConnectionsType
<1>3. CASE /\ Retries(call[c].attempt)
           /\ call' = [call EXCEPT ![c] = Retrying(c)]
           /\ RemoveChannel(c)
  <2>1. cache' = NoChannel /\ call'[c] = Retrying(c)
    BY <1>1, <1>3 DEF RemoveChannel
  <2>2. LoopOK'
    BY <1>1, <1>2, <2>1 DEF LoopOK, Loop
  <2>3. \A d \in Callers : Good(d, call[d], cache')
    BY <1>1, <2>1, EmptyCacheGood
  <2>4. Good(c, call'[c], cache')
    BY <1>1, <1>3, <2>1, RetryingGood
  <2>5. call' = [call EXCEPT ![c] = call'[c]]
    BY <1>3, <2>1
  <2> QED
    BY <2>2, <2>3, <2>4, <2>5, OneCall
<1>4. CASE /\ call' = [call EXCEPT ![c] = [Off EXCEPT !.step = "error"]]
           /\ UNCHANGED cache
  <2> DEFINE e == [Off EXCEPT !.step = "error"]
  <2>1. Good(c, e, cache')
    BY IdleGood
  <2>2. call' = [call EXCEPT ![c] = e]
    BY <1>4
  <2> HIDE DEF e
  <2>3. call'[c] = e
    BY <1>1, <2>2
  <2>4. LoopOK'
    BY <1>1, <1>2, <1>4 DEF LoopOK, Loop
  <2>5. \A d \in Callers : Good(d, call[d], cache')
    BY <1>1, <1>4
  <2> QED
    BY <2>1, <2>2, <2>3, <2>4, <2>5, OneCall
<1> QED
  BY <1>3, <1>4 DEF AttemptFails

\* One step of with_lightwalletd_retry.  What is cached is handed out only to
\* calls that did not fail on it; a new connection is a channel nobody tried.
LEMMA CallStepInv ==
    ASSUME Inv, NEW c \in Callers, CallStep(c)
    PROVE  Inv'
<1>1. /\ Good(c, call[c], cache) /\ \A d \in Callers : Good(d, call[d], cache)
      /\ conns \in [Channels -> ConnState] /\ call \in [Callers -> Call]
      /\ call[c] \in Call /\ cache \in Channels \cup {NoChannel} /\ LoopOK
  BY DEF Inv, LoopOK, Good
<1>2. ASSUME Connections(conns) PROVE conns' \in [Channels -> ConnState]
  BY <1>1, <1>2, ConnectionsType
<1>3. ASSUME Connections(conns), UNCHANGED << urlValid, cache, Loop, moved, faults >>
      PROVE  LoopOK' /\ \A d \in Callers : Good(d, call[d], cache')
  BY <1>1, <1>2, <1>3 DEF LoopOK, Loop
<1>4. CASE GetChannel(c)
  <2> DEFINE x == [call[c] EXCEPT !.step = IF cache # NoChannel THEN "request" ELSE "connect",
                                  !.chan = cache]
  <2>1. call' = [call EXCEPT ![c] = x] /\ call[c].step = "get"
    BY <1>1, <1>4 DEF GetChannel
  <2>2. Connections(conns) /\ UNCHANGED << urlValid, cache, Loop, moved, faults >>
    BY <1>4 DEF GetChannel
  <2>3. /\ x \in Call /\ x.tried = call[c].tried /\ x.chan = cache
        /\ x.got = call[c].got /\ x.sent = call[c].sent
        /\ x.step = IF cache # NoChannel THEN "request" ELSE "connect"
    BY <1>1 DEF Call
  <2> HIDE DEF x
  <2>4. Good(c, x, cache)
    BY <1>1, <2>1, <2>3 DEF Good
  <2>5. call'[c] = x
    BY <1>1, <2>1
  <2> QED
    BY <1>3, <2>1, <2>2, <2>4, <2>5, OneCall
<1>5. CASE Connect(c)
  <2> DEFINE k == CHOOSE n \in Unused : TRUE
             x == [call[c] EXCEPT !.step = "request", !.chan = k]
  <2>1. k \in Unused
    BY <1>5 DEF Connect
  <2>2. /\ call[c].step = "connect"
        /\ cache' = k /\ call' = [call EXCEPT ![c] = x]
        /\ UNCHANGED << urlValid, Loop, moved, faults >>
        /\ Connections([conns EXCEPT ![k] = "up"])
    BY <1>1, <1>5 DEF Connect
  <2> HIDE DEF k
  <2>3. k \in Channels /\ \A d \in Callers : k \notin call[d].tried
    BY <2>1 DEF Unused
  <2>4. /\ x \in Call /\ x.tried = call[c].tried /\ x.chan = k /\ x.step = "request"
        /\ x.got = call[c].got /\ x.sent = call[c].sent
    BY <1>1, <2>3 DEF Call
  <2> HIDE DEF x
  <2>5. Good(c, x, cache')
    BY <1>1, <2>2, <2>3, <2>4 DEF Good
  <2>6. \A d \in Callers : Good(d, call[d], cache')
    BY <1>1, <2>2, <2>3 DEF Good
  <2>7. call'[c] = x
    BY <1>1, <2>2
  <2>8. LoopOK'
    <3>1. [conns EXCEPT ![k] = "up"] \in [Channels -> ConnState]
      BY <1>1, <2>3 DEF ConnState
    <3>2. conns' \in [Channels -> ConnState]
      BY <2>2, <3>1, ConnectionsType
    <3> QED
      BY <1>1, <2>2, <2>3, <3>2 DEF LoopOK, Loop
  <2> QED
    BY <2>2, <2>5, <2>6, <2>7, <2>8, OneCall
<1>6. CASE RefuseUrl(c)
  <2> DEFINE e == [Off EXCEPT !.step = "error"]
  <2>1. /\ call' = [call EXCEPT ![c] = e] /\ Connections(conns)
        /\ UNCHANGED << urlValid, cache, Loop, moved, faults >>
    BY <1>6 DEF RefuseUrl
  <2>2. Good(c, e, cache')
    BY IdleGood
  <2> HIDE DEF e
  <2>3. call'[c] = e
    BY <1>1, <2>1
  <2> QED
    BY <1>3, <2>1, <2>2, <2>3, OneCall
<1>7. faults \in 0 .. MaxFaults /\ (Fault => faults' \in 0 .. MaxFaults)
  BY <1>1, ClientAssumption DEF LoopOK, Fault
<1>8. CASE ConnectFails(c) \/ ServerError(c)
  BY <1>7, <1>8, FailsStep DEF ConnectFails, ServerError
<1>9. CASE ConnectionLost(c) \/ RequestTimeout(c)
  BY <1>7, <1>9, FailsStep DEF ConnectionLost, RequestTimeout
<1>10. CASE Answer(c)
  <2>1. Connections(conns) /\ UNCHANGED << urlValid, cache, Loop, moved, faults >>
    BY <1>10 DEF Answer
  <2>2. call' = [call EXCEPT ![c] = call'[c]]
    BY <1>1, <1>10 DEF Answer
  <2>3. Good(c, call'[c], cache')
    BY <1>10, <2>1, AnswerGood
  <2> QED
    BY <1>3, <2>1, <2>2, <2>3, OneCall
<1>11. CASE NextAttempt(c)
  <2> DEFINE x == [call[c] EXCEPT !.step = "get", !.attempt = @ + 1]
  <2>1. /\ call' = [call EXCEPT ![c] = x] /\ call[c].step = "sleep" /\ Connections(conns)
        /\ UNCHANGED << urlValid, cache, Loop, moved, faults >>
    BY <1>1, <1>11 DEF NextAttempt
  <2>2. call[c].attempt + 1 \in 0 .. RetryLimit
    <3>1. call[c].attempt \in 0 .. RetryLimit /\ call[c].attempt < RetryLimit
      BY <1>1, <2>1 DEF Good, Call
    <3> QED
      BY <3>1, ClientAssumption
  <2>3. /\ x \in Call /\ x.tried = call[c].tried /\ x.step = "get"
        /\ x.got = call[c].got /\ x.sent = call[c].sent
    BY <1>1, <2>2 DEF Call
  <2> HIDE DEF x
  <2>4. Good(c, x, cache)
    BY <1>1, <2>1, <2>3 DEF Good
  <2>5. call'[c] = x
    BY <1>1, <2>1
  <2> QED
    BY <1>3, <2>1, <2>4, <2>5, OneCall
<1> QED
  BY <1>4, <1>5, <1>6, <1>8, <1>9, <1>10, <1>11 DEF CallStep

\* Steps of the sync loop that turn calls on and off.
LEMMA LoopStep ==
    ASSUME Inv, LoopOK', UNCHANGED cache, DOMAIN call' = Callers,
           call' = [c \in Callers |-> call'[c]],
           \A c \in Callers : call'[c] \in {call[c], Off, Begun}
    PROVE  Inv'
<1>1. \A c \in Callers : Good(c, call'[c], cache')
  BY IdleGood DEF Inv
<1> QED
  BY <1>1, AllCalls

\* The network: conns changes, nothing else but the count of faults.
LEMMA NetworkStep ==
    ASSUME Inv, NEW k \in Channels,
           Breaks(k) \/ KeepaliveTimeout(k) \/ MuteEnds(k) \/ Reconnects(k)
    PROVE  Inv'
<1>1. conns \in [Channels -> ConnState] /\ faults \in 0 .. MaxFaults
  BY DEF Inv, LoopOK
<1>2. conns' \in [Channels -> ConnState]
  BY <1>1 DEF Breaks, KeepaliveTimeout, MuteEnds, Reconnects, ConnState
<1>3. faults' \in 0 .. MaxFaults
  BY <1>1, ClientAssumption DEF Breaks, Fault, KeepaliveTimeout, MuteEnds, Reconnects
<1>4. UNCHANGED << urlValid, cache, call, Loop, moved >>
  BY DEF Breaks, KeepaliveTimeout, MuteEnds, Reconnects
<1>5. LoopOK'
  BY <1>2, <1>3, <1>4 DEF Inv, LoopOK, Loop
<1> QED
  BY <1>4, <1>5, NoCall

\* The other steps of the sync loop, and a block.
LEMMA SyncStep ==
    ASSUME Inv,
           \/ \E f \in Fetchers : StartFetch(f)
           \/ EndIteration \/ StreamOpened \/ TipAnswered \/ StreamEnds \/ PollTip
           \/ StartReconcile \/ Reconciling \/ NewBlock
    PROVE  Inv'
<1>1. /\ conns \in [Channels -> ConnState] /\ call \in [Callers -> Call] /\ LoopOK
      /\ \A c \in Callers : call[c].chan \in Channels \cup {NoChannel}
  BY DEF Inv, LoopOK, Call
<1>2. /\ {"stream", "tip", "snapshot", "transaction"} \subseteq Callers
      /\ Fetchers \subseteq Callers
  BY DEF Callers, Waiters, Reconcilers
<1>3. ASSUME Connections(conns) PROVE conns' \in [Channels -> ConnState]
  BY <1>1, <1>3, ConnectionsType
<1>4. ASSUME EndWait PROVE Inv'
  <2>1. LoopOK'
    BY <1>1, <1>3, <1>4 DEF EndWait, LoopOK
  <2>2. /\ UNCHANGED cache /\ call' = [c \in Callers |-> Off]
    BY <1>4 DEF EndWait
  <2>3. \A c \in Callers : call'[c] = Off
    BY <2>2
  <2>4. DOMAIN call' = Callers /\ call' = [c \in Callers |-> call'[c]]
    BY <2>2
  <2> QED
    BY <2>1, <2>2, <2>3, <2>4, LoopStep
<1>5. CASE \E f \in Fetchers : StartFetch(f)
  <2>1. PICK f \in Fetchers : StartFetch(f)
    BY <1>5
  <2>2. LoopOK' /\ UNCHANGED cache
    BY <1>1, <1>3, <2>1 DEF StartFetch, LoopOK, Loop
  <2>3. call' = [call EXCEPT ![f] = Begun]
    BY <2>1 DEF StartFetch
  <2>4. \A c \in Callers : call'[c] \in {call[c], Off, Begun}
    BY <1>1, <2>3
  <2>5. DOMAIN call' = Callers /\ call' = [c \in Callers |-> call'[c]]
    BY <1>1, <2>3
  <2> QED
    BY <2>2, <2>4, <2>5, LoopStep
<1>6. CASE EndIteration
  <2> DEFINE failed == \E f \in Fetchers : call[f].step = "error"
  <2>1. /\ phase' = IF failed THEN "iterate" ELSE "opening"
        /\ call' = [c \in Callers |-> IF c = "stream" /\ ~failed THEN Begun ELSE Off]
        /\ moved' = (moved /\ failed)
        /\ UNCHANGED << urlValid, cache, stream, periodic, faults >>
        /\ Connections(conns)
    BY <1>6 DEF EndIteration
  <2>2. moved' \in BOOLEAN /\ phase' \in {"iterate", "opening"}
    BY <2>1
  <2>3. LoopOK'
    BY <1>1, <1>3, <2>1, <2>2 DEF LoopOK
  <2> HIDE DEF failed
  <2>4. \A c \in Callers : call'[c] \in {call[c], Off, Begun}
    BY <2>1
  <2>5. DOMAIN call' = Callers /\ call' = [c \in Callers |-> call'[c]]
    BY <2>1
  <2> QED
    BY <2>1, <2>3, <2>4, <2>5, LoopStep
<1>7. CASE StreamOpened
  <2>1. CASE EndWait
    BY <1>4, <2>1
  <2>2. CASE ~EndWait
    <3>1. /\ phase' = "checking" /\ stream' = call["stream"].chan
          /\ call' = [call EXCEPT !["stream"] = Off, !["tip"] = Begun]
          /\ UNCHANGED << urlValid, cache, periodic, moved, faults >>
          /\ Connections(conns)
      BY <1>7, <2>2 DEF StreamOpened
    <3>2. LoopOK'
      BY <1>1, <1>2, <1>3, <3>1 DEF LoopOK
    <3>3. \A c \in Callers : call'[c] \in {call[c], Off, Begun}
      BY <1>1, <1>2, <3>1
    <3>4. DOMAIN call' = Callers /\ call' = [c \in Callers |-> call'[c]]
      BY <1>1, <3>1
    <3> QED
      BY <3>1, <3>2, <3>3, <3>4, LoopStep
  <2> QED
    BY <2>1, <2>2
<1>8. CASE TipAnswered
  <2>1. CASE EndWait
    BY <1>4, <2>1
  <2>2. CASE ~EndWait
    <3>1. /\ phase' = "watching" /\ call' = [call EXCEPT !["tip"] = Off]
          /\ UNCHANGED << urlValid, cache, stream, periodic, moved, faults >>
          /\ Connections(conns)
      BY <1>8, <2>2 DEF TipAnswered
    <3>2. LoopOK'
      BY <1>1, <1>3, <3>1 DEF LoopOK
    <3>3. \A c \in Callers : call'[c] \in {call[c], Off, Begun}
      BY <1>1, <3>1
    <3>4. DOMAIN call' = Callers /\ call' = [c \in Callers |-> call'[c]]
      BY <1>1, <3>1
    <3> QED
      BY <3>1, <3>2, <3>3, <3>4, LoopStep
  <2> QED
    BY <2>1, <2>2
<1>9. CASE StreamEnds
  BY <1>4, <1>9 DEF StreamEnds
<1>10. CASE PollTip \/ StartReconcile
  <2>1. LoopOK' /\ UNCHANGED cache
    BY <1>1, <1>3, <1>10 DEF PollTip, StartReconcile, LoopOK
  <2>2. \/ call' = [call EXCEPT !["tip"] = Begun]
        \/ call' = [call EXCEPT !["snapshot"] = Begun]
    BY <1>10 DEF PollTip, StartReconcile
  <2>3. \A c \in Callers : call'[c] \in {call[c], Off, Begun}
    BY <1>1, <2>2
  <2>4. DOMAIN call' = Callers /\ call' = [c \in Callers |-> call'[c]]
    BY <1>1, <2>2
  <2> QED
    BY <2>1, <2>3, <2>4, LoopStep
<1>11. CASE Reconciling
  <2>1. CASE EndWait
    BY <1>4, <2>1
  <2>2. CASE ~EndWait
    <3>1. /\ UNCHANGED << urlValid, cache, phase, stream, moved, faults >>
          /\ Connections(conns) /\ periodic' \in {periodic, FALSE}
          /\ \/ call' = [call EXCEPT !["snapshot"] = Off, !["transaction"] = Begun]
             \/ call' = [call EXCEPT !["snapshot"] = Off, !["transaction"] = Off]
      BY <1>11, <2>2 DEF Reconciling, Loop
    <3>2. LoopOK'
      BY <1>1, <1>3, <3>1 DEF LoopOK
    <3>3. \A c \in Callers : call'[c] \in {call[c], Off, Begun}
      BY <1>1, <3>1
    <3>4. DOMAIN call' = Callers /\ call' = [c \in Callers |-> call'[c]]
      BY <1>1, <3>1
    <3> QED
      BY <3>1, <3>2, <3>3, <3>4, LoopStep
  <2> QED
    BY <2>1, <2>2
<1>12. CASE NewBlock
  <2>1. LoopOK' /\ UNCHANGED << call, cache >>
    BY <1>1, <1>3, <1>12 DEF NewBlock, LoopOK, Loop
  <2> QED
    BY <2>1, NoCall
<1> QED
  BY <1>5, <1>6, <1>7, <1>8, <1>9, <1>10, <1>11, <1>12

LEMMA NextInv == Inv /\ [Next]_vars => Inv'
<1> SUFFICES ASSUME Inv, [Next]_vars PROVE Inv'
  OBVIOUS
<1>1. Fetchers \subseteq Callers /\ Waiters \subseteq Callers /\ Reconcilers \subseteq Callers
  BY DEF Callers
<1>2. CASE \E c \in Callers : CallStep(c)
  BY <1>2, CallStepInv
<1>3. CASE \E k \in Channels :
              Breaks(k) \/ KeepaliveTimeout(k) \/ MuteEnds(k) \/ Reconnects(k)
  BY <1>3, NetworkStep
<1>4. CASE \/ \E f \in Fetchers : StartFetch(f)
           \/ EndIteration \/ StreamOpened \/ TipAnswered \/ StreamEnds \/ PollTip
           \/ StartReconcile \/ Reconciling \/ NewBlock
  BY <1>4, SyncStep
<1>5. CASE UNCHANGED vars
  <2>1. UNCHANGED << call, cache >> /\ LoopOK'
    BY <1>5 DEF vars, Inv, LoopOK
  <2> QED
    BY <2>1, NoCall
<1> QED
  BY <1>1, <1>2, <1>3, <1>4, <1>5 DEF Next, WaitStep, ReconcileStep

LEMMA InitInv == Init => Inv
<1> SUFFICES ASSUME Init PROVE Inv
  OBVIOUS
<1>1. LoopOK
  <2>1. conns \in [Channels -> ConnState]
    BY DEF Init, ConnState
  <2>2. faults \in 0 .. MaxFaults
    BY ClientAssumption DEF Init
  <2>3. urlValid \in BOOLEAN /\ periodic \in BOOLEAN /\ moved \in BOOLEAN
    BY DEF Init
  <2> QED
    BY <2>1, <2>2, <2>3 DEF Init, LoopOK
<1>2. \A c \in Callers : call[c] = Off
  BY DEF Init
<1>3. \A c \in Callers : Good(c, call[c], cache)
  BY <1>2, IdleGood
<1>4. call \in [Callers -> Call]
  BY <1>3 DEF Good, Init
<1> QED
  BY <1>1, <1>3, <1>4 DEF Inv

-----------------------------------------------------------------------------
\* ClientInvariance: the cached channel is never one on which a running call
\* failed, calls keep to their attempts, and a download has read exactly what
\* its attempt was sent.
THEOREM ClientInvariance == Spec => []ClientInv
<1>1. Inv => ClientInv
  BY InvIsClientInv
<1> QED
  BY <1>1, InitInv, NextInv, PTL DEF Spec

\* RetryTheorem: with_lightwalletd_retry makes at most RetryLimit attempts and
\* never a second one on a channel that failed it, whatever the other calls do
\* to the shared cache.
THEOREM RetryTheorem == Spec => []RetryOnFresh
<1>1. Inv => RetryOnFresh
  <2> SUFFICES ASSUME Inv, NEW c \in Callers
               PROVE  /\ call[c].attempt <= RetryLimit
                      /\ call[c].step = "request" => call[c].chan \notin call[c].tried
    BY DEF RetryOnFresh
  <2>1. Good(c, call[c], cache)
    BY DEF Inv
  <2>2. call[c].attempt \in 0 .. RetryLimit
    BY <2>1 DEF Good, Call
  <2> QED
    BY <2>1, <2>2, ClientAssumption DEF Good
<1> QED
  BY <1>1, InitInv, NextInv, PTL DEF Spec

\* RangeTheorem: fetch_compact_blocks_for_height_range returns every block of
\* its range once, after any number of failed attempts.
THEOREM RangeTheorem == Spec => []RangeExact
<1>1. Inv => RangeExact
  BY InvIsClientInv
<1> QED
  BY <1>1, InitInv, NextInv, PTL DEF Spec
=============================================================================
