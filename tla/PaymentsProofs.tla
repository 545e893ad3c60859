--------------------------- MODULE PaymentsProofs ---------------------------
(***************************************************************************)
(* Proofs about Payments, for every viewing key, every set of sessions and *)
(* requests and every order of their steps: what an answered session may   *)
(* rely on, when a session is refused, that an address is credited exactly *)
(* what was paid to it, and that the rest a payer is asked for completes   *)
(* the payment.                                                            *)
(***************************************************************************)
EXTENDS Payments, FiniteSetTheorems, WellFoundedInduction, TLAPS

-----------------------------------------------------------------------------
(* Lemmas about the operators of the allocation.                           *)

\* A set of indices that is not empty has a least one: the induction theorems
\* need an operator, the well-founded order on the naturals does not.
LEMMA LeastIndex ==
    ASSUME NEW T, T \subseteq Nat, T # {}
    PROVE  /\ Min(T) \in T
           /\ \A y \in T : Min(T) =< y
<1> DEFINE Less == OpToRel(<, Nat)
<1>1. IsWellFoundedOn(Less, Nat)
  BY NatLessThanWellFounded, Zenon
<1>2. \A x, y \in Nat : << y, x >> \in Less <=> y < x
  BY DEF OpToRel
<1> HIDE DEF Less
<1>3. PICK x \in T : \A y \in T : << y, x >> \notin Less
  BY <1>1, WFMin, Zenon
<1>4. \A y \in T : ~ (y < x)
  BY <1>2, <1>3, Zenon
<1>5. \A y \in T : x =< y
  BY <1>4
<1> QED BY <1>5 DEF Min

\* The indices of a viewing key are naturals, and none of them is NoIndex.
LEMMA IndexType ==
    ASSUME BookTypes
    PROVE  wallet.valid \subseteq Nat /\ NoIndex \notin wallet.valid
BY BookAssumption DEF BookTypes, wallet

\* The rows of issued_addresses.
Rows == [index : wallet.valid, amount : {r.amount : r \in Requests}]

LEMMA IssuedRows ==
    ASSUME BookTypes
    PROVE  /\ issued \in Seq(Rows)
           /\ Len(issued) \in Nat
           /\ DOMAIN issued = 1 .. Len(issued)
           /\ \A k \in DOMAIN issued : issued[k].index \in wallet.valid
<1>1. issued \in Seq(Rows)
  BY DEF BookTypes, Rows
<1>2. \A row \in Rows : row.index \in wallet.valid
  BY DEF Rows
<1> QED BY <1>1, <1>2

\* derive_address_after may take what is above every issued index.
LEMMA FreeIsDerivable ==
    ASSUME BookTypes, IndicesGrow
    PROVE  Derivable(LastIndex) = FreeIndices
<1>1. CASE issued = << >>
  BY <1>1 DEF Derivable, LastIndex, FreeIndices
<1>2. CASE issued # << >>
  <2>1. Len(issued) \in DOMAIN issued /\ LastIndex = issued[Len(issued)].index
    BY <1>2, IssuedRows DEF LastIndex
  <2>2. LastIndex \in wallet.valid /\ LastIndex # NoIndex
    BY <2>1, IssuedRows, IndexType
  <2>3. \A k \in DOMAIN issued : issued[k].index =< LastIndex
    BY <2>1, IssuedRows, IndexType DEF IndicesGrow
  <2>4. \A i \in wallet.valid : i > LastIndex <=> \A k \in DOMAIN issued : issued[k].index < i
    BY <2>1, <2>2, <2>3, IssuedRows, IndexType
  <2> QED BY <2>2, <2>4 DEF Derivable, FreeIndices
<1> QED BY <1>1, <1>2

\* An index above all others is accepted unless one of its receivers has the
\* fingerprint of an issued one.
LEMMA UniqueFree ==
    ASSUME BookTypes, ReceiversExact, NEW i \in FreeIndices
    PROVE  Unique(i) <=>
               \A k \in DOMAIN issued, p \in Pools :
                   FingerprintOf(p, issued[k].index) # FingerprintOf(p, i)
<1>1. \A k \in DOMAIN issued : issued[k].index # i
  BY IssuedRows, IndexType DEF FreeIndices
<1>2. ASSUME NEW k \in DOMAIN issued, NEW p \in Pools
      PROVE  \E r \in receivers : r.pool = p /\ r.fingerprint = FingerprintOf(p, issued[k].index)
  <2> DEFINE r == [address_id |-> k, pool |-> p,
                   fingerprint |-> FingerprintOf(p, issued[k].index)]
  <2>1. r \in receivers
    BY DEF ReceiversExact, NewReceivers
  <2> QED BY <2>1
<1>3. ASSUME NEW r \in receivers
      PROVE  \E k \in DOMAIN issued :
                r.pool \in Pools /\ r.fingerprint = FingerprintOf(r.pool, issued[k].index)
  BY DEF ReceiversExact, NewReceivers
<1>4. (\A r \in receivers : r.fingerprint # FingerprintOf(r.pool, i)) <=>
          \A k \in DOMAIN issued, p \in Pools :
              FingerprintOf(p, issued[k].index) # FingerprintOf(p, i)
  <2>1. ASSUME \A r \in receivers : r.fingerprint # FingerprintOf(r.pool, i),
               NEW k \in DOMAIN issued, NEW p \in Pools
        PROVE  FingerprintOf(p, issued[k].index) # FingerprintOf(p, i)
    BY <1>2, <2>1
  <2>2. ASSUME \A k \in DOMAIN issued, p \in Pools :
                   FingerprintOf(p, issued[k].index) # FingerprintOf(p, i),
               NEW r \in receivers
        PROVE  r.fingerprint # FingerprintOf(r.pool, i)
    BY <1>3, <2>2
  <2> QED BY <2>1, <2>2
<1> QED BY <1>1, <1>4 DEF Unique

\* An allocation fails exactly when no address can be issued any more.
LEMMA AllocationFails ==
    ASSUME BookTypes, IndicesGrow, ReceiversExact
    PROVE  LET free == Derivable(LastIndex)
           IN  (free # {} /\ Unique(Min(free))) <=> ~Blocked
<1>1. Derivable(LastIndex) = FreeIndices /\ FreeIndices \subseteq Nat
  BY FreeIsDerivable, IndexType DEF FreeIndices
<1>2. ASSUME FreeIndices # {} PROVE Min(FreeIndices) \in FreeIndices
  BY <1>1, <1>2, LeastIndex
<1> QED BY <1>1, <1>2, UniqueFree DEF Blocked

-----------------------------------------------------------------------------
(* What each step of a session does to it.                                 *)

\* A step of session s leaves the others as they were.
Changed(s) ==
    /\ scenario' = scenario
    /\ req' \in [Sessions -> ReqStates]
    /\ \A t \in Sessions \ {s} : req'[t] = req[t]

Under(s, step) == req[s].step = step

\* Any new state of one session is such a step.
LEMMA ChangedType ==
    ASSUME BookTypes, NEW s \in Sessions, NEW r \in ReqStates,
           req' = [req EXCEPT ![s] = r], scenario' = scenario
    PROVE  Changed(s) /\ req'[s] = r
BY DEF BookTypes, Changed

\* The state of a session that ended.
LEMMA EndType == \A step \in Steps : At(step) \in ReqStates /\ At(step).step = step
BY DEF At, ReqStates

LEMMA ValidateEffect ==
    ASSUME BookInv, NEW s \in Sessions, Validate(s)
    PROVE  /\ Changed(s)
           /\ UNCHANGED << issued, receivers, links, lock >>
           /\ Under(s, "idle")
           /\ \/ req'[s].step = "rejected"
              \/ req'[s].step = "begin" /\ req'[s].request \in Requests
<1>1. BookTypes /\ req[s] \in ReqStates
  BY DEF BookInv, BookTypes
<1>2. PICK r \in scenario.requests[s] :
        \/ req' = [req EXCEPT ![s].step = "begin", ![s].request = r]
        \/ Fail(s, "rejected")
  BY DEF Validate
<1>3. r \in Requests
  BY <1>2 DEF Requests
<1>4. CASE req' = [req EXCEPT ![s].step = "begin", ![s].request = r]
  <2>1. [req[s] EXCEPT !.step = "begin", !.request = r] \in ReqStates
    BY <1>1, <1>3 DEF ReqStates, Steps
  <2>2. req' = [req EXCEPT ![s] = [req[s] EXCEPT !.step = "begin", !.request = r]]
    BY <1>1, <1>4 DEF BookTypes
  <2>3. Changed(s) /\ req'[s] = [req[s] EXCEPT !.step = "begin", !.request = r]
    BY <1>1, <2>1, <2>2, ChangedType DEF Validate
  <2>4. req'[s].step = "begin" /\ req'[s].request = r
    BY <1>1, <2>3 DEF ReqStates
  <2> QED BY <1>3, <2>3, <2>4 DEF Validate, Under
<1>5. CASE Fail(s, "rejected")
  <2>1. Changed(s) /\ req'[s] = At("rejected")
    BY <1>1, <1>5, EndType, ChangedType DEF Validate, Fail, Steps
  <2> QED BY <2>1, EndType DEF Validate, Under, Steps
<1> QED BY <1>2, <1>4, <1>5

LEMMA BeginEffect ==
    ASSUME BookInv, NEW s \in Sessions, BeginImmediate(s)
    PROVE  /\ Changed(s)
           /\ UNCHANGED << issued, receivers, links >>
           /\ Under(s, "begin") /\ lock = NoSession /\ lock' = s
           /\ req'[s].step = "insert"
           /\ req'[s].last = LastIndex
           /\ req'[s].request = req[s].request
<1>1. BookTypes /\ req[s] \in ReqStates
  BY DEF BookInv, BookTypes
<1>2. LastIndex \in wallet.valid \cup {NoIndex}
  BY <1>1, IssuedRows DEF LastIndex
<1> DEFINE r == [req[s] EXCEPT !.step = "insert", !.last = LastIndex]
<1>3. r \in ReqStates
  BY <1>1, <1>2 DEF ReqStates, Steps
<1>4. req' = [req EXCEPT ![s] = r]
  BY <1>1 DEF BookTypes, BeginImmediate
<1>5. Changed(s) /\ req'[s] = r
  BY <1>1, <1>3, <1>4, ChangedType DEF BeginImmediate
<1>6. r.step = "insert" /\ r.last = LastIndex /\ r.request = req[s].request
  BY <1>1 DEF ReqStates
<1> QED BY <1>5, <1>6 DEF BeginImmediate, Under

\* The insert of a session that holds the lock succeeds unless no address can
\* be issued.
LEMMA InsertEffect ==
    ASSUME BookInv, NEW s \in Sessions, InsertAddress(s)
    PROVE  /\ Changed(s)
           /\ links' = links
           /\ Under(s, "insert") /\ lock' = NoSession
           /\ \/ /\ Blocked
                 /\ req'[s].step = "refused"
                 /\ UNCHANGED << issued, receivers >>
              \/ /\ ~Blocked
                 /\ \E index \in FreeIndices :
                       /\ Unique(index)
                       /\ issued' = Append(issued, [index  |-> index,
                                                    amount |-> req[s].request.amount])
                       /\ receivers' = receivers \cup NewReceivers(Len(issued) + 1, index)
                 /\ req'[s].step = "link"
                 /\ req'[s].id = Len(issued) + 1
                 /\ req'[s].request = req[s].request
<1>1. BookTypes /\ req[s] \in ReqStates /\ Len(issued) \in Nat
  BY IssuedRows DEF BookInv, BookTypes
<1>2. Under(s, "insert") /\ req[s].last = LastIndex
  BY DEF BookInv, LockHeld, InsertAddress, Under
<1> DEFINE free == Derivable(LastIndex)
<1>3. free = FreeIndices
  BY FreeIsDerivable DEF BookInv
<1>4. (free # {} /\ Unique(Min(free))) <=> ~Blocked
  BY AllocationFails DEF BookInv
<1>5. CASE Blocked
  <2>1. Fail(s, "refused") /\ UNCHANGED << issued, receivers >>
    BY <1>2, <1>4, <1>5 DEF InsertAddress
  <2>2. Changed(s) /\ req'[s] = At("refused")
    BY <1>1, <2>1, EndType, ChangedType DEF InsertAddress, Fail, Steps
  <2> QED BY <1>2, <1>5, <2>1, <2>2, EndType DEF InsertAddress, Steps
<1>6. CASE ~Blocked
  <2> DEFINE index == Min(free)
             r == [req[s] EXCEPT !.step = "link", !.id = Len(issued) + 1]
  <2>1. /\ issued' = Append(issued, [index |-> index, amount |-> req[s].request.amount])
        /\ receivers' = receivers \cup NewReceivers(Len(issued) + 1, index)
        /\ req' = [req EXCEPT ![s].step = "link", ![s].id = Len(issued) + 1]
        /\ Unique(index)
    BY <1>2, <1>4, <1>6 DEF InsertAddress
  <2>2. index \in FreeIndices
    BY <1>3, <1>4, <1>6, LeastIndex, IndexType, <1>1 DEF FreeIndices
  <2>3. r \in ReqStates
    <3>1. \A q \in ReqStates, n \in Nat :
            [q EXCEPT !.step = "link", !.id = n] \in ReqStates
      BY DEF ReqStates, Steps
    <3>2. Len(issued) + 1 \in Nat
      BY <1>1
    <3> QED BY <1>1, <3>1, <3>2
  <2>4. req' = [req EXCEPT ![s] = r]
    BY <1>1, <2>1 DEF BookTypes
  <2>5. Changed(s) /\ req'[s] = r
    BY <1>1, <2>3, <2>4, ChangedType DEF InsertAddress
  <2>6. r.step = "link" /\ r.id = Len(issued) + 1 /\ r.request = req[s].request
    BY <1>1 DEF ReqStates
  <2> HIDE DEF r, index
  <2> QED BY <1>2, <1>6, <2>1, <2>2, <2>5, <2>6 DEF InsertAddress
<1> QED BY <1>5, <1>6

LEMMA LinkEffect ==
    ASSUME BookInv, NEW s \in Sessions, InsertPaymentLink(s)
    PROVE  /\ Changed(s)
           /\ UNCHANGED << issued, receivers, lock >>
           /\ Under(s, "link") /\ lock = NoSession
           /\ DOMAIN links' = DOMAIN links \cup {s}
           /\ \A p \in DOMAIN links \ {s} : links'[p] = links[p]
           /\ links'[s] = [address_id |-> req[s].id, return_url |-> req[s].request.return_url]
           /\ req'[s].step = "answered"
           /\ req'[s].id = req[s].id
           /\ req'[s].request = req[s].request
<1>1. BookTypes /\ req[s] \in ReqStates
  BY DEF BookInv, BookTypes
<1> DEFINE r == [req[s] EXCEPT !.step = "answered", !.last = NoIndex]
<1>2. r \in ReqStates
  BY <1>1 DEF ReqStates, Steps
<1>3. req' = [req EXCEPT ![s] = r]
  BY <1>1 DEF BookTypes, InsertPaymentLink
<1>4. Changed(s) /\ req'[s] = r
  BY <1>1, <1>2, <1>3, ChangedType DEF InsertPaymentLink
<1>5. r.step = "answered" /\ r.id = req[s].id /\ r.request = req[s].request
  BY <1>1 DEF ReqStates
<1> QED BY <1>4, <1>5 DEF InsertPaymentLink, Under

LEMMA BusyEffect ==
    ASSUME BookInv, NEW s \in Sessions, DatabaseBusy(s)
    PROVE  /\ Changed(s)
           /\ UNCHANGED << issued, receivers, links, lock >>
           /\ Under(s, "begin") \/ Under(s, "link")
           /\ req'[s].step = "failed"
<1>1. BookTypes
  BY DEF BookInv
<1>2. Changed(s) /\ req'[s] = At("failed")
  BY <1>1, EndType, ChangedType DEF DatabaseBusy, Fail, Steps
<1> QED BY <1>2, EndType DEF DatabaseBusy, Under, Steps

\* A crash ends the requests under way and undoes an open transaction.
LEMMA CrashEffect ==
    ASSUME BookInv, Crash
    PROVE  /\ scenario' = scenario /\ UNCHANGED << issued, receivers, links >>
           /\ lock' = NoSession
           /\ req' \in [Sessions -> ReqStates]
           /\ \A s \in Sessions :
                \/ /\ req[s].step \in {"begin", "insert", "link"}
                   /\ req'[s].step = "failed"
                \/ /\ req[s].step \notin {"begin", "insert", "link"}
                   /\ req'[s] = req[s]
<1>1. req \in [Sessions -> ReqStates]
  BY DEF BookInv, BookTypes
<1>2. At("failed") \in ReqStates /\ At("failed").step = "failed"
  BY EndType DEF Steps
<1>3. req' = [s \in Sessions |->
                IF req[s].step \in {"begin", "insert", "link"} THEN At("failed") ELSE req[s]]
  BY DEF Crash
<1>4. req' \in [Sessions -> ReqStates]
  BY <1>1, <1>2, <1>3
<1> QED BY <1>2, <1>3, <1>4 DEF Crash

-----------------------------------------------------------------------------
(* Each part of the invariant is kept by the steps of a session and by a   *)
(* crash.                                                                  *)

\* Every way a step of a session can go.
LEMMA SessionCases ==
    ASSUME BookInv, NEW s \in Sessions, Session(s)
    PROVE  /\ Changed(s)
           /\ \/ Validate(s) \/ BeginImmediate(s) \/ InsertAddress(s)
              \/ InsertPaymentLink(s) \/ DatabaseBusy(s)
BY ValidateEffect, BeginEffect, InsertEffect, LinkEffect, BusyEffect DEF Session

\* While the scenario stays, so do the key and the requests.
LEMMA ScenarioKept ==
    ASSUME scenario' = scenario
    PROVE  wallet' = wallet /\ Requests' = Requests /\ ReqStates' = ReqStates
BY DEF wallet, Requests, ReqStates

\* A new address is appended to the table with the next id.
LEMMA InsertAppends ==
    ASSUME BookInv, NEW s \in Sessions, InsertAddress(s), ~Blocked
    PROVE  /\ Len(issued') = Len(issued) + 1
           /\ DOMAIN issued' = DOMAIN issued \cup {Len(issued) + 1}
           /\ Len(issued) + 1 \notin DOMAIN issued
           /\ \A k \in DOMAIN issued : issued'[k] = issued[k]
           /\ issued'[Len(issued) + 1].index \in FreeIndices
           /\ Unique(issued'[Len(issued) + 1].index)
           /\ issued'[Len(issued) + 1].amount = req[s].request.amount
           /\ receivers' = receivers \cup NewReceivers(Len(issued) + 1,
                                                       issued'[Len(issued) + 1].index)
           /\ issued' \in Seq(Rows)
<1>1. BookTypes /\ RequestHeld /\ Under(s, "insert")
  BY InsertEffect DEF BookInv
<1>2. issued \in Seq(Rows) /\ Len(issued) \in Nat /\ DOMAIN issued = 1 .. Len(issued)
  BY <1>1, IssuedRows
<1>3. PICK index \in FreeIndices :
        /\ Unique(index)
        /\ issued' = Append(issued, [index |-> index, amount |-> req[s].request.amount])
        /\ receivers' = receivers \cup NewReceivers(Len(issued) + 1, index)
  BY InsertEffect
<1> DEFINE row == [index |-> index, amount |-> req[s].request.amount]
<1>4. req[s].request \in Requests
  BY <1>1 DEF RequestHeld, Under
<1>5. row \in Rows /\ row.index = index /\ row.amount = req[s].request.amount
  BY <1>4 DEF Rows, FreeIndices
<1> HIDE DEF row
<1>6. /\ Len(issued') = Len(issued) + 1
      /\ DOMAIN issued' = 1 .. (Len(issued) + 1)
      /\ \A k \in 1 .. Len(issued) : issued'[k] = issued[k]
      /\ issued'[Len(issued) + 1] = row
      /\ issued' \in Seq(Rows)
  BY <1>2, <1>3, <1>5 DEF row
<1> QED BY <1>2, <1>3, <1>5, <1>6

LEMMA TypesStep ==
    ASSUME BookInv, (\E s \in Sessions : Session(s)) \/ Crash
    PROVE  BookTypes'
<1>1. BookTypes
  BY DEF BookInv
<1>2. ASSUME NEW s \in Sessions, Session(s) PROVE BookTypes'
  <2>1. Changed(s) /\ scenario' = scenario
    BY <1>2, SessionCases DEF Changed
  <2>2. issued' \in Seq(Rows)
    BY <1>1, <1>2, SessionCases, ValidateEffect, BeginEffect, InsertEffect, InsertAppends,
       LinkEffect, BusyEffect, IssuedRows
  <2>3. lock' \in Sessions \cup {NoSession} /\ DOMAIN links' \subseteq Sessions
    BY <1>1, <1>2, SessionCases, ValidateEffect, BeginEffect, InsertEffect,
       LinkEffect, BusyEffect DEF BookTypes
  <2> QED BY <1>1, <2>1, <2>2, <2>3, ScenarioKept DEF BookTypes, Changed, Rows
<1>3. CASE Crash
  BY <1>1, <1>3, CrashEffect, ScenarioKept DEF BookTypes
<1> QED BY <1>2, <1>3

LEMMA TableStep ==
    ASSUME BookInv, (\E s \in Sessions : Session(s)) \/ Crash
    PROVE  IndicesGrow' /\ ReceiversExact'
<1>1. BookTypes /\ IndicesGrow /\ ReceiversExact
  BY DEF BookInv
<1>2. ASSUME UNCHANGED << scenario, issued, receivers >>
      PROVE  IndicesGrow' /\ ReceiversExact'
  BY <1>1, <1>2 DEF IndicesGrow, ReceiversExact, NewReceivers, FingerprintOf, wallet
<1>3. ASSUME NEW s \in Sessions, InsertAddress(s), ~Blocked
      PROVE  IndicesGrow' /\ ReceiversExact'
  <2> DEFINE n == Len(issued) + 1
  <2>1. /\ DOMAIN issued = 1 .. Len(issued) /\ Len(issued) \in Nat
        /\ \A k \in DOMAIN issued : issued[k].index \in Nat
    BY <1>1, IssuedRows, IndexType
  <2>2. /\ DOMAIN issued' = DOMAIN issued \cup {n} /\ n \notin DOMAIN issued
        /\ \A k \in DOMAIN issued : issued'[k] = issued[k]
        /\ issued'[n].index \in FreeIndices
        /\ receivers' = receivers \cup NewReceivers(n, issued'[n].index)
    BY <1>3, InsertAppends
  <2>3. \A k \in DOMAIN issued : issued[k].index < issued'[n].index
    BY <2>2 DEF FreeIndices
  <2>4. IndicesGrow'
    BY <1>1, <2>1, <2>2, <2>3 DEF IndicesGrow
  <2>5. \A r : r \in receivers <=>
            \E k \in DOMAIN issued : r \in NewReceivers(k, issued[k].index)
    BY <1>1 DEF ReceiversExact
  <2>6. \A r : r \in receivers' <=>
            \E k \in DOMAIN issued' : r \in NewReceivers(k, issued'[k].index)
    BY <2>2, <2>5
  <2>7. receivers' = UNION {NewReceivers(k, issued'[k].index) : k \in DOMAIN issued'}
    BY <2>6
  <2>8. scenario' = scenario
    BY <1>3, InsertEffect DEF Changed
  <2>9. ReceiversExact'
    BY <2>7, <2>8 DEF ReceiversExact, NewReceivers, FingerprintOf, wallet
  <2> QED BY <2>4, <2>9
<1>4. ASSUME NEW s \in Sessions, Session(s) PROVE IndicesGrow' /\ ReceiversExact'
  <2>1. scenario' = scenario
    BY <1>4, SessionCases DEF Changed
  <2> QED BY <1>2, <1>3, <1>4, <2>1, SessionCases, ValidateEffect, BeginEffect, InsertEffect,
             LinkEffect, BusyEffect
<1>5. CASE Crash
  BY <1>2, <1>5, CrashEffect
<1> QED BY <1>4, <1>5

LEMMA LockStep ==
    ASSUME BookInv, (\E s \in Sessions : Session(s)) \/ Crash
    PROVE  LockHeld'
<1>1. LockHeld
  BY DEF BookInv
<1>2. ASSUME NEW s \in Sessions, Session(s) PROVE LockHeld'
  <2>1. \A t \in Sessions \ {s} : req'[t] = req[t]
    BY <1>2, SessionCases DEF Changed
  <2>2. issued' = issued => LastIndex' = LastIndex
    BY DEF LastIndex
  <2>3. NoSession \notin Sessions
    BY BookAssumption
  <2>4. CASE Validate(s) \/ InsertPaymentLink(s) \/ DatabaseBusy(s)
    <3>1. ~Under(s, "insert") /\ issued' = issued /\ lock' = lock
      BY <2>4, ValidateEffect, LinkEffect, BusyEffect DEF Under
    <3>2. req'[s].step # "insert"
      BY <2>4, ValidateEffect, LinkEffect, BusyEffect
    <3> QED BY <1>1, <2>1, <2>2, <3>1, <3>2 DEF LockHeld, Under
  <2>5. CASE BeginImmediate(s)
    BY <1>1, <2>1, <2>2, <2>3, <2>5, BeginEffect DEF LockHeld, Under
  <2>6. CASE InsertAddress(s)
    BY <1>1, <2>1, <2>3, <2>6, InsertEffect DEF LockHeld, Under
  <2> QED BY <1>2, <2>4, <2>5, <2>6, SessionCases
<1>3. CASE Crash
  BY <1>3, CrashEffect, BookAssumption DEF LockHeld
<1> QED BY <1>2, <1>3

LEMMA RequestStep ==
    ASSUME BookInv, (\E s \in Sessions : Session(s)) \/ Crash
    PROVE  RequestHeld'
<1>1. RequestHeld
  BY DEF BookInv
<1>2. ASSUME NEW s \in Sessions, Session(s) PROVE RequestHeld'
  <2>1. \A t \in Sessions \ {s} : req'[t] = req[t]
    BY <1>2, SessionCases DEF Changed
  <2>2. Requests' = Requests
    BY <1>2, SessionCases, ScenarioKept DEF Changed
  <2> QED BY <1>1, <1>2, <2>1, <2>2, SessionCases, ValidateEffect, BeginEffect, InsertEffect,
             LinkEffect, BusyEffect DEF RequestHeld, Under
<1>3. CASE Crash
  BY <1>1, <1>3, CrashEffect, ScenarioKept DEF RequestHeld
<1> QED BY <1>2, <1>3

LEMMA AddressStep ==
    ASSUME BookInv, (\E s \in Sessions : Session(s)) \/ Crash
    PROVE  AddressOwn'
<1>1. AddressOwn
  BY DEF BookInv
<1>2. ASSUME NEW s \in Sessions, Session(s) PROVE AddressOwn'
  <2>1. \A t \in Sessions \ {s} : req'[t] = req[t]
    BY <1>2, SessionCases DEF Changed
  <2>2. CASE Validate(s) \/ BeginImmediate(s) \/ DatabaseBusy(s)
    <3>1. issued' = issued /\ ~HasAddress(s)'
      BY <2>2, ValidateEffect, BeginEffect, BusyEffect DEF HasAddress
    <3> QED BY <1>1, <2>1, <3>1 DEF AddressOwn, HasAddress
  <2>3. CASE InsertAddress(s) /\ Blocked
    <3>1. issued' = issued /\ ~HasAddress(s)'
      BY <2>3, InsertEffect DEF HasAddress
    <3> QED BY <1>1, <2>1, <3>1 DEF AddressOwn, HasAddress
  <2>4. CASE InsertAddress(s) /\ ~Blocked
    <3>1. /\ DOMAIN issued' = DOMAIN issued \cup {Len(issued) + 1}
          /\ Len(issued) + 1 \notin DOMAIN issued
          /\ \A k \in DOMAIN issued : issued'[k] = issued[k]
          /\ issued'[Len(issued) + 1].amount = req[s].request.amount
      BY <2>4, InsertAppends
    <3>2. req'[s].id = Len(issued) + 1 /\ req'[s].request = req[s].request
      BY <2>4, InsertEffect
    <3> QED BY <1>1, <2>1, <3>1, <3>2 DEF AddressOwn, HasAddress
  <2>5. CASE InsertPaymentLink(s)
    <3>1. /\ issued' = issued /\ HasAddress(s)
          /\ req'[s].id = req[s].id /\ req'[s].request = req[s].request
      BY <2>5, LinkEffect DEF HasAddress, Under
    <3> QED BY <1>1, <2>1, <3>1 DEF AddressOwn, HasAddress
  <2> QED BY <1>2, <2>2, <2>3, <2>4, <2>5, SessionCases
<1>3. CASE Crash
  BY <1>1, <1>3, CrashEffect DEF AddressOwn, HasAddress
<1> QED BY <1>2, <1>3

LEMMA LinksStep ==
    ASSUME BookInv, (\E s \in Sessions : Session(s)) \/ Crash
    PROVE  LinksAnswered'
<1>1. LinksAnswered
  BY DEF BookInv
<1>2. ASSUME NEW s \in Sessions, Session(s) PROVE LinksAnswered'
  <2>1. \A t \in Sessions \ {s} : req'[t] = req[t]
    BY <1>2, SessionCases DEF Changed
  <2>2. CASE Validate(s) \/ BeginImmediate(s) \/ InsertAddress(s) \/ DatabaseBusy(s)
    BY <1>1, <2>1, <2>2, ValidateEffect, BeginEffect, InsertEffect, BusyEffect
       DEF LinksAnswered, Under
  <2>3. CASE InsertPaymentLink(s)
    <3>1. ASSUME NEW t \in Sessions \ {s}
          PROVE  /\ t \in DOMAIN links' <=> t \in DOMAIN links
                 /\ t \in DOMAIN links => links'[t] = links[t]
      BY <2>3, LinkEffect
    <3>2. /\ s \in DOMAIN links' /\ req'[s].step = "answered"
          /\ links'[s] = [address_id |-> req'[s].id,
                          return_url |-> req'[s].request.return_url]
      BY <2>3, LinkEffect
    <3>3. ASSUME NEW t \in Sessions \ {s}
          PROVE  /\ t \in DOMAIN links' <=> req'[t].step = "answered"
                 /\ t \in DOMAIN links' =>
                        links'[t] = [address_id |-> req'[t].id,
                                     return_url |-> req'[t].request.return_url]
      BY <1>1, <2>1, <3>1 DEF LinksAnswered
    <3> QED BY <3>2, <3>3 DEF LinksAnswered
  <2> QED BY <1>2, <2>2, <2>3, SessionCases
<1>3. CASE Crash
  BY <1>1, <1>3, CrashEffect DEF LinksAnswered
<1> QED BY <1>2, <1>3

\* Once no address can be issued none is, so that stays; and a session is
\* refused only then.
LEMMA RefusedStep ==
    ASSUME BookInv, (\E s \in Sessions : Session(s)) \/ Crash
    PROVE  RefusedOnlyWhenBlocked'
<1>1. RefusedOnlyWhenBlocked
  BY DEF BookInv
<1>2. ASSUME UNCHANGED << scenario, issued >> PROVE Blocked' = Blocked
  BY <1>2 DEF Blocked, FreeIndices, FingerprintOf, wallet
<1>3. ASSUME NEW s \in Sessions, Session(s) PROVE RefusedOnlyWhenBlocked'
  <2>1. scenario' = scenario /\ \A t \in Sessions \ {s} : req'[t] = req[t]
    BY <1>3, SessionCases DEF Changed
  <2>2. CASE Validate(s) \/ BeginImmediate(s) \/ InsertPaymentLink(s) \/ DatabaseBusy(s)
    <3>1. issued' = issued /\ req'[s].step # "refused"
      BY <2>2, ValidateEffect, BeginEffect, LinkEffect, BusyEffect
    <3> QED BY <1>1, <1>2, <2>1, <3>1 DEF RefusedOnlyWhenBlocked
  <2>3. CASE InsertAddress(s) /\ Blocked
    BY <1>2, <2>1, <2>3, InsertEffect DEF RefusedOnlyWhenBlocked
  <2>4. CASE InsertAddress(s) /\ ~Blocked
    <3>1. req'[s].step # "refused"
      BY <2>4, InsertEffect
    <3> QED BY <1>1, <2>1, <2>4, <3>1 DEF RefusedOnlyWhenBlocked
  <2> QED BY <1>3, <2>2, <2>3, <2>4, SessionCases
<1>4. CASE Crash
  BY <1>1, <1>2, <1>4, CrashEffect DEF RefusedOnlyWhenBlocked
<1> QED BY <1>3, <1>4

-----------------------------------------------------------------------------
(* The theorems about the address book.                                    *)

LEMMA InitHeld == Init => BookInv
<1> SUFFICES ASSUME Init PROVE BookInv
  OBVIOUS
<1>1. /\ scenario \in Scenarios
      /\ issued = << >> /\ receivers = {} /\ links = << >>
      /\ lock = NoSession
      /\ req = [s \in Sessions |-> At("idle")]
  BY DEF Init, InitBook
<1>2. req \in [Sessions -> ReqStates] /\ \A s \in Sessions : req[s].step = "idle"
  BY <1>1, EndType DEF Steps
<1>3. DOMAIN issued = {} /\ DOMAIN links = {}
  BY <1>1
<1>4. BookTypes
  BY <1>1, <1>2, <1>3 DEF BookTypes
<1>5. IndicesGrow /\ ReceiversExact
  BY <1>1, <1>3 DEF IndicesGrow, ReceiversExact
<1>6. LockHeld
  BY <1>1, <1>2, BookAssumption DEF LockHeld
<1>7. RequestHeld /\ AddressOwn /\ LinksAnswered /\ RefusedOnlyWhenBlocked
  BY <1>2, <1>3 DEF RequestHeld, AddressOwn, HasAddress, LinksAnswered,
     RefusedOnlyWhenBlocked
<1> QED BY <1>4, <1>5, <1>6, <1>7 DEF BookInv

\* The network, the scan and the pages leave the address book alone.
LEMMA OthersKeepBook ==
    ASSUME [Next]_vars
    PROVE  \/ \E s \in Sessions : Session(s)
           \/ Crash
           \/ UNCHANGED book
BY DEF Next, vars, Booked, Network, SendBatch, PayShown, Send, Moved, Mine, Rewind, Evict,
   SyncIteration, ReconcilePeriodically, SimulatePayment, LoadPage, PollPage, LeavePage,
   OnPages

LEMMA BookStep == BookInv /\ [Next]_vars => BookInv'
<1> SUFFICES ASSUME BookInv, [Next]_vars PROVE BookInv'
  OBVIOUS
<1>1. CASE (\E s \in Sessions : Session(s)) \/ Crash
  BY <1>1, TypesStep, TableStep, LockStep, RequestStep, AddressStep, LinksStep, RefusedStep
     DEF BookInv
<1>2. CASE UNCHANGED book
  <2> SUFFICES ASSUME UNCHANGED << scenario, issued, receivers, links, lock, req >>
               PROVE  BookInv'
    BY <1>2 DEF book
  <2>1. BookTypes'
    BY ScenarioKept DEF BookInv, BookTypes
  <2>2. IndicesGrow'
    BY DEF BookInv, IndicesGrow
  <2>3. ReceiversExact'
    BY DEF BookInv, ReceiversExact, NewReceivers, FingerprintOf, wallet
  <2>4. LockHeld'
    BY DEF BookInv, LockHeld, LastIndex
  <2>5. RequestHeld'
    BY ScenarioKept DEF BookInv, RequestHeld
  <2>6. AddressOwn' /\ LinksAnswered'
    BY DEF BookInv, AddressOwn, HasAddress, LinksAnswered
  <2>7. RefusedOnlyWhenBlocked'
    BY DEF BookInv, RefusedOnlyWhenBlocked, Blocked, FreeIndices, FingerprintOf, wallet
  <2> QED BY <2>1, <2>2, <2>3, <2>4, <2>5, <2>6, <2>7 DEF BookInv
<1> QED BY <1>1, <1>2, OthersKeepBook

\* The invariant of the address book holds in every state.
THEOREM BookInvariance == Spec => []BookInv
BY InitHeld, BookStep, PTL DEF Spec

\* RefusedOnlyWhenBlocked: for every key and every interleaving of sessions,
\* crashes and busy databases, a session is refused an address only when none
\* is left or the next one collides with an issued one.
THEOREM RefusedTheorem == Spec => []RefusedOnlyWhenBlocked
<1>1. BookInv => RefusedOnlyWhenBlocked
  BY DEF BookInv
<1> QED BY <1>1, BookInvariance, PTL

\* AnsweredIsPayable: for every key and every interleaving of sessions, crashes
\* and busy databases, an answered session has a link to an address of its own
\* with a receiver in every pool, and the link agrees with the answer.
THEOREM AnsweredTheorem == Spec => []AnsweredIsPayable
<1>1. BookInv => AnsweredIsPayable
  <2> SUFFICES ASSUME BookInv, NEW s \in Sessions, req[s].step = "answered"
               PROVE  /\ s \in DOMAIN links
                      /\ LET a == links[s].address_id
                         IN  /\ AnswerOf(s) = QrText(issued[a].index, issued[a].amount)
                             /\ links[s].return_url = req[s].request.return_url
                             /\ {r.pool : r \in {q \in receivers : q.address_id = a}} = Pools
                             /\ \A p \in DOMAIN links \ {s} :
                                  issued[links[p].address_id].index # issued[a].index
    BY DEF AnsweredIsPayable
  <2> DEFINE a == links[s].address_id
  <2>1. /\ s \in DOMAIN links
        /\ a = req[s].id /\ links[s].return_url = req[s].request.return_url
    <3>1. LinksAnswered
      BY DEF BookInv
    <3>2. s \in DOMAIN links
      BY <3>1 DEF LinksAnswered
    <3>3. links[s] = [address_id |-> req[s].id, return_url |-> req[s].request.return_url]
      BY <3>1, <3>2 DEF LinksAnswered
    <3> QED BY <3>2, <3>3
  <2>2. a \in DOMAIN issued /\ issued[a].amount = req[s].request.amount
    BY <2>1 DEF BookInv, AddressOwn, HasAddress
  <2>3. AnswerOf(s) = QrText(issued[a].index, issued[a].amount)
    BY <2>1, <2>2 DEF AnswerOf
  <2>4. {r.pool : r \in {q \in receivers : q.address_id = a}} = Pools
    <3>1. {q \in receivers : q.address_id = a} = NewReceivers(a, issued[a].index)
      BY <2>2 DEF BookInv, ReceiversExact, NewReceivers
    <3>2. {r.pool : r \in NewReceivers(a, issued[a].index)} = Pools
      <4>1. \A r \in NewReceivers(a, issued[a].index) : r.pool \in Pools
        BY DEF NewReceivers
      <4>2. \A p \in Pools : \E r \in NewReceivers(a, issued[a].index) : r.pool = p
        <5> TAKE p \in Pools
        <5> DEFINE r == [address_id |-> a, pool |-> p,
                         fingerprint |-> FingerprintOf(p, issued[a].index)]
        <5>1. r \in NewReceivers(a, issued[a].index)
          BY DEF NewReceivers
        <5> QED BY <5>1
      <4> QED BY <4>1, <4>2
    <3> QED BY <3>1, <3>2
  <2>5. ASSUME NEW p \in DOMAIN links \ {s}
        PROVE  issued[links[p].address_id].index # issued[a].index
    <3>1. p \in Sessions /\ req[p].step = "answered" /\ links[p].address_id = req[p].id
      <4>1. p \in Sessions /\ LinksAnswered
        BY DEF BookInv, BookTypes
      <4>2. links[p] = [address_id |-> req[p].id, return_url |-> req[p].request.return_url]
        BY <4>1 DEF LinksAnswered
      <4> QED BY <4>1, <4>2 DEF LinksAnswered
    <3>2. req[p].id \in DOMAIN issued /\ req[p].id # a
      BY <2>1, <3>1 DEF BookInv, AddressOwn, HasAddress
    <3>3. /\ DOMAIN issued \subseteq Nat
          /\ \A k \in DOMAIN issued : issued[k].index \in Nat
      BY IssuedRows, IndexType DEF BookInv
    <3> QED BY <2>2, <3>1, <3>2, <3>3 DEF BookInv, IndicesGrow
  <2> QED BY <2>1, <2>3, <2>4, <2>5
<1> QED BY <1>1, BookInvariance, PTL

-----------------------------------------------------------------------------
(* Sums over finite sets.                                                  *)

\* Induction, for a set of naturals: the library's theorems need an operator.
LEMMA SetInduction ==
    ASSUME NEW T, T \subseteq Nat,
           \A n \in Nat : (\A m \in Nat : m < n => m \in T) => n \in T
    PROVE  \A n \in Nat : n \in T
<1> DEFINE Less == OpToRel(<, Nat)
           U == Nat \ T
<1>1. IsWellFoundedOn(Less, Nat)
  BY NatLessThanWellFounded, Zenon
<1>2. \A x, y \in Nat : << y, x >> \in Less <=> y < x
  BY DEF OpToRel
<1> HIDE DEF Less
<1>3. ASSUME U # {} PROVE FALSE
  <2>1. PICK x \in U : \A y \in U : << y, x >> \notin Less
    BY <1>1, <1>3, WFMin, Zenon
  <2>2. \A y \in U : ~ (y < x)
    BY <1>2, <2>1, Zenon
  <2> QED BY <2>1, <2>2
<1> QED BY <1>3

\* The recursive function that MapThenSumSet takes its value from.
SumStep(S, v, g) ==
    [s \in SUBSET S |-> IF s = {} THEN 0
                        ELSE v[CHOOSE x \in s : TRUE] + g[s \ {CHOOSE x \in s : TRUE}]]

\* g gives the sum of v over every subset of S.
Sums(S, v, g) == g = SumStep(S, v, g)

\* The recursion of a sum over a finite set has a solution.
LEMMA SumExists ==
    ASSUME NEW S, IsFiniteSet(S), NEW v
    PROVE  \E g : Sums(S, v, g)
<1> DEFINE c(s) == CHOOSE x \in s : TRUE
           Solves(g, n) == \A s \in SUBSET S : Cardinality(s) =< n =>
                               g[s] = IF s = {} THEN 0 ELSE v[c(s)] + g[s \ {c(s)}]
<1>1. \A s \in SUBSET S : IsFiniteSet(s) /\ Cardinality(s) \in Nat
                          /\ (Cardinality(s) = 0 <=> s = {})
  BY FS_Subset, FS_CardinalityType, FS_EmptySet
<1>2. \A s \in SUBSET S : s # {} => /\ c(s) \in s /\ s \ {c(s)} \in SUBSET S
                                    /\ Cardinality(s \ {c(s)}) = Cardinality(s) - 1
  BY <1>1, FS_RemoveElement
<1> HIDE DEF c
<1>3. ASSUME NEW n \in Nat, \A m \in Nat : m < n => \E g : Solves(g, m)
      PROVE  \E g : Solves(g, n)
  <2>1. CASE n = 0
    <3> DEFINE g == [s \in SUBSET S |-> 0]
    <3>1. Solves(g, 0)
      BY <1>1
    <3> QED BY <2>1, <3>1
  <2>2. CASE n # 0
    <3>1. n - 1 \in Nat /\ n - 1 < n
      BY <2>2
    <3>2. PICK g : Solves(g, n - 1)
      BY <1>3, <3>1
    <3> DEFINE h == [s \in SUBSET S |-> IF Cardinality(s) =< n - 1 THEN g[s]
                        ELSE IF s = {} THEN 0 ELSE v[c(s)] + g[s \ {c(s)}]]
    <3>3. \A s \in SUBSET S : s # {} /\ Cardinality(s) =< n => h[s \ {c(s)}] = g[s \ {c(s)}]
      BY <1>1, <1>2
    <3>4. ASSUME NEW s \in SUBSET S, Cardinality(s) =< n
          PROVE  h[s] = IF s = {} THEN 0 ELSE v[c(s)] + h[s \ {c(s)}]
      <4>1. CASE Cardinality(s) =< n - 1
        BY <3>2, <3>3, <3>4, <4>1
      <4>2. CASE ~(Cardinality(s) =< n - 1)
        BY <3>3, <3>4, <4>2
      <4> QED BY <4>1, <4>2
    <3>5. Solves(h, n)
      BY <3>4
    <3> QED BY <3>5
  <2> QED BY <2>1, <2>2
<1> HIDE DEF Solves
<1>4. \A n \in Nat : \E g : Solves(g, n)
  <2> DEFINE T == {n \in Nat : \E g : Solves(g, n)}
  <2>1. T \subseteq Nat /\ \A n \in Nat : (\A m \in Nat : m < n => m \in T) => n \in T
    BY <1>3
  <2> HIDE DEF T
  <2>2. \A n \in Nat : n \in T
    BY <2>1, SetInduction
  <2> QED BY <2>2 DEF T
<1>5. Cardinality(S) \in Nat /\ \A s \in SUBSET S : Cardinality(s) =< Cardinality(S)
  BY FS_Subset, FS_CardinalityType
<1>6. PICK g : Solves(g, Cardinality(S))
  BY <1>4, <1>5
<1> USE DEF Solves
<1> DEFINE G == [s \in SUBSET S |-> g[s]]
<1>7. G = [s \in SUBSET S |-> IF s = {} THEN 0 ELSE v[c(s)] + G[s \ {c(s)}]]
  <2>1. ASSUME NEW s \in SUBSET S
        PROVE  g[s] = IF s = {} THEN 0 ELSE v[c(s)] + G[s \ {c(s)}]
    BY <1>2, <1>5, <1>6
  <2> QED BY <2>1
<1>8. G = SumStep(S, v, G)
  BY <1>7 DEF SumStep, c
<1> QED BY <1>8 DEF Sums

SumLaws(S, v, g) ==
    /\ \A s \in SUBSET S : g[s] \in Nat
    /\ g[{}] = 0
    /\ \A s \in SUBSET S : \A y \in s : g[s] = v[y] + g[s \ {y}]

\* The value is a natural, and any element may be taken out first.
LEMMA SumFacts ==
    ASSUME NEW S, IsFiniteSet(S), NEW v \in [S -> Nat],
           NEW g, Sums(S, v, g)
    PROVE  SumLaws(S, v, g)
<1> DEFINE c(s) == CHOOSE x \in s : TRUE
           Natural(n) == \A s \in SUBSET S : Cardinality(s) = n => g[s] \in Nat
           Free(n) == \A s \in SUBSET S : Cardinality(s) = n =>
                          \A y \in s : g[s] = v[y] + g[s \ {y}]
<1>1. \A s \in SUBSET S : IsFiniteSet(s) /\ Cardinality(s) \in Nat
  BY FS_Subset, FS_CardinalityType
<1>2. ASSUME NEW s \in SUBSET S, NEW y \in s
      PROVE  /\ s \ {y} \in SUBSET S /\ y \in S
             /\ Cardinality(s \ {y}) = Cardinality(s) - 1
             /\ Cardinality(s) - 1 \in Nat
  <2>1. s \ {y} \in SUBSET S
    OBVIOUS
  <2>2. Cardinality(s \ {y}) = Cardinality(s) - 1
    BY <1>1, FS_RemoveElement
  <2> QED BY <1>1, <2>1, <2>2
<1>3. \A s \in SUBSET S : s # {} => c(s) \in s
  OBVIOUS
<1>4. /\ g[{}] = 0
      /\ \A s \in SUBSET S : s # {} => g[s] = v[c(s)] + g[s \ {c(s)}]
  BY DEF SumStep, Sums
<1> HIDE DEF c
<1>6. ASSUME NEW n \in Nat, \A m \in Nat : m < n => Natural(m)
      PROVE  Natural(n)
  <2> SUFFICES ASSUME NEW s \in SUBSET S, Cardinality(s) = n PROVE g[s] \in Nat
    OBVIOUS
  <2>1. CASE s = {}
    BY <1>4, <2>1
  <2>2. CASE s # {}
    <3>1. c(s) \in s /\ g[s] = v[c(s)] + g[s \ {c(s)}]
      BY <1>3, <1>4, <2>2
    <3>2. c(s) \in S /\ s \ {c(s)} \in SUBSET S /\ n - 1 \in Nat
          /\ Cardinality(s \ {c(s)}) = n - 1
      BY <1>2, <3>1
    <3>3. Natural(n - 1)
      BY <1>6, <3>2
    <3>4. g[s \ {c(s)}] \in Nat /\ v[c(s)] \in Nat
      BY <3>2, <3>3
    <3> QED BY <3>1, <3>4
  <2> QED BY <2>1, <2>2
<1>7. \A s \in SUBSET S : g[s] \in Nat
  <2> DEFINE T == {n \in Nat : Natural(n)}
  <2> HIDE DEF Natural
  <2>1. T \subseteq Nat /\ \A n \in Nat : (\A m \in Nat : m < n => m \in T) => n \in T
    BY <1>6
  <2> HIDE DEF T
  <2>2. \A n \in Nat : n \in T
    BY <2>1, SetInduction
  <2> QED BY <1>1, <2>2 DEF T, Natural
<1>8. ASSUME NEW n \in Nat, \A m \in Nat : m < n => Free(m)
      PROVE  Free(n)
  <2> SUFFICES ASSUME NEW s \in SUBSET S, Cardinality(s) = n, NEW y \in s
               PROVE  g[s] = v[y] + g[s \ {y}]
    OBVIOUS
  <2> DEFINE x == c(s)
             r == (s \ {x}) \ {y}
  <2>1. x \in s /\ g[s] = v[x] + g[s \ {x}]
    BY <1>3, <1>4
  <2>2. CASE x = y
    BY <2>1, <2>2
  <2>3. CASE x # y
    <3>1. y \in s \ {x} /\ x \in s \ {y} /\ (s \ {y}) \ {x} = r
      BY <2>1, <2>3
    <3>2. /\ s \ {x} \in SUBSET S /\ s \ {y} \in SUBSET S /\ r \in SUBSET S
          /\ Cardinality(s \ {x}) = n - 1 /\ Cardinality(s \ {y}) = n - 1
          /\ n - 1 \in Nat /\ x \in S /\ y \in S
      BY <1>2, <2>1
    <3>3. Free(n - 1)
      BY <1>8, <3>2
    <3>4. g[s \ {x}] = v[y] + g[r] /\ g[s \ {y}] = v[x] + g[r]
      BY <3>1, <3>2, <3>3
    <3>5. v[x] \in Nat /\ v[y] \in Nat /\ g[r] \in Nat
      BY <1>7, <3>2
    <3> HIDE DEF x, r
    <3> QED BY <2>1, <3>4, <3>5
  <2> QED BY <2>2, <2>3
<1>9. \A s \in SUBSET S : \A y \in s : g[s] = v[y] + g[s \ {y}]
  <2> DEFINE T == {n \in Nat : Free(n)}
  <2> HIDE DEF Free
  <2>1. T \subseteq Nat /\ \A n \in Nat : (\A m \in Nat : m < n => m \in T) => n \in T
    BY <1>8
  <2> HIDE DEF T
  <2>2. \A n \in Nat : n \in T
    BY <2>1, SetInduction
  <2> QED BY <1>1, <2>2 DEF T, Free
<1> QED BY <1>4, <1>7, <1>9 DEF SumLaws

-----------------------------------------------------------------------------
(* Amounts.                                                                *)

\* Pow10 is what its definition says.
LEMMA PowerFacts ==
    /\ Pow10[0] = 1
    /\ \A n \in 1 .. Decimals : Pow10[n] = 10 * Pow10[n - 1]
    /\ \A n \in 0 .. Decimals : Pow10[n] \in Nat \ {0}
<1>1. Decimals \in Nat
  BY AmountAssumption
<1> DEFINE Solves(f, n) == \A i \in 0 .. n : f[i] = IF i = 0 THEN 1 ELSE 10 * f[i - 1]
<1>2. ASSUME NEW n \in Nat, \A m \in Nat : m < n => \E f : Solves(f, m)
      PROVE  \E f : Solves(f, n)
  <2>1. CASE n = 0
    <3> DEFINE f == [i \in 0 .. 0 |-> 1]
    <3>1. Solves(f, 0)
      OBVIOUS
    <3> QED BY <2>1, <3>1
  <2>2. CASE n # 0
    <3>1. n - 1 \in Nat /\ n - 1 < n
      BY <2>2
    <3>2. PICK f : Solves(f, n - 1)
      BY <1>2, <3>1
    <3> DEFINE h == [i \in 0 .. n |-> IF i = n THEN 10 * f[n - 1] ELSE f[i]]
    <3>3. ASSUME NEW i \in 0 .. n PROVE h[i] = IF i = 0 THEN 1 ELSE 10 * h[i - 1]
      <4>1. CASE i = n
        BY <2>2, <3>1, <4>1
      <4>2. CASE i # n
        <5>1. i \in 0 .. (n - 1) /\ h[i] = f[i] /\ (i # 0 => i - 1 \in 0 .. n /\ i - 1 # n)
          BY <4>2
        <5> QED BY <3>2, <5>1
      <4> QED BY <4>1, <4>2
    <3> HIDE DEF h
    <3>4. Solves(h, n)
      BY <3>3
    <3> QED BY <3>4
  <2> QED BY <2>1, <2>2
<1>3. PICK f : Solves(f, Decimals)
  <2> DEFINE T == {n \in Nat : \E f : Solves(f, n)}
  <2> HIDE DEF Solves
  <2>1. T \subseteq Nat /\ \A n \in Nat : (\A m \in Nat : m < n => m \in T) => n \in T
    BY <1>2
  <2> HIDE DEF T
  <2>2. \A n \in Nat : n \in T
    BY <2>1, SetInduction
  <2> QED BY <1>1, <2>2 DEF T
<1> DEFINE F == [n \in 0 .. Decimals |-> f[n]]
<1>4. F = [n \in 0 .. Decimals |-> IF n = 0 THEN 1 ELSE 10 * F[n - 1]]
  <2>1. ASSUME NEW n \in 0 .. Decimals
        PROVE  F[n] = IF n = 0 THEN 1 ELSE 10 * F[n - 1]
    <3>1. n # 0 => n - 1 \in 0 .. Decimals
      BY <1>1
    <3> QED BY <1>3, <3>1
  <2> QED BY <2>1
<1> HIDE DEF F
<1>5. Pow10 = [n \in 0 .. Decimals |-> IF n = 0 THEN 1 ELSE 10 * Pow10[n - 1]]
  BY <1>4, Zenon DEF Pow10
<1>6. /\ Pow10[0] = 1
      /\ \A n \in 1 .. Decimals : Pow10[n] = 10 * Pow10[n - 1]
  BY <1>1, <1>5
<1>7. \A n \in 0 .. Decimals : Pow10[n] \in Nat \ {0}
  <2> DEFINE T == {n \in Nat : n =< Decimals => Pow10[n] \in Nat \ {0}}
  <2>1. ASSUME NEW n \in Nat, \A m \in Nat : m < n => m \in T PROVE n \in T
    <3>1. CASE n = 0
      BY <1>6, <3>1
    <3>2. CASE n # 0 /\ n =< Decimals
      <4>1. n - 1 \in Nat /\ n - 1 =< Decimals /\ n - 1 < n /\ Pow10[n] = 10 * Pow10[n - 1]
        BY <1>1, <1>6, <3>2
      <4>2. Pow10[n - 1] \in Nat \ {0}
        BY <2>1, <4>1
      <4> QED BY <4>1, <4>2
    <3> QED BY <3>1, <3>2
  <2>2. T \subseteq Nat
    OBVIOUS
  <2> HIDE DEF T
  <2>3. \A n \in Nat : n \in T
    BY <2>1, <2>2, SetInduction
  <2> QED BY <1>1, <2>3 DEF T
<1> QED BY <1>6, <1>7

\* Quotient and remainder are natural, and determine the number.
LEMMA DivMod ==
  ASSUME NEW z \in Nat, NEW m \in Nat \ {0}
  PROVE  /\ (z \div m) \in Nat /\ (z % m) \in Nat /\ (z % m) < m
         /\ z = m * (z \div m) + (z % m)
OBVIOUS

\* There is one quotient and one remainder.
LEMMA DivModUnique ==
  ASSUME NEW z \in Nat, NEW m \in Nat \ {0}, NEW a \in Nat, NEW b \in Nat, b < m,
         z = m * a + b
  PROVE  (z \div m) = a /\ (z % m) = b
OBVIOUS

\* A digit and the digits below it.
LEMMA DigitAbove ==
  ASSUME NEW z \in Nat, NEW m \in Nat \ {0}
  PROVE  ((z \div m) % 10) * m + (z % m) = (z % (10 * m))
<1> DEFINE q == (z \div m)
           r == (z % m)
           a == (q \div 10)
           d == (q % 10)
<1>1. q \in Nat /\ r \in Nat /\ r < m /\ z = m * q + r
  BY DivMod
<1>2. a \in Nat /\ d \in 0 .. 9 /\ q = 10 * a + d
  BY <1>1
<1> HIDE DEF q, r, a, d
<1>3. m * q = m * (10 * a) + m * d
  BY <1>2
<1>4. m * (10 * a) = (10 * m) * a
  BY <1>2
<1>5. m * d =< m * 9 /\ m * d \in Nat
  BY <1>2
<1>6. d * m = m * d
  BY <1>2
<1>7. z = (10 * m) * a + (d * m + r)
  <2>1. m * q = (10 * m) * a + d * m
    BY <1>2, <1>3, <1>4, <1>6
  <2>2. (10 * m) * a \in Nat /\ d * m \in Nat
    BY <1>2
  <2> QED BY <1>1, <2>1, <2>2
<1>8. d * m + r \in Nat /\ d * m + r < 10 * m /\ 10 * m \in Nat \ {0}
  BY <1>1, <1>5, <1>6
<1>9. (z % (10 * m)) = d * m + r
  BY <1>7, <1>8, <1>2, DivModUnique
<1> QED BY <1>9 DEF d, r, q

\* The value of digits after the point is a sum in the sense of SumStep.
LEMMA FractionSum ==
    ASSUME NEW n \in 0 .. Decimals, NEW d \in [1 .. n -> Nat], NEW v,
           v = [i \in 1 .. n |-> d[i] * Pow10[Decimals - i]]
    PROVE  /\ v \in [1 .. n -> Nat]
           /\ \E g : Sums(1 .. n, v, g) /\ FractionOf(d) = g[1 .. n]
<1>1. Decimals \in Nat /\ IsFiniteSet(1 .. n)
  BY AmountAssumption, FS_Interval
<1>2. \A i \in 1 .. n : v[i] \in Nat
  <2> SUFFICES ASSUME NEW i \in 1 .. n PROVE v[i] \in Nat
    OBVIOUS
  <2>1. Decimals - i \in 0 .. Decimals
    BY <1>1
  <2>2. d[i] \in Nat /\ Pow10[Decimals - i] \in Nat
    BY <2>1, PowerFacts
  <2> QED BY <2>2
<1>2a. v \in [1 .. n -> Nat]
  BY <1>2
<1> DEFINE c(s) == CHOOSE x \in s : TRUE
           F(g) == [s \in SUBSET (1 .. n) |->
                        IF s = {} THEN 0
                        ELSE d[c(s)] * Pow10[Decimals - c(s)] + g[s \ {c(s)}]]
           fold == CHOOSE g : g = F(g)
<1>3. FractionOf(d) = fold[1 .. n]
  <2>1. DOMAIN d = 1 .. n
    OBVIOUS
  <2> QED BY <2>1 DEF FractionOf, MapThenSumSet, MapThenFoldSet
<1>4. ASSUME NEW g PROVE F(g) = SumStep(1 .. n, v, g)
  <2>1. \A s \in SUBSET (1 .. n) : s # {} => c(s) \in 1 .. n
    OBVIOUS
  <2> HIDE DEF c
  <2>2. \A s \in SUBSET (1 .. n) : s # {} => v[c(s)] = d[c(s)] * Pow10[Decimals - c(s)]
    BY <2>1
  <2>3. F(g) = [s \in SUBSET (1 .. n) |-> IF s = {} THEN 0 ELSE v[c(s)] + g[s \ {c(s)}]]
    BY <2>2
  <2> QED BY <2>3 DEF SumStep, c
<1> HIDE DEF F, c
<1>5. \E g : g = F(g)
  BY <1>1, <1>4, SumExists DEF Sums
<1>6. fold = F(fold)
  BY <1>5
<1> HIDE DEF fold
<1> QED BY <1>2a, <1>3, <1>4, <1>6 DEF Sums

\* The digits that format_zat_as_zec writes after the point are worth what they
\* were taken from.
LEMMA DigitsWorth ==
    ASSUME NEW z \in Nat
    PROVE  FractionOf(FormatZatAsZec(z).frac) = (z % Zec)
<1> DEFINE D == Decimals
           d == [i \in 1 .. D |-> ((z \div Pow10[D - i]) % 10)]
           v == [i \in 1 .. D |-> d[i] * Pow10[D - i]]
<1>1. D \in Nat /\ D \in 0 .. D /\ IsFiniteSet(1 .. D)
  BY AmountAssumption, FS_Interval
<1>2. d \in [1 .. D -> Nat]
  <2> SUFFICES ASSUME NEW i \in 1 .. D PROVE ((z \div Pow10[D - i]) % 10) \in Nat
    OBVIOUS
  <2>1. Pow10[D - i] \in Nat \ {0}
    BY <1>1, PowerFacts
  <2>2. (z \div Pow10[D - i]) \in Nat
    BY <2>1, DivMod
  <2> QED BY <2>2
<1>3. PICK g : Sums(1 .. D, v, g) /\ FractionOf(d) = g[1 .. D]
  <2> HIDE DEF d
  <2> QED BY <1>1, <1>2, FractionSum
<1>4. /\ g[{}] = 0
      /\ \A s \in SUBSET (1 .. D) : \A y \in s : g[s] = v[y] + g[s \ {y}]
  <2>1. v \in [1 .. D -> Nat]
    <3> HIDE DEF d
    <3> QED BY <1>1, <1>2, FractionSum
  <2> DEFINE S == 1 .. D
  <2>2. IsFiniteSet(S) /\ Sums(S, v, g) /\ v \in [S -> Nat]
    BY <1>1, <1>3, <2>1
  <2> HIDE DEF v, S
  <2>3. SumLaws(S, v, g)
    BY <2>2, SumFacts
  <2> QED BY <2>3 DEF S, SumLaws
<1> DEFINE Worth(k) == k =< D => g[(D - k + 1) .. D] = (z % Pow10[k])
<1>5. ASSUME NEW k \in Nat, \A m \in Nat : m < k => Worth(m)
      PROVE  Worth(k)
  <2> SUFFICES ASSUME k =< D PROVE g[(D - k + 1) .. D] = (z % Pow10[k])
    OBVIOUS
  <2>1. CASE k = 0
    <3>1. (D - k + 1) .. D = {}
      BY <1>1, <2>1
    <3>2. Pow10[k] = 1 /\ (z % 1) = 0
      BY <2>1, PowerFacts
    <3> QED BY <1>4, <3>1, <3>2
  <2>2. CASE k # 0
    <3> DEFINE y == D - k + 1
               m == Pow10[k - 1]
    <3>1. k - 1 \in Nat /\ k - 1 =< D /\ k - 1 < k /\ k \in 1 .. D /\ k - 1 \in 0 .. D
      BY <1>1, <2>2
    <3>2. m \in Nat \ {0} /\ Pow10[k] = 10 * m
      BY <3>1, PowerFacts
    <3>3. /\ y \in 1 .. D /\ y \in y .. D /\ y .. D \in SUBSET (1 .. D) /\ D - y = k - 1
          /\ (y .. D) \ {y} = (D - (k - 1) + 1) .. D
      BY <1>1, <3>1
    <3>4. v[y] = ((z \div m) % 10) * m
      BY <3>3
    <3>5. g[(D - (k - 1) + 1) .. D] = (z % m)
      BY <1>5, <3>1
    <3>6. g[y .. D] = v[y] + g[(y .. D) \ {y}]
      BY <1>4, <3>3
    <3> HIDE DEF v
    <3>7. g[y .. D] = ((z \div m) % 10) * m + (z % m)
      BY <3>3, <3>4, <3>5, <3>6
    <3> HIDE DEF m
    <3> QED BY <3>2, <3>7, DigitAbove
  <2> QED BY <2>1, <2>2
<1>6. Worth(D)
  <2> DEFINE T == {k \in Nat : Worth(k)}
  <2> HIDE DEF Worth
  <2>1. T \subseteq Nat /\ \A k \in Nat : (\A m \in Nat : m < k => m \in T) => k \in T
    BY <1>5
  <2> HIDE DEF T
  <2>2. \A k \in Nat : k \in T
    BY <2>1, SetInduction
  <2> QED BY <1>1, <2>2 DEF T
<1>7. D - D + 1 = 1
  BY <1>1
<1>8. g[1 .. D] = (z % Pow10[D])
  BY <1>1, <1>6, <1>7
<1>9. FormatZatAsZec(z).frac = d
  BY DEF FormatZatAsZec
<1> HIDE DEF d
<1> QED BY <1>3, <1>8, <1>9 DEF Zec

\* What format_zat_as_zec writes, parse_zec_amount reads.
LEMMA RoundTrip ==
    ASSUME NEW z \in Nat, z =< MaxZat
    PROVE  /\ FormatZatAsZec(z) \in Texts
           /\ ParseZecAmount(FormatZatAsZec(z)) = z
<1> DEFINE t == FormatZatAsZec(z)
<1>1. Decimals \in Nat \ {0} /\ MaxZat \in Nat
  BY AmountAssumption
<1>2. Zec \in Nat \ {0}
  BY <1>1, PowerFacts DEF Zec
<1>3. (z \div Zec) \in Nat /\ z = Zec * (z \div Zec) + (z % Zec) /\ (z % Zec) \in Nat
  BY <1>2, DivMod
<1>4. ASSUME NEW i \in 1 .. Decimals
      PROVE  ((z \div Pow10[Decimals - i]) % 10) \in 0 .. 9
  <2>1. Pow10[Decimals - i] \in Nat \ {0}
    BY <1>1, PowerFacts
  <2> DEFINE q == (z \div Pow10[Decimals - i])
  <2>2. q \in Nat
    BY <2>1, DivMod
  <2> HIDE DEF q
  <2>3. (q % 10) \in 0 .. 9
    BY <2>2
  <2> QED BY <2>3 DEF q
<1>5. /\ t.whole = (z \div Zec)
      /\ t.frac \in Seq(0 .. 9) /\ Len(t.frac) = Decimals
      /\ t \in Texts
  <2> DEFINE f == [i \in 1 .. Decimals |-> ((z \div Pow10[Decimals - i]) % 10)]
  <2>1. f \in [1 .. Decimals -> 0 .. 9]
    BY <1>4
  <2>2. f \in Seq(0 .. 9) /\ Len(f) = Decimals
    BY <1>1, <2>1
  <2> HIDE DEF f
  <2>3. t = [whole |-> (z \div Zec), frac |-> f]
    BY DEF FormatZatAsZec, f
  <2> QED BY <1>3, <2>2, <2>3 DEF Texts
<1>6. t \notin {NotDecimal, NoAmount}
  BY <1>5, TextAssumption
<1>7. t.whole # NoDigits /\ ~(Len(t.frac) > Decimals)
  BY <1>1, <1>3, <1>5 DEF NoDigits
<1>8. FractionOf(t.frac) = (z % Zec)
  BY DigitsWorth
<1> HIDE DEF t
<1>9. t.whole * Zec + FractionOf(t.frac) = z
  <2>1. (z \div Zec) * Zec = Zec * (z \div Zec)
    BY <1>2, <1>3
  <2> QED BY <1>3, <1>5, <1>8, <2>1
<1>10. ParseZecAmount(t) = z
  BY <1>1, <1>6, <1>7, <1>9 DEF ParseZecAmount
<1> QED BY <1>5, <1>10 DEF t

-----------------------------------------------------------------------------
(* Transactions and the rows of their outputs.                             *)

\* The types of the transactions and their outputs.
LEMMA TxTypes ==
    ASSUME TxsOK
    PROVE  /\ Len(txs) \in Nat /\ DOMAIN txs = 1 .. Len(txs)
           /\ \A i \in DOMAIN txs :
                /\ txs[i].id = i /\ txs[i].place \in Gone .. tip /\ txs[i].place \in Int
                /\ txs[i].outputs \in Seq(Output)
                /\ Len(txs[i].outputs) \in Nat
                /\ DOMAIN txs[i].outputs = 1 .. Len(txs[i].outputs)
                /\ \A k \in DOMAIN txs[i].outputs :
                    /\ txs[i].outputs[k].pool \in Pools
                    /\ txs[i].outputs[k].value \in Nat
                    /\ txs[i].outputs[k].to \in Nat
<1>1. txs \in Seq(Transaction)
  BY DEF TxsOK
<1>2. /\ Len(txs) \in Nat /\ DOMAIN txs = 1 .. Len(txs)
      /\ \A i \in DOMAIN txs : txs[i] \in Transaction
  BY <1>1
<1>3. \A t \in Transaction : t.outputs \in Seq(Output) /\ t.place \in Int
  BY DEF Transaction
<1>4. ASSUME NEW o \in Seq(Output)
      PROVE  /\ Len(o) \in Nat /\ DOMAIN o = 1 .. Len(o)
             /\ \A k \in DOMAIN o : o[k] \in Output
  OBVIOUS
<1>5. \A o \in Output : o.pool \in Pools /\ o.value \in Nat /\ o.to \in Nat
  BY DEF Output
<1>6. \A i \in DOMAIN txs : txs[i].id = i /\ txs[i].place \in Gone .. tip
  BY DEF TxsOK
<1> QED BY <1>2, <1>3, <1>4, <1>5, <1>6

\* Outputs of the same pool have different indices.
LEMMA IndicesDiffer ==
    ASSUME NEW tx, NEW n \in Nat, DOMAIN tx.outputs = 1 .. n,
           NEW j \in 1 .. n, NEW k \in 1 .. n, j < k,
           tx.outputs[j].pool = tx.outputs[k].pool
    PROVE  OutputIndex(tx, j) # OutputIndex(tx, k)
<1> DEFINE A == {m \in 1 .. (j - 1) : tx.outputs[m].pool = tx.outputs[j].pool}
           B == {m \in 1 .. (k - 1) : tx.outputs[m].pool = tx.outputs[k].pool}
<1>1. A \in SUBSET B /\ j \in B /\ j \notin A
  OBVIOUS
<1>2. IsFiniteSet(B)
  <2>1. IsFiniteSet(1 .. (k - 1)) /\ B \in SUBSET (1 .. (k - 1))
    BY FS_Interval
  <2> QED BY <2>1, FS_Subset
<1>3. OutputIndex(tx, j) = Cardinality(A) /\ OutputIndex(tx, k) = Cardinality(B)
  BY DEF OutputIndex
<1> HIDE DEF A, B
<1>4. Cardinality(B) # Cardinality(A)
  BY <1>1, <1>2, FS_Subset
<1> QED BY <1>3, <1>4

\* An output has a row of its own.
LEMMA UidOwn ==
    ASSUME TxsOK,
           NEW i \in DOMAIN txs, NEW k \in DOMAIN txs[i].outputs,
           NEW j \in DOMAIN txs, NEW l \in DOMAIN txs[j].outputs
    PROVE  /\ Uid(i, k)[1] = i
           /\ Uid(i, k) = Uid(j, l) => i = j /\ k = l
<1>1. Uid(i, k) = << i, txs[i].outputs[k].pool, OutputIndex(txs[i], k) >>
      /\ Uid(j, l) = << j, txs[j].outputs[l].pool, OutputIndex(txs[j], l) >>
  BY TxTypes DEF Uid, ReceiptUid
<1>2. ASSUME Uid(i, k) = Uid(j, l) PROVE i = j /\ k = l
  <2>1. i = j /\ txs[i].outputs[k].pool = txs[i].outputs[l].pool
        /\ OutputIndex(txs[i], k) = OutputIndex(txs[i], l)
    BY <1>1, <1>2
  <2>2. /\ Len(txs[i].outputs) \in Nat
        /\ DOMAIN txs[i].outputs = 1 .. Len(txs[i].outputs)
    BY TxTypes
  <2>3. ~(k < l) /\ ~(l < k)
    BY <2>1, <2>2, IndicesDiffer
  <2> QED BY <2>1, <2>2, <2>3
<1> QED BY <1>1, <1>2

\* find_address_id_by_receiver_fingerprint finds the address that is paid.
LEMMA OwnerFound ==
    ASSUME BookInv, FingerprintsDiffer, NEW a \in DOMAIN issued, NEW p \in Pools
    PROVE  AddressFor(receivers, p, FingerprintOf(p, issued[a].index)) = a
<1> DEFINE f == FingerprintOf(p, issued[a].index)
           row == [address_id |-> a, pool |-> p, fingerprint |-> f]
           found == {r \in receivers : r.pool = p /\ r.fingerprint = f}
<1>1. row \in found
  BY DEF BookInv, ReceiversExact, NewReceivers
<1>2. \A r \in found : r.address_id = a
  <2> SUFFICES ASSUME NEW r \in found PROVE r.address_id = a
    OBVIOUS
  <2>1. PICK k \in DOMAIN issued : r \in NewReceivers(k, issued[k].index)
    BY DEF BookInv, ReceiversExact
  <2>2. r.address_id = k /\ FingerprintOf(p, issued[k].index) = f
    BY <2>1 DEF NewReceivers
  <2> QED BY <2>2 DEF FingerprintsDiffer
<1>3. AddressFor(receivers, p, f) = (CHOOSE r \in found : TRUE).address_id
  BY <1>1 DEF AddressFor
<1> HIDE DEF found
<1> QED BY <1>1, <1>2, <1>3

-----------------------------------------------------------------------------
(* The steps of the ledger.                                                *)

\* Upserted, for the receipts of the outputs of some transactions, each found
\* at some height.
Upserts(new, old, X, h) ==
    /\ \A u : u \in DOMAIN new <=>
            \/ u \in DOMAIN old
            \/ \E i \in X : \E k \in DOMAIN txs[i].outputs : u = Uid(i, k)
    /\ \A i \in X : \A k \in DOMAIN txs[i].outputs :
        /\ new[Uid(i, k)] \in Row
        /\ new[Uid(i, k)].value = txs[i].outputs[k].value
        /\ new[Uid(i, k)].address \in DOMAIN issued
        /\ issued[new[Uid(i, k)].address].index = txs[i].outputs[k].to
        /\ new[Uid(i, k)].kind = IF h[i] = 0 THEN "mempool" ELSE "mined"
        /\ new[Uid(i, k)].eligible = (DepthOf(h[i], tip) >= ReportConf)
        /\ new[Uid(i, k)].active = TRUE
    /\ \A u \in DOMAIN old :
        (\A i \in X : \A k \in DOMAIN txs[i].outputs : u # Uid(i, k)) => new[u] = old[u]

ReceiptsAt(X, h) ==
    UNION {{Receipt(txs[i], k, h[i]) : k \in DOMAIN txs[i].outputs} : i \in X}

\* Upserted, of the receipts of outputs, does what Upserts says.
LEMMA UpsertEffect ==
    ASSUME BookInv, FingerprintsDiffer, TxsOK,
           NEW X \in SUBSET DOMAIN txs, NEW h, NEW old
    PROVE  Upserts(Upserted(old, ReceiptsAt(X, h), tip), old, X, h)
<1> DEFINE R == ReceiptsAt(X, h)
           owner(r) == AddressFor(receivers, r.pool, FingerprintOf(r.pool, r.to))
           ours == {r \in R : owner(r) # NoAddress}
           new == Upserted(old, R, tip)
<1>1. ASSUME NEW i \in X, NEW k \in DOMAIN txs[i].outputs
      PROVE  /\ Receipt(txs[i], k, h[i]) \in R
             /\ owner(Receipt(txs[i], k, h[i])) \in DOMAIN issued
             /\ issued[owner(Receipt(txs[i], k, h[i]))].index = txs[i].outputs[k].to
             /\ owner(Receipt(txs[i], k, h[i])) # NoAddress
  <2>1. PICK a \in DOMAIN issued : issued[a].index = txs[i].outputs[k].to
    BY DEF TxsOK
  <2>2. txs[i].outputs[k].pool \in Pools
    BY TxTypes
  <2>3. owner(Receipt(txs[i], k, h[i])) = a
    BY <2>1, <2>2, OwnerFound DEF Receipt
  <2>4. a \in Nat
    BY IssuedRows DEF BookInv
  <2>5. Receipt(txs[i], k, h[i]) \in R
    BY DEF ReceiptsAt
  <2> QED BY <2>1, <2>3, <2>4, <2>5, ScanAssumption
<1>2. ASSUME NEW r \in R
      PROVE  \E i \in X : \E k \in DOMAIN txs[i].outputs :
                r = Receipt(txs[i], k, h[i]) /\ r.uid = Uid(i, k)
  BY DEF ReceiptsAt, Receipt, Uid
<1>3. ours = R
  BY <1>1, <1>2
<1>4. ASSUME NEW i \in X, NEW k \in DOMAIN txs[i].outputs, NEW r \in ours, r.uid = Uid(i, k)
      PROVE  r = Receipt(txs[i], k, h[i])
  BY <1>2, <1>3, <1>4, UidOwn
<1>5. \A i \in X : \A k \in DOMAIN txs[i].outputs : Receipt(txs[i], k, h[i]).uid = Uid(i, k)
  BY DEF Receipt, Uid
<1>6. new = [u \in DOMAIN old \cup {r.uid : r \in ours} |->
                IF \E r \in ours : r.uid = u
                THEN LET r == CHOOSE r \in ours : r.uid = u
                     IN  Attributed(r, owner(r), tip)
                ELSE old[u]]
  BY DEF Upserted
<1> HIDE DEF new, owner, ours, R
<1>7. \A u : u \in DOMAIN new <=>
            \/ u \in DOMAIN old
            \/ \E i \in X : \E k \in DOMAIN txs[i].outputs : u = Uid(i, k)
  BY <1>1, <1>2, <1>3, <1>5, <1>6
<1>8. ASSUME NEW i \in X, NEW k \in DOMAIN txs[i].outputs
      PROVE  new[Uid(i, k)] = Attributed(Receipt(txs[i], k, h[i]),
                                         owner(Receipt(txs[i], k, h[i])), tip)
  <2> DEFINE u == Uid(i, k)
             q == Receipt(txs[i], k, h[i])
             r == CHOOSE r \in ours : r.uid = u
  <2>1. q \in ours /\ q.uid = u
    BY <1>1, <1>3, <1>5
  <2>2. r = q
    BY <1>4, <2>1
  <2>3. u \in DOMAIN new
    BY <1>7
  <2>4. new[u] = Attributed(r, owner(r), tip)
    BY <1>6, <2>1, <2>3
  <2> QED BY <2>2, <2>4
<1>9. ASSUME NEW u \in DOMAIN old,
             \A i \in X : \A k \in DOMAIN txs[i].outputs : u # Uid(i, k)
      PROVE  new[u] = old[u]
  BY <1>2, <1>3, <1>6, <1>9
<1>10. ASSUME NEW i \in X, NEW k \in DOMAIN txs[i].outputs
       PROVE  /\ new[Uid(i, k)] \in Row
              /\ new[Uid(i, k)].value = txs[i].outputs[k].value
              /\ new[Uid(i, k)].address \in DOMAIN issued
              /\ issued[new[Uid(i, k)].address].index = txs[i].outputs[k].to
              /\ new[Uid(i, k)].kind = IF h[i] = 0 THEN "mempool" ELSE "mined"
              /\ new[Uid(i, k)].eligible = (DepthOf(h[i], tip) >= ReportConf)
              /\ new[Uid(i, k)].active = TRUE
  <2> DEFINE q == Receipt(txs[i], k, h[i])
             a == owner(q)
             t == txs[i].outputs[k]
  <2>1. q.value = t.value /\ q.height = h[i]
    BY DEF Receipt
  <2>2. new[Uid(i, k)] = Attributed(q, a, tip)
    BY <1>8
  <2>3. a \in DOMAIN issued /\ issued[a].index = t.to
    BY <1>1
  <2> HIDE DEF q, a
  <2>4. /\ Attributed(q, a, tip).value = q.value
        /\ Attributed(q, a, tip).address = a
        /\ Attributed(q, a, tip).kind = IF q.height = 0 THEN "mempool" ELSE "mined"
        /\ Attributed(q, a, tip).active = TRUE
    BY DEF Attributed
  <2>5. Attributed(q, a, tip).eligible = (DepthOf(q.height, tip) >= ReportConf)
    BY Zenon DEF Attributed
  <2>6. Attributed(q, a, tip) \in Row
    <3>1. q.value \in Nat
      BY <2>1, TxTypes
    <3>2. a \in Nat
      BY <2>3, IssuedRows DEF BookInv
    <3> QED BY <3>1, <3>2 DEF Attributed, Row
  <2> QED BY <2>1, <2>2, <2>3, <2>4, <2>5, <2>6
<1>11. Upserts(new, old, X, h)
  BY <1>7, <1>9, <1>10 DEF Upserts
<1> QED BY <1>11 DEF new, R

\* An upsert leaves the rows of the other transactions alone.
LEMMA UpsertElsewhere ==
    ASSUME TxsOK, NEW old, NEW new, NEW X \in SUBSET DOMAIN txs, NEW h,
           Upserts(new, old, X, h),
           NEW i \in DOMAIN txs, i \notin X, NEW k \in DOMAIN txs[i].outputs
    PROVE  /\ Uid(i, k) \in DOMAIN new <=> Uid(i, k) \in DOMAIN old
           /\ Uid(i, k) \in DOMAIN old => new[Uid(i, k)] = old[Uid(i, k)]
<1>1. \A j \in X : \A l \in DOMAIN txs[j].outputs : Uid(i, k) # Uid(j, l)
  BY UidOwn
<1> QED BY <1>1 DEF Upserts

\* An upsert of receipts of transactions, all their outputs, keeps the ledger
\* well.
LEMMA UpsertKeeps ==
    ASSUME TxsOK, NEW old, LedgerOK(old), NEW new, NEW X \in SUBSET DOMAIN txs, NEW h,
           Upserts(new, old, X, h), \A i \in X : h[i] = 0 => ReportConf = 0
    PROVE  LedgerOK(new)
<1>1. RowsTrue(old) /\ RowsTogether(old) /\ KindsOK(old)
  BY DEF LedgerOK
<1>2. ASSUME NEW i \in X, NEW k \in DOMAIN txs[i].outputs
      PROVE  /\ Uid(i, k) \in DOMAIN new
             /\ new[Uid(i, k)] \in Row
             /\ new[Uid(i, k)].value = txs[i].outputs[k].value
             /\ new[Uid(i, k)].address \in DOMAIN issued
             /\ issued[new[Uid(i, k)].address].index = txs[i].outputs[k].to
             /\ new[Uid(i, k)].kind = IF h[i] = 0 THEN "mempool" ELSE "mined"
             /\ new[Uid(i, k)].active = TRUE
             /\ h[i] = 0 => new[Uid(i, k)].eligible
  <2>1. h[i] = 0 => (DepthOf(h[i], tip) >= ReportConf)
    BY DEF DepthOf
  <2>2. new[Uid(i, k)].eligible = (DepthOf(h[i], tip) >= ReportConf)
    BY DEF Upserts
  <2>3. h[i] = 0 => new[Uid(i, k)].eligible
    BY <2>1, <2>2, Zenon
  <2> QED BY <2>3 DEF Upserts
<1>3. \A u \in DOMAIN new : \E i \in DOMAIN txs : \E k \in DOMAIN txs[i].outputs : u = Uid(i, k)
  BY <1>1 DEF Upserts, RowsTrue
<1>4. ASSUME NEW i \in DOMAIN txs, NEW k \in DOMAIN txs[i].outputs, Uid(i, k) \in DOMAIN new
      PROVE  /\ new[Uid(i, k)].value = txs[i].outputs[k].value
             /\ new[Uid(i, k)].address \in DOMAIN issued
             /\ issued[new[Uid(i, k)].address].index = txs[i].outputs[k].to
  <2>1. CASE i \in X
    BY <1>2, <2>1
  <2>2. CASE i \notin X
    BY <1>1, <1>4, <2>2, UpsertElsewhere DEF RowsTrue
  <2> QED BY <2>1, <2>2
<1>5. ASSUME NEW i \in DOMAIN txs, NEW j \in DOMAIN txs[i].outputs,
             NEW k \in DOMAIN txs[i].outputs, Uid(i, j) \in DOMAIN new
      PROVE  /\ Uid(i, k) \in DOMAIN new
             /\ new[Uid(i, k)].kind = new[Uid(i, j)].kind
             /\ new[Uid(i, k)].active = new[Uid(i, j)].active
  <2>1. CASE i \in X
    <3> DEFINE c == IF h[i] = 0 THEN "mempool" ELSE "mined"
    <3>1. \A l \in DOMAIN txs[i].outputs :
            /\ Uid(i, l) \in DOMAIN new
            /\ new[Uid(i, l)].kind = c /\ new[Uid(i, l)].active = TRUE
      BY <1>2, <2>1
    <3> HIDE DEF c
    <3> QED BY <3>1
  <2>2. CASE i \notin X
    BY <1>1, <1>5, <2>2, UpsertElsewhere DEF RowsTogether
  <2> QED BY <2>1, <2>2
<1>6. ASSUME NEW u \in DOMAIN new
      PROVE  /\ new[u] \in Row
             /\ new[u].kind = "mempool" => ReportConf = 0 /\ new[u].eligible
  <2>1. PICK i \in DOMAIN txs : \E k \in DOMAIN txs[i].outputs : u = Uid(i, k)
    BY <1>3
  <2>2. PICK k \in DOMAIN txs[i].outputs : u = Uid(i, k)
    BY <2>1
  <2>3. CASE i \in X
    BY <1>2, <2>2, <2>3
  <2>4. CASE i \notin X
    BY <1>1, <2>2, <2>4, UpsertElsewhere DEF KindsOK
  <2> QED BY <2>3, <2>4
<1>7. RowsTrue(new)
  BY <1>3, <1>4 DEF RowsTrue
<1>8. RowsTogether(new)
  BY <1>5 DEF RowsTogether
<1>9. KindsOK(new)
  BY <1>6 DEF KindsOK
<1> QED BY <1>7, <1>8, <1>9 DEF LedgerOK

\* Revoking changes nothing but whether a row is active.
RowRevoked(new, old, hit) ==
    /\ new \in Row
    /\ new.value = old.value
    /\ new.address = old.address
    /\ new.kind = old.kind
    /\ new.eligible = old.eligible
    /\ new.active = IF hit THEN FALSE ELSE old.active

\* Revoked hits the rows of a kind that were not found, and no other.
LEMMA RevokeEffect ==
    ASSUME NEW old, KindsOK(old), NEW kind, NEW S
    PROVE  /\ DOMAIN Revoked(old, kind, S) = DOMAIN old
           /\ \A u \in DOMAIN old :
                RowRevoked(Revoked(old, kind, S)[u], old[u], old[u].kind = kind /\ u \notin S)
<1>1. DOMAIN Revoked(old, kind, S) = DOMAIN old
  BY DEF Revoked
<1>2. ASSUME NEW u \in DOMAIN old
      PROVE  RowRevoked(Revoked(old, kind, S)[u], old[u], old[u].kind = kind /\ u \notin S)
  <2> DEFINE new == Revoked(old, kind, S)[u]
  <2>1. old[u] \in Row
    BY DEF KindsOK
  <2>2. new = IF old[u].kind = kind /\ u \notin S
              THEN [old[u] EXCEPT !.active = FALSE] ELSE old[u]
    BY DEF Revoked
  <2>3. SUFFICES RowRevoked(new, old[u], old[u].kind = kind /\ u \notin S)
    OBVIOUS
  <2> HIDE DEF new
  <2>4. CASE old[u].kind = kind /\ u \notin S
    <3>1. new = [old[u] EXCEPT !.active = FALSE]
      BY <2>2, <2>4
    <3>2. /\ new \in Row
          /\ new.value = old[u].value /\ new.address = old[u].address
          /\ new.kind = old[u].kind /\ new.eligible = old[u].eligible
          /\ new.active = FALSE
      BY <2>1, <3>1 DEF Row
    <3> QED BY <2>4, <3>2 DEF RowRevoked
  <2>5. CASE ~(old[u].kind = kind /\ u \notin S)
    <3>1. new = old[u]
      BY <2>2, <2>5
    <3> QED BY <2>1, <2>5, <3>1 DEF RowRevoked
  <2> QED BY <2>4, <2>5
<1> QED BY <1>1, <1>2

\* A revocation that spares all the rows of a transaction or none keeps the
\* ledger well.
LEMMA RevokeKeeps ==
    ASSUME NEW old, LedgerOK(old), NEW kind, NEW S,
           \A i \in DOMAIN txs : \A j, k \in DOMAIN txs[i].outputs :
               Uid(i, j) \in DOMAIN old /\ Uid(i, j) \in S => Uid(i, k) \in S
    PROVE  LedgerOK(Revoked(old, kind, S))
<1> DEFINE new == Revoked(old, kind, S)
           Hit(u) == old[u].kind = kind /\ u \notin S
<1>1. RowsTrue(old) /\ RowsTogether(old) /\ KindsOK(old)
  BY DEF LedgerOK
<1>2. DOMAIN new = DOMAIN old
  BY DEF Revoked
<1>3. \A u \in DOMAIN old : RowRevoked(new[u], old[u], Hit(u))
  BY <1>1, RevokeEffect
<1> HIDE DEF new, Hit
<1>4. RowsTrue(new)
  <2>1. \A u \in DOMAIN new : \E i \in DOMAIN txs : \E k \in DOMAIN txs[i].outputs : u = Uid(i, k)
    BY <1>1, <1>2 DEF RowsTrue
  <2>2. ASSUME NEW i \in DOMAIN txs, NEW k \in DOMAIN txs[i].outputs, Uid(i, k) \in DOMAIN new
        PROVE  /\ new[Uid(i, k)].value = txs[i].outputs[k].value
               /\ new[Uid(i, k)].address \in DOMAIN issued
               /\ issued[new[Uid(i, k)].address].index = txs[i].outputs[k].to
    BY <1>1, <1>2, <1>3, <2>2 DEF RowsTrue, RowRevoked
  <2> QED BY <2>1, <2>2 DEF RowsTrue
<1>5. KindsOK(new)
  BY <1>1, <1>2, <1>3 DEF KindsOK, RowRevoked
<1>6. ASSUME NEW i \in DOMAIN txs, NEW j \in DOMAIN txs[i].outputs,
             NEW k \in DOMAIN txs[i].outputs, Uid(i, j) \in DOMAIN new
      PROVE  /\ Uid(i, k) \in DOMAIN new
             /\ new[Uid(i, k)].kind = new[Uid(i, j)].kind
             /\ new[Uid(i, k)].active = new[Uid(i, j)].active
  <2>1. /\ Uid(i, j) \in DOMAIN old /\ Uid(i, k) \in DOMAIN old
        /\ old[Uid(i, k)].kind = old[Uid(i, j)].kind
        /\ old[Uid(i, k)].active = old[Uid(i, j)].active
    BY <1>1, <1>2, <1>6 DEF RowsTogether
  <2>2. Hit(Uid(i, j)) <=> Hit(Uid(i, k))
    BY <2>1 DEF Hit
  <2> QED BY <1>2, <1>3, <2>1, <2>2 DEF RowRevoked
<1>7. RowsTogether(new)
  BY <1>6 DEF RowsTogether
<1> QED BY <1>4, <1>5, <1>7 DEF LedgerOK, new

\* The rows of receipts are those of the transactions they were found in.
LEMMA FoundRows ==
    ASSUME TxsOK, NEW X \in SUBSET DOMAIN txs, NEW h,
           NEW i \in DOMAIN txs, NEW k \in DOMAIN txs[i].outputs
    PROVE  Uid(i, k) \in {r.uid : r \in ReceiptsAt(X, h)} <=> i \in X
<1>1. ASSUME i \in X PROVE Uid(i, k) \in {r.uid : r \in ReceiptsAt(X, h)}
  <2>1. Receipt(txs[i], k, h[i]) \in ReceiptsAt(X, h)
    BY <1>1 DEF ReceiptsAt
  <2>2. Receipt(txs[i], k, h[i]).uid = Uid(i, k)
    BY DEF Receipt, Uid
  <2> QED BY <2>1, <2>2
<1>2. ASSUME NEW r \in ReceiptsAt(X, h), r.uid = Uid(i, k) PROVE i \in X
  <2>1. PICK j \in X : \E l \in DOMAIN txs[j].outputs : r = Receipt(txs[j], l, h[j])
    BY DEF ReceiptsAt
  <2>2. PICK l \in DOMAIN txs[j].outputs : r = Receipt(txs[j], l, h[j])
    BY <2>1
  <2>3. Uid(i, k) = Uid(j, l)
    BY <1>2, <2>2 DEF Receipt, Uid
  <2> QED BY <2>3, UidOwn
<1> QED BY <1>1, <1>2

\* The mined transactions that the spam filter lets through.
InChain == {i \in DOMAIN txs : txs[i].place > 0 /\ Kept(txs[i], txs[i].place)}

\* The chain scan makes the active mined rows those of the chain.
ChainRows(new) ==
    /\ LedgerOK(new)
    /\ \A i \in InChain : \A k \in DOMAIN txs[i].outputs :
        /\ Uid(i, k) \in DOMAIN new
        /\ new[Uid(i, k)].kind = "mined" /\ new[Uid(i, k)].active = TRUE
        /\ new[Uid(i, k)].eligible = (DepthOf(txs[i].place, tip) >= ReportConf)
    /\ \A i \in DOMAIN txs \ InChain : \A k \in DOMAIN txs[i].outputs :
        Uid(i, k) \in DOMAIN new /\ new[Uid(i, k)].kind = "mined" =>
            new[Uid(i, k)].active = FALSE

\* ChainScanned does what ChainRows says.
LEMMA ChainEffect ==
    ASSUME BookInv, FingerprintsDiffer, TxsOK, NEW old, LedgerOK(old)
    PROVE  ChainRows(ChainScanned(old))
<1> DEFINE h == [i \in DOMAIN txs |-> txs[i].place]
           found == ReceiptsAt(InChain, h)
           mid == Upserted(old, found, tip)
           S == {r.uid : r \in found}
           new == Revoked(mid, "mined", S)
<1>1. UNION {ScanBlock(txs[i], txs[i].place) : i \in {j \in DOMAIN txs : txs[j].place > 0}}
        = found
  <2> DEFINE F == UNION {ScanBlock(txs[i], txs[i].place) :
                            i \in {j \in DOMAIN txs : txs[j].place > 0}}
  <2>1. ASSUME NEW r \in F PROVE r \in found
    <3>1. PICK i \in {j \in DOMAIN txs : txs[j].place > 0} : r \in ScanBlock(txs[i], txs[i].place)
      OBVIOUS
    <3>2. i \in InChain /\ \E k \in DOMAIN txs[i].outputs : r = Receipt(txs[i], k, h[i])
      BY <3>1 DEF ScanBlock, InChain
    <3> QED BY <3>2 DEF ReceiptsAt
  <2>2. ASSUME NEW r \in found PROVE r \in F
    <3>1. PICK i \in InChain : \E k \in DOMAIN txs[i].outputs : r = Receipt(txs[i], k, h[i])
      BY DEF ReceiptsAt
    <3>2. i \in {j \in DOMAIN txs : txs[j].place > 0} /\ r \in ScanBlock(txs[i], txs[i].place)
      BY <3>1 DEF ScanBlock, InChain
    <3> QED BY <3>2
  <2> QED BY <2>1, <2>2
<1>2. ChainScanned(old) = new
  BY <1>1 DEF ChainScanned
<1>3. InChain \in SUBSET DOMAIN txs /\ \A i \in InChain : h[i] # 0 /\ h[i] = txs[i].place
  BY TxTypes DEF InChain
<1> HIDE DEF h
<1>4. Upserts(mid, old, InChain, h)
  BY <1>3, UpsertEffect
<1>5. \A i \in DOMAIN txs : \A k \in DOMAIN txs[i].outputs : Uid(i, k) \in S <=> i \in InChain
  BY <1>3, FoundRows
<1> HIDE DEF mid, S
<1>6. LedgerOK(mid)
  BY <1>3, <1>4, UpsertKeeps
<1>7. LedgerOK(new)
  BY <1>5, <1>6, RevokeKeeps
<1>8. /\ DOMAIN new = DOMAIN mid
      /\ \A u \in DOMAIN mid : RowRevoked(new[u], mid[u], mid[u].kind = "mined" /\ u \notin S)
  BY <1>6, RevokeEffect DEF LedgerOK
<1> HIDE DEF new
<1>9. ASSUME NEW i \in InChain, NEW k \in DOMAIN txs[i].outputs
      PROVE  /\ Uid(i, k) \in DOMAIN new
             /\ new[Uid(i, k)].kind = "mined" /\ new[Uid(i, k)].active = TRUE
             /\ new[Uid(i, k)].eligible = (DepthOf(txs[i].place, tip) >= ReportConf)
  <2>1. /\ Uid(i, k) \in DOMAIN mid
        /\ mid[Uid(i, k)].kind = "mined" /\ mid[Uid(i, k)].active = TRUE
    BY <1>3, <1>4 DEF Upserts
  <2>2. mid[Uid(i, k)].eligible = (DepthOf(txs[i].place, tip) >= ReportConf)
    BY <1>3, <1>4, Zenon DEF Upserts
  <2>3. Uid(i, k) \in S
    BY <1>3, <1>5
  <2>4. /\ new[Uid(i, k)].kind = mid[Uid(i, k)].kind
        /\ new[Uid(i, k)].eligible = mid[Uid(i, k)].eligible
        /\ new[Uid(i, k)].active = mid[Uid(i, k)].active
    BY <1>8, <2>1, <2>3 DEF RowRevoked
  <2> QED BY <1>8, <2>1, <2>2, <2>4
<1>10. ASSUME NEW i \in DOMAIN txs \ InChain, NEW k \in DOMAIN txs[i].outputs,
              Uid(i, k) \in DOMAIN new, new[Uid(i, k)].kind = "mined"
       PROVE  new[Uid(i, k)].active = FALSE
  BY <1>5, <1>8, <1>10 DEF RowRevoked
<1> QED BY <1>2, <1>7, <1>9, <1>10 DEF ChainRows

\* What a look at the mempool does.
MempoolRows(new, old, revokeMissing) ==
    /\ LedgerOK(new)
    /\ \A i \in InMempool : Parses(txs[i], tip) =>
        \A k \in DOMAIN txs[i].outputs :
            /\ Uid(i, k) \in DOMAIN new
            /\ new[Uid(i, k)].kind = "mempool" /\ new[Uid(i, k)].active = TRUE
    /\ \A i \in DOMAIN txs \ InMempool : \A k \in DOMAIN txs[i].outputs :
        /\ Uid(i, k) \in DOMAIN new <=> Uid(i, k) \in DOMAIN old
        /\ Uid(i, k) \in DOMAIN old =>
            RowRevoked(new[Uid(i, k)], old[Uid(i, k)],
                       revokeMissing /\ old[Uid(i, k)].kind = "mempool")

\* MempoolScanned does what MempoolRows says.
LEMMA MempoolEffect ==
    ASSUME BookInv, FingerprintsDiffer, TxsOK, ReportConf = 0, NEW old, LedgerOK(old),
           NEW revokeMissing \in BOOLEAN
    PROVE  MempoolRows(MempoolScanned(old, revokeMissing), old, revokeMissing)
<1> DEFINE known == {u[1] : u \in {v \in DOMAIN old : old[v].kind = "mempool" /\ old[v].active}}
           X == {i \in InMempool \ known : Parses(txs[i], tip)}
           h == [i \in DOMAIN txs |-> 0]
           found == ReceiptsAt(X, h)
           uids == {r.uid : r \in found}
           kept == {u \in DOMAIN old : u[1] \in InMempool} \cup uids
           mid == Upserted(old, found, tip)
           new == IF revokeMissing THEN Revoked(mid, "mempool", kept) ELSE mid
<1>1. UNION {ScanMempool(txs[i], tip) : i \in InMempool \ known} = found
  <2> DEFINE F == UNION {ScanMempool(txs[i], tip) : i \in InMempool \ known}
  <2>1. \A i \in InMempool : i \in DOMAIN txs /\ h[i] = 0
    BY DEF InMempool
  <2> HIDE DEF known, h
  <2>2. ASSUME NEW r \in F PROVE r \in found
    <3>1. PICK i \in InMempool \ known : r \in ScanMempool(txs[i], tip)
      OBVIOUS
    <3>2. i \in X /\ \E k \in DOMAIN txs[i].outputs : r = Receipt(txs[i], k, h[i])
      BY <2>1, <3>1 DEF ScanMempool
    <3> QED BY <3>2 DEF ReceiptsAt
  <2>3. ASSUME NEW r \in found PROVE r \in F
    <3>1. PICK i \in X : \E k \in DOMAIN txs[i].outputs : r = Receipt(txs[i], k, h[i])
      BY DEF ReceiptsAt
    <3>2. i \in InMempool \ known /\ r \in ScanMempool(txs[i], tip)
      BY <2>1, <3>1 DEF ScanMempool
    <3> QED BY <3>2
  <2> QED BY <2>2, <2>3
<1>2. MempoolScanned(old, revokeMissing) = new
  BY <1>1, Zenon DEF MempoolScanned
<1>3. X \in SUBSET DOMAIN txs /\ \A i \in X : h[i] = 0
  BY DEF InMempool
<1>4. \A i \in InMempool \ X : Parses(txs[i], tip) => i \in known
  OBVIOUS
<1> HIDE DEF h
<1>5. Upserts(mid, old, X, h)
  <2> HIDE DEF X
  <2> QED BY <1>3, UpsertEffect
<1>6. \A i \in DOMAIN txs : \A k \in DOMAIN txs[i].outputs : Uid(i, k) \in uids <=> i \in X
  <2> HIDE DEF X
  <2> QED BY <1>3, FoundRows
<1>7. LedgerOK(mid)
  <2> HIDE DEF X, mid
  <2> QED BY <1>3, <1>5, UpsertKeeps
<1>8. RowsTogether(old) /\ RowsTrue(old)
  BY DEF LedgerOK
\* The rows of a transaction in the mempool that is not scanned again.
<1>9. ASSUME NEW i \in known, NEW k \in DOMAIN txs[i].outputs, i \in DOMAIN txs
      PROVE  /\ Uid(i, k) \in DOMAIN old
             /\ old[Uid(i, k)].kind = "mempool" /\ old[Uid(i, k)].active = TRUE
  <2>1. PICK u \in DOMAIN old : old[u].kind = "mempool" /\ old[u].active /\ u[1] = i
    OBVIOUS
  <2>2. PICK j \in DOMAIN txs : \E l \in DOMAIN txs[j].outputs : u = Uid(j, l)
    BY <1>8 DEF RowsTrue
  <2>3. PICK l \in DOMAIN txs[j].outputs : u = Uid(j, l)
    BY <2>2
  <2>4. j = i
    BY <2>1, <2>3, UidOwn
  <2>5. old[u].active = TRUE
    <3>1. old[u].active \in BOOLEAN
      BY DEF LedgerOK, KindsOK, Row
    <3> QED BY <2>1, <3>1
  <2> QED BY <1>8, <2>1, <2>3, <2>4, <2>5 DEF RowsTogether
<1> HIDE DEF known
<1>10. ASSUME NEW i \in InMempool, Parses(txs[i], tip), NEW k \in DOMAIN txs[i].outputs
       PROVE  /\ Uid(i, k) \in DOMAIN mid /\ Uid(i, k) \in kept
              /\ mid[Uid(i, k)].kind = "mempool" /\ mid[Uid(i, k)].active = TRUE
  <2>0. i \in DOMAIN txs
    BY DEF InMempool
  <2>1. CASE i \in X
    <3> HIDE DEF X, mid
    <3>1. Uid(i, k) \in uids
      BY <1>6, <2>0, <2>1
    <3> QED BY <1>3, <1>5, <2>1, <3>1 DEF Upserts
  <2>2. CASE i \notin X
    <3>1. i \in known
      BY <1>4, <1>10, <2>2
    <3> HIDE DEF X, mid
    <3>2. mid[Uid(i, k)] = old[Uid(i, k)] /\ Uid(i, k) \in DOMAIN old /\ Uid(i, k) \in DOMAIN mid
      BY <1>3, <1>5, <1>9, <2>0, <2>2, <3>1, UpsertElsewhere
    <3>3. Uid(i, k)[1] = i
      BY <2>0, UidOwn
    <3> QED BY <1>9, <2>0, <3>1, <3>2, <3>3
  <2> QED BY <2>1, <2>2
<1>11. ASSUME NEW i \in DOMAIN txs \ InMempool, NEW k \in DOMAIN txs[i].outputs
       PROVE  /\ Uid(i, k) \in DOMAIN mid <=> Uid(i, k) \in DOMAIN old
              /\ Uid(i, k) \in DOMAIN old => mid[Uid(i, k)] = old[Uid(i, k)]
              /\ Uid(i, k) \notin kept
  <2>1. i \notin X /\ Uid(i, k)[1] = i
    BY UidOwn
  <2> HIDE DEF X, mid
  <2> QED BY <1>3, <1>5, <1>6, <2>1, UpsertElsewhere
<1>12. KindsOK(mid)
  BY <1>7 DEF LedgerOK
<1>13. CASE revokeMissing
  <2>1. new = Revoked(mid, "mempool", kept)
    BY <1>13
  <2>2. ASSUME NEW i \in DOMAIN txs, NEW j \in DOMAIN txs[i].outputs,
               NEW k \in DOMAIN txs[i].outputs, Uid(i, j) \in DOMAIN mid, Uid(i, j) \in kept
        PROVE  Uid(i, k) \in kept
    <3>1. CASE i \in X
      BY <1>6, <3>1
    <3>2. CASE i \notin X
      <4>1. Uid(i, j) \notin uids
        BY <1>6, <3>2
      <4>2. Uid(i, j) \in DOMAIN old /\ i \in InMempool
        BY <2>2, <4>1, UidOwn
      <4>3. Uid(i, k) \in DOMAIN old /\ Uid(i, k)[1] = i
        BY <1>8, <4>2, UidOwn DEF RowsTogether
      <4> QED BY <4>2, <4>3
    <3> QED BY <3>1, <3>2
  <2> HIDE DEF X, mid, kept
  <2>3. LedgerOK(Revoked(mid, "mempool", kept))
    BY <1>7, <2>2, RevokeKeeps
  <2>4. /\ DOMAIN new = DOMAIN mid
        /\ \A u \in DOMAIN mid :
            RowRevoked(new[u], mid[u], mid[u].kind = "mempool" /\ u \notin kept)
    BY <1>12, <2>1, RevokeEffect
  <2> HIDE DEF new
  <2>5. ASSUME NEW i \in InMempool, Parses(txs[i], tip), NEW k \in DOMAIN txs[i].outputs
        PROVE  /\ Uid(i, k) \in DOMAIN new
               /\ new[Uid(i, k)].kind = "mempool" /\ new[Uid(i, k)].active = TRUE
    BY <1>10, <2>4, <2>5 DEF RowRevoked
  <2>6. ASSUME NEW i \in DOMAIN txs \ InMempool, NEW k \in DOMAIN txs[i].outputs
        PROVE  /\ Uid(i, k) \in DOMAIN new <=> Uid(i, k) \in DOMAIN old
               /\ Uid(i, k) \in DOMAIN old =>
                    RowRevoked(new[Uid(i, k)], old[Uid(i, k)],
                               revokeMissing /\ old[Uid(i, k)].kind = "mempool")
    BY <1>11, <1>13, <2>4 DEF RowRevoked
  <2> QED BY <1>2, <2>1, <2>3, <2>5, <2>6 DEF MempoolRows
<1>14. CASE ~revokeMissing
  <2>1. new = mid
    BY <1>14
  <2> HIDE DEF X, mid, kept, new
  <2>2. ASSUME NEW i \in DOMAIN txs \ InMempool, NEW k \in DOMAIN txs[i].outputs
        PROVE  /\ Uid(i, k) \in DOMAIN new <=> Uid(i, k) \in DOMAIN old
               /\ Uid(i, k) \in DOMAIN old =>
                    RowRevoked(new[Uid(i, k)], old[Uid(i, k)],
                               revokeMissing /\ old[Uid(i, k)].kind = "mempool")
    BY <1>11, <1>12, <1>14, <2>1 DEF RowRevoked, KindsOK
  <2> QED BY <1>2, <1>7, <1>10, <2>1, <2>2 DEF MempoolRows
<1> QED BY <1>13, <1>14

\* The row counts towards the total of its address.
CountedIn(new, u) == u \in DOMAIN new /\ new[u].active /\ new[u].eligible

\* What a mempool scan finds counts.
LEMMA MempoolCounts ==
    ASSUME TxsOK, ReportConf = 0, NEW old, NEW revokeMissing, NEW new,
           MempoolRows(new, old, revokeMissing),
           NEW i \in InMempool, Parses(txs[i], tip), NEW k \in DOMAIN txs[i].outputs
    PROVE  CountedIn(new, Uid(i, k)) /\ Counts(i)
<1>1. /\ Uid(i, k) \in DOMAIN new
      /\ new[Uid(i, k)].kind = "mempool" /\ new[Uid(i, k)].active = TRUE
      /\ KindsOK(new)
  BY DEF MempoolRows, LedgerOK
<1>2. new[Uid(i, k)].eligible
  BY <1>1 DEF KindsOK
<1>3. i \in DOMAIN txs /\ txs[i].place = 0
  BY DEF InMempool
<1> QED BY <1>1, <1>2, <1>3 DEF CountedIn, Counts

\* The periodic reconciliation keeps an exact ledger exact.
LEMMA MempoolExact ==
    ASSUME TxsOK, ReportConf = 0, NEW new, MempoolRows(new, rows, FALSE), Exact(rows),
           \A i \in InMempool : Parses(txs[i], tip)
    PROVE  Exact(new)
<1> SUFFICES ASSUME NEW i \in DOMAIN txs, NEW k \in DOMAIN txs[i].outputs
             PROVE  CountedIn(new, Uid(i, k)) <=> Counts(i)
  BY DEF Exact, CountedIn
<1>1. CASE i \in InMempool
  BY <1>1, MempoolCounts
<1>2. CASE i \notin InMempool
  <2>1. CountedIn(rows, Uid(i, k)) <=> Counts(i)
    BY DEF Exact, CountedIn
  <2>2. /\ Uid(i, k) \in DOMAIN new <=> Uid(i, k) \in DOMAIN rows
        /\ Uid(i, k) \in DOMAIN rows => RowRevoked(new[Uid(i, k)], rows[Uid(i, k)],
                FALSE /\ rows[Uid(i, k)].kind = "mempool")
    BY <1>2 DEF MempoolRows
  <2>3. Uid(i, k) \in DOMAIN rows =>
            /\ new[Uid(i, k)].active = rows[Uid(i, k)].active
            /\ new[Uid(i, k)].eligible = rows[Uid(i, k)].eligible
    BY <2>2 DEF RowRevoked
  <2> QED BY <2>1, <2>2, <2>3 DEF CountedIn
<1> QED BY <1>1, <1>2

\* An iteration of the sync loop makes the ledger exact, whatever it was.
LEMMA SyncExact ==
    ASSUME TxsOK, ReportConf \in Nat, NEW mid, ChainRows(mid), NEW new,
           IF ReportConf = 0 THEN MempoolRows(new, mid, TRUE) ELSE new = mid,
           \A i \in InMempool : Parses(txs[i], tip)
    PROVE  Exact(new)
<1> SUFFICES ASSUME NEW i \in DOMAIN txs, NEW k \in DOMAIN txs[i].outputs
             PROVE  CountedIn(new, Uid(i, k)) <=> Counts(i)
  BY DEF Exact, CountedIn
<1> DEFINE u == Uid(i, k)
<1>1. KindsOK(mid)
  BY DEF ChainRows, LedgerOK
<1>2. i \in InMempool <=> txs[i].place = 0
  BY DEF InMempool
<1>3. CASE ReportConf = 0 /\ i \in InMempool
  BY <1>3, MempoolCounts
<1>4. ASSUME ~(ReportConf = 0 /\ i \in InMempool)
      PROVE  /\ u \in DOMAIN new <=> u \in DOMAIN mid
             /\ u \in DOMAIN mid => RowRevoked(new[u], mid[u], mid[u].kind = "mempool")
  <2>1. CASE ReportConf = 0
    <3>1. /\ u \in DOMAIN new <=> u \in DOMAIN mid
          /\ u \in DOMAIN mid => RowRevoked(new[u], mid[u], TRUE /\ mid[u].kind = "mempool")
      BY <1>4, <2>1 DEF MempoolRows
    <3> QED BY <3>1 DEF RowRevoked
  <2>2. CASE ReportConf # 0
    BY <1>1, <2>2 DEF KindsOK, RowRevoked
  <2> QED BY <2>1, <2>2
<1>5. CASE ~(ReportConf = 0 /\ i \in InMempool) /\ i \in InChain
  <2>1. /\ u \in DOMAIN mid /\ mid[u].kind = "mined" /\ mid[u].active = TRUE
        /\ mid[u].eligible = (DepthOf(txs[i].place, tip) >= ReportConf)
    BY <1>5 DEF ChainRows
  <2>2. /\ u \in DOMAIN new /\ new[u].active = TRUE /\ new[u].eligible = mid[u].eligible
    BY <1>4, <1>5, <2>1 DEF RowRevoked
  <2>3. Counts(i) <=> (DepthOf(txs[i].place, tip) >= ReportConf)
    BY <1>5 DEF Counts, InChain
  <2> HIDE DEF u
  <2>4. CountedIn(new, u) <=> (DepthOf(txs[i].place, tip) >= ReportConf)
    BY <2>1, <2>2, Zenon DEF CountedIn
  <2> QED BY <2>3, <2>4 DEF u
<1>6. CASE ~(ReportConf = 0 /\ i \in InMempool) /\ i \notin InChain
  <2>1. ~Counts(i)
    BY <1>2, <1>6, TxTypes DEF Counts, InChain
  <2>2. ASSUME u \in DOMAIN new PROVE new[u].active = FALSE
    <3>1. u \in DOMAIN mid /\ RowRevoked(new[u], mid[u], mid[u].kind = "mempool")
      BY <1>4, <1>6, <2>2
    <3>2. mid[u].kind \in {"mempool", "mined"}
      BY <1>1, <3>1 DEF KindsOK, Row
    <3>3. mid[u].kind = "mined" => mid[u].active = FALSE
      BY <1>6, <3>1 DEF ChainRows
    <3> QED BY <3>1, <3>2, <3>3 DEF RowRevoked
  <2> QED BY <2>1, <2>2 DEF CountedIn
<1> QED BY <1>3, <1>5, <1>6

-----------------------------------------------------------------------------
(* Totals, and what transactions pay, as sums.                             *)

\* Induction, for the subsets of a finite set.
LEMMA SubsetInduction ==
    ASSUME NEW S, IsFiniteSet(S), NEW T,
           \A s \in SUBSET S : (s = {} \/ \E x \in s : s \ {x} \in T) => s \in T
    PROVE  \A s \in SUBSET S : s \in T
<1> DEFINE N == {n \in Nat : \A s \in SUBSET S : Cardinality(s) = n => s \in T}
<1>1. \A s \in SUBSET S : IsFiniteSet(s) /\ Cardinality(s) \in Nat
  BY FS_Subset, FS_CardinalityType
<1>2. ASSUME NEW n \in Nat, \A m \in Nat : m < n => m \in N,
             NEW s \in SUBSET S, Cardinality(s) = n
      PROVE  s \in T
  <2>1. CASE s = {}
    BY <2>1
  <2>2. CASE s # {}
    <3>1. PICK x \in s : TRUE
      BY <2>2
    <3>2. Cardinality(s \ {x}) = n - 1 /\ s \ {x} \in SUBSET S
      BY <1>1, <1>2, FS_RemoveElement
    <3>3. n - 1 \in Nat /\ n - 1 < n
      BY <1>1, <3>2, <1>2
    <3>4. n - 1 \in N
      BY <1>2, <3>3
    <3>5. s \ {x} \in T
      BY <3>2, <3>4
    <3> QED BY <3>1, <3>5
  <2> QED BY <2>1, <2>2
<1>3. N \subseteq Nat /\ \A n \in Nat : (\A m \in Nat : m < n => m \in N) => n \in N
  BY <1>2
<1> HIDE DEF N
<1>4. \A n \in Nat : n \in N
  BY <1>3, SetInduction
<1> QED BY <1>1, <1>4 DEF N

\* The sum over two sets without a common element.
LEMMA SumUnion ==
    ASSUME NEW U, IsFiniteSet(U), NEW v \in [U -> Nat], NEW g, Sums(U, v, g),
           NEW s \in SUBSET U, NEW t \in SUBSET U, s \cap t = {}
    PROVE  g[s \cup t] = g[s] + g[t]
<1>1. SumLaws(U, v, g)
  BY SumFacts
<1>2. /\ \A r \in SUBSET U : g[r] \in Nat
      /\ g[{}] = 0
      /\ \A r \in SUBSET U : \A y \in r : g[r] = v[y] + g[r \ {y}]
  BY <1>1 DEF SumLaws
<1> DEFINE T == {r \in SUBSET t : g[s \cup r] = g[s] + g[r]}
<1>3. ASSUME NEW r \in SUBSET t, r = {} PROVE r \in T
  <2>1. s \cup r = s
    BY <1>3
  <2> QED BY <1>2, <1>3, <2>1
<1>4. ASSUME NEW r \in SUBSET t, NEW x \in r, r \ {x} \in T PROVE r \in T
  <2> DEFINE q == r \ {x}
  <2>1. /\ s \cup r \in SUBSET U /\ x \in s \cup r /\ (s \cup r) \ {x} = s \cup q
        /\ r \in SUBSET U /\ q \in SUBSET U /\ x \in U
    OBVIOUS
  <2>2. g[s \cup r] = v[x] + g[s \cup q]
    BY <1>2, <2>1
  <2>3. g[r] = v[x] + g[q]
    BY <1>2, <2>1
  <2>4. g[s \cup q] = g[s] + g[q]
    BY <1>4
  <2>5. v[x] \in Nat /\ g[s] \in Nat /\ g[q] \in Nat
    BY <1>2, <2>1
  <2>6. g[s \cup r] = g[s] + g[r]
    <3> HIDE DEF q
    <3> QED BY <2>2, <2>3, <2>4, <2>5
  <2> QED BY <2>6
<1>5. IsFiniteSet(t)
  BY FS_Subset
<1> HIDE DEF T
<1>6. \A r \in SUBSET t : (r = {} \/ \E x \in r : r \ {x} \in T) => r \in T
  BY <1>3, <1>4
<1>7. \A r \in SUBSET t : r \in T
  BY <1>5, <1>6, SubsetInduction, Zenon
<1>8. t \in T
  BY <1>7
<1> QED BY <1>8 DEF T

\* The sum does not depend on what the elements are called.
LEMMA SumRenamed ==
    ASSUME NEW U, IsFiniteSet(U), NEW v \in [U -> Nat], NEW g, Sums(U, v, g),
           NEW K, IsFiniteSet(K), NEW w \in [K -> Nat], NEW h, Sums(K, w, h),
           NEW f \in [K -> U],
           \A j, k \in K : f[j] = f[k] => j = k,
           \A k \in K : v[f[k]] = w[k]
    PROVE  g[{f[k] : k \in K}] = h[K]
<1>1. SumLaws(U, v, g) /\ SumLaws(K, w, h)
  BY SumFacts
<1>2. /\ g[{}] = 0
      /\ \A r \in SUBSET U : \A y \in r : g[r] = v[y] + g[r \ {y}]
  BY <1>1 DEF SumLaws
<1>3. /\ h[{}] = 0
      /\ \A r \in SUBSET K : \A y \in r : h[r] = w[y] + h[r \ {y}]
  BY <1>1 DEF SumLaws
<1> DEFINE img(t) == {f[k] : k \in t}
           T == {t \in SUBSET K : g[img(t)] = h[t]}
<1>4. ASSUME NEW t \in SUBSET K, t = {} PROVE t \in T
  <2>1. img(t) = {}
    BY <1>4
  <2> QED BY <1>2, <1>3, <1>4, <2>1
<1>5. ASSUME NEW t \in SUBSET K, NEW x \in t, t \ {x} \in T PROVE t \in T
  <2>1. img(t) \in SUBSET U /\ f[x] \in img(t) /\ img(t) \ {f[x]} = img(t \ {x})
    OBVIOUS
  <2>2. g[img(t)] = v[f[x]] + g[img(t \ {x})]
    BY <1>2, <2>1
  <2>3. h[t] = w[x] + h[t \ {x}]
    BY <1>3
  <2>4. g[img(t \ {x})] = h[t \ {x}]
    BY <1>5
  <2>5. v[f[x]] = w[x]
    OBVIOUS
  <2> HIDE DEF img
  <2> QED BY <2>2, <2>3, <2>4, <2>5
<1> HIDE DEF T
<1>6. K \in T
  BY <1>4, <1>5, SubsetInduction
<1> QED BY <1>6 DEF T

\* g sums the parts of U, which are numbered by C, to w.
Parts(U, C, part, g, w) ==
    /\ part \in [U -> C]
    /\ \A x \in C : g[{u \in U : part[u] = x}] = w[x]

\* The sum of the sums over the parts.
LEMMA SumOfParts ==
    ASSUME NEW U, IsFiniteSet(U), NEW v \in [U -> Nat], NEW g, Sums(U, v, g),
           NEW C, IsFiniteSet(C), NEW w \in [C -> Nat], NEW h, Sums(C, w, h),
           NEW part, Parts(U, C, part, g, w)
    PROVE  g[U] = h[C]
<1>0. part \in [U -> C] /\ \A x \in C : g[{u \in U : part[u] = x}] = w[x]
  BY DEF Parts
<1>1. SumLaws(U, v, g) /\ SumLaws(C, w, h)
  BY SumFacts
<1>2. g[{}] = 0
  BY <1>1 DEF SumLaws
<1>3. /\ h[{}] = 0
      /\ \A r \in SUBSET C : \A y \in r : h[r] = w[y] + h[r \ {y}]
      /\ \A r \in SUBSET C : h[r] \in Nat
  BY <1>1 DEF SumLaws
<1> DEFINE Part(s) == {u \in U : part[u] \in s}
           T == {s \in SUBSET C : g[Part(s)] = h[s]}
<1>4. ASSUME NEW s \in SUBSET C, s = {} PROVE s \in T
  <2>1. Part(s) = {}
    BY <1>4
  <2> QED BY <1>2, <1>3, <1>4, <2>1
<1>5. ASSUME NEW s \in SUBSET C, NEW x \in s, s \ {x} \in T PROVE s \in T
  <2> DEFINE A == {u \in U : part[u] = x}
             B == Part(s \ {x})
  <2>1. Part(s) = A \cup B /\ A \cap B = {} /\ A \in SUBSET U /\ B \in SUBSET U
    BY <1>0
  <2>2. g[A \cup B] = g[A] + g[B]
    <3> HIDE DEF A, B
    <3>1. A \in SUBSET U /\ B \in SUBSET U /\ A \cap B = {}
      BY <2>1
    <3> QED BY <3>1, SumUnion
  <2>3. g[A] = w[x] /\ g[B] = h[s \ {x}]
    <3>1. g[A] = w[x]
      BY <1>0
    <3>2. g[B] = h[s \ {x}]
      BY <1>5
    <3> QED BY <3>1, <3>2
  <2>4. h[s] = w[x] + h[s \ {x}]
    BY <1>3
  <2> HIDE DEF A, B, Part
  <2> QED BY <2>1, <2>2, <2>3, <2>4
<1> HIDE DEF T
<1>6. \A s \in SUBSET C : (s = {} \/ \E x \in s : s \ {x} \in T) => s \in T
  BY <1>4, <1>5
<1>7. C \in T
  BY <1>6, SubsetInduction
<1>8. Part(C) = U
  BY <1>0
<1> HIDE DEF Part
<1> QED BY <1>7, <1>8 DEF T

\* The image of a finite set is finite.
LEMMA ImageFinite ==
    ASSUME NEW S, IsFiniteSet(S), NEW f
    PROVE  IsFiniteSet({f[x] : x \in S})
<1> DEFINE T == {s \in SUBSET S : IsFiniteSet({f[x] : x \in s})}
<1>1. ASSUME NEW s \in SUBSET S, s = {} PROVE s \in T
  <2>1. {f[x] : x \in s} = {}
    BY <1>1
  <2> QED BY <2>1, FS_EmptySet
<1>2. ASSUME NEW s \in SUBSET S, NEW x \in s, s \ {x} \in T PROVE s \in T
  <2> DEFINE A == {f[y] : y \in s \ {x}}
             B == {f[y] : y \in s}
  <2>1. B = A \cup {f[x]}
    OBVIOUS
  <2>2. IsFiniteSet(A)
    BY <1>2
  <2> HIDE DEF A
  <2>3. IsFiniteSet(A \cup {f[x]})
    BY <2>2, FS_AddElement
  <2> QED BY <2>1, <2>3
<1> HIDE DEF T
<1>3. \A s \in SUBSET S : (s = {} \/ \E x \in s : s \ {x} \in T) => s \in T
  BY <1>1, <1>2
<1>4. S \in T
  BY <1>3, SubsetInduction
<1> QED BY <1>4 DEF T

\* There are finitely many transactions, each with finitely many outputs.
LEMMA TxsFinite ==
    ASSUME TxsOK
    PROVE  /\ IsFiniteSet(DOMAIN txs)
           /\ \A i \in DOMAIN txs : IsFiniteSet(DOMAIN txs[i].outputs)
<1>1. \A n \in Nat : IsFiniteSet(1 .. n)
  BY FS_Interval
<1>2. Len(txs) \in Nat /\ DOMAIN txs = 1 .. Len(txs)
  BY TxTypes
<1>3. ASSUME NEW i \in DOMAIN txs PROVE IsFiniteSet(DOMAIN txs[i].outputs)
  <2>1. Len(txs[i].outputs) \in Nat /\ DOMAIN txs[i].outputs = 1 .. Len(txs[i].outputs)
    BY TxTypes
  <2> DEFINE n == Len(txs[i].outputs)
  <2> HIDE DEF n
  <2>2. n \in Nat /\ DOMAIN txs[i].outputs = 1 .. n
    BY <2>1 DEF n
  <2> QED BY <1>1, <2>2
<1> QED BY <1>1, <1>2, <1>3

\* The ledger is finite.
LEMMA LedgerFinite ==
    ASSUME TxsOK, NEW old, RowsTrue(old)
    PROVE  IsFiniteSet(DOMAIN old)
<1> DEFINE Of(i) == {Uid(i, k) : k \in DOMAIN txs[i].outputs}
           All(s) == UNION {Of(i) : i \in s}
           T == {s \in SUBSET DOMAIN txs : IsFiniteSet(All(s))}
<1>1. ASSUME NEW i \in DOMAIN txs PROVE IsFiniteSet(Of(i))
  <2> DEFINE f == [k \in DOMAIN txs[i].outputs |-> Uid(i, k)]
  <2>1. IsFiniteSet(DOMAIN txs[i].outputs)
    BY TxsFinite
  <2>2. Of(i) = {f[k] : k \in DOMAIN txs[i].outputs}
    OBVIOUS
  <2> HIDE DEF f
  <2> QED BY <2>1, <2>2, ImageFinite
<1> HIDE DEF Of
<1>2. ASSUME NEW s \in SUBSET DOMAIN txs, s = {} PROVE s \in T
  <2>1. All(s) = {}
    BY <1>2
  <2> HIDE DEF All
  <2> QED BY <2>1, FS_EmptySet
<1>3. ASSUME NEW s \in SUBSET DOMAIN txs, NEW x \in s, s \ {x} \in T PROVE s \in T
  <2>1. All(s) = All(s \ {x}) \cup Of(x)
    OBVIOUS
  <2>2. IsFiniteSet(All(s \ {x}))
    BY <1>3
  <2> HIDE DEF All
  <2>3. IsFiniteSet(All(s))
    BY <1>1, <2>1, <2>2, FS_Union
  <2> QED BY <2>3
<1>4. IsFiniteSet(DOMAIN txs)
  BY TxsFinite
<1> HIDE DEF T
<1>5. \A s \in SUBSET DOMAIN txs : (s = {} \/ \E x \in s : s \ {x} \in T) => s \in T
  BY <1>2, <1>3
<1>6. \A s \in SUBSET DOMAIN txs : s \in T
  BY <1>4, <1>5, SubsetInduction, Zenon
<1>7. IsFiniteSet(All(DOMAIN txs))
  BY <1>6 DEF T
<1>8. DOMAIN old \in SUBSET All(DOMAIN txs)
  <2>1. ASSUME NEW u \in DOMAIN old PROVE \E i \in DOMAIN txs : u \in Of(i)
    BY DEF RowsTrue, Of
  <2> QED BY <2>1
<1> QED BY <1>7, <1>8, FS_Subset

\* The totals are sums in the sense of SumStep.
CountedFor(a) ==
    {u \in DOMAIN rows : rows[u].address = a /\ rows[u].active /\ rows[u].eligible}

\* TotalOf is a sum over the rows that count for the address.
LEMMA TotalSum ==
    ASSUME NEW a, IsFiniteSet(DOMAIN rows), \A u \in DOMAIN rows : rows[u].value \in Nat,
           NEW v, v = [u \in CountedFor(a) |-> rows[u].value]
    PROVE  /\ IsFiniteSet(CountedFor(a)) /\ v \in [CountedFor(a) -> Nat]
           /\ \E g : Sums(CountedFor(a), v, g) /\ TotalOf(a) = g[CountedFor(a)]
<1> DEFINE S == CountedFor(a)
           c(s) == CHOOSE x \in s : TRUE
           F(g) == [s \in SUBSET S |-> IF s = {} THEN 0
                                       ELSE rows[c(s)].value + g[s \ {c(s)}]]
           fold == CHOOSE g : g = F(g)
<1>1. S \in SUBSET DOMAIN rows
  BY DEF CountedFor
<1>2. IsFiniteSet(S) /\ v \in [S -> Nat]
  BY <1>1, FS_Subset
<1>3. TotalOf(a) = fold[S]
  BY DEF TotalOf, CountedFor, MapThenSumSet, MapThenFoldSet
<1> HIDE DEF S
<1>4. ASSUME NEW g PROVE F(g) = SumStep(S, v, g)
  <2>1. \A s \in SUBSET S : s # {} => c(s) \in S
    OBVIOUS
  <2> HIDE DEF c
  <2>2. \A s \in SUBSET S : s # {} => v[c(s)] = rows[c(s)].value
    BY <2>1 DEF S
  <2>3. F(g) = [s \in SUBSET S |-> IF s = {} THEN 0 ELSE v[c(s)] + g[s \ {c(s)}]]
    BY <2>2
  <2> QED BY <2>3 DEF SumStep, c
<1> HIDE DEF F, c
<1>5. \E g : g = F(g)
  BY <1>2, <1>4, SumExists DEF Sums
<1>6. fold = F(fold)
  BY <1>5
<1> HIDE DEF fold
<1> QED BY <1>2, <1>3, <1>4, <1>6 DEF Sums, S

\* The outputs of a transaction that pay an address.
OutputsTo(i, a) ==
    {k \in DOMAIN txs[i].outputs : txs[i].outputs[k].to = issued[a].index}

\* PaidBy is a sum over the outputs to the address.
LEMMA PaidBySum ==
    ASSUME TxsOK, NEW a, NEW i \in DOMAIN txs,
           NEW v, v = [k \in OutputsTo(i, a) |-> txs[i].outputs[k].value]
    PROVE  /\ IsFiniteSet(OutputsTo(i, a)) /\ v \in [OutputsTo(i, a) -> Nat]
           /\ \E g : Sums(OutputsTo(i, a), v, g) /\ PaidBy(i, a) = g[OutputsTo(i, a)]
<1> DEFINE S == OutputsTo(i, a)
           c(s) == CHOOSE x \in s : TRUE
           F(g) == [s \in SUBSET S |-> IF s = {} THEN 0
                                       ELSE txs[i].outputs[c(s)].value + g[s \ {c(s)}]]
           fold == CHOOSE g : g = F(g)
<1>1. S \in SUBSET DOMAIN txs[i].outputs /\ IsFiniteSet(DOMAIN txs[i].outputs)
  BY TxsFinite DEF OutputsTo
<1>2. IsFiniteSet(S) /\ v \in [S -> Nat]
  BY <1>1, FS_Subset, TxTypes
<1>3. PaidBy(i, a) = fold[S]
  BY DEF PaidBy, OutputsTo, MapThenSumSet, MapThenFoldSet
<1> HIDE DEF S
<1>4. ASSUME NEW g PROVE F(g) = SumStep(S, v, g)
  <2>1. \A s \in SUBSET S : s # {} => c(s) \in S
    OBVIOUS
  <2> HIDE DEF c
  <2>2. \A s \in SUBSET S : s # {} => v[c(s)] = txs[i].outputs[c(s)].value
    BY <2>1 DEF S
  <2>3. F(g) = [s \in SUBSET S |-> IF s = {} THEN 0 ELSE v[c(s)] + g[s \ {c(s)}]]
    BY <2>2
  <2> QED BY <2>3 DEF SumStep, c
<1> HIDE DEF F, c
<1>5. \E g : g = F(g)
  BY <1>2, <1>4, SumExists DEF Sums
<1>6. fold = F(fold)
  BY <1>5
<1> HIDE DEF fold
<1> QED BY <1>2, <1>3, <1>4, <1>6 DEF Sums, S

\* The transactions that count.
Counting == {i \in DOMAIN txs : Counts(i)}

\* PaidTo is a sum over the transactions that count.
LEMMA PaidToSum ==
    ASSUME TxsOK, NEW a, NEW v, v = [i \in Counting |-> PaidBy(i, a)]
    PROVE  /\ IsFiniteSet(Counting) /\ v \in [Counting -> Nat]
           /\ \E g : Sums(Counting, v, g) /\ PaidTo(a) = g[Counting]
<1> DEFINE S == Counting
           c(s) == CHOOSE x \in s : TRUE
           F(g) == [s \in SUBSET S |-> IF s = {} THEN 0
                                       ELSE PaidBy(c(s), a) + g[s \ {c(s)}]]
           fold == CHOOSE g : g = F(g)
<1>1. S \in SUBSET DOMAIN txs /\ IsFiniteSet(DOMAIN txs)
  BY TxsFinite DEF Counting
<1>2. ASSUME NEW i \in DOMAIN txs PROVE PaidBy(i, a) \in Nat
  <2> DEFINE K == OutputsTo(i, a)
             w == [k \in K |-> txs[i].outputs[k].value]
  <2>1. /\ IsFiniteSet(K) /\ w \in [K -> Nat]
        /\ \E g : Sums(K, w, g) /\ PaidBy(i, a) = g[K]
    BY PaidBySum
  <2>2. PICK g : Sums(K, w, g) /\ PaidBy(i, a) = g[K]
    BY <2>1
  <2> HIDE DEF K, w
  <2>3. SumLaws(K, w, g)
    BY <2>1, <2>2, SumFacts
  <2> QED BY <2>2, <2>3 DEF SumLaws
<1>3. IsFiniteSet(S) /\ v \in [S -> Nat]
  BY <1>1, <1>2, FS_Subset
<1>4. PaidTo(a) = fold[S]
  BY DEF PaidTo, Counting, MapThenSumSet, MapThenFoldSet
<1> HIDE DEF S
<1>5. ASSUME NEW g PROVE F(g) = SumStep(S, v, g)
  <2>1. \A s \in SUBSET S : s # {} => c(s) \in S
    OBVIOUS
  <2> HIDE DEF c
  <2>2. \A s \in SUBSET S : s # {} => v[c(s)] = PaidBy(c(s), a)
    BY <2>1 DEF S
  <2>3. F(g) = [s \in SUBSET S |-> IF s = {} THEN 0 ELSE v[c(s)] + g[s \ {c(s)}]]
    BY <2>2
  <2> QED BY <2>3 DEF SumStep, c
<1> HIDE DEF F, c
<1>6. \E g : g = F(g)
  BY <1>3, <1>5, SumExists DEF Sums
<1>7. fold = F(fold)
  BY <1>6
<1> HIDE DEF fold
<1> QED BY <1>3, <1>4, <1>5, <1>7 DEF Sums, S

\* When the rows that count are those of the transactions that count, every
\* address has what is paid to it.
LEMMA ExactTotals ==
    ASSUME BookInv, TxsOK, LedgerOK(rows), Exact(rows), NEW a \in DOMAIN issued
    PROVE  TotalOf(a) = PaidTo(a)
<1> DEFINE U == CountedFor(a)
           v == [u \in U |-> rows[u].value]
           w == [i \in Counting |-> PaidBy(i, a)]
           part == [u \in U |-> u[1]]
<1>1. RowsTrue(rows) /\ KindsOK(rows)
  BY DEF LedgerOK
<1>2. IsFiniteSet(DOMAIN rows) /\ \A u \in DOMAIN rows : rows[u].value \in Nat
  BY <1>1, LedgerFinite DEF KindsOK, Row
<1>3. /\ IsFiniteSet(U) /\ v \in [U -> Nat]
      /\ \E g : Sums(U, v, g) /\ TotalOf(a) = g[U]
  BY <1>2, TotalSum
<1>4. PICK g : Sums(U, v, g) /\ TotalOf(a) = g[U]
  BY <1>3
<1>5. /\ IsFiniteSet(Counting) /\ w \in [Counting -> Nat]
      /\ \E h : Sums(Counting, w, h) /\ PaidTo(a) = h[Counting]
  BY PaidToSum
<1>6. PICK h : Sums(Counting, w, h) /\ PaidTo(a) = h[Counting]
  BY <1>5
\* A counted row is that of an output that counts.
<1>7. ASSUME NEW u \in U
      PROVE  \E i \in Counting : \E k \in OutputsTo(i, a) : u = Uid(i, k) /\ u[1] = i
  <2>1. u \in DOMAIN rows /\ rows[u].address = a /\ rows[u].active /\ rows[u].eligible
    BY DEF CountedFor
  <2>2. PICK i \in DOMAIN txs : \E k \in DOMAIN txs[i].outputs : u = Uid(i, k)
    BY <1>1, <2>1 DEF RowsTrue
  <2>3. PICK k \in DOMAIN txs[i].outputs : u = Uid(i, k)
    BY <2>2
  <2>4. Counts(i)
    BY <2>1, <2>3 DEF Exact
  <2>5. issued[a].index = txs[i].outputs[k].to
    BY <1>1, <2>1, <2>3 DEF RowsTrue
  <2>6. u[1] = i
    BY <2>3, UidOwn
  <2> QED BY <2>3, <2>4, <2>5, <2>6 DEF Counting, OutputsTo
\* And the other way round.
<1>8. ASSUME NEW i \in Counting, NEW k \in OutputsTo(i, a)
      PROVE  /\ Uid(i, k) \in U /\ Uid(i, k)[1] = i
             /\ rows[Uid(i, k)].value = txs[i].outputs[k].value
  <2>1. i \in DOMAIN txs /\ Counts(i) /\ k \in DOMAIN txs[i].outputs
        /\ txs[i].outputs[k].to = issued[a].index
    BY DEF Counting, OutputsTo
  <2>2. Uid(i, k) \in DOMAIN rows /\ rows[Uid(i, k)].active /\ rows[Uid(i, k)].eligible
    BY <2>1 DEF Exact
  <2>3. /\ rows[Uid(i, k)].value = txs[i].outputs[k].value
        /\ rows[Uid(i, k)].address \in DOMAIN issued
        /\ issued[rows[Uid(i, k)].address].index = issued[a].index
    BY <1>1, <2>1, <2>2 DEF RowsTrue
  <2>4. rows[Uid(i, k)].address = a
    <3>1. DOMAIN issued \subseteq Nat /\ \A j \in DOMAIN issued : issued[j].index \in Nat
      BY IssuedRows, IndexType DEF BookInv
    <3> QED BY <2>3, <3>1 DEF BookInv, IndicesGrow
  <2>5. Uid(i, k)[1] = i
    BY <2>1, UidOwn
  <2> QED BY <2>2, <2>3, <2>4, <2>5 DEF CountedFor
<1> HIDE DEF U
<1>9. part \in [U -> Counting]
  BY <1>7
<1>10. ASSUME NEW i \in Counting PROVE g[{u \in U : part[u] = i}] = w[i]
  <2> DEFINE K == OutputsTo(i, a)
             q == [k \in K |-> txs[i].outputs[k].value]
             f == [k \in K |-> Uid(i, k)]
  <2>1. i \in DOMAIN txs
    BY DEF Counting
  <2>2. /\ IsFiniteSet(K) /\ q \in [K -> Nat]
        /\ \E m : Sums(K, q, m) /\ PaidBy(i, a) = m[K]
    BY <2>1, PaidBySum
  <2>3. PICK m : Sums(K, q, m) /\ PaidBy(i, a) = m[K]
    BY <2>2
  <2>4. f \in [K -> U]
    BY <1>8
  <2>5. \A j, k \in K : f[j] = f[k] => j = k
    BY <2>1, UidOwn DEF OutputsTo
  <2>6. \A k \in K : v[f[k]] = q[k]
    BY <1>8
  <2>7. {f[k] : k \in K} = {u \in U : part[u] = i}
    <3>1. ASSUME NEW k \in K PROVE f[k] \in U /\ part[f[k]] = i
      BY <1>8
    <3>2. ASSUME NEW u \in U, part[u] = i PROVE \E k \in K : u = f[k]
      BY <1>7, <3>2
    <3> HIDE DEF K, f, part
    <3> QED BY <3>1, <3>2
  <2> HIDE DEF K, q, f, v, part
  <2>8. g[{f[k] : k \in K}] = m[K]
    BY <1>3, <1>4, <2>2, <2>3, <2>4, <2>5, <2>6, SumRenamed
  <2> QED BY <2>3, <2>7, <2>8
<1> HIDE DEF v, w, part
<1>11. g[U] = h[Counting]
  <2>1. IsFiniteSet(U) /\ v \in [U -> Nat] /\ Sums(U, v, g)
    BY <1>3, <1>4
  <2>2. IsFiniteSet(Counting) /\ w \in [Counting -> Nat] /\ Sums(Counting, w, h)
    BY <1>5, <1>6
  <2>3. Parts(U, Counting, part, g, w)
    BY <1>9, <1>10 DEF Parts
  <2> QED BY <2>1, <2>2, <2>3, SumOfParts
<1> QED BY <1>4, <1>6, <1>11

-----------------------------------------------------------------------------
(* Amounts and totals.                                                     *)

\* parse_zec_amount answers with a natural number up to the largest i64.
LEMMA ParseType ==
    ASSUME NEW t \in Amounts
    PROVE  /\ ParseZecAmount(t) \in Nat \cup {NoValue}
           /\ ParseZecAmount(t) =< MaxZat
<1>1. Decimals \in Nat \ {0} /\ MaxZat \in Nat /\ NoValue =< MaxZat
  BY AmountAssumption DEF NoValue
<1>2. CASE \/ t \in {NotDecimal, NoAmount}
           \/ t.whole = NoDigits /\ t.frac = << >>
           \/ Len(t.frac) > Decimals
  BY <1>1, <1>2 DEF ParseZecAmount
<1>3. CASE ~ \/ t \in {NotDecimal, NoAmount}
             \/ t.whole = NoDigits /\ t.frac = << >>
             \/ Len(t.frac) > Decimals
  <2> DEFINE n == Len(t.frac)
             d == t.frac
             v == [i \in 1 .. n |-> d[i] * Pow10[Decimals - i]]
             whole == IF t.whole = NoDigits THEN 0 ELSE t.whole
             value == whole * Zec + FractionOf(d)
  <2>1. t \in Texts /\ ~(n > Decimals)
    BY <1>3 DEF Amounts
  <2>2. d \in Seq(0 .. 9) /\ t.whole \in Nat \cup {NoDigits}
    BY <2>1 DEF Texts
  <2>3. n \in 0 .. Decimals /\ d \in [1 .. n -> Nat]
    BY <1>1, <2>1, <2>2
  <2>4. v \in [1 .. n -> Nat] /\ \E g : Sums(1 .. n, v, g) /\ FractionOf(d) = g[1 .. n]
    <3> HIDE DEF n, d
    <3> QED BY <2>3, FractionSum
  <2>5. IsFiniteSet(1 .. n)
    BY <2>3, FS_Interval
  <2>6. FractionOf(d) \in Nat
    <3> DEFINE S == 1 .. n
    <3>1. /\ IsFiniteSet(S) /\ v \in [S -> Nat]
          /\ \E g : Sums(S, v, g) /\ FractionOf(d) = g[S]
      BY <2>4, <2>5
    <3> HIDE DEF S, v, d
    <3> QED BY <3>1, SumFacts DEF SumLaws
  <2>7. Zec \in Nat
    BY <1>1, PowerFacts DEF Zec
  <2>8. whole \in Nat
    BY <2>2
  <2>9. ParseZecAmount(t) = IF value > MaxZat THEN NoValue ELSE value
    BY <1>3 DEF ParseZecAmount
  <2> HIDE DEF whole, d
  <2>10. value \in Nat
    BY <2>6, <2>7, <2>8
  <2> HIDE DEF value
  <2> QED BY <1>1, <2>9, <2>10
<1> QED BY <1>2, <1>3

\* What a session asks for is an amount.
LEMMA AskedType ==
    ASSUME BookInv, NEW a \in DOMAIN issued
    PROVE  issued[a].amount \in Amounts /\ issued[a].index \in Nat
<1>1. BookTypes
  BY DEF BookInv
<1>2. issued \in Seq(Rows) /\ scenario \in Scenarios
  BY <1>1, IssuedRows DEF BookTypes
<1>3. issued[a] \in Rows
  BY <1>2
<1>4. \A r \in Requests : r.amount \in Amounts
  BY <1>2, PayerAssumption DEF Requests
<1> QED BY <1>1, <1>3, <1>4, IndexType DEF Rows

\* A total is never negative.
LEMMA TotalType ==
    ASSUME LedgerInv, NEW a
    PROVE  TotalOf(a) \in Nat
<1>1. IsFiniteSet(DOMAIN rows) /\ \A u \in DOMAIN rows : rows[u].value \in Nat
  <2>1. CASE dev
    BY <2>1 DEF LedgerInv, SimulatedOK
  <2>2. CASE ~dev
    <3>1. TxsOK /\ RowsTrue(rows) /\ KindsOK(rows)
      BY <2>2 DEF LedgerInv, LedgerOK
    <3> QED BY <3>1, LedgerFinite DEF KindsOK, Row
  <2> QED BY <2>1, <2>2
<1> DEFINE S == CountedFor(a)
           v == [u \in S |-> rows[u].value]
<1>2. /\ IsFiniteSet(S) /\ v \in [S -> Nat]
      /\ \E g : Sums(S, v, g) /\ TotalOf(a) = g[S]
  BY <1>1, TotalSum
<1> HIDE DEF S, v
<1> QED BY <1>2, SumFacts DEF SumLaws

\* A link leads to an issued address.
LEMMA LinkAddress ==
    ASSUME BookInv, NEW p \in DOMAIN links
    PROVE  links[p].address_id \in DOMAIN issued
<1>1. LinksAnswered /\ AddressOwn /\ p \in Sessions
  BY DEF BookInv, BookTypes
<1>2. req[p].step = "answered"
  BY <1>1 DEF LinksAnswered
<1>3. links[p] = [address_id |-> req[p].id, return_url |-> req[p].request.return_url]
  BY <1>1 DEF LinksAnswered
<1> QED BY <1>1, <1>2, <1>3 DEF AddressOwn, HasAddress

-----------------------------------------------------------------------------
(* The addresses and the transactions that a step may add to.              *)

\* Issued addresses stay.
Grows ==
    /\ scenario' = scenario
    /\ DOMAIN issued \subseteq DOMAIN issued'
    /\ \A k \in DOMAIN issued : issued'[k] = issued[k]

\* Every step keeps the issued addresses.
LEMMA BookGrows ==
    ASSUME BookInv, [Next]_vars
    PROVE  Grows
<1>1. CASE UNCHANGED book
  BY <1>1 DEF book, Grows
<1>2. CASE Crash
  BY <1>2, CrashEffect DEF Grows
<1>3. ASSUME NEW s \in Sessions, Session(s) PROVE Grows
  <2>1. scenario' = scenario
    BY <1>3, SessionCases DEF Changed
  <2>2. CASE issued' = issued
    BY <2>1, <2>2 DEF Grows
  <2>3. CASE issued' # issued
    <3>1. InsertAddress(s) /\ ~Blocked
      BY <1>3, <2>3, SessionCases, ValidateEffect, BeginEffect, InsertEffect, LinkEffect,
         BusyEffect
    <3> QED BY <2>1, <3>1, InsertAppends DEF Grows
  <2> QED BY <2>2, <2>3
<1> QED BY <1>1, <1>2, <1>3, OthersKeepBook

\* UNIQUE(pool, receiver_fingerprint) holds over the issued addresses.
LEMMA FingerprintsStep ==
    ASSUME BookInv, FingerprintsDiffer, [Next]_vars
    PROVE  FingerprintsDiffer'
<1>1. scenario' = scenario
  BY BookGrows DEF Grows
<1>2. CASE issued' = issued
  BY <1>1, <1>2 DEF FingerprintsDiffer, FingerprintOf, wallet
<1>3. CASE issued' # issued
  <2>1. PICK s \in Sessions : Session(s)
    BY <1>3, CrashEffect, OthersKeepBook DEF book
  <2>2. InsertAddress(s) /\ ~Blocked
    BY <1>3, <2>1, SessionCases, ValidateEffect, BeginEffect, InsertEffect, LinkEffect,
       BusyEffect
  <2> DEFINE n == Len(issued) + 1
  <2>3. /\ DOMAIN issued' = DOMAIN issued \cup {n}
        /\ \A k \in DOMAIN issued : issued'[k] = issued[k]
        /\ issued'[n].index \in FreeIndices
        /\ Unique(issued'[n].index)
    BY <2>2, InsertAppends
  <2>4. \A k \in DOMAIN issued, p \in Pools :
            FingerprintOf(p, issued[k].index) # FingerprintOf(p, issued'[n].index)
    BY <2>3, UniqueFree DEF BookInv
  <2> HIDE DEF n
  <2> QED BY <1>1, <2>3, <2>4 DEF FingerprintsDiffer, FingerprintOf, wallet
<1> QED BY <1>2, <1>3

\* Transactions keep their outputs.
TxsKept ==
    /\ DOMAIN txs \subseteq DOMAIN txs'
    /\ \A i \in DOMAIN txs : txs'[i].id = txs[i].id /\ txs'[i].outputs = txs[i].outputs

\* A new transaction pays issued addresses, as the old ones do.
LEMMA SendEffect ==
    ASSUME TxsOK, issued' = issued,
           NEW outputs \in Seq(Output), NEW others \in Nat, NEW branch \in {0, 1},
           \A k \in DOMAIN outputs : \E a \in DOMAIN issued : issued[a].index = outputs[k].to,
           Send(outputs, others, branch)
    PROVE  TxsOK' /\ TxsKept
<1> DEFINE n == Len(txs) + 1
           tx == [id |-> n, outputs |-> outputs, others |-> others, branch |-> branch,
                  place |-> 0]
<1>1. /\ tip \in Nat /\ txs \in Seq(Transaction)
      /\ Len(txs) \in Nat /\ DOMAIN txs = 1 .. Len(txs)
  BY TxTypes DEF TxsOK
<1>2. tx \in Transaction
  BY <1>1 DEF Transaction
<1>3. tx.id = n /\ tx.outputs = outputs /\ tx.place = 0
  OBVIOUS
<1>4. txs' = Append(txs, tx) /\ tip' = tip
  BY DEF Send
<1> HIDE DEF tx
<1>5. /\ txs' \in Seq(Transaction)
      /\ DOMAIN txs' = 1 .. n
      /\ \A i \in 1 .. Len(txs) : txs'[i] = txs[i]
      /\ txs'[n] = tx
  BY <1>1, <1>2, <1>4
<1>6. 1 .. n = (1 .. Len(txs)) \cup {n}
  BY <1>1
<1>7. TxsKept
  BY <1>1, <1>5, <1>6 DEF TxsKept
<1>8. ASSUME NEW i \in DOMAIN txs'
      PROVE  /\ txs'[i].id = i
             /\ txs'[i].place \in Gone .. tip'
             /\ \A k \in DOMAIN txs'[i].outputs :
                    \E a \in DOMAIN issued' : issued'[a].index = txs'[i].outputs[k].to
  <2>1. CASE i \in DOMAIN txs
    BY <1>1, <1>4, <1>5, <2>1 DEF TxsOK
  <2>2. CASE i = n
    <3>1. 0 \in Gone .. tip
      BY <1>1 DEF Gone
    <3> QED BY <1>3, <1>4, <1>5, <2>2, <3>1
  <2> QED BY <1>1, <1>5, <1>6, <2>1, <2>2
<1> QED BY <1>1, <1>4, <1>5, <1>7, <1>8 DEF TxsOK

\* Transactions move between mempool, chain and oblivion.
LEMMA MovedEffect ==
    ASSUME TxsOK, issued' = issued, tip' \in Nat,
           NEW f, txs' = [i \in DOMAIN txs |-> f[i]],
           \A i \in DOMAIN txs :
               \E h \in Gone .. tip' : f[i] = [txs[i] EXCEPT !.place = h]
    PROVE  TxsOK' /\ TxsKept
<1>1. /\ txs \in Seq(Transaction)
      /\ Len(txs) \in Nat /\ DOMAIN txs = 1 .. Len(txs)
      /\ \A i \in DOMAIN txs : txs[i] \in Transaction
  BY TxTypes DEF TxsOK
<1>2. ASSUME NEW i \in DOMAIN txs
      PROVE  /\ f[i] \in Transaction
             /\ f[i].id = txs[i].id /\ f[i].outputs = txs[i].outputs
             /\ f[i].place \in Gone .. tip'
  <2>1. PICK h \in Gone .. tip' : f[i] = [txs[i] EXCEPT !.place = h]
    OBVIOUS
  <2>2. txs[i] \in Transaction /\ h \in Int
    BY <1>1 DEF Gone
  <2> QED BY <2>1, <2>2 DEF Transaction
<1>3. txs' \in Seq(Transaction) /\ DOMAIN txs' = DOMAIN txs
  BY <1>1, <1>2
<1>4. \A i \in DOMAIN txs : txs'[i] = f[i]
  OBVIOUS
<1>5. TxsKept
  BY <1>2, <1>3, <1>4 DEF TxsKept
<1>6. ASSUME NEW i \in DOMAIN txs
      PROVE  /\ txs'[i].id = i
             /\ txs'[i].place \in Gone .. tip'
             /\ \A k \in DOMAIN txs'[i].outputs :
                    \E a \in DOMAIN issued' : issued'[a].index = txs'[i].outputs[k].to
  <2>1. /\ txs[i].id = i
        /\ \A k \in DOMAIN txs[i].outputs :
                \E a \in DOMAIN issued : issued[a].index = txs[i].outputs[k].to
    BY DEF TxsOK
  <2>2. txs'[i] = f[i] /\ f[i].id = i /\ f[i].place \in Gone .. tip'
    BY <1>2, <1>4, <2>1
  <2>3. txs'[i].outputs = txs[i].outputs
    BY <1>2, <1>4
  <2> QED BY <2>1, <2>2, <2>3
<1> QED BY <1>3, <1>5, <1>6 DEF TxsOK

\* The network leaves everything else alone.
LEMMA NetworkMoved ==
    ASSUME Network
    PROVE  Moved
BY DEF Network, SendBatch, PayShown, Send, Mine, Rewind, Evict

\* The payments of the network: to issued addresses.
LEMMA PaymentsSent ==
    ASSUME BookInv, LedgerInv, SendBatch \/ PayShown
    PROVE  TxsOK' /\ TxsKept
<1>1. TxsOK /\ PagesOK /\ issued' = issued
  BY DEF LedgerInv, SendBatch, PayShown, Send, Moved, book
<1>2. \A h : BranchFor(h) \in {0, 1}
  BY DEF BranchFor
<1>3. CASE SendBatch
  <2>1. PICK b \in scenario.batches[Len(txs) + 1] :
            /\ \A k \in DOMAIN b.outputs : b.outputs[k].address_id \in DOMAIN issued
            /\ Send([k \in DOMAIN b.outputs |->
                        [pool |-> b.outputs[k].pool, value |-> b.outputs[k].value,
                         to |-> issued[b.outputs[k].address_id].index]],
                    b.others, BranchFor(tip + IF b.early THEN 2 ELSE 1))
    BY <1>3 DEF SendBatch
  <2> DEFINE Out == [pool : Pools, address_id : Nat, value : Nat]
             o == [k \in DOMAIN b.outputs |->
                    [pool |-> b.outputs[k].pool, value |-> b.outputs[k].value,
                     to |-> issued[b.outputs[k].address_id].index]]
  <2>2. b.outputs \in Seq(Out) /\ b.others \in Nat
    <3> DEFINE Batch == [outputs : Seq(Out), others : Nat, early : BOOLEAN]
    <3>1. scenario.batches \in Seq(SUBSET Batch)
      BY PayerAssumption DEF BookInv, BookTypes
    <3>2. Len(txs) + 1 \in 1 .. Len(scenario.batches)
      <4>1. Len(txs) \in Nat /\ Len(txs) < Len(scenario.batches)
        BY <1>1, <1>3, TxTypes DEF SendBatch
      <4> HIDE DEF Batch
      <4> QED BY <3>1, <4>1
    <3>3. scenario.batches[Len(txs) + 1] \in SUBSET Batch
      <4> HIDE DEF Batch
      <4> QED BY <3>1, <3>2
    <3> QED BY <2>1, <3>3
  <2>3. ASSUME NEW k \in DOMAIN b.outputs
        PROVE  /\ b.outputs[k].address_id \in DOMAIN issued
               /\ o[k] \in Output /\ o[k].to = issued[b.outputs[k].address_id].index
    <3>1. b.outputs[k] \in Out
      <4> HIDE DEF Out
      <4> QED BY <2>2
    <3>2. b.outputs[k].address_id \in DOMAIN issued
      BY <2>1
    <3>3. issued[b.outputs[k].address_id].index \in Nat
      BY <3>2, AskedType
    <3> QED BY <3>1, <3>2, <3>3 DEF Output
  <2>4. o \in Seq(Output)
    <3>1. Len(b.outputs) \in Nat /\ DOMAIN b.outputs = 1 .. Len(b.outputs)
      <4> HIDE DEF Out
      <4> QED BY <2>2
    <3>2. o \in [1 .. Len(b.outputs) -> Output]
      BY <2>3, <3>1
    <3> HIDE DEF o
    <3> QED BY <3>1, <3>2
  <2>5. \A k \in DOMAIN o : \E a \in DOMAIN issued : issued[a].index = o[k].to
    BY <2>3
  <2>6. Send(o, b.others, BranchFor(tip + IF b.early THEN 2 ELSE 1))
    BY <2>1
  <2> HIDE DEF o
  <2> QED BY <1>1, <1>2, <2>2, <2>4, <2>5, <2>6, SendEffect
<1>4. CASE PayShown
  <2>1. PICK p \in DOMAIN pages :
            /\ ParseZecAmount(pages[p].qr_text.amount) > 0
            /\ Send(<< [pool  |-> "orchard", to |-> pages[p].qr_text.address,
                        value |-> ParseZecAmount(pages[p].qr_text.amount)] >>,
                    0, BranchFor(tip + 1))
    BY <1>4 DEF PayShown
  <2> DEFINE value == ParseZecAmount(pages[p].qr_text.amount)
             out == [pool |-> "orchard", to |-> pages[p].qr_text.address, value |-> value]
             o == << out >>
  <2>2. /\ pages[p].qr_text.amount \in Amounts /\ pages[p].qr_text.address \in Nat
        /\ \E a \in DOMAIN issued : issued[a].index = pages[p].qr_text.address
    BY <1>1 DEF PagesOK, Page
  <2>3. value \in Nat
    <3>1. value \in Nat \cup {NoValue} /\ value > 0
      BY <2>1, <2>2, ParseType
    <3> HIDE DEF value
    <3> QED BY <3>1 DEF NoValue
  <2> HIDE DEF value
  <2>4. out \in Output /\ out.to = pages[p].qr_text.address
    BY <2>2, <2>3 DEF Output, Pools
  <2>5. Send(o, 0, BranchFor(tip + 1))
    BY <2>1 DEF value
  <2> HIDE DEF out
  <2>6. o \in Seq(Output) /\ \A k \in DOMAIN o : o[k] = out
    BY <2>4
  <2>7. \A k \in DOMAIN o : \E a \in DOMAIN issued : issued[a].index = o[k].to
    BY <2>2, <2>4, <2>6
  <2> HIDE DEF o
  <2> QED BY <1>1, <1>2, <2>5, <2>6, <2>7, SendEffect
<1> QED BY <1>3, <1>4

\* The chain grows and shrinks, and the mempool forgets.
LEMMA PlacesMoved ==
    ASSUME TxsOK, (\E block \in SUBSET InMempool : Mine(block)) \/ Rewind
                  \/ (\E i \in DOMAIN txs : Evict(i))
    PROVE  TxsOK' /\ TxsKept
<1>1. issued' = issued /\ tip \in Nat
  BY DEF Mine, Rewind, Evict, Moved, book, TxsOK
<1>2. ASSUME NEW i \in DOMAIN txs
      PROVE  txs[i] = [txs[i] EXCEPT !.place = txs[i].place] /\ txs[i].place \in Gone .. tip
  <2>1. txs[i] \in Transaction /\ txs[i].place \in Gone .. tip
    BY DEF TxsOK
  <2> QED BY <2>1 DEF Transaction
<1>3. ASSUME NEW block \in SUBSET InMempool, Mine(block) PROVE TxsOK' /\ TxsKept
  <2> DEFINE f == [i \in DOMAIN txs |->
                    IF i \in block THEN [txs[i] EXCEPT !.place = tip + 1] ELSE txs[i]]
  <2>1. tip' = tip + 1 /\ tip' \in Nat /\ txs' = [i \in DOMAIN txs |-> f[i]]
    BY <1>1, <1>3 DEF Mine
  <2>2. \A i \in DOMAIN txs : \E h \in Gone .. tip' : f[i] = [txs[i] EXCEPT !.place = h]
    <3> SUFFICES ASSUME NEW i \in DOMAIN txs
                 PROVE  \E h \in Gone .. tip' : f[i] = [txs[i] EXCEPT !.place = h]
      OBVIOUS
    <3>1. CASE i \in block
      BY <1>1, <2>1, <3>1 DEF Gone
    <3>2. CASE i \notin block
      <4>1. txs[i].place \in Gone .. tip'
        BY <1>1, <1>2, <2>1 DEF Gone
      <4> QED BY <1>2, <3>2, <4>1
    <3> QED BY <3>1, <3>2
  <2> HIDE DEF f
  <2> QED BY <1>1, <2>1, <2>2, MovedEffect
<1>4. CASE Rewind
  <2> DEFINE f == [i \in DOMAIN txs |->
                    IF txs[i].place = tip THEN [txs[i] EXCEPT !.place = 0] ELSE txs[i]]
  <2>1. tip' = tip - 1 /\ tip' \in Nat /\ txs' = [i \in DOMAIN txs |-> f[i]]
    BY <1>1, <1>4 DEF Rewind
  <2>2. \A i \in DOMAIN txs : \E h \in Gone .. tip' : f[i] = [txs[i] EXCEPT !.place = h]
    <3> SUFFICES ASSUME NEW i \in DOMAIN txs
                 PROVE  \E h \in Gone .. tip' : f[i] = [txs[i] EXCEPT !.place = h]
      OBVIOUS
    <3>1. CASE txs[i].place = tip
      BY <2>1, <3>1 DEF Gone
    <3>2. CASE txs[i].place # tip
      <4>1. txs[i].place \in Gone .. tip'
        BY <1>1, <1>2, <2>1, <3>2 DEF Gone
      <4> QED BY <1>2, <3>2, <4>1
    <3> QED BY <3>1, <3>2
  <2> HIDE DEF f
  <2> QED BY <1>1, <2>1, <2>2, MovedEffect
<1>5. ASSUME NEW j \in DOMAIN txs, Evict(j) PROVE TxsOK' /\ TxsKept
  <2> DEFINE f == [i \in DOMAIN txs |->
                    IF i = j THEN [txs[i] EXCEPT !.place = Gone] ELSE txs[i]]
  <2>0. txs = [i \in DOMAIN txs |-> txs[i]]
    BY DEF TxsOK
  <2>1. tip' = tip /\ tip' \in Nat /\ txs' = [i \in DOMAIN txs |-> f[i]]
    BY <1>1, <1>5, <2>0 DEF Evict
  <2>2. \A i \in DOMAIN txs : \E h \in Gone .. tip' : f[i] = [txs[i] EXCEPT !.place = h]
    <3> SUFFICES ASSUME NEW i \in DOMAIN txs
                 PROVE  \E h \in Gone .. tip' : f[i] = [txs[i] EXCEPT !.place = h]
      OBVIOUS
    <3>1. CASE i = j
      BY <1>1, <2>1, <3>1 DEF Gone
    <3>2. CASE i # j
      BY <1>2, <2>1, <3>2
    <3> QED BY <3>1, <3>2
  <2> HIDE DEF f
  <2> QED BY <1>1, <2>1, <2>2, MovedEffect
<1> QED BY <1>3, <1>4, <1>5

\* Only the network touches the transactions.
LEMMA OthersKeepNetwork ==
    ASSUME [Next]_vars
    PROVE  Network \/ UNCHANGED << txs, tip >>
BY DEF Next, vars, network, Booked, SyncIteration, ReconcilePeriodically, SimulatePayment,
   LoadPage, PollPage, LeavePage, OnPages

\* Every step keeps the transactions well, and their outputs as they are.
LEMMA TxsStep ==
    ASSUME BookInv, LedgerInv, [Next]_vars
    PROVE  TxsOK' /\ TxsKept
<1>1. CASE Network
  BY <1>1, PaymentsSent, PlacesMoved DEF Network, LedgerInv
<1>2. CASE UNCHANGED << txs, tip >>
  <2>1. Grows /\ TxsOK
    BY BookGrows DEF LedgerInv
  <2>2. TxsOK'
    BY <1>2, <2>1 DEF TxsOK, Grows
  <2> QED BY <1>2, <2>2 DEF TxsKept
<1> QED BY <1>1, <1>2, OthersKeepNetwork

\* New addresses and new transactions, and old ones that move, leave the
\* ledger well.
LEMMA LedgerStable ==
    ASSUME Grows, TxsOK, TxsOK', TxsKept, rows' = rows, LedgerOK(rows)
    PROVE  LedgerOK(rows)'
<1>1. \A i \in DOMAIN txs : \A k \in DOMAIN txs[i].outputs :
        /\ i \in DOMAIN txs' /\ k \in DOMAIN txs'[i].outputs
        /\ Uid(i, k)' = Uid(i, k)
        /\ txs'[i].outputs[k] = txs[i].outputs[k]
  BY DEF TxsKept, Uid, ReceiptUid, OutputIndex
<1>2. ASSUME NEW j \in DOMAIN txs', NEW l \in DOMAIN txs'[j].outputs, Uid(j, l)' \in DOMAIN rows
      PROVE  /\ j \in DOMAIN txs /\ l \in DOMAIN txs[j].outputs
             /\ Uid(j, l)' = Uid(j, l)
  <2>1. PICK i \in DOMAIN txs : \E k \in DOMAIN txs[i].outputs : Uid(j, l)' = Uid(i, k)
    BY <1>2 DEF LedgerOK, RowsTrue
  <2>2. PICK k \in DOMAIN txs[i].outputs : Uid(j, l)' = Uid(i, k)
    BY <2>1
  <2>3. Uid(j, l)'[1] = txs'[j].id /\ Uid(i, k)[1] = txs[i].id
    BY DEF Uid, ReceiptUid
  <2>4. txs'[j].id = j /\ txs[i].id = i
    BY DEF TxsOK
  <2>5. i = j
    BY <2>2, <2>3, <2>4
  <2>6. txs'[j].outputs = txs[j].outputs
    BY <2>5 DEF TxsKept
  <2> QED BY <1>1, <2>5, <2>6
<1>3. RowsTrue(rows)'
  <2>1. ASSUME NEW u \in DOMAIN rows
        PROVE  \E i \in DOMAIN txs' : \E k \in DOMAIN txs'[i].outputs : u = Uid(i, k)'
    <3>1. PICK i \in DOMAIN txs : \E k \in DOMAIN txs[i].outputs : u = Uid(i, k)
      BY DEF LedgerOK, RowsTrue
    <3> QED BY <1>1, <3>1
  <2>2. ASSUME NEW i \in DOMAIN txs', NEW k \in DOMAIN txs'[i].outputs,
               Uid(i, k)' \in DOMAIN rows
        PROVE  /\ rows[Uid(i, k)'].value = txs'[i].outputs[k].value
               /\ rows[Uid(i, k)'].address \in DOMAIN issued'
               /\ issued'[rows[Uid(i, k)'].address].index = txs'[i].outputs[k].to
    <3>1. i \in DOMAIN txs /\ k \in DOMAIN txs[i].outputs /\ Uid(i, k)' = Uid(i, k)
      BY <1>2, <2>2
    <3>2. /\ rows[Uid(i, k)].value = txs[i].outputs[k].value
          /\ rows[Uid(i, k)].address \in DOMAIN issued
          /\ issued[rows[Uid(i, k)].address].index = txs[i].outputs[k].to
      BY <2>2, <3>1 DEF LedgerOK, RowsTrue
    <3> QED BY <1>1, <3>1, <3>2 DEF Grows
  <2> QED BY <2>1, <2>2 DEF RowsTrue
<1>4. RowsTogether(rows)'
  <2> SUFFICES ASSUME NEW i \in DOMAIN txs', NEW j \in DOMAIN txs'[i].outputs,
                      NEW k \in DOMAIN txs'[i].outputs, Uid(i, j)' \in DOMAIN rows
               PROVE  /\ Uid(i, k)' \in DOMAIN rows
                      /\ rows[Uid(i, k)'].kind = rows[Uid(i, j)'].kind
                      /\ rows[Uid(i, k)'].active = rows[Uid(i, j)'].active
    BY DEF RowsTogether
  <2>1. i \in DOMAIN txs /\ j \in DOMAIN txs[i].outputs /\ Uid(i, j)' = Uid(i, j)
    BY <1>2
  <2>2. k \in DOMAIN txs[i].outputs /\ Uid(i, k)' = Uid(i, k)
    BY <1>1, <2>1 DEF TxsKept
  <2> QED BY <2>1, <2>2 DEF LedgerOK, RowsTogether
<1>5. KindsOK(rows)'
  BY DEF LedgerOK, KindsOK
<1> QED BY <1>3, <1>4, <1>5 DEF LedgerOK

-----------------------------------------------------------------------------
(* The pages.                                                              *)

\* What a page is rendered from: the status of a link asks for an amount to be
\* paid to the link's address.
LEMMA StatusType ==
    ASSUME BookInv, LedgerInv, NEW p \in DOMAIN links
    PROVE  LET s == StatusOfLink(p)
           IN  /\ s.status \in PaymentStatus
               /\ s.qr_text \in [address : Nat, amount : Amounts]
               /\ \E a \in DOMAIN issued : issued[a].index = s.qr_text.address
<1> DEFINE a == links[p].address_id
           s == StatusOfLink(p)
           rest == RemainingAmount(issued[a].amount, TotalOf(a))
<1>1. a \in DOMAIN issued
  BY LinkAddress
<1>2. issued[a].amount \in Amounts /\ issued[a].index \in Nat
  BY <1>1, AskedType
<1>3. TotalOf(a) \in Nat
  BY TotalType
<1>4. rest \in Amounts
  <2> DEFINE requested == ParseZecAmount(issued[a].amount)
  <2>1. requested \in Nat \cup {NoValue} /\ requested =< MaxZat
    BY <1>2, ParseType
  <2>2. MaxZat \in Nat
    BY AmountAssumption
  <2>3. CASE 0 < TotalOf(a) /\ TotalOf(a) < requested
    <3>1. requested - TotalOf(a) \in Nat /\ requested - TotalOf(a) =< MaxZat
      <4> HIDE DEF requested, a
      <4> QED BY <1>3, <2>1, <2>2, <2>3 DEF NoValue
    <3>2. FormatZatAsZec(requested - TotalOf(a)) \in Amounts
      BY <3>1, RoundTrip DEF Amounts
    <3> QED BY <1>2, <3>2 DEF RemainingAmount
  <2>4. CASE ~(0 < TotalOf(a) /\ TotalOf(a) < requested)
    BY <1>2, <2>4 DEF RemainingAmount
  <2> QED BY <2>3, <2>4
<1>5. s = [status     |-> PaymentStatusFor(issued[a].amount, TotalOf(a)),
           qr_text    |-> [address |-> issued[a].index, amount |-> rest],
           return_url |-> links[p].return_url]
  BY DEF StatusOfLink, StatusOf, QrText
<1>6. s.status \in PaymentStatus
  <2> HIDE DEF rest, a
  <2> QED BY <1>5 DEF PaymentStatusFor, PaymentStatus
<1> HIDE DEF s, rest, a
<1>7. s.qr_text = [address |-> issued[a].index, amount |-> rest]
  BY <1>5
<1> QED BY <1>1, <1>2, <1>4, <1>6, <1>7 DEF s

\* Every step leaves the pages asking for payments to issued addresses.
LEMMA PagesStep ==
    ASSUME BookInv, LedgerInv, [Next]_vars
    PROVE  PagesOK'
<1>1. PagesOK /\ Grows
  BY BookGrows DEF LedgerInv
<1>2. ASSUME \A q \in DOMAIN pages' : q \in DOMAIN pages /\ pages'[q] = pages[q]
      PROVE  PagesOK'
  BY <1>1, <1>2 DEF PagesOK, Grows
<1>3. ASSUME NEW p, LoadPage(p) PROVE PagesOK'
  <2> DEFINE s == StatusOfLink(p)
             page == Rendered(s)
  <2>1. /\ p \in DOMAIN links
        /\ DOMAIN pages' = DOMAIN pages \cup {p}
        /\ \A q \in DOMAIN pages \ {p} : pages'[q] = pages[q]
        /\ pages'[p] = page
    BY <1>3 DEF LoadPage
  <2>2. /\ s.status \in PaymentStatus
        /\ s.qr_text \in [address : Nat, amount : Amounts]
        /\ \E a \in DOMAIN issued : issued[a].index = s.qr_text.address
    BY <2>1, StatusType
  <2> HIDE DEF s
  <2>3. page \in Page /\ page.qr_text = s.qr_text
    BY <2>2 DEF Rendered, Page, Stages
  <2> HIDE DEF page
  <2>4. \E a \in DOMAIN issued' : issued'[a].index = page.qr_text.address
    BY <1>1, <2>2, <2>3 DEF Grows
  <2>5. ASSUME NEW q \in DOMAIN pages \ {p}
        PROVE  /\ pages'[q] \in Page
               /\ \E a \in DOMAIN issued' : issued'[a].index = pages'[q].qr_text.address
    BY <1>1, <2>1 DEF PagesOK, Grows
  <2> QED BY <2>1, <2>3, <2>4, <2>5 DEF PagesOK
<1>4. ASSUME NEW p, PollPage(p) PROVE PagesOK'
  <2> DEFINE s == StatusOfLink(p)
             page == Polled(pages[p], s)
  <2>1. /\ p \in DOMAIN pages
        /\ DOMAIN pages' = DOMAIN pages
        /\ \A q \in DOMAIN pages \ {p} : pages'[q] = pages[q]
        /\ pages'[p] = page
    BY <1>4 DEF PollPage
  <2>2. pages[p] \in Page
    BY <1>1, <2>1 DEF PagesOK
  <2>3. s.status \in PaymentStatus
    BY DEF StatusOfLink, StatusOf, PaymentStatusFor, PaymentStatus
  <2> HIDE DEF s
  <2>4. page \in Page /\ page.qr_text = pages[p].qr_text
    BY <2>2, <2>3 DEF Polled, Page, Stages
  <2> HIDE DEF page
  <2>5. ASSUME NEW q \in DOMAIN pages
        PROVE  \E a \in DOMAIN issued' : issued'[a].index = pages[q].qr_text.address
    BY <1>1 DEF PagesOK, Grows
  <2>6. ASSUME NEW q \in DOMAIN pages
        PROVE  pages'[q] \in Page /\ pages'[q].qr_text = pages[q].qr_text
    BY <1>1, <2>1, <2>4 DEF PagesOK
  <2> QED BY <2>1, <2>5, <2>6 DEF PagesOK
<1>5. ASSUME NEW p, LeavePage(p) PROVE PagesOK'
  BY <1>2, <1>5 DEF LeavePage
<1>6. CASE UNCHANGED pages
  BY <1>2, <1>6
<1>7. \/ UNCHANGED pages
      \/ \E p : LoadPage(p) \/ PollPage(p) \/ LeavePage(p)
  BY NetworkMoved DEF Next, vars, Booked, Moved, SyncIteration, ReconcilePeriodically,
     SimulatePayment
<1> QED BY <1>3, <1>4, <1>5, <1>6, <1>7

-----------------------------------------------------------------------------
(* The ledger.                                                             *)

\* A development server's rows.
LEMMA SimulatedStep ==
    ASSUME BookInv, LedgerInv, [Next]_vars, dev
    PROVE  SimulatedOK'
<1>1. SimulatedOK
  BY DEF LedgerInv
<1>2. UNCHANGED << txs, current >>
  BY NetworkMoved DEF Next, vars, network, Booked, Moved, SyncIteration, ReconcilePeriodically,
     Scans, SimulatePayment, LoadPage, PollPage, LeavePage, OnPages
<1>3. CASE UNCHANGED rows
  BY <1>1, <1>2, <1>3 DEF SimulatedOK
<1>4. ASSUME NEW txid, NEW a, NEW v \in SimAmounts, NEW d, SimulatePayment(txid, a, v, d)
      PROVE  SimulatedOK'
  <2> DEFINE uid == SimulatedUid(txid, a)
  <2>1. /\ ParseZecAmount(v) > 0
        /\ DOMAIN rows' = DOMAIN rows \cup {uid}
        /\ \A u \in DOMAIN rows' : rows'[u].value = ParseZecAmount(v) \/
                                   (u \in DOMAIN rows /\ rows'[u] = rows[u])
    BY <1>4 DEF SimulatePayment
  <2>2. ParseZecAmount(v) \in Nat
    <3>1. ParseZecAmount(v) \in Nat \cup {NoValue} /\ ParseZecAmount(v) > 0
      BY <2>1, ParseType, PayerAssumption
    <3> QED BY <3>1 DEF NoValue
  <2>3. IsFiniteSet(DOMAIN rows \cup {uid})
    BY <1>1, FS_AddElement DEF SimulatedOK
  <2> QED BY <1>1, <1>2, <2>1, <2>2, <2>3 DEF SimulatedOK
<1>5. \/ UNCHANGED rows
      \/ \E txid, a, d : \E v \in SimAmounts : SimulatePayment(txid, a, v, d)
  BY NetworkMoved DEF Next, vars, Booked, Moved, SyncIteration, ReconcilePeriodically,
     Scans, LoadPage, PollPage, LeavePage, OnPages
<1> QED BY <1>3, <1>4, <1>5

\* Scans change neither transactions nor addresses.
LEMMA ScanStep ==
    ASSUME UNCHANGED << issued, txs, tip >>
    PROVE  /\ LedgerOK(rows') => LedgerOK(rows)'
           /\ Exact(rows') => Exact(rows)'
           /\ InMempool' = InMempool
           /\ (\A i \in InMempool : Parses(txs[i], tip))' <=>
                 \A i \in InMempool : Parses(txs[i], tip)
<1>1. LedgerOK(rows') => LedgerOK(rows)'
  BY DEF LedgerOK, RowsTrue, RowsTogether, KindsOK, Uid
<1>2. Exact(rows') => Exact(rows)'
  BY DEF Exact, Uid, Counts
<1>3. InMempool' = InMempool
  BY DEF InMempool
<1> QED BY <1>1, <1>2, <1>3

\* Every step keeps the ledger well, and exact while it is current.
LEMMA RowsStep ==
    ASSUME BookInv, LedgerInv, [Next]_vars, ~dev
    PROVE  LedgerOK(rows)' /\ CurrentOK'
<1>1. FingerprintsDiffer /\ TxsOK /\ LedgerOK(rows) /\ CurrentOK /\ Grows
  BY BookGrows DEF LedgerInv
<1>2. TxsOK' /\ TxsKept
  BY TxsStep
<1>3. ReportConf \in Nat
  BY ScanAssumption
<1>4. CASE Network
  <2>1. rows' = rows /\ ~current'
    BY <1>4, NetworkMoved DEF Moved
  <2> QED BY <1>1, <1>2, <2>1, LedgerStable DEF CurrentOK
<1>5. CASE SyncIteration
  <2> DEFINE mid == ChainScanned(rows)
  <2>1. /\ UNCHANGED << issued, txs, tip >>
        /\ rows' = IF ReportConf = 0 THEN MempoolScanned(mid, TRUE) ELSE mid
    BY <1>5 DEF SyncIteration, book, network
  <2>2. ChainRows(mid)
    BY <1>1, ChainEffect
  <2> HIDE DEF mid
  <2>3. LedgerOK(mid)
    BY <2>2 DEF ChainRows
  <2>4. IF ReportConf = 0 THEN MempoolRows(rows', mid, TRUE) ELSE rows' = mid
    BY <1>1, <2>1, <2>3, MempoolEffect
  <2>5. LedgerOK(rows')
    BY <2>3, <2>4 DEF MempoolRows
  <2>6. (\A i \in InMempool : Parses(txs[i], tip)) => Exact(rows')
    BY <1>1, <1>3, <2>2, <2>4, SyncExact
  <2> QED BY <2>1, <2>5, <2>6, ScanStep DEF CurrentOK
<1>6. CASE ReconcilePeriodically
  <2>1. /\ UNCHANGED << issued, txs, tip, current >>
        /\ rows' = MempoolScanned(rows, FALSE) /\ ReportConf = 0
    BY <1>6 DEF ReconcilePeriodically, book, network
  <2>2. MempoolRows(rows', rows, FALSE)
    BY <1>1, <2>1, MempoolEffect
  <2>3. LedgerOK(rows')
    BY <2>2 DEF MempoolRows
  <2>4. (current /\ \A i \in InMempool : Parses(txs[i], tip)) => Exact(rows')
    BY <1>1, <2>1, <2>2, MempoolExact DEF CurrentOK
  <2> QED BY <2>1, <2>3, <2>4, ScanStep DEF CurrentOK
<1>7. CASE UNCHANGED << txs, tip, rows, current >>
  <2>1. LedgerOK(rows)'
    BY <1>1, <1>2, <1>7, LedgerStable
  <2>2. CurrentOK'
    BY <1>1, <1>7 DEF CurrentOK, InMempool, Parses, Exact, Uid, Counts
  <2> QED BY <2>1, <2>2
<1>8. \/ Network \/ SyncIteration \/ ReconcilePeriodically
      \/ UNCHANGED << txs, tip, rows, current >>
  BY DEF Next, vars, network, Booked, SimulatePayment, LoadPage, PollPage, LeavePage, OnPages
<1> QED BY <1>4, <1>5, <1>6, <1>7, <1>8

-----------------------------------------------------------------------------
(* The theorems about the ledger.                                          *)

\* The invariant of the ledger holds at first.
LEMMA LedgerInit == Init => LedgerInv
<1> SUFFICES ASSUME Init PROVE LedgerInv
  OBVIOUS
<1>1. /\ issued = << >> /\ txs = << >> /\ tip = 0 /\ rows = << >> /\ ~current /\ pages = << >>
  BY DEF Init, InitBook
<1>2. DOMAIN issued = {} /\ DOMAIN txs = {} /\ DOMAIN rows = {} /\ DOMAIN pages = {}
  BY <1>1
<1>3. FingerprintsDiffer /\ PagesOK
  BY <1>2 DEF FingerprintsDiffer, PagesOK
<1>4. TxsOK
  BY <1>1, <1>2 DEF TxsOK
<1>5. LedgerOK(rows) /\ CurrentOK
  BY <1>1, <1>2 DEF LedgerOK, RowsTrue, RowsTogether, KindsOK, CurrentOK
<1>6. SimulatedOK
  BY <1>1, <1>2, FS_EmptySet DEF SimulatedOK
<1> QED BY <1>3, <1>4, <1>5, <1>6 DEF LedgerInv

\* Every step keeps the invariant of the ledger.
LEMMA LedgerStep == BookInv /\ LedgerInv /\ [Next]_vars => LedgerInv'
<1> SUFFICES ASSUME BookInv, LedgerInv, [Next]_vars PROVE LedgerInv'
  OBVIOUS
<1>1. FingerprintsDiffer' /\ TxsOK' /\ PagesOK'
  BY FingerprintsStep, TxsStep, PagesStep DEF LedgerInv
<1>2. dev' = dev
  BY BookGrows DEF Grows, dev
<1>3. IF dev THEN SimulatedOK' ELSE LedgerOK(rows)' /\ CurrentOK'
  BY SimulatedStep, RowsStep
<1> QED BY <1>1, <1>2, <1>3 DEF LedgerInv

\* The invariant of the ledger holds in every state.
THEOREM LedgerInvariance == Spec => []LedgerInv
BY LedgerInit, LedgerStep, BookInvariance, PTL DEF Spec

\* CreditedExactly: for every key, all payments, blocks, reorganisations and
\* losses from the mempool, and every order of them and the scans, an address
\* has exactly what was paid to it when an iteration of the sync loop ends.
THEOREM CreditedTheorem == Spec => []CreditedExactly
<1>1. BookInv /\ LedgerInv => CreditedExactly
  <2> SUFFICES ASSUME BookInv, LedgerInv, current,
                      \A i \in InMempool : Parses(txs[i], tip),
                      NEW a \in DOMAIN issued
               PROVE  TotalOf(a) = PaidTo(a)
    BY DEF CreditedExactly
  <2>1. TxsOK /\ LedgerOK(rows) /\ Exact(rows)
    BY DEF LedgerInv, SimulatedOK, CurrentOK
  <2> QED BY <2>1, ExactTotals
<1> QED BY <1>1, BookInvariance, LedgerInvariance, PTL

\* RestCompletes: for every amount that can be asked for and every total, the
\* rest that the status asks for makes the total what was requested.
THEOREM RestTheorem == Spec => []RestCompletes
<1>1. BookInv /\ LedgerInv => RestCompletes
  <2> SUFFICES ASSUME BookInv, LedgerInv, NEW p \in DOMAIN links,
                      ParseZecAmount(issued[links[p].address_id].amount) # NoValue,
                      ~Settled(StatusOfLink(p).status)
               PROVE  TotalOf(links[p].address_id)
                        + ParseZecAmount(StatusOfLink(p).qr_text.amount)
                      = ParseZecAmount(issued[links[p].address_id].amount)
    BY DEF RestCompletes
  <2> DEFINE a == links[p].address_id
             asked == issued[a].amount
             requested == ParseZecAmount(asked)
             total == TotalOf(a)
             rest == RemainingAmount(asked, total)
  <2>1. a \in DOMAIN issued /\ asked \in Amounts
    BY LinkAddress, AskedType
  <2>2. requested \in Nat /\ requested =< MaxZat /\ MaxZat \in Nat
    <3>1. requested \in Nat \cup {NoValue} /\ requested =< MaxZat
      BY <2>1, ParseType
    <3> QED BY <3>1, AmountAssumption
  <2>3. total \in Nat
    BY TotalType
  <2>4. /\ StatusOfLink(p).qr_text.amount = rest
        /\ StatusOfLink(p).status = PaymentStatusFor(asked, total)
    BY DEF StatusOfLink, StatusOf, QrText
  <2>5. asked # NoAmount
    <3>1. ParseZecAmount(NoAmount) = NoValue
      BY DEF ParseZecAmount
    <3> QED BY <3>1
  <2>6. PaymentStatusFor(asked, total) = IF requested # NoValue /\ total >= requested THEN "paid"
        ELSE IF total =< 0 THEN "awaiting_payment"
        ELSE IF requested # NoValue THEN "partially_paid"
        ELSE "received"
    BY DEF PaymentStatusFor
  <2>7. requested # NoValue
    OBVIOUS
  <2> HIDE DEF a
  <2>8. total < requested
    <3> HIDE DEF asked, total, requested
    <3> QED BY <2>2, <2>3, <2>4, <2>6, <2>7 DEF Settled, a
  <2>9. rest = IF 0 < total THEN FormatZatAsZec(requested - total) ELSE asked
    BY <2>5, <2>8 DEF RemainingAmount
  <2> HIDE DEF asked, total, requested, rest
  <2>10. total + ParseZecAmount(rest) = requested
    <3>1. CASE 0 < total
      <4>1. requested - total \in Nat /\ requested - total =< MaxZat
        BY <2>2, <2>3, <2>8
      <4>2. ParseZecAmount(rest) = requested - total
        BY <2>9, <3>1, <4>1, RoundTrip
      <4> QED BY <2>2, <2>3, <4>2
    <3>2. CASE ~(0 < total)
      <4>1. total = 0 /\ rest = asked
        BY <2>3, <2>9, <3>2
      <4> QED BY <2>2, <4>1 DEF requested
    <3> QED BY <3>1, <3>2
  <2> QED BY <2>4, <2>10 DEF a, asked, total, requested
<1> QED BY <1>1, BookInvariance, LedgerInvariance, PTL
=============================================================================
