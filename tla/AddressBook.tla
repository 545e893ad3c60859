---------------------------- MODULE AddressBook ----------------------------
(***************************************************************************)
(* Payment sessions: PaymentService::issue_payment_session (src/service.rs)*)
(* validates the request, allocates a fresh address in one IMMEDIATE       *)
(* transaction (AppDb::allocate_fresh_address, src/db.rs, with             *)
(* WalletView::derive_address_after, src/zcash.rs), and then stores the    *)
(* payment link in a second write, for several requests at once.           *)
(*                                                                         *)
(* An address is its diversifier index, and address_id is its position in  *)
(* issued_addresses.  A payment id is 128 random bits, so it is the        *)
(* session it was made for.                                                *)
(***************************************************************************)
EXTENDS PaymentRequest

CONSTANTS
    Sessions,      \* requests to POST /payment-session
    Origins,       \* RETURN_URL_ALLOWED_ORIGINS ({}: every origin)
    NoSession,
    NoIndex,
    MaxIndex,      \* the last diversifier index
    Scenarios      \* what is explored, as records with at least the fields
                   \*   wallet: a viewing key: the valid indices, and the
                   \*     fingerprint of the receivers of each index
                   \*   requests: per session, the requests it may send

ASSUME BookAssumption ==
    /\ MaxIndex \in Nat
    /\ NoSession \notin Sessions
    /\ NoIndex \notin 0 .. MaxIndex
    /\ \A c \in Scenarios : c.wallet.valid \subseteq 0 .. MaxIndex

VARIABLES
    scenario,   \* the one of this behaviour (never changes)
    issued,     \* issued_addresses: index and requested amount
    receivers,  \* address_receivers
    links,      \* payment_links: address id and return URL of each payment id
    lock,       \* the session that holds the database's write lock
    req         \* per session: its step, and what the step needs

wallet == scenario.wallet

book == << scenario, issued, receivers, links, lock, req >>

Urls == INSTANCE ServiceConfig WITH NoUivk <- "none"

Pools == {"sapling", "orchard", "ironwood"}

\* The receiver of a pool: ironwood uses the orchard receiver.
ReceiverKind(pool) == IF pool = "sapling" THEN "sapling" ELSE "orchard"

FingerprintOf(pool, index) == wallet.fingerprint[ReceiverKind(pool)][index]

\* A session that holds nothing.
At(step) == [step |-> step, request |-> NoAmount, last |-> NoIndex, id |-> 0]

InitBook ==
    /\ scenario \in Scenarios
    /\ issued = << >> /\ receivers = {} /\ links = << >>
    /\ lock = NoSession
    /\ req = [s \in Sessions |-> At("idle")]

\* The request of a session ends with an error.
Fail(s, step) == req' = [req EXCEPT ![s] = At(step)]

-----------------------------------------------------------------------------
\* The request is refused, or goes on to mint an address.
Validate(s) ==
    /\ req[s].step = "idle"
    /\ \E r \in scenario.requests[s] :
        IF /\ r.payment_source = "zcash"
           /\ r.return_url # NoUrl => Urls!ReturnUrlAllowed(r.return_url, Origins)
        THEN req' = [req EXCEPT ![s].step = "begin", ![s].request = r]
        ELSE Fail(s, "rejected")
    /\ UNCHANGED << scenario, issued, receivers, links, lock >>

LastIndex == IF issued = << >> THEN NoIndex ELSE issued[Len(issued)].index

\* Mutant: a transaction that takes the write lock only with its first write.
BeginDeferred(s) ==
    /\ req[s].step = "begin"
    /\ req' = [req EXCEPT ![s].step = "insert", ![s].last = LastIndex]
    /\ UNCHANGED << scenario, issued, receivers, links, lock >>

\* BEGIN IMMEDIATE, and the read of the last diversifier index.
BeginImmediate(s) ==
    /\ req[s].step = "begin"
    /\ lock = NoSession
    /\ lock' = s
    /\ req' = [req EXCEPT ![s].step = "insert", ![s].last = LastIndex]
    /\ UNCHANGED << scenario, issued, receivers, links >>

\* derive_address_after: the valid indices at or after the next one, the first
\* of which is taken; none when the space is exhausted.
Derivable(last) == {i \in wallet.valid : last = NoIndex \/ i > last}

NewReceivers(id, index) ==
    {[address_id |-> id, pool |-> p, fingerprint |-> FingerprintOf(p, index)] : p \in Pools}

\* UNIQUE(unified_address), and UNIQUE(pool, receiver_fingerprint).
Unique(index) ==
    /\ \A k \in DOMAIN issued : issued[k].index # index
    /\ \A r \in receivers : r.fingerprint # FingerprintOf(r.pool, index)

\* The inserts and COMMIT, or an error that rolls the transaction back.
InsertAddress(s) ==
    /\ req[s].step = "insert"
    /\ lock' = NoSession
    /\ LET free  == Derivable(req[s].last)
           index == Min(free)
           id    == Len(issued) + 1
       IN  IF free # {} /\ Unique(index)
           THEN /\ issued' = Append(issued, [index  |-> index,
                                             amount |-> req[s].request.amount])
                /\ receivers' = receivers \cup NewReceivers(id, index)
                /\ req' = [req EXCEPT ![s].step = "link", ![s].id = id]
           ELSE Fail(s, "refused") /\ UNCHANGED << issued, receivers >>
    /\ UNCHANGED << scenario, links >>

\* Mutant: the link is made for the last address of the table.
LinkLatest(s) ==
    /\ req[s].step = "link"
    /\ lock = NoSession
    /\ links' = [p \in DOMAIN links \cup {s} |->
                    IF p = s THEN [address_id |-> Len(issued),
                                   return_url |-> req[s].request.return_url]
                    ELSE links[p]]
    /\ req' = [req EXCEPT ![s].step = "answered", ![s].last = NoIndex]
    /\ UNCHANGED << scenario, issued, receivers, lock >>

\* insert_payment_link, and the answer.
InsertPaymentLink(s) ==
    /\ req[s].step = "link"
    /\ lock = NoSession
    /\ links' = [p \in DOMAIN links \cup {s} |->
                    IF p = s THEN [address_id |-> req[s].id,
                                   return_url |-> req[s].request.return_url]
                    ELSE links[p]]
    /\ req' = [req EXCEPT ![s].step = "answered", ![s].last = NoIndex]
    /\ UNCHANGED << scenario, issued, receivers, lock >>

\* The write lock is not free within the busy timeout: the request fails.
DatabaseBusy(s) ==
    /\ req[s].step \in {"begin", "link"}
    /\ Fail(s, "failed")
    /\ UNCHANGED << scenario, issued, receivers, links, lock >>

\* The process dies: requests under way fail, an open transaction is undone.
Crash ==
    /\ \E s \in Sessions : req[s].step \in {"begin", "insert", "link"}
    /\ lock' = NoSession
    /\ req' = [s \in Sessions |->
                IF req[s].step \in {"begin", "insert", "link"}
                THEN At("failed") ELSE req[s]]
    /\ UNCHANGED << scenario, issued, receivers, links >>

Session(s) ==
    \/ Validate(s) \/ BeginImmediate(s) \/ InsertAddress(s) \/ InsertPaymentLink(s)
    \/ DatabaseBusy(s)

\* The qr_text of an answer.
AnswerOf(s) == QrText(issued[req[s].id].index, req[s].request.amount)
=============================================================================
