--------------------------- MODULE ReportedTotal ---------------------------
(***************************************************************************)
(* What the webhook outbox promises, without rows, queues, attempts or     *)
(* restarts.  Every address has a current total with a version.  A change  *)
(* takes the next version; the service may publish the current total; the  *)
(* receiver may hear a published total that is newer than the one it has;  *)
(* the service may learn that a published total, or a newer one, was       *)
(* heard.  Nothing that was published is ever taken back or altered.       *)
(***************************************************************************)
EXTENDS Integers

CONSTANTS
    Addresses,   \* issued addresses
    Totals       \* the zatoshi totals an address can have

VARIABLES
    current,     \* the newest total of each address
    published,   \* every total the service ever put into an event
    heard,       \* the newest published total the receiver has
    known        \* the version the service knows the receiver to have

avars == << current, published, heard, known >>

Stamped == [version : Nat, total : Totals]

Unstamped == [version |-> 0, total |-> 0]

Init ==
    /\ current = [a \in Addresses |-> Unstamped]
    /\ published = [a \in Addresses |-> {}]
    /\ heard = [a \in Addresses |-> Unstamped]
    /\ known = [a \in Addresses |-> 0]

\* The ledger changed for the addresses of S, which take new versions.
Change(S) ==
    /\ \E new \in [S -> Totals] :
        current' = [a \in Addresses |->
            IF a \in S THEN [version |-> current[a].version + 1, total |-> new[a]]
            ELSE current[a]]
    /\ UNCHANGED << published, heard, known >>

\* The service publishes the current totals of the addresses of S.
Publish(S) ==
    /\ published' = [a \in Addresses |->
            IF a \in S THEN published[a] \cup {current[a]} ELSE published[a]]
    /\ UNCHANGED << current, heard, known >>

\* The receiver hears something newer.
Hear(a) ==
    /\ \E event \in published[a] :
        /\ event.version > heard[a].version
        /\ heard' = [heard EXCEPT ![a] = event]
    /\ UNCHANGED << current, published, known >>

\* The service learns that the receiver has an event or a newer one, and may
\* publish the current total with that.
Learn(a) ==
    /\ \E event \in published[a] :
        /\ event.version > known[a]
        /\ event.version <= heard[a].version
        /\ known' = [known EXCEPT ![a] = event.version]
    /\ \/ UNCHANGED published
       \/ published' = [published EXCEPT ![a] = @ \cup {current[a]}]
    /\ UNCHANGED << current, heard >>

Next ==
    \/ \E S \in SUBSET Addresses : Change(S) \/ Publish(S)
    \/ \E a \in Addresses : Hear(a) \/ Learn(a)

Spec == Init /\ [][Next]_avars
=============================================================================
