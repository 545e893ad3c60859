----------------------------- MODULE MCPayments -----------------------------
(* Small instances of Payments for TLC.                                    *)
EXTENDS Payments

Decimal(whole, frac) == [whole |-> whole, frac |-> frac]

Shop == [scheme |-> "https", host |-> "shop", port |-> 443, userinfo |-> FALSE,
         path |-> TRUE, query |-> FALSE, fragment |-> FALSE]

Other == [Shop EXCEPT !.host = "other"]

ShopOrigin == {[scheme |-> "https", host |-> "shop", port |-> 0]}

Request(amount, url) ==
    [payment_source |-> "zcash", amount |-> amount, return_url |-> url]

Asked == Decimal(1, << 0, 5 >>)

\* Keys without collisions, with one between two sapling receivers, and with a
\* single index.
Distinct == [kind \in {"sapling", "orchard"} |-> [i \in 0 .. 3 |-> i]]

Plain == [valid |-> {0, 2}, fingerprint |-> Distinct]

Colliding ==
    [valid |-> {0, 2, 3}, fingerprint |-> [Distinct EXCEPT !["sapling"][2] = 0]]

Single == [valid |-> {1}, fingerprint |-> Distinct]

Out(pool, id, value) == [pool |-> pool, address_id |-> id, value |-> value]

TwoPools ==
    [outputs |-> << Out("sapling", 1, 60), Out("orchard", 1, 40) >>,
     others |-> 0, early |-> FALSE]

ManyOutputs ==
    [outputs |-> << Out("orchard", 1, 5) >>, others |-> 2, early |-> TRUE]

Early == [TwoPools EXCEPT !.early = TRUE]

TwoAddresses ==
    [outputs |-> << Out("ironwood", 1, 5), Out("ironwood", 2, 5) >>,
     others |-> 0, early |-> FALSE]

\* One session of two transactions; two sessions paid by one transaction;
\* sessions of a development server, one of which is refused.
OneSession ==
    [wallet |-> Plain, dev |-> FALSE, batches |-> << {TwoPools, ManyOutputs}, {Early} >>,
     requests |-> [s1 |-> {Request(Asked, NoUrl)}, s2 |-> {}]]

TwoSessions ==
    [wallet |-> Plain, dev |-> FALSE, batches |-> << {TwoAddresses} >>,
     requests |-> [s1 |-> {Request(Asked, NoUrl)}, s2 |-> {Request(NotDecimal, Shop)}]]

Development(key) ==
    [wallet |-> key, dev |-> TRUE, batches |-> << >>,
     requests |-> [s1 |-> {Request(Asked, Shop), Request(Asked, Other)},
                   s2 |-> {Request(NoAmount, NoUrl)}]]

SmallScenarios ==
    {OneSession, TwoSessions} \cup {Development(w) : w \in {Plain, Colliding, Single}}

SmallAmounts == {Decimal(1, << >>), Decimal(NoDigits, << 0, 5 >>), NotDecimal}
=============================================================================
