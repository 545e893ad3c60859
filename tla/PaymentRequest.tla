--------------------------- MODULE PaymentRequest ---------------------------
(***************************************************************************)
(* What a payment session asks for and how a payment stands: amounts as    *)
(* decimal text and as zatoshis, the status and the rest still owed        *)
(* (src/service.rs), and the pay page with its polling script              *)
(* (src/pay_page.rs).                                                      *)
(*                                                                         *)
(* A decimal text is its whole part (NoDigits when there is none) and the  *)
(* digits after the point; other text is NotDecimal, and an amount that is *)
(* missing or blank is NoAmount.                                           *)
(***************************************************************************)
EXTENDS Integers, Sequences, FiniteSetsExt

CONSTANTS
    Decimals,      \* decimal places of a ZEC (8)
    MaxZat,        \* the largest i64
    NotDecimal,
    NoAmount,
    NoUrl          \* the session has no return URL

ASSUME AmountAssumption == Decimals \in Nat \ {0} /\ MaxZat \in Nat

NoDigits == -1
NoValue  == -1     \* parse_zec_amount returns None

\* Decimal text, and what an amount is.
Texts == [whole : Nat \cup {NoDigits}, frac : Seq(0 .. 9)]

Amounts == Texts \cup {NotDecimal, NoAmount}

ASSUME TextAssumption == NotDecimal \notin Texts /\ NoAmount \notin Texts

\* Powers of ten.
Pow10[n \in 0 .. Decimals] == IF n = 0 THEN 1 ELSE 10 * Pow10[n - 1]

Zec == Pow10[Decimals]

\* The value of digits after the point, padded with zeros on the right.
FractionOf(digits) ==
    MapThenSumSet(LAMBDA i : digits[i] * Pow10[Decimals - i], DOMAIN digits)

ParseZecAmount(text) ==
    IF \/ text \in {NotDecimal, NoAmount}
       \/ text.whole = NoDigits /\ text.frac = << >>
       \/ Len(text.frac) > Decimals
    THEN NoValue
    ELSE LET whole == IF text.whole = NoDigits THEN 0 ELSE text.whole
             value == whole * Zec + FractionOf(text.frac)
         IN  IF value > MaxZat THEN NoValue ELSE value

\* Mutant: the fraction is not padded with zeros on the left.
FormatUnpadded(zat) ==
    [whole |-> zat \div Zec,
     frac  |-> LET f == zat % Zec
               IN  IF f < Zec \div 10 THEN << f >>
                   ELSE [i \in 1 .. Decimals |-> (f \div Pow10[Decimals - i]) % 10]]

\* format_zat_as_zec; a total is never negative.
FormatZatAsZec(zat) ==
    [whole |-> zat \div Zec,
     frac  |-> [i \in 1 .. Decimals |-> (zat \div Pow10[Decimals - i]) % 10]]

PaymentStatus == {"awaiting_payment", "partially_paid", "paid", "received"}

PaymentStatusFor(amount, total) ==
    LET requested == ParseZecAmount(amount)
    IN  IF requested # NoValue /\ total >= requested THEN "paid"
        ELSE IF total <= 0 THEN "awaiting_payment"
        ELSE IF requested # NoValue THEN "partially_paid"
        ELSE "received"

RemainingAmount(amount, total) ==
    LET requested == ParseZecAmount(amount)
    IN  IF amount # NoAmount /\ 0 < total /\ total < requested
        THEN FormatZatAsZec(requested - total)
        ELSE amount

\* build_qr_text: the address to pay and the amount to pay to it.
QrText(address, amount) == [address |-> address, amount |-> amount]

\* PaymentService::payment_status.
StatusOf(address, amount, total, returnUrl) ==
    [status     |-> PaymentStatusFor(amount, total),
     qr_text    |-> QrText(address, RemainingAmount(amount, total)),
     return_url |-> returnUrl]

-----------------------------------------------------------------------------
(* The page.  While controls are shown, so is the amount due.              *)

Settled(status) == status \in {"paid", "received"}

Done(s) == Settled(s.status) /\ s.return_url # NoUrl

\* render_pay_page, and the script's start.
Rendered(s) ==
    [status   |-> s.status,
     qr_text  |-> s.qr_text,
     controls |-> ~Settled(s.status),
     stage    |-> IF Done(s) THEN "leaving" ELSE "polling"]

\* Mutant: only a changed request makes the page reload.
PolledIgnoringControls(page, s) ==
    LET shown == [page EXCEPT !.status = s.status, !.controls = @ /\ ~Settled(s.status)]
    IN  IF Done(s) THEN [shown EXCEPT !.stage = "leaving"]
        ELSE IF ~Settled(s.status) /\ s.qr_text # page.qr_text
        THEN [shown EXCEPT !.stage = "reloading"]
        ELSE shown

\* One answered poll: show the status, and remove the controls of a settled
\* payment; then leave for the return URL, or reload a page whose request is
\* stale or missing, or go on polling.
Polled(page, s) ==
    LET shown == [page EXCEPT !.status = s.status, !.controls = @ /\ ~Settled(s.status)]
    IN  IF Done(s) THEN [shown EXCEPT !.stage = "leaving"]
        ELSE IF ~Settled(s.status) /\ (s.qr_text # page.qr_text \/ ~shown.controls)
        THEN [shown EXCEPT !.stage = "reloading"]
        ELSE shown
=============================================================================
