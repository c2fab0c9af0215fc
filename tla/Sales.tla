-------------------------------- MODULE Sales --------------------------------
(* What the issuer sells at, to how many, and for which payments: the rate   *)
(* and the quotes, and the check of what a claim's transaction paid.         *)
EXTENDS PassSales, PaymentCheck

SellingSpec == SalesSpec /\ CheckSpec

\* What passes are sold for and when: the rate follows the market, quotes find
\* room, and a payment is taken as made only when the chain says so.
SalesSound == NeverFull /\ RateFollows /\ ConfirmedIsReal
=============================================================================
