----------------------------- MODULE PassSales -----------------------------
(* What the issuer sells at and to how many: the going rate read from price  *)
(* feeds, the bucket that lets quotes through, and the orders they fill the  *)
(* issuer with.  Prices and rates are small integers; the clock ticks in the *)
(* unit the bucket fills by.                                                 *)
EXTENDS Naturals, Sequences, FiniteSetsExt

CONSTANTS
  FeedAnswers,        \* what one price feed may answer: "down", or pairs
  NFeeds, TheMint,
  max_change, max_age,            \* percent; ticks
  RATE_AGREE,
  QUOTE_BURST, QUOTE_RATE, UNCLAIMED_LIFETIME, ORDER_LIFETIME,
  MAX_OPEN_ORDERS, MAX_HELD_ORDERS,
  Buyers,             \* quotes being made at once
  NoRate,
  MaxTicks, MaxFetchedRates, MaxRestarts   \* bounds

\* The compile-time assertion, with the burst a restart gives back.
ASSUME SalesAssumption ==
  QUOTE_BURST * (1 + MaxRestarts) + QUOTE_RATE * UNCLAIMED_LIFETIME + MAX_HELD_ORDERS
    < MAX_OPEN_ORDERS

ASSUME SalesConstants ==
  /\ {NFeeds, max_change, max_age, RATE_AGREE, QUOTE_BURST, QUOTE_RATE, UNCLAIMED_LIFETIME,
      ORDER_LIFETIME, MAX_OPEN_ORDERS, MAX_HELD_ORDERS, MaxRestarts} \subseteq Nat
  /\ RATE_AGREE > 1 /\ IsFiniteSet(Buyers)
  /\ NoRate \notin [rate : Nat, at : Nat] \cup [rate : Nat, n : Nat]
  /\ \A a \in FeedAnswers : /\ Len(a) \in Nat /\ DOMAIN a = 1..Len(a)
                             /\ \A i \in DOMAIN a : a[i].price \in Nat /\ a[i].liquidity \in Nat

VARIABLES
  ticks,
  rate_cur,           \* the rate and when it was fetched, or NoRate
  rate_held,          \* a move past the limit and how often it was said
  bucket,             \* quotes left, and when that was counted
  open_orders,        \* orders no one has paid: created, unclaimed
  quoting,            \* each buyer's quote
  said,               \* history: the rates fetched since the start
  refused_full,       \* history: a quote was refused for want of room
  restarts

salesVars == <<ticks, rate_cur, rate_held, bucket, open_orders, quoting,
               said, refused_full, restarts>>
rateVars == <<rate_cur, rate_held, said>>
quoteVars == <<bucket, open_orders, quoting, refused_full>>

NoQuote == [pc |-> "idle", now |-> 0]

\* The start of the issuer: nothing of the rate, a full bucket; the orders
\* are read from their file.
SalesInit ==
  /\ ticks = 0 /\ rate_cur = NoRate /\ rate_held = NoRate /\ said = <<>>
  /\ bucket = [left |-> QUOTE_BURST, last |-> 0] /\ open_orders = {}
  /\ quoting = [b \in Buyers |-> NoQuote] /\ refused_full = FALSE
  /\ restarts = 0

Restart ==
  /\ restarts < MaxRestarts /\ restarts' = restarts + 1
  /\ rate_cur' = NoRate /\ rate_held' = NoRate /\ said' = <<>>
  /\ bucket' = [left |-> QUOTE_BURST, last |-> ticks]
  /\ quoting' = [b \in Buyers |-> NoQuote]
  /\ UNCHANGED <<ticks, open_orders, refused_full>>

Ticks ==
  /\ ticks < MaxTicks /\ ticks' = ticks + 1
  /\ UNCHANGED <<rateVars, quoteVars, restarts>>
-----------------------------------------------------------------------------
(* The going rate.                                                           *)

\* Of the pairs of the mint with a price, the first of the most liquid.
usable_pairs(pairs) == {i \in DOMAIN pairs : pairs[i].mint = TheMint /\ pairs[i].price > 0}
read_rate(pairs) ==
  pairs[CHOOSE i \in usable_pairs(pairs) :
          \A j \in usable_pairs(pairs) :
            \/ pairs[i].liquidity > pairs[j].liquidity
            \/ pairs[i].liquidity = pairs[j].liquidity /\ i <= j].price
answers_rate(a) == a # <<>> /\ usable_pairs(a) # {}

moved(new, from) == 100 * (IF new > from THEN new - from ELSE from - new) > max_change * from

\* Fetches in a row that said it.
agreed(new) ==
  IF rate_held # NoRate /\ ~moved(new, rate_held.rate) THEN rate_held.n + 1 ELSE 1

offer(new) ==
  IF \/ rate_cur = NoRate
     \/ ~moved(new, rate_cur.rate)
     \/ agreed(new) >= RATE_AGREE
  THEN /\ rate_cur' = [rate |-> new, at |-> ticks]
       /\ rate_held' = IF rate_cur = NoRate THEN rate_held ELSE NoRate
  ELSE rate_held' = [rate |-> new, n |-> agreed(new)] /\ UNCHANGED rate_cur

\* The feeds in turn, until one answers with a rate.
Refresh(answers) ==
  LET good == {i \in DOMAIN answers : answers_rate(answers[i])}
      new == read_rate(answers[Min(good)])
  IN
  /\ Len(said) < MaxFetchedRates
  /\ IF good = {} THEN UNCHANGED rateVars
     ELSE offer(new) /\ said' = Append(said, new)
  /\ UNCHANGED <<ticks, quoteVars, restarts>>

\* A rate not fetched lately is none.
rate_known == rate_cur # NoRate /\ ticks - rate_cur.at <= max_age
-----------------------------------------------------------------------------
(* Quotes.                                                                   *)

lapses_at(o) == o.created + (IF o.unclaimed THEN UNCLAIMED_LIFETIME ELSE ORDER_LIFETIME)
open_at(os, now) == {o \in os : now < lapses_at(o)}
held_at(os, now) == {o \in open_at(os, now) : ~o.unclaimed}

\* The tag is random, and no other open order's; here the least such.  (Sixty-four
\* draws in a row that are other orders' are left out.)
free_tag(os) == Min({n \in 1..MAX_OPEN_ORDERS : \A o \in os : o.tag # n})

filled(now) == Min({bucket.left + (now - bucket.last) * QUOTE_RATE, QUOTE_BURST})

\* The rate and the time are read first: no rate, no sale in dollars.  The index turns
\* away what has no room, before the bucket.
QuoteAsked(b) ==
  /\ quoting[b].pc = "idle" /\ rate_known
  /\ IF Cardinality(open_at(open_orders, ticks)) >= MAX_OPEN_ORDERS
     THEN refused_full' = TRUE /\ UNCHANGED quoting
     ELSE /\ quoting' = [quoting EXCEPT ![b] = [pc |-> "bucket", now |-> ticks]]
          /\ UNCHANGED refused_full
  /\ UNCHANGED <<ticks, rateVars, bucket, open_orders, restarts>>

TakeShare(b) ==
  LET f == filled(ticks) IN
  /\ quoting[b].pc = "bucket"
  /\ bucket' = [left |-> IF f >= 1 THEN f - 1 ELSE f, last |-> ticks]
  /\ quoting' = IF f >= 1 THEN [quoting EXCEPT ![b].pc = "open"]
                ELSE [quoting EXCEPT ![b] = NoQuote]
  /\ UNCHANGED <<ticks, rateVars, open_orders, refused_full, restarts>>

\* Made at the time read at first, which a wait may have left behind.
OpenOrder(b) ==
  LET now == quoting[b].now  os == open_at(open_orders, now) IN
  /\ quoting[b].pc = "open" /\ quoting' = [quoting EXCEPT ![b] = NoQuote]
  /\ IF Cardinality(os) >= MAX_OPEN_ORDERS THEN refused_full' = TRUE /\ open_orders' = os
     ELSE /\ open_orders' = os \cup {[tag |-> free_tag(os), created |-> now, unclaimed |-> TRUE]}
          /\ UNCHANGED refused_full
  /\ UNCHANGED <<ticks, rateVars, bucket, restarts>>

\* A claim reached an order: it is held open for its day, while there is room.
HoldOrder(o) ==
  LET os == open_at(open_orders, ticks) IN
  /\ o \in os /\ o.unclaimed /\ Cardinality(held_at(open_orders, ticks)) < MAX_HELD_ORDERS
  /\ open_orders' = (os \ {o}) \cup {[o EXCEPT !.unclaimed = FALSE]}
  /\ UNCHANGED <<ticks, rateVars, bucket, quoting, refused_full, restarts>>

RateNext == Restart \/ Ticks \/ \E answers \in [1..NFeeds -> FeedAnswers] : Refresh(answers)
QuoteNext ==
  \/ \E b \in Buyers : QuoteAsked(b) \/ TakeShare(b) \/ OpenOrder(b)
  \/ \E o \in open_orders : HoldOrder(o)
SalesNext == RateNext \/ QuoteNext
SalesSpec == SalesInit /\ [][SalesNext]_salesVars
-----------------------------------------------------------------------------
\* "Orders made for nobody's payment can never fill the issuer": with the
\* quotes the bucket lets through, the life of an order no claim reached, and
\* the orders claims may hold, no quote is ever refused for want of room.
NeverFull == ~refused_full

\* The price follows the market: once three fetches in a row agree it is the
\* last of them; and one that jumps from a rate just believed is not taken.
RateFollows ==
  LET n == Len(said) IN
  n >= RATE_AGREE =>
    /\ (\A i \in (n - RATE_AGREE + 2)..n : ~moved(said[i], said[i - 1]))
         => rate_cur.rate = said[n]
    /\ (\A i \in 2..(n - 1) : ~moved(said[i], said[i - 1])) /\ moved(said[n], said[n - 1])
         => rate_cur.rate # said[n]
=============================================================================
