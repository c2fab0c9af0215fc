----------------------------- MODULE OrderBook -----------------------------
(***************************************************************************)
(* The orders of a pass issuer that sells: hidravpn-issuer/src/main.rs.    *)
(*                                                                         *)
(* A quote opens an order for a token, at an amount no other open order    *)
(* has.  The buyer pays that amount on the chain, and claims the order     *)
(* with the transaction: the issuer looks the transaction up, marks the    *)
(* order paid and the transaction used, and credits the token's account.   *)
(* An order that lapses unpaid leaves a record in a second file, from      *)
(* which the operator can still credit a payment by hand.                  *)
(*                                                                         *)
(* Three kinds of actors share the two files: the issuer's quotes and      *)
(* claims, tasks that take the issuer's lock for each change, and the      *)
(* operator's `order credit`, another process, which takes only the lock   *)
(* of the orders file.  Every task reads the clock once, when it starts,   *)
(* and uses that time, by then perhaps old, in every later step.           *)
(***************************************************************************)
EXTENDS Integers, Sequences, FiniteSets, SequencesExt, Sums

CONSTANTS
  Tokens,               \* the account tokens (their hashes)
  Amounts,              \* the price of the pack plus each tag
  Txs,                  \* transactions on the chain
  Claims,               \* the claims made, each by a task of its own
  NoTx, NoPay, Free,    \* no transaction; not on the chain; nobody's lock
  UNCLAIMED_LIFETIME, ORDER_LIFETIME, CLOCK_SLACK,
  LAPSED_KEPT, LAPSED_PRUNE_EVERY,
  MAX_OPEN_ORDERS, MAX_OPEN_PER_ACCOUNT, MAX_HELD_ORDERS, MAX_CLAIM_TRIES,
  Faults,               \* what may go wrong: see FaultKinds
  MaxFaults,            \* bound: how often
  MaxOrders,            \* bound: orders opened in all
  MaxQuotes,            \* bound: quotes under way at once
  MaxTime,              \* bound: the last time
  Delay,                \* how old a task's reading of the clock may get
  HandWithin            \* how old a payment the operator credits by hand

\* A change the issuer makes to the orders file fails before it is saved, or
\* one the operator's command makes; a change of the accounts file fails;
\* undoing a mark fails; the issuer crashes and is started again; the
\* operator's command is cut off.
FaultKinds == {"orders", "hand", "accounts", "unmark", "crash", "cut"}

\* Mutant: an order's life counted once.
MutKeepPaid == ORDER_LIFETIME - 1 + CLOCK_SLACK

KEEP_PAID == 2 * ORDER_LIFETIME + CLOCK_SLACK

\* No task lives so long, and the operator credits no payment so old, that
\* the transaction it is about could be forgotten meanwhile.  Half a day for
\* a task and a day for the operator are well within it.
Timely == 2 * Delay <= ORDER_LIFETIME /\ 2 * Delay + HandWithin <= KEEP_PAID

ASSUME LifetimesAssumption ==
  /\ UNCLAIMED_LIFETIME \in Nat \ {0} /\ ORDER_LIFETIME \in Nat
  /\ UNCLAIMED_LIFETIME <= ORDER_LIFETIME
  /\ CLOCK_SLACK \in Nat /\ LAPSED_KEPT \in Nat /\ LAPSED_PRUNE_EVERY \in Nat

ASSUME CapsAssumption ==
  /\ MAX_OPEN_ORDERS \in Nat /\ MAX_OPEN_PER_ACCOUNT \in Nat
  /\ MAX_HELD_ORDERS \in Nat /\ MAX_CLAIM_TRIES \in Nat

ASSUME ModelAssumption ==
  /\ Faults \subseteq FaultKinds
  /\ MaxFaults \in Nat /\ MaxOrders \in Nat /\ MaxQuotes \in Nat
  /\ MaxTime \in Nat /\ Delay \in Nat /\ HandWithin \in Nat
  /\ Amounts \subseteq Nat
  /\ NoTx \notin Txs /\ Free \notin Claims
  /\ NoPay \notin [amt: Amounts, at: Int]

VARIABLES
  clock,          \* the time every task reads
  orders,         \* the orders file: Orders.orders, a set as `id` orders it
  used,           \* the orders file: Orders.used
  lapsed_pruned,  \* the orders file: Orders.lapsed_pruned
  lapsed_file,    \* the records of orders that lapsed unpaid
  index,          \* the Index in memory, as the orders it was made from
  lock,           \* the issuer's lock, held by a claim being credited
  quotes,         \* the quotes under way
  claim,          \* each claim: its step and what it holds
  hand,           \* the operator's `order credit`
  chain,          \* what each transaction paid, and when
  credited,       \* history: how often each transaction was credited for
  served,         \* history: how often each order's pack was credited
  made,           \* history: how many orders were opened
  faults          \* history: how many things went wrong

file     == <<orders, used, lapsed_pruned, lapsed_file>>
accounts == <<credited, served>>
vars     == <<clock, orders, used, lapsed_pruned, lapsed_file, index, lock,
              quotes, claim, hand, chain, credited, served, made, faults>>

Order  == [id: 1..MaxOrders, tok: Tokens, amt: Amounts, created: 0..MaxTime,
           paid: Txs \cup {NoTx}, tries: Nat, unclaimed: BOOLEAN]
Lapsed == [id: 1..MaxOrders, tok: Tokens, amt: Amounts, created: 0..MaxTime,
           lapsed: Nat, claimed: BOOLEAN]
Used   == [tx: Txs, at: 0..MaxTime]

\* What a claim holds at each of its steps, and the operator's command.
Answers == {"nothing", "tries", "again", "later", "already", "used", "unpaid",
            "undecided", "credited", "cut"}
Claim ==
       [pc: {"idle"}]
  \cup [pc: {"done"}, tok: Tokens, tx: Txs, answer: Answers]
  \cup [pc: {"hold", "pace"}, tok: Tokens, tx: Txs, now: 0..MaxTime]
  \cup [pc: {"chain"}, tok: Tokens, tx: Txs, now: 0..MaxTime,
        open: SUBSET Order]
  \cup [pc: {"mark"}, tok: Tokens, tx: Txs, now: 0..MaxTime, order: Order]
  \cup [pc: {"credit", "unmark"}, tok: Tokens, tx: Txs, now: 0..MaxTime,
        order: Order, marked: Order, orders: SUBSET Order]
Hand ==
       [pc: {"idle"}]
  \cup [pc: {"take"}, tx: Txs, whose: SUBSET Tokens, now: 0..MaxTime]
  \cup [pc: {"credit", "put_back"}, tx: Txs, now: 0..MaxTime, record: Lapsed]

-----------------------------------------------------------------------------
(* Orders, and what can be read of them at a time.                         *)

lapses_at(o) ==
  o.created + (IF o.unclaimed THEN UNCLAIMED_LIFETIME ELSE ORDER_LIFETIME)

open_at(o, now) == o.paid = NoTx /\ now < lapses_at(o)

could_be_paid_at(l, at) == at >= l.created - CLOCK_SLACK /\ at < l.lapsed

\* Payment::pays, for the payment `p` and an order.
pays(p, o) == p.at >= o.created - CLOCK_SLACK /\ p.amt = o.amt

OpenOf(os, t, now) == {o \in os : o.tok = t /\ open_at(o, now)}
Open(os, now)      == {o \in os : open_at(o, now)}
Held(os, now)      == {o \in os : open_at(o, now) /\ ~o.unclaimed}

\* The claims tried on a set of orders.
Tries(os) == SumOf([o \in os |-> o.tries], os)

-----------------------------------------------------------------------------
(* Index: what is answered without the file.  It is a function of the      *)
(* orders it was made from, and is kept as them.                           *)

IndexOf(os) == [unread |-> FALSE, orders |-> os]
\* Mutant: a file that cannot be read is one with no orders.
MutUnread   == [unread |-> FALSE, orders |-> {}]

Unread      == [unread |-> TRUE, orders |-> {}]

room_for(t, now) ==
  \/ index.unread
  \/ /\ Cardinality(Open(index.orders, now)) < MAX_OPEN_ORDERS
     /\ Cardinality(OpenOf(index.orders, t, now)) < MAX_OPEN_PER_ACCOUNT

\* "nothing", "tries", "hold" or "file": the answer, or whether an order is
\* to be held before the file is asked.
known(t, now) ==
  LET open == OpenOf(index.orders, t, now)
      paid == \E o \in index.orders : /\ o.tok = t /\ o.paid # NoTx
                                      /\ now < o.created + KEEP_PAID
  IN  CASE index.unread -> "file"
        [] ~index.unread /\ open = {} /\ ~paid -> "nothing"
        [] ~index.unread /\ open = {} /\ paid -> "file"
        [] ~index.unread /\ open # {} ->
             IF ~paid /\ Tries(open) + Cardinality(open) > MAX_CLAIM_TRIES
             THEN "tries"
             ELSE IF /\ \E o \in open : o.unclaimed
                     /\ Cardinality(Held(index.orders, now)) < MAX_HELD_ORDERS
                  THEN "hold" ELSE "file"

-----------------------------------------------------------------------------
(* The orders file, loaded: what a change works on before it is saved.     *)
(* `lapsed` holds the records on their way to the lapsed file, `drop` the  *)
(* time up to which the records in it are to go.                           *)

book == [orders |-> orders, used |-> used, lapsed_pruned |-> lapsed_pruned,
         lapsed |-> <<>>, drop |-> -1 - LAPSED_KEPT]

RecordOf(o) == [id |-> o.id, tok |-> o.tok, amt |-> o.amt,
                created |-> o.created, lapsed |-> lapses_at(o),
                claimed |-> ~o.unclaimed]

\* What of a sequence is in a set, in the order of the sequence.
Only(s, S) ==
  LET kept[n \in 0..Len(s)] ==
        IF n = 0 THEN << >>
        ELSE IF s[n] \in S THEN Append(kept[n - 1], s[n]) ELSE kept[n - 1]
  IN  kept[Len(s)]

\* The lapsed file is rid of its old records once every so often.
due(b, now) == now >= b.lapsed_pruned + LAPSED_PRUNE_EVERY

\* Mutant: when it is next due, not when it was done.
MutNextDue(b, now) ==
  IF due(b, now) THEN now + LAPSED_PRUNE_EVERY ELSE b.lapsed_pruned

last_pruned(b, now) == IF due(b, now) THEN now ELSE b.lapsed_pruned

prune(b, now) ==
  LET gone == {o \in b.orders : o.paid = NoTx /\ ~open_at(o, now)}
      ids  == Only([i \in 1..MaxOrders |-> i], {o.id : o \in gone})
      all  == b.lapsed \o [n \in 1..Len(ids) |->
                RecordOf(CHOOSE o \in gone : o.id = ids[n])]
  IN  [orders |-> {o \in b.orders : \/ open_at(o, now)
                                    \/ /\ o.paid # NoTx
                                       /\ now < o.created + KEEP_PAID},
       used |-> {u \in b.used : now < u.at + KEEP_PAID},
       lapsed |-> Only(all, {l \in Range(all) : now < l.lapsed + LAPSED_KEPT}),
       lapsed_pruned |-> last_pruned(b, now),
       drop |-> IF due(b, now) THEN now - LAPSED_KEPT ELSE b.drop]

\* Mutant: one order too many.
MutRoomHeld(b, now) == 1 + MAX_HELD_ORDERS - Cardinality(Held(b.orders, now))

\* A claim reached the token's open orders: the oldest of them are held for
\* their whole life, as many as there is room for.
room_held(b, now) == MAX_HELD_ORDERS - Cardinality(Held(b.orders, now))

hold(b0, t, now) ==
  LET b    == prune(b0, now)
      mine == {o \in OpenOf(b.orders, t, now) : o.unclaimed}
      kept == {o \in mine :
                 Cardinality({p \in mine : p.id < o.id}) < room_held(b, now)}
  IN  [b EXCEPT !.orders = (@ \ kept)
                   \cup {[o EXCEPT !.unclaimed = FALSE] : o \in kept}]

\* One more claim tried on each of the token's open orders.
tried(b, t, now) ==
  LET mine == OpenOf(b.orders, t, now)
  IN  [b EXCEPT !.orders = (@ \ mine)
                   \cup {[o EXCEPT !.tries = @ + 1] : o \in mine}]

\* The records of the lapsed file, each order's first only.
read_lapsed(f) ==
  {f[i] : i \in {j \in 1..Len(f) :
     ~\E k \in 1..(j - 1) : /\ f[k].tok = f[j].tok /\ f[k].amt = f[j].amt
                            /\ f[k].created = f[j].created}}

UsedIn(us, x) == \E u \in us : u.tx = x
Freed(us, x)  == {u \in us : u.tx # x}

-----------------------------------------------------------------------------
(* Orders::update: the records that lapsed are added to the lapsed file,   *)
(* the old ones taken out of it, and then the orders file is saved.  The   *)
(* file's lock is held all along, so nobody sees the steps between; a      *)
(* failure, or a crash, leaves what was done by then.                      *)

\* The lapsed file without the records that lapsed by then.
Rewritten(f, drop) == Only(f, {l \in Range(f) : l.lapsed > drop})

Saved(b, f) ==
  /\ orders' = b.orders /\ used' = b.used
  /\ lapsed_pruned' = b.lapsed_pruned
  /\ lapsed_file' = Rewritten(f \o b.lapsed, b.drop)
  /\ UNCHANGED faults

Fault(kind) ==
  /\ kind \in Faults /\ faults < MaxFaults
  /\ faults' = faults + 1

\* Mutant: the orders file is saved before the records are added.
MutSavedFirst(b, f, kind) ==
  /\ Fault(kind)
  /\ orders' = b.orders /\ used' = b.used /\ lapsed_pruned' = b.lapsed_pruned
  /\ lapsed_file' = f

NotSaved(b, f, kind) ==
  /\ Fault(kind)
  /\ \/ \E n \in 0..Len(b.lapsed) : lapsed_file' = f \o SubSeq(b.lapsed, 1, n)
     \/ lapsed_file' = Rewritten(f \o b.lapsed, b.drop)
  /\ UNCHANGED <<orders, used, lapsed_pruned>>

\* Mutants: changes that do not wait for the lock; a lock never let go.
MutUnlocked == TRUE
MutUnlock   == UNCHANGED lock

\* The issuer's lock, a tokio mutex: nobody has it; its holder lets it go.
Unlocked == lock = Free
Unlock   == lock' = Free

\* The issuer's own changes, one at a time, each with the index after it.
change_orders(b) ==
  /\ Unlocked
  /\ Saved(b, lapsed_file)
  /\ index' = IndexOf(b.orders)

ChangeFails(b) ==
  /\ Unlocked
  /\ NotSaved(b, lapsed_file, "orders")
  /\ UNCHANGED index

-----------------------------------------------------------------------------
(* Accounts::credit: the pack goes to the account of the order's token.    *)

Credit(x, i) ==
  /\ credited' = [credited EXCEPT ![x] = @ + 1]
  /\ served' = [served EXCEPT ![i] = @ + 1]

-----------------------------------------------------------------------------
(* POST /quote.                                                            *)

QuoteAsk(t) ==
  /\ room_for(t, clock)
  /\ Cardinality(quotes) < MaxQuotes /\ made < MaxOrders
  /\ quotes' = quotes \cup {[tok |-> t, now |-> clock]}
  /\ UNCHANGED <<clock, file, index, lock, claim, hand, chain, accounts, made,
                 faults>>

\* The bucket turns the quote away, or the issuer has no room by now, or the
\* tags drawn were all taken: the file is pruned and no order opened.
open_refused(b, q) ==
  \/ Cardinality(Open(b.orders, q.now)) >= MAX_OPEN_ORDERS
  \/ Cardinality(OpenOf(b.orders, q.tok, q.now)) >= MAX_OPEN_PER_ACCOUNT
  \/ Open(b.orders, q.now) # {}

QuoteRefused(q) ==
  LET b == prune(book, q.now)
  IN  /\ quotes' = quotes \ {q}
      /\ \/ open_refused(b, q) /\ change_orders(b)
         \/ ChangeFails(b)
         \/ UNCHANGED <<file, index, faults>>
      /\ UNCHANGED <<clock, lock, claim, hand, chain, accounts, made>>

QuoteOpen(q) ==
  LET b == prune(book, q.now)
  IN  /\ made < MaxOrders
      /\ Cardinality(Open(b.orders, q.now)) < MAX_OPEN_ORDERS
      /\ Cardinality(OpenOf(b.orders, q.tok, q.now)) < MAX_OPEN_PER_ACCOUNT
      /\ \E a \in Amounts :
           /\ \A o \in Open(b.orders, q.now) : o.amt # a
           /\ change_orders([b EXCEPT !.orders = @ \cup
                {[id |-> made + 1, tok |-> q.tok, amt |-> a,
                  created |-> q.now, paid |-> NoTx, tries |-> 0,
                  unclaimed |-> TRUE]}])
      /\ made' = made + 1
      /\ quotes' = quotes \ {q}
      /\ UNCHANGED <<clock, lock, claim, hand, chain, accounts>>

-----------------------------------------------------------------------------
(* POST /claim, on a task of its own.                                      *)

Idle == [pc |-> "idle"]

Answer(c, a) ==
  claim' = [claim EXCEPT ![c] =
              [pc |-> "done", tok |-> @.tok, tx |-> @.tx, answer |-> a]]

\* The clock is read, and the index asked.
ClaimAsk(c, t, x) ==
  LET k == known(t, clock)
  IN  /\ claim[c].pc = "idle"
      /\ claim' = [claim EXCEPT ![c] =
           IF k \in {"nothing", "tries"}
           THEN [pc |-> "done", tok |-> t, tx |-> x, answer |-> k]
           ELSE [pc |-> IF k = "hold" THEN "hold" ELSE "pace",
                 tok |-> t, tx |-> x, now |-> clock]]
      /\ UNCHANGED <<clock, file, index, lock, quotes, hand, chain, accounts,
                     made, faults>>

\* The token's orders are held, before the claim is paced.
ClaimHold(c) ==
  LET b == hold(book, claim[c].tok, claim[c].now)
  IN  /\ claim[c].pc = "hold"
      /\ \/ change_orders(b) /\ claim' = [claim EXCEPT ![c].pc = "pace"]
         \/ ChangeFails(b) /\ Answer(c, "again")
      /\ UNCHANGED <<clock, lock, quotes, hand, chain, accounts, made>>

\* The token's own pace, or the issuer's bucket, turns the claim away.
ClaimPaced(c) ==
  /\ claim[c].pc = "pace"
  /\ Answer(c, "later")
  /\ UNCHANGED <<clock, file, index, lock, quotes, hand, chain, accounts, made,
                 faults>>

\* before_claim, in the order the code asks: the very order this transaction
\* paid, a transaction used already, no open order, too many tries.
ClaimBefore(c) ==
  LET k    == claim[c]
      b    == prune(book, k.now)
      b2   == tried(hold(b, k.tok, k.now), k.tok, k.now)
      open == OpenOf(b2.orders, k.tok, k.now)
      same == \E o \in b.orders : o.tok = k.tok /\ o.paid = k.tx
      answered(a, b0) == change_orders(b0) /\ Answer(c, a)
  IN  /\ k.pc = "pace"
      /\ \/ same /\ answered("already", b)
         \/ ~same /\ UsedIn(b.used, k.tx) /\ answered("used", b)
         \/ /\ ~same /\ ~UsedIn(b.used, k.tx)
            /\ \/ open = {} /\ answered("nothing", b2)
               \/ /\ open # {} /\ Tries(open) > MAX_CLAIM_TRIES
                  /\ answered("tries", b2)
               \/ /\ open # {} /\ Tries(open) <= MAX_CLAIM_TRIES
                  /\ change_orders(b2)
                  /\ claim' = [claim EXCEPT ![c] =
                       [pc |-> "chain", tok |-> k.tok, tx |-> k.tx,
                        now |-> k.now, open |-> open]]
         \/ /\ ChangeFails(IF same \/ UsedIn(b.used, k.tx) THEN b ELSE b2)
            /\ Answer(c, "again")
      /\ UNCHANGED <<clock, lock, quotes, hand, chain, accounts, made>>

\* The chain is asked, with no lock held, and says which order was paid.
ClaimChain(c) ==
  LET k    == claim[c]
      paid == {o \in k.open : pays(chain[k.tx], o)}
  IN  /\ k.pc = "chain"
      /\ \/ chain[k.tx] = NoPay /\ Answer(c, "unpaid")
         \/ Answer(c, "undecided")
         \/ chain[k.tx] # NoPay /\ paid = {} /\ Answer(c, "unpaid")
         \/ /\ chain[k.tx] # NoPay
            /\ \E o \in paid :
                 claim' = [claim EXCEPT ![c] =
                   [pc |-> "mark", tok |-> k.tok, tx |-> k.tx, now |-> k.now,
                    order |-> o]]
      /\ UNCHANGED <<clock, file, index, lock, quotes, hand, chain, accounts,
                     made, faults>>

\* mark_paid, under the issuer's lock, which is kept when it marks.  It looks
\* the order up again, by its token and its amount, at the claim's own time.
MarkedBy(k) == {o \in OpenOf(orders, k.tok, k.now) : o.amt = k.order.amt}

ClaimMark(c) ==
  LET k == claim[c]
  IN  /\ k.pc = "mark" /\ Unlocked
      /\ \/ /\ UsedIn(used, k.tx) \/ MarkedBy(k) = {}
            /\ change_orders(book)
            /\ Answer(c, IF UsedIn(used, k.tx) THEN "used" ELSE "nothing")
            /\ UNCHANGED lock
         \/ /\ ~UsedIn(used, k.tx)
            /\ \E o \in MarkedBy(k) :
                 LET b == [book EXCEPT
                             !.orders = (@ \ {o})
                                \cup {[o EXCEPT !.paid = k.tx]},
                             !.used = @ \cup {[tx |-> k.tx, at |-> k.now]}]
                 IN  /\ Saved(b, lapsed_file)
                     /\ claim' = [claim EXCEPT ![c] =
                          [pc |-> "credit", tok |-> k.tok, tx |-> k.tx,
                           now |-> k.now, order |-> k.order, marked |-> o,
                           orders |-> b.orders]]
            /\ lock' = c
            /\ UNCHANGED index
         \/ ChangeFails(book) /\ Answer(c, "again") /\ UNCHANGED lock
      /\ UNCHANGED <<clock, quotes, hand, chain, accounts, made>>

\* The account is credited, and the index set to the orders as marked; or
\* the accounts file could not be changed.
ClaimCredit(c) ==
  LET k == claim[c]
  IN  /\ k.pc = "credit"
      /\ \/ /\ Credit(k.tx, k.marked.id)
            /\ index' = IndexOf(k.orders)
            /\ Unlock
            /\ Answer(c, "credited")
            /\ UNCHANGED faults
         \/ /\ Fault("accounts")
            /\ claim' = [claim EXCEPT ![c].pc = "unmark"]
            /\ UNCHANGED <<accounts, index, lock>>
      /\ UNCHANGED <<clock, file, quotes, hand, chain, made>>

\* Mutant: the transaction is freed, the order left marked.
MutUnmark(b, k) == [b EXCEPT !.used = Freed(@, k.tx)]

\* unmark; whether it could be saved is not looked at.
unmark(b, k) ==
  LET mine == {o \in b.orders : /\ o.amt = k.order.amt /\ o.tok = k.tok
                                /\ o.paid = k.tx}
  IN  [b EXCEPT !.orders = (@ \ mine)
                   \cup {[o EXCEPT !.paid = NoTx] : o \in mine},
                !.used = Freed(@, k.tx)]

ClaimUnmark(c) ==
  LET k == claim[c]
      b == unmark(book, k)
  IN  /\ k.pc = "unmark"
      /\ \/ Saved(b, lapsed_file)
         \/ Fault("unmark") /\ UNCHANGED file
      /\ Unlock
      /\ Answer(c, "again")
      /\ UNCHANGED <<clock, index, quotes, hand, chain, accounts, made>>

-----------------------------------------------------------------------------
(* `order credit`: another process, without the issuer's lock.             *)

\* The operator saw the payment on the chain, and names its amount, its time
\* and, or not, whose order it was for.
HandStart(x, whose) ==
  /\ hand.pc = "idle" /\ chain[x] # NoPay
  /\ clock - chain[x].at < HandWithin
  /\ hand' = [pc |-> "take", tx |-> x, whose |-> whose, now |-> clock]
  /\ UNCHANGED <<clock, file, index, lock, quotes, claim, chain, accounts,
                 made, faults>>

\* Mutant: the record stays.
MutWithout(f, l) == f

\* The lapsed file rid of one record.
without(f, l) == Only(f, Range(f) \ {l})

\* take_lapsed, and the record taken out of the lapsed file.
HandTake ==
  LET b     == prune(book, hand.now)
      paid  == chain[hand.tx]
      kept  == {l \in read_lapsed(lapsed_file) : l.amt = paid.amt}
      fits  == {l \in kept \cup Range(b.lapsed) :
                  /\ l.amt = paid.amt /\ hand.now < l.lapsed + LAPSED_KEPT
                  /\ could_be_paid_at(l, paid.at) /\ l.tok \in hand.whose}
      one   == ~UsedIn(b.used, hand.tx) /\ Cardinality(fits) = 1
      l     == CHOOSE r \in fits : TRUE
      rest  == [b EXCEPT !.lapsed = without(@, l)]
      taken == [rest EXCEPT !.used = @ \cup {[tx |-> hand.tx,
                                              at |-> hand.now]}]
      file1 == IF l \in kept THEN without(lapsed_file, l) ELSE lapsed_file
  IN  /\ hand.pc = "take"
      /\ \/ ~one /\ Saved(b, lapsed_file) /\ hand' = Idle
         \/ ~one /\ NotSaved(b, lapsed_file, "hand") /\ hand' = Idle
         \/ /\ one
            /\ \/ /\ Saved(taken, file1)
                  /\ hand' = [pc |-> "credit", tx |-> hand.tx,
                              now |-> hand.now, record |-> l]
               \/ NotSaved(taken, file1, "hand") /\ hand' = Idle
               \/ NotSaved(rest, lapsed_file, "hand") /\ hand' = Idle
               \/ /\ l \in kept /\ Fault("hand") /\ hand' = Idle
                  /\ orders' = rest.orders /\ used' = rest.used
                  /\ lapsed_pruned' = rest.lapsed_pruned
                  /\ lapsed_file' = Rewritten(lapsed_file \o rest.lapsed, rest.drop)
      /\ UNCHANGED <<clock, index, lock, quotes, claim, chain, accounts, made>>

HandCredit ==
  /\ hand.pc = "credit"
  /\ \/ /\ Credit(hand.tx, hand.record.id)
        /\ hand' = Idle
        /\ UNCHANGED faults
     \/ /\ Fault("accounts")
        /\ hand' = [pc |-> "put_back", tx |-> hand.tx, now |-> hand.now,
                    record |-> hand.record]
        /\ UNCHANGED accounts
  /\ UNCHANGED <<clock, file, index, lock, quotes, claim, chain, made>>

HandPutBack ==
  LET b == [book EXCEPT !.lapsed = <<hand.record>>,
                        !.used = Freed(@, hand.tx)]
  IN  /\ hand.pc = "put_back"
      /\ Saved(b, lapsed_file) \/ NotSaved(b, lapsed_file, "hand")
      /\ hand' = Idle
      /\ UNCHANGED <<clock, index, lock, quotes, claim, chain, accounts, made>>

-----------------------------------------------------------------------------
(* Everything else.                                                        *)

\* A buyer, or anyone, pays the wallet; the chain's clock may be behind.
Pay(x, a) ==
  /\ chain[x] = NoPay
  /\ \E at \in (clock - CLOCK_SLACK)..clock :
       chain' = [chain EXCEPT ![x] = [amt |-> a, at |-> at]]
  /\ UNCHANGED <<clock, file, index, lock, quotes, claim, hand, accounts, made,
                 faults>>

\* The issuer stops at any point and is started again: its tasks are gone,
\* the index is read from the file, or could not be.
Crash ==
  /\ Fault("crash")
  /\ claim' = [c \in Claims |->
       IF claim[c].pc \in {"idle", "done"} THEN claim[c]
       ELSE [pc |-> "done", tok |-> claim[c].tok, tx |-> claim[c].tx,
             answer |-> "cut"]]
  /\ quotes' = {} /\ lock' = Free
  /\ index' \in {IndexOf(orders), Unread}
  /\ UNCHANGED <<clock, file, hand, chain, accounts, made>>

\* The operator's command is cut off between two of its steps.
Cut ==
  /\ Fault("cut") /\ hand.pc # "idle" /\ hand' = Idle
  /\ UNCHANGED <<clock, file, index, lock, quotes, claim, chain, accounts,
                 made>>

\* A reading of the clock that a task still uses.
InUse ==
  {q.now : q \in quotes}
  \cup {claim[c].now : c \in {d \in Claims : claim[d].pc \notin {"idle", "done"}}}
  \cup (IF hand.pc = "idle" THEN {} ELSE {hand.now})

\* Time passes; no task under way is older than Delay.
Tick ==
  /\ clock < MaxTime
  /\ \A n \in InUse : clock + 1 - n <= Delay
  /\ clock' = clock + 1
  /\ UNCHANGED <<file, index, lock, quotes, claim, hand, chain, accounts, made,
                 faults>>

-----------------------------------------------------------------------------
Init ==
  /\ clock = 0
  /\ orders = {} /\ used = {} /\ lapsed_pruned = 0 /\ lapsed_file = <<>>
  /\ index = IndexOf({}) /\ lock = Free
  /\ quotes = {} /\ claim = [c \in Claims |-> Idle] /\ hand = Idle
  /\ chain = [x \in Txs |-> NoPay]
  /\ credited = [x \in Txs |-> 0] /\ served = [i \in 1..MaxOrders |-> 0]
  /\ made = 0 /\ faults = 0

\* The task of a claim under way.
Work(c) ==
  \/ ClaimHold(c) \/ ClaimPaced(c) \/ ClaimBefore(c) \/ ClaimChain(c)
  \/ ClaimMark(c) \/ ClaimCredit(c) \/ ClaimUnmark(c)

Next ==
  \/ \E t \in Tokens : QuoteAsk(t)
  \/ \E q \in quotes : QuoteRefused(q) \/ QuoteOpen(q)
  \/ \E c \in Claims, t \in Tokens, x \in Txs : ClaimAsk(c, t, x)
  \/ \E c \in Claims : Work(c)
  \/ \E x \in Txs, whose \in {{t} : t \in Tokens} \cup {Tokens} :
       HandStart(x, whose)
  \/ HandTake \/ HandCredit \/ HandPutBack
  \/ \E x \in Txs, a \in Amounts : Pay(x, a)
  \/ Crash \/ Cut \/ Tick

Spec == Init /\ [][Next]_vars

\* The runtime goes on with every task: the issuer's lock is handed on in
\* turn, each lookup on the chain is given up after a while, and a file is
\* written or fails.
FairSpec == Spec /\ \A c \in Claims : WF_vars(Work(c))

-----------------------------------------------------------------------------
(* What the code promises.                                                 *)

\* The types of the files, the index, the tasks and the histories.
TypeOK ==
  /\ clock \in 0..MaxTime
  /\ orders \subseteq Order /\ used \subseteq Used
  /\ lapsed_pruned \in 0..MaxTime /\ lapsed_file \in Seq(Lapsed)
  /\ index \in [unread: BOOLEAN, orders: SUBSET Order]
  /\ lock \in Claims \cup {Free}
  /\ quotes \subseteq [tok: Tokens, now: 0..MaxTime]
  /\ claim \in [Claims -> Claim] /\ hand \in Hand
  /\ chain \in [Txs -> [amt: Amounts, at: Int] \cup {NoPay}]
  /\ credited \in [Txs -> Nat] /\ served \in [1..MaxOrders -> Nat]
  /\ made \in 0..MaxOrders
  /\ faults \in 0..MaxFaults

\* No two unpaid orders ask for the same amount (Orders::open draws one "no
\* other open order has"), whatever lapses, is marked or unmarked meanwhile:
\* the amount alone says which order a payment was for.
AmountsDistinct ==
  \A o, p \in orders :
    o.paid = NoTx /\ p.paid = NoTx /\ o.amt = p.amt => o = p

\* "A transaction that paid, remembered so it pays only once" (Used): no
\* transaction is credited for twice.
TxPaysOnce == \A x \in Txs : credited[x] <= 1

\* No order is credited twice, be it by two claims, or by a claim and by hand.
OrderCreditedOnce == \A i \in 1..MaxOrders : served[i] <= 1

\* A claim answered "already claimed" finds its transaction credited: the
\* answer gives the balance as it stands, and the client asks no more.
AlreadyMeansCredited ==
  \A c \in Claims : claim[c].pc = "done" /\ claim[c].answer = "already" =>
    credited[claim[c].tx] > 0

\* Nothing is lost: an order opened and never credited is in the orders file,
\* unpaid or being credited, or in the hands of the operator, or has a record
\* in the lapsed file, until the week its record is kept is over.
OrderKept ==
  \A i \in 1..made : served[i] = 0 =>
    \/ \E o \in orders : o.id = i /\ (o.paid = NoTx \/ lock # Free)
    \/ hand.pc \in {"credit", "put_back"} /\ hand.record.id = i
    \/ \E k \in 1..Len(lapsed_file) : lapsed_file[k].id = i
    \/ clock >= UNCLAIMED_LIFETIME + LAPSED_KEPT

\* The caps: orders open, orders of one token, and orders a claim holds.
CapsKept ==
  /\ Cardinality(Open(orders, clock)) <= MAX_OPEN_ORDERS
  /\ \A t \in Tokens :
       Cardinality(OpenOf(orders, t, clock)) <= MAX_OPEN_PER_ACCOUNT
  /\ Cardinality(Held(orders, clock)) <= MAX_HELD_ORDERS

\* A claim turned away from the index alone has nothing to claim in the file
\* either: "a token the index has no order for has none" (Index).  One turned
\* away for its tries would be by the file too, once no claim is between
\* marking and crediting.
IndexSound ==
  \A t \in Tokens :
    /\ known(t, clock) = "nothing" =>
         ~\E o \in orders : o.tok = t /\ open_at(o, clock)
    /\ lock = Free /\ known(t, clock) = "tries" =>
         Tries(OpenOf(tried(book, t, clock).orders, t, clock)) > MAX_CLAIM_TRIES

\* A claim made is answered: whoever holds the issuer's lock lets it go, and
\* nobody waits for it for ever.
ClaimAnswered(c) == claim[c].pc # "idle" ~> claim[c].pc = "done"

\* A paid order is credited once, and "already claimed" is said of nothing else.
CreditsExact == AlreadyMeansCredited /\ OrderCreditedOnce

\* The book at its limits, and the index that is answered from instead of it.
BookSound == CapsKept /\ IndexSound
=============================================================================
