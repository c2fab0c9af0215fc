-------------------------- MODULE OrderBookProofs --------------------------
(***************************************************************************)
(* A transaction pays once, and no two unpaid orders share an amount: for  *)
(* every number of tokens, amounts, transactions and claims, with every    *)
(* failure and crash of the model, as long as the tasks are Timely.        *)
(*                                                                         *)
(* The argument: whoever credits a transaction first finds it unused.  A   *)
(* transaction that was credited, or is being credited, is Remembered: it  *)
(* is among the used ones, or so much time has passed that it was let go.  *)
(* A claim, or the operator, that finds it unused is too young for the     *)
(* second, so it was never credited and nobody else holds it.              *)
(* "Already claimed" is answered only of a credited one.                   *)
(*                                                                         *)
(* A second invariant says where an order is until its pack is credited:   *)
(* it Stands in the orders file (a claim that marked it still has it as it *)
(* was), or has a record in the lapsed file, or the operator has the       *)
(* record.  It is in one of the places at most while no file of orders     *)
(* fails to be written, in one at least while nobody is cut off between    *)
(* two steps, and the index knows which ones stand while every mark can be *)
(* undone.  With the caps on the orders that stand this gives the theorems *)
(* at the end: a pack is credited once, no order is lost, and the caps and *)
(* the index are right.                                                    *)
(***************************************************************************)
EXTENDS OrderBook, SumTheorems, TLAPS

-----------------------------------------------------------------------------
(* The inductive invariant.                                                *)

\* The shape of what the proofs speak of; the lapsed records and the index
\* play no part.
Types ==
  /\ clock \in 0..MaxTime
  /\ orders \subseteq Order /\ used \subseteq Used
  /\ lock \in Claims \cup {Free}
  /\ quotes \subseteq [tok: Tokens, now: 0..MaxTime]
  /\ claim \in [Claims -> Claim]
  /\ hand.pc \in {"idle", "take", "credit", "put_back"}
  /\ hand.pc # "idle" => hand.tx \in Txs /\ hand.now \in 0..MaxTime
  /\ chain \in [Txs -> [amt: Amounts, at: Int] \cup {NoPay}]
  /\ credited \in [Txs -> Nat]
  /\ made \in 0..MaxOrders

Asked(k)  == k.pc \in {"hold", "pace", "chain", "mark", "credit", "unmark"}
Marked(k) == k.pc \in {"credit", "unmark"}
Taken     == hand.pc \in {"credit", "put_back"}

\* A reading of the clock in use is not from the future, and not too old.
Fresh(now) == now <= clock /\ clock <= now + Delay

\* What a claim found out before it marks: it is young, its orders were open
\* at its time, and its transaction is about as old as the order it pays.
Found(k) ==
  /\ Asked(k) => Fresh(k.now)
  /\ k.pc = "chain" => \A o \in k.open : k.now < o.created + ORDER_LIFETIME
  /\ k.pc \in {"mark", "credit", "unmark"} =>
       /\ chain[k.tx] # NoPay
       /\ chain[k.tx].at >= k.order.created - CLOCK_SLACK
       /\ k.now < k.order.created + ORDER_LIFETIME

\* Nothing is from the future, and what the operator saw on the chain.
Times ==
  /\ \A x \in Txs : chain[x] # NoPay => chain[x].at <= clock
  /\ \A q \in quotes : Fresh(q.now)
  /\ \A c \in Claims : Found(claim[c])
  /\ hand.pc # "idle" => /\ Fresh(hand.now) /\ chain[hand.tx] # NoPay
                         /\ hand.now - chain[hand.tx].at < HandWithin

\* The transactions used were used when, or soon before, they were seen.
UsedRight ==
  \A u \in used : chain[u.tx] # NoPay /\ chain[u.tx].at <= u.at + Delay

\* Someone has to do with the transaction.
Busy(x) ==
  \/ credited[x] > 0
  \/ \E o \in orders : o.paid = x
  \/ \E c \in Claims : Marked(claim[c]) /\ claim[c].tx = x
  \/ Taken /\ hand.tx = x

Remembered(x) ==
  UsedIn(used, x) \/ clock + Delay >= chain[x].at + KEEP_PAID

Memory == \A x \in Txs : Busy(x) => chain[x] # NoPay /\ Remembered(x)

\* Whoever holds a transaction holds it alone, and it was not credited.  A
\* claim holds the issuer's lock, and the only order its transaction marks.
Holders ==
  /\ \A c \in Claims : Marked(claim[c]) =>
       /\ lock = c /\ credited[claim[c].tx] = 0
       /\ ~(Taken /\ hand.tx = claim[c].tx)
       /\ \A o \in orders : o.paid = claim[c].tx =>
            /\ o.amt = claim[c].order.amt /\ o.tok = claim[c].tok
            /\ \A p \in orders :
                 p.paid \in {NoTx, claim[c].tx} /\ p.amt = o.amt => p = o
  /\ Taken => /\ credited[hand.tx] = 0
              /\ \A o \in orders : o.paid # hand.tx

\* The part of the invariant the files and the histories play a part in.
Safe == UsedRight /\ Memory /\ Holders /\ AmountsDistinct /\ TxPaysOnce

OrderInv == Types /\ Times /\ Safe

-----------------------------------------------------------------------------
(* What a change of the loaded file does to the orders and the used        *)
(* transactions.                                                           *)

Distinct(S) ==
  \A o, p \in S : o.paid = NoTx /\ p.paid = NoTx /\ o.amt = p.amt => o = p

\* Every paid order of S was paid, by the same transaction, in R.
PaidIn(S, R) ==
  \A o \in S : o.paid # NoTx => \E p \in R : p.paid = o.paid

\* A loaded file, as far as it matters here.
IsBook(b) ==
  /\ b = [orders |-> b.orders, used |-> b.used, lapsed |-> b.lapsed,
          lapsed_pruned |-> b.lapsed_pruned, drop |-> b.drop]
  /\ b.orders \subseteq Order /\ b.used \subseteq Used

\* The file as it is loaded.
LEMMA BookIsBook == Types => IsBook(book) /\ book.orders = orders /\ book.used = used
  BY DEF Types, IsBook, book

\* prune keeps only what was there, and the transactions used not long ago.
LEMMA PruneKeeps ==
  ASSUME NEW b, NEW now \in 0..MaxTime, IsBook(b)
  PROVE  /\ IsBook(prune(b, now))
         /\ prune(b, now).orders \subseteq b.orders
         /\ prune(b, now).used = {u \in b.used : now < u.at + KEEP_PAID}
  BY DEF prune, IsBook

\* hold changes only whether a claim reached an order.
LEMMA HoldKeeps ==
  ASSUME NEW b, NEW t \in Tokens, NEW now \in 0..MaxTime, IsBook(b)
  PROVE  /\ IsBook(hold(b, t, now))
         /\ PaidIn(hold(b, t, now).orders, b.orders)
         /\ Distinct(b.orders) => Distinct(hold(b, t, now).orders)
         /\ hold(b, t, now).used = {u \in b.used : now < u.at + KEEP_PAID}
<1> DEFINE p    == prune(b, now)
           mine == {o \in OpenOf(p.orders, t, now) : o.unclaimed}
           kept == {o \in mine :
                      Cardinality({q \in mine : q.id < o.id}) < room_held(p, now)}
           new  == (p.orders \ kept)
                     \cup {[o EXCEPT !.unclaimed = FALSE] : o \in kept}
<1>1. /\ IsBook(p) /\ p.orders \subseteq b.orders
      /\ p.used = {u \in b.used : now < u.at + KEEP_PAID}
  BY PruneKeeps
<1>2. hold(b, t, now) = [p EXCEPT !.orders = new]
  BY DEF hold
<1>3. kept \subseteq p.orders
  BY DEF OpenOf
<1> HIDE DEF p, mine, kept
<1>4. ASSUME NEW o \in kept
      PROVE  /\ [o EXCEPT !.unclaimed = FALSE] \in Order
             /\ [o EXCEPT !.unclaimed = FALSE].paid = o.paid
             /\ [o EXCEPT !.unclaimed = FALSE].amt = o.amt
  <2>1. o \in Order
    BY <1>1, <1>3 DEF IsBook
  <2> QED BY <2>1 DEF Order
<1>5. new \subseteq Order
  BY <1>1, <1>3, <1>4 DEF IsBook
<1>6. PaidIn(new, b.orders)
  <2> SUFFICES ASSUME NEW o \in new PROVE \E q \in b.orders : q.paid = o.paid
    BY DEF PaidIn
  <2>1. CASE o \in p.orders
    BY <1>1, <2>1
  <2>2. CASE \E q \in kept : o = [q EXCEPT !.unclaimed = FALSE]
    BY <1>1, <1>3, <1>4, <2>2
  <2> QED BY <2>1, <2>2
<1>7. ASSUME Distinct(b.orders) PROVE Distinct(new)
  <2> SUFFICES ASSUME NEW o \in new, NEW q \in new,
                      o.paid = NoTx, q.paid = NoTx, o.amt = q.amt
               PROVE  o = q
    BY DEF Distinct
  <2>1. PICK o1 \in p.orders : /\ o1.paid = o.paid /\ o1.amt = o.amt
                               /\ (o1 \notin kept /\ o = o1)
                                  \/ (o1 \in kept /\ o = [o1 EXCEPT !.unclaimed = FALSE])
    BY <1>3, <1>4
  <2>2. PICK q1 \in p.orders : /\ q1.paid = q.paid /\ q1.amt = q.amt
                               /\ (q1 \notin kept /\ q = q1)
                                  \/ (q1 \in kept /\ q = [q1 EXCEPT !.unclaimed = FALSE])
    BY <1>3, <1>4
  <2>3. o1 = q1
    BY <1>1, <1>7, <2>1, <2>2 DEF Distinct
  <2> QED BY <2>1, <2>2, <2>3
<1>8. /\ hold(b, t, now).orders = new /\ hold(b, t, now).used = p.used
      /\ IsBook(hold(b, t, now))
  <2> HIDE DEF new
  <2> QED BY <1>1, <1>2, <1>5 DEF IsBook
<1> QED BY <1>1, <1>6, <1>7, <1>8

\* tried changes only how often an order was tried.
LEMMA TriedKeeps ==
  ASSUME NEW b, NEW t \in Tokens, NEW now \in 0..MaxTime, IsBook(b)
  PROVE  /\ IsBook(tried(b, t, now))
         /\ PaidIn(tried(b, t, now).orders, b.orders)
         /\ Distinct(b.orders) => Distinct(tried(b, t, now).orders)
         /\ tried(b, t, now).used = b.used
<1> DEFINE mine == OpenOf(b.orders, t, now)
           new  == (b.orders \ mine) \cup {[o EXCEPT !.tries = @ + 1] : o \in mine}
<1>2. tried(b, t, now) = [b EXCEPT !.orders = new]
  BY DEF tried
<1>3. mine \subseteq b.orders
  BY DEF OpenOf
<1> HIDE DEF mine
<1>4. \A o \in mine : /\ [o EXCEPT !.tries = @ + 1] \in Order
                      /\ [o EXCEPT !.tries = @ + 1].paid = o.paid
                      /\ [o EXCEPT !.tries = @ + 1].amt = o.amt
  BY <1>3 DEF IsBook, Order
<1>5. new \subseteq Order
  BY <1>3, <1>4 DEF IsBook
<1>6. PaidIn(new, b.orders)
  BY <1>3, <1>4 DEF PaidIn
<1>7. ASSUME Distinct(b.orders) PROVE Distinct(new)
  <2> SUFFICES ASSUME NEW o \in new, NEW q \in new,
                      o.paid = NoTx, q.paid = NoTx, o.amt = q.amt
               PROVE  o = q
    BY DEF Distinct
  <2>a. ASSUME NEW n \in new
        PROVE  \E r \in b.orders : /\ r.paid = n.paid /\ r.amt = n.amt
                                   /\ (r \notin mine /\ n = r)
                                      \/ (r \in mine /\ n = [r EXCEPT !.tries = @ + 1])
    <3>1. CASE n \in b.orders \ mine
      BY <3>1
    <3>2. CASE \E r \in mine : n = [r EXCEPT !.tries = @ + 1]
      BY <3>2, <1>3, <1>4
    <3> QED BY <3>1, <3>2
  <2>1. PICK o1 \in b.orders : /\ o1.paid = o.paid /\ o1.amt = o.amt
                               /\ (o1 \notin mine /\ o = o1)
                                  \/ (o1 \in mine /\ o = [o1 EXCEPT !.tries = @ + 1])
    BY <2>a, Zenon
  <2>2. PICK q1 \in b.orders : /\ q1.paid = q.paid /\ q1.amt = q.amt
                               /\ (q1 \notin mine /\ q = q1)
                                  \/ (q1 \in mine /\ q = [q1 EXCEPT !.tries = @ + 1])
    BY <2>a, Zenon
  <2>3. o1 = q1
    BY <1>7, <2>1, <2>2 DEF Distinct
  <2> QED BY <2>1, <2>2, <2>3
<1>8. /\ tried(b, t, now).orders = new /\ tried(b, t, now).used = b.used
      /\ IsBook(tried(b, t, now))
  <2> HIDE DEF new
  <2> QED BY <1>2, <1>5 DEF IsBook
<1> QED BY <1>6, <1>7, <1>8

-----------------------------------------------------------------------------
(* Types.                                                                  *)

\* What a claim holds at each of its steps.
LEMMA ClaimFields ==
  ASSUME NEW k \in Claim
  PROVE  /\ k.pc \in {"idle", "done", "hold", "pace", "chain", "mark",
                      "credit", "unmark"}
         /\ k.pc # "idle" => k.tok \in Tokens /\ k.tx \in Txs
         /\ k.pc \notin {"idle", "done"} => k.now \in 0..MaxTime
         /\ k.pc = "chain" => k.open \subseteq Order
         /\ k.pc \in {"mark", "credit", "unmark"} => k.order \in Order
         /\ k.pc = "hold" =>
              [k EXCEPT !.pc = "pace"] = [pc |-> "pace", tok |-> k.tok,
                                          tx |-> k.tx, now |-> k.now]
         /\ k.pc = "credit" =>
              /\ [k EXCEPT !.pc = "unmark"] \in Claim
              /\ [k EXCEPT !.pc = "unmark"].pc = "unmark"
              /\ [k EXCEPT !.pc = "unmark"].tok = k.tok
              /\ [k EXCEPT !.pc = "unmark"].tx = k.tx
              /\ [k EXCEPT !.pc = "unmark"].now = k.now
              /\ [k EXCEPT !.pc = "unmark"].order = k.order
<1>1. CASE k.pc = "idle" BY <1>1 DEF Claim
<1>2. CASE k.pc = "done" BY <1>2 DEF Claim
<1>3. CASE k.pc \in {"hold", "pace"} BY <1>3 DEF Claim
<1>4. CASE k.pc = "chain" BY <1>4 DEF Claim
<1>5. CASE k.pc = "mark" BY <1>5 DEF Claim
<1>6. CASE k.pc \in {"credit", "unmark"} BY <1>6 DEF Claim
<1>7. k.pc \in {"idle", "done", "hold", "pace", "chain", "mark",
                "credit", "unmark"}
  BY DEF Claim
<1> QED BY <1>1, <1>2, <1>3, <1>4, <1>5, <1>6, <1>7

\* An answer is the end of a claim.
LEMMA AnswerEnds ==
  ASSUME Types, NEW c \in Claims, NEW a \in Answers, claim[c].pc # "idle",
         Answer(c, a)
  PROVE  /\ claim' \in [Claims -> Claim]
         /\ claim'[c].pc = "done"
         /\ \A d \in Claims : d # c => claim'[d] = claim[d]
<1>1. claim[c].tok \in Tokens /\ claim[c].tx \in Txs
  BY ClaimFields DEF Types
<1>2. [pc |-> "done", tok |-> claim[c].tok, tx |-> claim[c].tx, answer |-> a]
        \in Claim
  BY <1>1 DEF Claim
<1> QED BY <1>2 DEF Types, Answer

\* A change that is saved, or is not, leaves files of the right shape.
LEMMA FilesTyped ==
  ASSUME Types, NEW b, b.orders \subseteq Order, b.used \subseteq Used, NEW f,
         NEW kind, Saved(b, f) \/ NotSaved(b, f, kind)
  PROVE  (orders' \subseteq Order)  /\ (used' \subseteq Used)
BY DEF Types, Saved, NotSaved

\* The loaded file with other orders and used transactions.
LEMMA EditBook ==
  ASSUME NEW S, NEW U
  PROVE  /\ [book EXCEPT !.orders = S, !.used = U].orders = S
         /\ [book EXCEPT !.orders = S, !.used = U].used = U
BY DEF book

\* The file with one order marked as paid.
MarkIn(o, x, now) ==
  [book EXCEPT !.orders = (@ \ {o}) \cup {[o EXCEPT !.paid = x]},
               !.used = @ \cup {[tx |-> x, at |-> now]}]

\* What marking an order changes.
LEMMA MarkBook ==
  ASSUME Types, NEW o \in orders, NEW x \in Txs, NEW now \in 0..MaxTime
  PROVE  /\ MarkIn(o, x, now).orders \subseteq Order
         /\ MarkIn(o, x, now).used \subseteq Used
         /\ MarkIn(o, x, now).orders = (orders \ {o}) \cup {[o EXCEPT !.paid = x]}
         /\ MarkIn(o, x, now).used = used \cup {[tx |-> x, at |-> now]}
<1>1. [o EXCEPT !.paid = x] \in Order
  BY DEF Types, Order
<1>2. [tx |-> x, at |-> now] \in Used
  BY DEF Used
<1> DEFINE S == (orders \ {o}) \cup {[o EXCEPT !.paid = x]}
           U == used \cup {[tx |-> x, at |-> now]}
<1>3. S \subseteq Order /\ U \subseteq Used
  BY <1>1, <1>2 DEF Types
<1>4. MarkIn(o, x, now) = [book EXCEPT !.orders = S, !.used = U]
  BY DEF book, MarkIn
<1> HIDE DEF S, U
<1>5. MarkIn(o, x, now).orders = S /\ MarkIn(o, x, now).used = U
  BY <1>4, EditBook
<1> QED BY <1>3, <1>5 DEF S, U

\* The orders a claim unmarks: those of its token and amount its transaction
\* paid.
Unmarks(k) == {o \in orders : /\ o.amt = k.order.amt /\ o.tok = k.tok
                              /\ o.paid = k.tx}

\* What unmark makes of the file.
LEMMA UnmarkBook ==
  ASSUME Types, NEW k \in Claim, k.pc = "unmark"
  PROVE  /\ unmark(book, k).orders \subseteq Order
         /\ unmark(book, k).used \subseteq Used
         /\ unmark(book, k).orders
              = (orders \ Unmarks(k))
                   \cup {[o EXCEPT !.paid = NoTx] : o \in Unmarks(k)}
         /\ unmark(book, k).used = {u \in used : u.tx # k.tx}
         /\ \A o \in Unmarks(k) : /\ [o EXCEPT !.paid = NoTx] \in Order
                                  /\ [o EXCEPT !.paid = NoTx].paid = NoTx
                                  /\ [o EXCEPT !.paid = NoTx].amt = o.amt
<1> DEFINE S == (orders \ Unmarks(k))
                  \cup {[o EXCEPT !.paid = NoTx] : o \in Unmarks(k)}
           U == {u \in used : u.tx # k.tx}
<1>1. unmark(book, k) = [book EXCEPT !.orders = S, !.used = U]
  BY DEF unmark, book, Freed, Unmarks
<1>2. \A o \in Unmarks(k) : /\ [o EXCEPT !.paid = NoTx] \in Order
                            /\ [o EXCEPT !.paid = NoTx].paid = NoTx
                            /\ [o EXCEPT !.paid = NoTx].amt = o.amt
  BY DEF Types, Order, Unmarks
<1>3. S \subseteq Order /\ U \subseteq Used
  BY <1>2 DEF Types
<1> HIDE DEF S, U
<1>4. unmark(book, k).orders = S /\ unmark(book, k).used = U
  BY <1>1, EditBook
<1> QED BY <1>2, <1>3, <1>4 DEF S, U

-----------------------------------------------------------------------------
(* A change to the orders file that marks and frees nothing.               *)

\* A loaded file that may be saved in place of the orders and the used ones.
Shrunk(b, now) ==
  /\ IsBook(b) /\ PaidIn(b.orders, orders) /\ Distinct(b.orders)
  /\ b.used \subseteq used
  /\ \A u \in used : now < u.at + KEEP_PAID => u \in b.used

\* The same of the files, before and after a step.
FileStep(now) ==
  /\ orders' \subseteq Order /\ used' \subseteq Used
  /\ PaidIn(orders', orders) /\ Distinct(orders')
  /\ used' \subseteq used
  /\ \A u \in used : now < u.at + KEEP_PAID => u \in used'

\* prune is such a change.
LEMMA PruneShrinks ==
  ASSUME Types, AmountsDistinct, NEW now \in 0..MaxTime
  PROVE  Shrunk(prune(book, now), now)
<1>1. IsBook(book) /\ book.orders = orders /\ book.used = used
  BY BookIsBook
<1>2. /\ IsBook(prune(book, now))
      /\ prune(book, now).orders \subseteq orders
      /\ prune(book, now).used = {u \in used : now < u.at + KEEP_PAID}
  BY <1>1, PruneKeeps
<1> QED BY <1>2 DEF Shrunk, PaidIn, Distinct, AmountsDistinct

\* hold is such a change.
LEMMA HoldShrinks ==
  ASSUME Types, AmountsDistinct, NEW t \in Tokens, NEW now \in 0..MaxTime
  PROVE  Shrunk(hold(book, t, now), now)
<1>1. IsBook(book) /\ book.orders = orders /\ book.used = used
  BY BookIsBook
<1>2. Distinct(book.orders)
  BY <1>1 DEF Distinct, AmountsDistinct
<1>3. /\ IsBook(hold(book, t, now))
      /\ PaidIn(hold(book, t, now).orders, orders)
      /\ Distinct(hold(book, t, now).orders)
      /\ hold(book, t, now).used = {u \in used : now < u.at + KEEP_PAID}
  BY <1>1, <1>2, HoldKeeps
<1> QED BY <1>3 DEF Shrunk

\* What before_claim does to the file is such a change.
LEMMA BeforeShrinks ==
  ASSUME Types, AmountsDistinct, NEW t \in Tokens, NEW now \in 0..MaxTime
  PROVE  Shrunk(tried(hold(prune(book, now), t, now), t, now), now)
<1> DEFINE b == prune(book, now)
           h == hold(b, t, now)
           r == tried(h, t, now)
<1>1. Shrunk(b, now)
  BY PruneShrinks
<1> HIDE DEF b
<1>2. /\ IsBook(h) /\ PaidIn(h.orders, b.orders) /\ Distinct(h.orders)
      /\ h.used = {u \in b.used : now < u.at + KEEP_PAID}
  BY <1>1, HoldKeeps DEF Shrunk
<1> HIDE DEF h
<1>3. /\ IsBook(r) /\ PaidIn(r.orders, h.orders) /\ Distinct(r.orders)
      /\ r.used = h.used
  BY <1>2, TriedKeeps
<1> HIDE DEF r
<1>4. PaidIn(r.orders, orders)
  BY <1>1, <1>2, <1>3 DEF Shrunk, PaidIn
<1>5. Shrunk(r, now)
  BY <1>1, <1>2, <1>3, <1>4 DEF Shrunk
<1> QED BY <1>5 DEF r, h, b

\* Such a change, saved or not, is a FileStep.
LEMMA ShrunkSteps ==
  ASSUME Types, AmountsDistinct, NEW now, NEW b, Shrunk(b, now), NEW f, NEW kind,
         Saved(b, f) \/ NotSaved(b, f, kind) \/ UNCHANGED <<orders, used>>
  PROVE  FileStep(now)
<1>1. CASE Saved(b, f)
  BY <1>1 DEF Shrunk, FileStep, Saved, IsBook
<1>2. CASE UNCHANGED <<orders, used>>
  BY <1>2 DEF Types, FileStep, PaidIn, Distinct, AmountsDistinct
<1>3. CASE NotSaved(b, f, kind)
  BY <1>2, <1>3 DEF NotSaved
<1> QED BY <1>1, <1>2, <1>3

-----------------------------------------------------------------------------
(* What is remembered.                                                     *)

\* A transaction prune lets go of is old enough to be let go of.
LEMMA StillRemembered ==
  ASSUME Types, UsedRight, NEW now \in 0..MaxTime, now <= clock,
         FileStep(now), UNCHANGED <<clock, chain>>,
         NEW x \in Txs, Remembered(x), chain[x] # NoPay
  PROVE  Remembered(x)'
<1>1. CASE clock + Delay >= chain[x].at + KEEP_PAID
  BY <1>1 DEF Remembered
<1>2. CASE UsedIn(used, x)
  <2>1. PICK u \in used : u.tx = x
    BY <1>2 DEF UsedIn
  <2>2. CASE now < u.at + KEEP_PAID
    BY <2>1, <2>2 DEF FileStep, Remembered, UsedIn
  <2>3. CASE ~(now < u.at + KEEP_PAID)
    <3>1. /\ chain[x].at <= u.at + Delay
          /\ u.at \in Int /\ chain[x].at \in Int /\ clock \in Int /\ now \in Int
          /\ Delay \in Int /\ KEEP_PAID \in Int
      BY <2>1, LifetimesAssumption, ModelAssumption
      DEF UsedRight, Types, Used, KEEP_PAID
    <3>2. clock + Delay >= chain[x].at + KEEP_PAID
      BY <2>3, <3>1
    <3> QED BY <3>2 DEF Remembered
  <2> QED BY <2>2, <2>3
<1> QED BY <1>1, <1>2 DEF Remembered

\* A FileStep frees no transaction and adds none.
LEMMA FileStepUsed ==
  ASSUME Types, UsedRight, NEW now \in 0..MaxTime, FileStep(now),
         UNCHANGED chain
  PROVE  UsedRight'
BY DEF UsedRight, FileStep

\* A change the issuer makes while nobody holds its lock.
LEMMA IssuerStep ==
  ASSUME Types, Safe, NEW now \in 0..MaxTime, now <= clock, FileStep(now),
         lock = Free, UNCHANGED <<clock, chain, credited, hand>>,
         \A c \in Claims : ~Marked(claim'[c])
  PROVE  Safe'
<1>1. \A c \in Claims : ~Marked(claim[c])
  BY ModelAssumption DEF Safe, Holders
<1>2. UsedRight'
  BY FileStepUsed DEF Safe
<1>3. Memory'
  <2> SUFFICES ASSUME NEW x \in Txs, Busy(x)'
               PROVE  (chain[x] # NoPay)' /\ Remembered(x)'
    BY DEF Memory
  <2>1. x # NoTx
    BY ModelAssumption
  <2>2. Busy(x)
    BY <2>1 DEF Busy, FileStep, PaidIn, Taken
  <2>3. chain[x] # NoPay /\ Remembered(x)
    BY <2>2 DEF Safe, Memory
  <2> QED BY <2>3, StillRemembered DEF Safe
<1>4. Holders'
  <2>1. ASSUME Taken' PROVE hand.tx # NoTx /\ Taken
    BY <2>1, ModelAssumption DEF Taken, Types
  <2>2. ASSUME Taken' PROVE (\A o \in orders : o.paid # hand.tx)'
    BY <2>1, <2>2 DEF Safe, Holders, FileStep, PaidIn
  <2> QED BY <2>1, <2>2 DEF Safe, Holders
<1>5. AmountsDistinct'
  BY DEF FileStep, Distinct, AmountsDistinct
<1>6. TxPaysOnce'
  BY DEF Safe, TxPaysOnce
<1> QED BY <1>2, <1>3, <1>4, <1>5, <1>6 DEF Safe

\* A step that leaves the file and the accounts alone: nobody begins to hold
\* a transaction.
LEMMA StillStep ==
  ASSUME Types, Safe, UNCHANGED <<orders, used, credited>>,
         clock' \in Int, clock <= clock',
         \A x \in Txs : chain[x] # NoPay => chain'[x] = chain[x],
         \A c \in Claims : Marked(claim'[c]) =>
           /\ Marked(claim[c]) /\ lock' = lock
           /\ claim'[c].tx = claim[c].tx /\ claim'[c].tok = claim[c].tok
           /\ claim'[c].order = claim[c].order,
         Taken' => Taken /\ hand'.tx = hand.tx
  PROVE  Safe'
<1>1. UsedRight'
  <2> SUFFICES ASSUME NEW u \in used
               PROVE  (chain[u.tx] # NoPay)' /\ (chain[u.tx].at <= u.at + Delay)'
    BY DEF UsedRight
  <2>1. u.tx \in Txs
    BY DEF Types, Used
  <2> QED BY <2>1 DEF Safe, UsedRight
<1>2. Memory'
  <2> SUFFICES ASSUME NEW x \in Txs, Busy(x)'
               PROVE  (chain[x] # NoPay)' /\ Remembered(x)'
    BY DEF Memory
  <2>1. Busy(x)
    BY DEF Busy
  <2>2. chain[x] # NoPay /\ Remembered(x)
    BY <2>1 DEF Safe, Memory
  <2>3. CASE UsedIn(used, x)
    BY <2>2, <2>3 DEF Remembered
  <2>4. CASE clock + Delay >= chain[x].at + KEEP_PAID
    <3>1. chain[x].at \in Int /\ clock \in Int /\ Delay \in Int /\ KEEP_PAID \in Int
      BY <2>2, LifetimesAssumption, ModelAssumption DEF Types, KEEP_PAID
    <3>2. clock' + Delay >= chain[x].at + KEEP_PAID
      BY <2>4, <3>1
    <3> QED BY <2>2, <3>2 DEF Remembered
  <2> QED BY <2>2, <2>3, <2>4 DEF Remembered
<1>3. Holders'
  <2>1. ASSUME NEW c \in Claims, Marked(claim'[c])
        PROVE  /\ lock' = c /\ credited'[claim'[c].tx] = 0
               /\ ~(Taken' /\ hand'.tx = claim'[c].tx)
               /\ \A o \in orders : o.paid = claim'[c].tx =>
                    /\ o.amt = claim'[c].order.amt /\ o.tok = claim'[c].tok
                    /\ \A p \in orders :
                         p.paid \in {NoTx, claim'[c].tx} /\ p.amt = o.amt => p = o
    BY <2>1 DEF Safe, Holders
  <2>2. Taken' => /\ credited[hand'.tx] = 0
                  /\ \A o \in orders : o.paid # hand'.tx
    BY DEF Safe, Holders
  <2> QED BY <2>1, <2>2 DEF Holders
<1>4. AmountsDistinct' /\ TxPaysOnce'
  BY DEF Safe, AmountsDistinct, TxPaysOnce
<1> QED BY <1>1, <1>2, <1>3, <1>4 DEF Safe

-----------------------------------------------------------------------------
(* Quotes.                                                                 *)

\* A quote is asked for.
LEMMA QuoteAskKeeps ==
  ASSUME OrderInv, NEW t \in Tokens, QuoteAsk(t)
  PROVE  OrderInv'
<1> USE DEF QuoteAsk, file, accounts
<1>1. Types'
  BY DEF OrderInv, Types
<1>2. Times'
  BY ModelAssumption DEF OrderInv, Types, Times, Fresh, Found
<1>3. Safe'
  <2>1. clock' \in Int /\ clock <= clock'
    BY DEF OrderInv, Types
  <2> QED BY <2>1, StillStep DEF OrderInv, Taken
<1> QED BY <1>1, <1>2, <1>3 DEF OrderInv

\* A step of a quote that is refused, or opens its order.
LEMMA QuoteKeeps ==
  ASSUME OrderInv, NEW q \in quotes, FileStep(q.now),
         lock = Free \/ UNCHANGED <<orders, used>>,
         quotes' = quotes \ {q}, made' \in 0..MaxOrders,
         UNCHANGED <<clock, lock, claim, hand, chain, credited>>
  PROVE  OrderInv'
<1>1. q.now \in 0..MaxTime /\ q.now <= clock /\ clock \in Int
  BY DEF OrderInv, Types, Times, Fresh
<1>2. Types'
  BY DEF OrderInv, Types, FileStep
<1>3. Times'
  BY DEF OrderInv, Times, Fresh, Found
<1>4. CASE lock = Free
  <2>1. \A c \in Claims : ~Marked(claim'[c])
    BY <1>4, ModelAssumption DEF OrderInv, Safe, Holders
  <2>2. Safe'
    BY <1>1, <1>4, <2>1, IssuerStep DEF OrderInv
  <2> QED BY <1>2, <1>3, <2>2 DEF OrderInv
<1>5. CASE UNCHANGED <<orders, used>>
  <2>1. Safe'
    BY <1>1, <1>5, StillStep DEF OrderInv, Taken
  <2> QED BY <1>2, <1>3, <2>1 DEF OrderInv
<1> QED BY <1>4, <1>5

\* A quote is refused, with the file pruned or left alone.
LEMMA QuoteRefusedKeeps ==
  ASSUME OrderInv, NEW q \in quotes, QuoteRefused(q)
  PROVE  OrderInv'
<1> DEFINE b == prune(book, q.now)
<1>1. q.now \in 0..MaxTime
  BY DEF OrderInv, Types
<1>2. Shrunk(b, q.now)
  BY <1>1, PruneShrinks DEF OrderInv, Safe
<1> HIDE DEF b
<1>3. /\ quotes' = quotes \ {q}
      /\ UNCHANGED <<clock, lock, claim, hand, chain, credited, made>>
      /\ \/ change_orders(b)
         \/ ChangeFails(b)
         \/ UNCHANGED <<orders, used>>
  BY DEF QuoteRefused, b, file, accounts
<1>4. /\ \/ Saved(b, lapsed_file) \/ NotSaved(b, lapsed_file, "orders")
         \/ UNCHANGED <<orders, used>>
      /\ lock = Free \/ UNCHANGED <<orders, used>>
  BY <1>3 DEF change_orders, ChangeFails, Unlocked
<1>5. FileStep(q.now)
  BY <1>2, <1>4, ShrunkSteps DEF OrderInv, Safe
<1>6. made' \in 0..MaxOrders
  BY <1>3 DEF OrderInv, Types
<1> QED BY <1>3, <1>4, <1>5, <1>6, QuoteKeeps

\* A quote opens an order, at an amount no order left by prune has unpaid.
LEMMA QuoteOpenKeeps ==
  ASSUME OrderInv, NEW q \in quotes, QuoteOpen(q)
  PROVE  OrderInv'
<1> DEFINE b == prune(book, q.now)
<1>1. q.now \in 0..MaxTime /\ q.tok \in Tokens
  BY DEF OrderInv, Types
<1>2. Shrunk(b, q.now)
  BY <1>1, PruneShrinks DEF OrderInv, Safe
<1>3. \A o \in b.orders : o.paid = NoTx => o \in Open(b.orders, q.now)
  BY DEF prune, Open
<1> HIDE DEF b
<1>4. PICK a \in Amounts :
        /\ \A o \in Open(b.orders, q.now) : o.amt # a
        /\ change_orders([b EXCEPT !.orders = @ \cup
             {[id |-> made + 1, tok |-> q.tok, amt |-> a, created |-> q.now,
               paid |-> NoTx, tries |-> 0, unclaimed |-> TRUE]}])
  BY DEF QuoteOpen, b
<1> DEFINE n == [id |-> made + 1, tok |-> q.tok, amt |-> a, created |-> q.now,
                 paid |-> NoTx, tries |-> 0, unclaimed |-> TRUE]
           e == [b EXCEPT !.orders = @ \cup {n}]
<1>5. made < MaxOrders /\ made \in 0..MaxOrders
  BY DEF QuoteOpen, OrderInv, Types
<1>6. n \in Order /\ n.paid = NoTx /\ n.amt = a
  BY <1>1, <1>5, ModelAssumption DEF Order
<1> HIDE DEF n
<1>7. e.orders = b.orders \cup {n} /\ e.used = b.used /\ IsBook(e)
  <2> DEFINE new == b.orders \cup {n}
  <2>1. new \subseteq Order /\ e = [b EXCEPT !.orders = new]
    BY <1>2, <1>6 DEF Shrunk, IsBook
  <2>2. ASSUME NEW S, S \subseteq Order
        PROVE  /\ [b EXCEPT !.orders = S].orders = S
               /\ [b EXCEPT !.orders = S].used = b.used
               /\ IsBook([b EXCEPT !.orders = S])
    BY <1>2, <2>2 DEF Shrunk, IsBook
  <2> HIDE DEF e
  <2>3. e.orders = new /\ e.used = b.used /\ IsBook(e)
    BY <2>1, <2>2
  <2> QED BY <2>3
<1>8. Saved(e, lapsed_file) /\ lock = Free
  BY <1>4 DEF change_orders, Unlocked, n
<1> HIDE DEF e
<1>9. PaidIn(e.orders, orders)
  BY <1>2, <1>6, <1>7 DEF Shrunk, PaidIn
<1>10. Distinct(e.orders)
  BY <1>2, <1>3, <1>4, <1>6, <1>7 DEF Shrunk, Distinct
<1>11. Shrunk(e, q.now)
  BY <1>2, <1>7, <1>9, <1>10 DEF Shrunk
<1>12. FileStep(q.now)
  BY <1>8, <1>11, ShrunkSteps DEF OrderInv, Safe
<1>13. /\ quotes' = quotes \ {q} /\ made' \in 0..MaxOrders
       /\ UNCHANGED <<clock, lock, claim, hand, chain, credited>>
  BY <1>5, ModelAssumption DEF QuoteOpen, accounts
<1> QED BY <1>8, <1>12, <1>13, QuoteKeeps

-----------------------------------------------------------------------------
(* Claims, up to the chain.                                                *)

\* The types and the times, after a step of one claim.
LEMMA ClaimTyped ==
  ASSUME Types, Times, NEW c \in Claims, claim' \in [Claims -> Claim],
         \A d \in Claims : d # c => claim'[d] = claim[d], Found(claim'[c]),
         orders' \subseteq Order, used' \subseteq Used,
         lock' \in Claims \cup {Free}, credited' \in [Txs -> Nat],
         UNCHANGED <<clock, quotes, hand, chain, made>>
  PROVE  Types' /\ Times'
<1>1. Types'
  BY DEF Types
<1>2. \A d \in Claims : Found(claim'[d])
  BY DEF Times
<1>3. (\A d \in Claims : Found(claim[d]))'
  BY <1>2 DEF Found, Fresh
<1> QED BY <1>1, <1>3 DEF Times, Fresh

\* A claim is made, and answered from the index or not.
LEMMA ClaimAskKeeps ==
  ASSUME OrderInv, NEW c \in Claims, NEW t \in Tokens, NEW x \in Txs,
         ClaimAsk(c, t, x)
  PROVE  OrderInv'
<1>1. PICK k : /\ k \in [pc: {"done"}, tok: Tokens, tx: Txs, answer: Answers]
                        \cup [pc: {"hold", "pace"}, tok: Tokens, tx: Txs,
                              now: {clock}]
               /\ claim' = [claim EXCEPT ![c] = k]
  <2> DEFINE a  == known(t, clock)
             k1 == [pc |-> "done", tok |-> t, tx |-> x, answer |-> a]
             k2 == [pc |-> IF a = "hold" THEN "hold" ELSE "pace",
                    tok |-> t, tx |-> x, now |-> clock]
  <2>1. claim' = [claim EXCEPT ![c] = IF a \in {"nothing", "tries"} THEN k1 ELSE k2]
    BY DEF ClaimAsk
  <2> HIDE DEF a
  <2>2. CASE a \in {"nothing", "tries"}
    <3>1. k1 \in [pc: {"done"}, tok: Tokens, tx: Txs, answer: Answers]
      BY <2>2 DEF Answers
    <3> QED BY <2>1, <2>2, <3>1
  <2>3. CASE a \notin {"nothing", "tries"}
    <3>1. k2 \in [pc: {"hold", "pace"}, tok: Tokens, tx: Txs, now: {clock}]
      OBVIOUS
    <3> QED BY <2>1, <2>3, <3>1
  <2> QED BY <2>2, <2>3
<1>2. k \in Claim /\ ~Marked(k) /\ Found(k)
  <2>1. CASE k \in [pc: {"done"}, tok: Tokens, tx: Txs, answer: Answers]
    BY <2>1 DEF Claim, Marked, Found, Asked
  <2>2. CASE k \in [pc: {"hold", "pace"}, tok: Tokens, tx: Txs, now: {clock}]
    BY <2>2, ModelAssumption DEF Claim, Marked, Found, Asked, Fresh, OrderInv, Types
  <2> QED BY <1>1, <2>1, <2>2
<1>3. /\ claim' \in [Claims -> Claim] /\ claim'[c] = k
      /\ \A d \in Claims : d # c => claim'[d] = claim[d]
  BY <1>1, <1>2 DEF OrderInv, Types
<1>4. UNCHANGED <<clock, orders, used, lock, quotes, hand, chain, credited, made>>
  BY DEF ClaimAsk, file, accounts
<1>5. Types' /\ Times'
  <2>1. /\ orders' \subseteq Order /\ used' \subseteq Used
        /\ lock' \in Claims \cup {Free} /\ credited' \in [Txs -> Nat]
    BY <1>4 DEF OrderInv, Types
  <2> QED BY <1>2, <1>3, <1>4, <2>1, ClaimTyped DEF OrderInv
<1>6. Safe'
  <2>1. clock' \in Int /\ clock <= clock'
    BY <1>4 DEF OrderInv, Types
  <2>2. \A d \in Claims : Marked(claim'[d]) =>
          Marked(claim[d]) /\ lock' = lock /\ claim'[d] = claim[d]
    BY <1>2, <1>3, <1>4
  <2> QED BY <1>4, <2>1, <2>2, StillStep DEF OrderInv, Taken
<1> QED BY <1>5, <1>6 DEF OrderInv

\* A step of a claim that holds no transaction: it changes the file under the
\* issuer's lock, or not at all.
LEMMA ClaimKeeps ==
  ASSUME OrderInv, NEW c \in Claims, ~Marked(claim'[c]), Found(claim'[c]),
         claim' \in [Claims -> Claim],
         \A d \in Claims : d # c => claim'[d] = claim[d],
         NEW now \in 0..MaxTime, now <= clock, FileStep(now),
         lock = Free \/ UNCHANGED <<orders, used>>,
         UNCHANGED <<clock, lock, quotes, hand, chain, credited, made>>
  PROVE  OrderInv'
<1>1. Types' /\ Times'
  <2>1. /\ orders' \subseteq Order /\ used' \subseteq Used
        /\ lock' \in Claims \cup {Free} /\ credited' \in [Txs -> Nat]
    BY DEF OrderInv, Types, FileStep
  <2> QED BY <2>1, ClaimTyped DEF OrderInv
<1>2. CASE lock = Free
  <2>1. \A d \in Claims : ~Marked(claim'[d])
    BY <1>2, ModelAssumption DEF OrderInv, Safe, Holders
  <2>2. Safe'
    BY <1>2, <2>1, IssuerStep DEF OrderInv
  <2> QED BY <1>1, <2>2 DEF OrderInv
<1>3. CASE UNCHANGED <<orders, used>>
  <2>1. clock' \in Int /\ clock <= clock'
    BY DEF OrderInv, Types
  <2>2. \A d \in Claims : Marked(claim'[d]) =>
          Marked(claim[d]) /\ claim'[d] = claim[d]
    OBVIOUS
  <2>3. Safe'
    BY <1>3, <2>1, <2>2, StillStep DEF OrderInv, Taken
  <2> QED BY <1>1, <2>3 DEF OrderInv
<1> QED BY <1>2, <1>3

\* The answer to a claim asks nothing more of it.
LEMMA AnswerFound ==
  ASSUME OrderInv, NEW c \in Claims, NEW a \in Answers, claim[c].pc # "idle",
         Answer(c, a)
  PROVE  /\ claim' \in [Claims -> Claim]
         /\ ~Marked(claim'[c]) /\ Found(claim'[c])
         /\ \A d \in Claims : d # c => claim'[d] = claim[d]
<1>1. /\ claim' \in [Claims -> Claim] /\ claim'[c].pc = "done"
      /\ \A d \in Claims : d # c => claim'[d] = claim[d]
  BY AnswerEnds DEF OrderInv
<1> QED BY <1>1 DEF Marked, Found, Asked

\* A claim under way is young.
LEMMA ClaimNow ==
  ASSUME OrderInv, NEW c \in Claims, Asked(claim[c])
  PROVE  /\ claim[c].tok \in Tokens /\ claim[c].tx \in Txs
         /\ claim[c].now \in 0..MaxTime /\ claim[c].now <= clock
         /\ clock <= claim[c].now + Delay
<1>1. claim[c] \in Claim /\ Found(claim[c])
  BY DEF OrderInv, Types, Times
<1> QED BY <1>1, ClaimFields DEF Asked, Found, Fresh

\* An order open at a time was made less than its life before.
LEMMA OpenIsYoung ==
  ASSUME NEW S, S \subseteq Order, NEW t, NEW now \in 0..MaxTime
  PROVE  \A o \in OpenOf(S, t, now) :
           /\ o \in S /\ o.tok = t /\ o.paid = NoTx
           /\ now < o.created + ORDER_LIFETIME
<1> SUFFICES ASSUME NEW o \in OpenOf(S, t, now)
             PROVE  /\ o \in S /\ o.tok = t /\ o.paid = NoTx
                    /\ now < o.created + ORDER_LIFETIME
  OBVIOUS
<1>1. o \in S /\ o.tok = t /\ o.paid = NoTx /\ now < lapses_at(o)
  BY DEF OpenOf, open_at
<1>2. o.created \in Int
  BY <1>1 DEF Order
<1>3. now < o.created + ORDER_LIFETIME
  BY <1>1, <1>2, LifetimesAssumption DEF lapses_at
<1> QED BY <1>1, <1>3

\* The steps of a claim that are answered, or that only change the file.
LEMMA ClaimHoldKeeps ==
  ASSUME OrderInv, NEW c \in Claims, ClaimHold(c)
  PROVE  OrderInv'
<1> DEFINE k == claim[c]
           b == hold(book, k.tok, k.now)
<1>1. k.pc = "hold" /\ k \in Claim
  BY DEF ClaimHold, OrderInv, Types
<1>2. /\ k.tok \in Tokens /\ k.tx \in Txs /\ k.now \in 0..MaxTime
      /\ k.now <= clock /\ clock <= k.now + Delay
  BY <1>1, ClaimNow DEF Asked
<1>3. Shrunk(b, k.now)
  BY <1>2, HoldShrinks DEF OrderInv, Safe
<1> HIDE DEF b
<1>4. /\ \/ change_orders(b) /\ claim' = [claim EXCEPT ![c].pc = "pace"]
         \/ ChangeFails(b) /\ Answer(c, "again")
      /\ UNCHANGED <<clock, lock, quotes, hand, chain, credited, made>>
  BY DEF ClaimHold, b, accounts
<1>5. /\ Saved(b, lapsed_file) \/ NotSaved(b, lapsed_file, "orders")
      /\ lock = Free
  BY <1>4 DEF change_orders, ChangeFails, Unlocked
<1>6. FileStep(k.now)
  BY <1>3, <1>5, ShrunkSteps DEF OrderInv, Safe
<1>7. /\ claim' \in [Claims -> Claim]
      /\ ~Marked(claim'[c]) /\ Found(claim'[c])
      /\ \A d \in Claims : d # c => claim'[d] = claim[d]
  <2>1. CASE Answer(c, "again")
    BY <1>1, <2>1, AnswerFound DEF Answers
  <2>2. CASE claim' = [claim EXCEPT ![c].pc = "pace"]
    <3> DEFINE n == [pc |-> "pace", tok |-> k.tok, tx |-> k.tx, now |-> k.now]
    <3>1. claim' = [claim EXCEPT ![c] = [k EXCEPT !.pc = "pace"]]
      BY <2>2
    <3>2. [k EXCEPT !.pc = "pace"] = n
      BY <1>1, ClaimFields
    <3>3. n \in Claim /\ ~Marked(n) /\ Found(n)
      BY <1>2 DEF Claim, Marked, Found, Asked, Fresh
    <3> HIDE DEF n
    <3> QED BY <3>1, <3>2, <3>3 DEF OrderInv, Types
  <2> QED BY <1>4, <2>1, <2>2
<1> QED BY <1>2, <1>4, <1>5, <1>6, <1>7, ClaimKeeps

\* A claim paced.
LEMMA ClaimPacedKeeps ==
  ASSUME OrderInv, NEW c \in Claims, ClaimPaced(c)
  PROVE  OrderInv'
<1>1. /\ claim[c].pc = "pace" /\ Answer(c, "later")
      /\ UNCHANGED <<clock, orders, used, lock, quotes, hand, chain, credited, made>>
  BY DEF ClaimPaced, file, accounts
<1>2. /\ claim' \in [Claims -> Claim]
      /\ ~Marked(claim'[c]) /\ Found(claim'[c])
      /\ \A d \in Claims : d # c => claim'[d] = claim[d]
  BY <1>1, AnswerFound DEF Answers
<1>3. claim[c].now \in 0..MaxTime /\ claim[c].now <= clock
  BY <1>1, ClaimNow DEF Asked
<1>4. FileStep(claim[c].now)
  BY <1>1 DEF OrderInv, Types, Safe, AmountsDistinct, FileStep, PaidIn, Distinct
<1> QED BY <1>1, <1>2, <1>3, <1>4, ClaimKeeps

\* before_claim.
LEMMA ClaimBeforeKeeps ==
  ASSUME OrderInv, NEW c \in Claims, ClaimBefore(c)
  PROVE  OrderInv'
<1> DEFINE k    == claim[c]
           b    == prune(book, k.now)
           b2   == tried(hold(b, k.tok, k.now), k.tok, k.now)
           open == OpenOf(b2.orders, k.tok, k.now)
           n    == [pc |-> "chain", tok |-> k.tok, tx |-> k.tx, now |-> k.now,
                    open |-> open]
<1>1. k.pc = "pace" /\ k \in Claim
  BY DEF ClaimBefore, OrderInv, Types
<1>2. /\ k.tok \in Tokens /\ k.tx \in Txs /\ k.now \in 0..MaxTime
      /\ k.now <= clock /\ clock <= k.now + Delay
  BY <1>1, ClaimNow DEF Asked
<1>3. Shrunk(b, k.now) /\ Shrunk(b2, k.now)
  BY <1>2, PruneShrinks, BeforeShrinks DEF OrderInv, Safe
<1>4. \/ /\ change_orders(b) \/ change_orders(b2) \/ ChangeFails(b) \/ ChangeFails(b2)
         /\ \E a \in Answers : Answer(c, a)
      \/ change_orders(b2) /\ claim' = [claim EXCEPT ![c] = n]
  BY DEF ClaimBefore, Answers
<1>5. UNCHANGED <<clock, lock, quotes, hand, chain, credited, made>>
  BY DEF ClaimBefore, accounts
<1> HIDE DEF b, b2
<1>6. /\ lock = Free
      /\ \/ Saved(b, lapsed_file) \/ Saved(b2, lapsed_file)
         \/ NotSaved(b, lapsed_file, "orders") \/ NotSaved(b2, lapsed_file, "orders")
  BY <1>4 DEF change_orders, ChangeFails, Unlocked
<1>7. FileStep(k.now)
  BY <1>3, <1>6, ShrunkSteps DEF OrderInv, Safe
<1>8. /\ claim' \in [Claims -> Claim]
      /\ ~Marked(claim'[c]) /\ Found(claim'[c])
      /\ \A d \in Claims : d # c => claim'[d] = claim[d]
  <2>1. CASE \E a \in Answers : Answer(c, a)
    BY <1>1, <2>1, AnswerFound
  <2>2. CASE claim' = [claim EXCEPT ![c] = n]
    <3>1. b2.orders \subseteq Order
      BY <1>3 DEF Shrunk, IsBook
    <3>2. /\ open \subseteq Order
          /\ \A o \in open : k.now < o.created + ORDER_LIFETIME
      BY <1>2, <3>1, OpenIsYoung
    <3> HIDE DEF open
    <3>3. n \in Claim /\ ~Marked(n) /\ Found(n)
      BY <1>2, <3>2 DEF Claim, Marked, Found, Asked, Fresh
    <3> HIDE DEF n
    <3> QED BY <2>2, <3>3 DEF OrderInv, Types
  <2> QED BY <1>4, <2>1, <2>2
<1> QED BY <1>2, <1>5, <1>6, <1>7, <1>8, ClaimKeeps

\* The chain says which of the orders was paid, or that none was.
LEMMA ClaimChainKeeps ==
  ASSUME OrderInv, NEW c \in Claims, ClaimChain(c)
  PROVE  OrderInv'
<1> DEFINE k    == claim[c]
           n(o) == [pc |-> "mark", tok |-> k.tok, tx |-> k.tx, now |-> k.now,
                    order |-> o]
<1>1. k.pc = "chain" /\ k \in Claim /\ Found(k)
  BY DEF ClaimChain, OrderInv, Types, Times
<1>2. /\ k.tok \in Tokens /\ k.tx \in Txs /\ k.now \in 0..MaxTime
      /\ k.now <= clock /\ clock <= k.now + Delay
  BY <1>1, ClaimNow DEF Asked
<1>3. \/ \E a \in Answers : Answer(c, a)
      \/ /\ chain[k.tx] # NoPay
         /\ \E o \in k.open : /\ pays(chain[k.tx], o)
                              /\ claim' = [claim EXCEPT ![c] = n(o)]
  BY DEF ClaimChain, Answers
<1>4. UNCHANGED <<clock, orders, used, lock, quotes, hand, chain, credited, made>>
  BY DEF ClaimChain, file, accounts
<1>5. FileStep(k.now)
  BY <1>4 DEF OrderInv, Types, Safe, AmountsDistinct, FileStep, PaidIn, Distinct
<1>6. /\ claim' \in [Claims -> Claim]
      /\ ~Marked(claim'[c]) /\ Found(claim'[c])
      /\ \A d \in Claims : d # c => claim'[d] = claim[d]
  <2>1. CASE \E a \in Answers : Answer(c, a)
    BY <1>1, <2>1, AnswerFound
  <2>2. ASSUME NEW o \in k.open, chain[k.tx] # NoPay, pays(chain[k.tx], o),
               claim' = [claim EXCEPT ![c] = n(o)]
        PROVE  /\ claim' \in [Claims -> Claim]
               /\ ~Marked(claim'[c]) /\ Found(claim'[c])
               /\ \A d \in Claims : d # c => claim'[d] = claim[d]
    <3>1. o \in Order /\ k.now < o.created + ORDER_LIFETIME
      BY <1>1, ClaimFields DEF Found
    <3>2. n(o) \in Claim /\ ~Marked(n(o)) /\ Found(n(o))
      BY <1>2, <2>2, <3>1 DEF Claim, Marked, Found, Asked, Fresh, pays
    <3> HIDE DEF n
    <3> QED BY <2>2, <3>2 DEF OrderInv, Types
  <2> QED BY <1>3, <2>1, <2>2
<1> QED BY <1>2, <1>4, <1>5, <1>6, ClaimKeeps

-----------------------------------------------------------------------------
(* Claims: marked, credited, unmarked.                                     *)

\* A transaction not among the used ones, and too young to be let go of, is
\* nobody's.
LEMMA UnusedIsFree ==
  ASSUME OrderInv, NEW x \in Txs, ~Remembered(x)
  PROVE  ~Busy(x)
BY DEF OrderInv, Safe, Memory

\* The transaction of a claim about to mark is too young to be let go of.
LEMMA ClaimIsTimely ==
  ASSUME OrderInv, Timely, NEW c \in Claims, claim[c].pc = "mark",
         ~UsedIn(used, claim[c].tx)
  PROVE  ~Remembered(claim[c].tx)
<1> DEFINE k == claim[c]
<1>1. k \in Claim /\ Found(k)
  BY DEF OrderInv, Types, Times
<1>2. /\ k.tx \in Txs /\ k.now \in Int /\ clock <= k.now + Delay
  BY ClaimNow, ModelAssumption DEF Asked
<1>3. k.order \in Order
  BY <1>1, ClaimFields
<1>4. k.order.created \in Int
  BY <1>3, ModelAssumption DEF Order
<1>5. /\ chain[k.tx] # NoPay
      /\ chain[k.tx].at >= k.order.created - CLOCK_SLACK
      /\ k.now < k.order.created + ORDER_LIFETIME
  BY <1>1 DEF Found
<1>6. chain[k.tx].at \in Int /\ clock \in Int
  BY <1>2, <1>5 DEF OrderInv, Types
<1>7. ~(clock + Delay >= chain[k.tx].at + KEEP_PAID)
  BY <1>2, <1>4, <1>5, <1>6, LifetimesAssumption, ModelAssumption
  DEF Timely, KEEP_PAID
<1> QED BY <1>7 DEF Remembered

\* mark_paid marks an order for a transaction nobody else has to do with.
LEMMA ClaimMarks ==
  ASSUME OrderInv, Timely, NEW c \in Claims, claim[c].pc = "mark", lock = Free,
         ~UsedIn(used, claim[c].tx), NEW o \in MarkedBy(claim[c]),
         orders' = (orders \ {o}) \cup {[o EXCEPT !.paid = claim[c].tx]},
         used' = used \cup {[tx |-> claim[c].tx, at |-> claim[c].now]},
         orders' \subseteq Order, used' \subseteq Used, NEW os \in SUBSET Order,
         claim' = [claim EXCEPT ![c] =
           [pc |-> "credit", tok |-> claim[c].tok, tx |-> claim[c].tx,
            now |-> claim[c].now, order |-> claim[c].order, marked |-> o,
            orders |-> os]],
         lock' = c, UNCHANGED <<clock, quotes, hand, chain, credited, made>>
  PROVE  OrderInv'
<1> DEFINE k == claim[c]
           n == [pc |-> "credit", tok |-> k.tok, tx |-> k.tx, now |-> k.now,
                 order |-> k.order, marked |-> o, orders |-> os]
           m == [o EXCEPT !.paid = k.tx]
<1>1. k \in Claim /\ Found(k)
  BY DEF OrderInv, Types, Times
<1>2. /\ k.tok \in Tokens /\ k.tx \in Txs /\ k.now \in 0..MaxTime
      /\ k.now <= clock /\ clock <= k.now + Delay
  BY ClaimNow DEF Asked
<1>3. k.order \in Order
  BY <1>1, ClaimFields
<1>4. ~Busy(k.tx)
  BY <1>2, ClaimIsTimely, UnusedIsFree
<1>5. o \in orders /\ o \in Order /\ o.tok = k.tok /\ o.paid = NoTx /\ o.amt = k.order.amt
  BY DEF MarkedBy, OpenOf, open_at, OrderInv, Types
<1>6. m \in Order /\ m.paid = k.tx /\ m.amt = o.amt /\ m.tok = o.tok
  BY <1>2, <1>5 DEF Order
<1>7. /\ n \in Claim /\ n.pc = "credit" /\ n.tx = k.tx /\ n.tok = k.tok
      /\ n.order = k.order /\ n.now = k.now
  BY <1>2, <1>3, <1>5 DEF Claim
<1> HIDE DEF n, m
<1>8. /\ claim' \in [Claims -> Claim] /\ claim'[c] = n
      /\ \A d \in Claims : d # c => claim'[d] = claim[d]
  BY <1>7 DEF n, OrderInv, Types
<1>9. \A d \in Claims : ~Marked(claim[d])
  BY ModelAssumption DEF OrderInv, Safe, Holders
<1>10. orders' = (orders \ {o}) \cup {m} /\ k.tx # NoTx
  BY <1>2, ModelAssumption DEF m
<1>11. Types' /\ Times'
  <2>1. Found(claim'[c])
    BY <1>1, <1>7, <1>8 DEF Found, Asked
  <2>2. lock' \in Claims \cup {Free} /\ credited' \in [Txs -> Nat]
    BY DEF OrderInv, Types
  <2> QED BY <1>8, <2>1, <2>2, ClaimTyped DEF OrderInv
<1>12. UsedRight'
  <2>1. chain[k.tx] # NoPay /\ chain[k.tx].at <= k.now + Delay
    <3>1. chain[k.tx] # NoPay /\ chain[k.tx].at <= clock
      BY <1>1, <1>2 DEF Found, OrderInv, Times
    <3>2. chain[k.tx].at \in Int /\ clock \in Int /\ k.now \in Int /\ Delay \in Int
      BY <1>2, <3>1, ModelAssumption DEF OrderInv, Types
    <3> QED BY <1>2, <3>1, <3>2
  <2>2. \A u \in used' : u \in used \/ u = [tx |-> k.tx, at |-> k.now]
    OBVIOUS
  <2> QED BY <2>1, <2>2 DEF OrderInv, Safe, UsedRight
<1>13. Memory'
  <2> SUFFICES ASSUME NEW x \in Txs, Busy(x)'
               PROVE  (chain[x] # NoPay)' /\ Remembered(x)'
    BY DEF Memory
  <2>1. CASE x = k.tx
    <3>1. chain[x] # NoPay
      BY <1>1, <2>1 DEF Found
    <3> DEFINE u == [tx |-> k.tx, at |-> k.now]
    <3>2. u \in used' /\ u.tx = x
      BY <2>1
    <3> HIDE DEF u
    <3> QED BY <3>1, <3>2 DEF Remembered, UsedIn
  <2>2. CASE x # k.tx
    <3>1. Busy(x)
      BY <1>6, <1>7, <1>8, <1>10, <2>2 DEF Busy, Taken
    <3>2. chain[x] # NoPay /\ Remembered(x)
      BY <3>1 DEF OrderInv, Safe, Memory
    <3> QED BY <3>2 DEF Remembered, UsedIn
  <2> QED BY <2>1, <2>2
<1>14. Holders'
  <2>1. credited[k.tx] = 0 /\ ~(Taken /\ hand.tx = k.tx)
    BY <1>2, <1>4 DEF Busy, OrderInv, Types
  <2>2. \A p \in orders : p.paid # k.tx
    BY <1>4 DEF Busy
  <2>3. \A p \in orders' : p.paid = k.tx => p = m
    BY <1>10, <2>2
  <2>4. \A p \in orders' : p.paid \in {NoTx, k.tx} /\ p.amt = m.amt => p = m
    BY <1>5, <1>6, <1>10, <2>3 DEF OrderInv, Safe, AmountsDistinct
  <2>5. \A p \in orders' : p.paid = k.tx =>
          /\ p.amt = k.order.amt /\ p.tok = k.tok
          /\ \A r \in orders' : r.paid \in {NoTx, k.tx} /\ r.amt = p.amt => r = p
    BY <1>5, <1>6, <2>3, <2>4
  <2>6. \A d \in Claims : Marked(claim'[d]) => d = c
    BY <1>8, <1>9
  <2>7. Taken => credited[hand.tx] = 0 /\ \A p \in orders' : p.paid # hand.tx
    BY <1>6, <1>10, <2>1 DEF OrderInv, Safe, Holders
  <2> QED BY <1>7, <1>8, <2>1, <2>5, <2>6, <2>7 DEF Holders, Taken
<1>15. AmountsDistinct'
  BY <1>6, <1>10 DEF OrderInv, Safe, AmountsDistinct
<1>16. TxPaysOnce'
  BY DEF OrderInv, Safe, TxPaysOnce
<1> QED BY <1>11, <1>12, <1>13, <1>14, <1>15, <1>16 DEF OrderInv, Safe

\* mark_paid, whether it marks or not.
LEMMA ClaimMarkKeeps ==
  ASSUME OrderInv, Timely, NEW c \in Claims, ClaimMark(c)
  PROVE  OrderInv'
<1> DEFINE k    == claim[c]
           e(o) == MarkIn(o, k.tx, k.now)
           n(o) == [pc |-> "credit", tok |-> k.tok, tx |-> k.tx, now |-> k.now,
                    order |-> k.order, marked |-> o, orders |-> e(o).orders]
<1>1. k.pc = "mark" /\ lock = Free
  BY DEF ClaimMark, Unlocked
<1>2. UNCHANGED <<clock, quotes, hand, chain, credited, made>>
  BY DEF ClaimMark, accounts
<1>3. /\ k.tok \in Tokens /\ k.tx \in Txs /\ k.now \in 0..MaxTime /\ k.now <= clock
  BY <1>1, ClaimNow DEF Asked
<1>4. \/ /\ change_orders(book) \/ ChangeFails(book)
         /\ \E a \in Answers : Answer(c, a)
         /\ UNCHANGED lock
      \/ /\ ~UsedIn(used, k.tx) /\ lock' = c
         /\ \E o \in MarkedBy(k) : /\ Saved(e(o), lapsed_file)
                                   /\ claim' = [claim EXCEPT ![c] = n(o)]
  BY DEF ClaimMark, Answers, MarkIn
<1>5. CASE /\ change_orders(book) \/ ChangeFails(book)
           /\ \E a \in Answers : Answer(c, a)
           /\ UNCHANGED lock
  <2>1. Shrunk(book, k.now)
    BY BookIsBook DEF Shrunk, PaidIn, Distinct, OrderInv, Safe, AmountsDistinct
  <2>2. Saved(book, lapsed_file) \/ NotSaved(book, lapsed_file, "orders")
    BY <1>5 DEF change_orders, ChangeFails
  <2>3. FileStep(k.now)
    BY <2>1, <2>2, ShrunkSteps DEF OrderInv, Safe
  <2>4. /\ claim' \in [Claims -> Claim]
        /\ ~Marked(claim'[c]) /\ Found(claim'[c])
        /\ \A d \in Claims : d # c => claim'[d] = claim[d]
    BY <1>1, <1>5, AnswerFound
  <2> QED BY <1>1, <1>2, <1>3, <1>5, <2>3, <2>4, ClaimKeeps
<1>6. ASSUME ~UsedIn(used, k.tx), lock' = c, NEW o \in MarkedBy(k),
             Saved(e(o), lapsed_file), claim' = [claim EXCEPT ![c] = n(o)]
      PROVE  OrderInv'
  <2>1. o \in orders
    BY DEF MarkedBy, OpenOf
  <2>2. /\ e(o).orders \subseteq Order /\ e(o).used \subseteq Used
        /\ e(o).orders = (orders \ {o}) \cup {[o EXCEPT !.paid = k.tx]}
        /\ e(o).used = used \cup {[tx |-> k.tx, at |-> k.now]}
    BY <1>3, <2>1, MarkBook DEF OrderInv
  <2> DEFINE os == e(o).orders
  <2> HIDE DEF e
  <2>3. orders' = os /\ used' = e(o).used
    BY <1>6 DEF Saved
  <2>4. claim' = [claim EXCEPT ![c] =
          [pc |-> "credit", tok |-> k.tok, tx |-> k.tx, now |-> k.now,
           order |-> k.order, marked |-> o, orders |-> os]]
    BY <1>6
  <2> HIDE DEF os
  <2>5. os \in SUBSET Order
    BY <2>2 DEF os
  <2>6. /\ orders' = (orders \ {o}) \cup {[o EXCEPT !.paid = k.tx]}
        /\ used' = used \cup {[tx |-> k.tx, at |-> k.now]}
        /\ orders' \subseteq Order /\ used' \subseteq Used
    BY <2>2, <2>3 DEF os
  <2> QED BY <1>1, <1>2, <1>6, <2>4, <2>5, <2>6, ClaimMarks
<1> QED BY <1>4, <1>5, <1>6

\* The account is credited, once; or it could not be.
LEMMA ClaimCreditKeeps ==
  ASSUME OrderInv, NEW c \in Claims, ClaimCredit(c)
  PROVE  OrderInv'
<1> DEFINE k == claim[c]
<1>1. k.pc = "credit" /\ k \in Claim /\ Marked(k) /\ Found(k)
  BY DEF ClaimCredit, Marked, OrderInv, Types, Times
<1>2. UNCHANGED <<clock, orders, used, quotes, hand, chain, made>>
  BY DEF ClaimCredit, file
<1>3. k.tx \in Txs
  BY <1>1, ClaimFields
<1>4. /\ lock = c /\ credited[k.tx] = 0 /\ ~(Taken /\ hand.tx = k.tx)
      /\ \A d \in Claims : Marked(claim[d]) => d = c
  BY <1>1 DEF OrderInv, Safe, Holders
<1>5. CASE /\ credited' = [credited EXCEPT ![k.tx] = @ + 1] /\ lock' = Free
           /\ Answer(c, "credited")
  <2>1. /\ claim' \in [Claims -> Claim]
        /\ ~Marked(claim'[c]) /\ Found(claim'[c])
        /\ \A d \in Claims : d # c => claim'[d] = claim[d]
    BY <1>1, <1>5, AnswerFound DEF Answers
  <2>2. /\ credited' \in [Txs -> Nat] /\ credited'[k.tx] = 1
        /\ \A x \in Txs : x # k.tx => credited'[x] = credited[x]
    BY <1>3, <1>4, <1>5 DEF OrderInv, Types
  <2>3. Types' /\ Times'
    <3>1. orders' \subseteq Order /\ used' \subseteq Used
      BY <1>2 DEF OrderInv, Types
    <3> QED BY <1>2, <1>5, <2>1, <2>2, <3>1, ClaimTyped DEF OrderInv
  <2>4. UsedRight' /\ AmountsDistinct'
    BY <1>2 DEF OrderInv, Safe, UsedRight, AmountsDistinct
  <2>5. Memory'
    <3> SUFFICES ASSUME NEW x \in Txs, Busy(x)'
                 PROVE  (chain[x] # NoPay)' /\ Remembered(x)'
      BY DEF Memory
    <3>1. Busy(x)
      BY <1>1, <1>2, <2>1, <2>2 DEF Busy, Taken
    <3> QED BY <1>2, <3>1 DEF OrderInv, Safe, Memory, Remembered
  <2>6. Holders'
    <3>1. \A d \in Claims : ~Marked(claim'[d])
      BY <1>4, <2>1
    <3>2. Taken' => Taken /\ hand.tx \in Txs /\ hand.tx # k.tx
      BY <1>2, <1>4 DEF Taken, OrderInv, Types
    <3> QED BY <1>2, <2>2, <3>1, <3>2 DEF OrderInv, Safe, Holders
  <2>7. TxPaysOnce'
    BY <2>2 DEF OrderInv, Safe, TxPaysOnce
  <2> QED BY <2>3, <2>4, <2>5, <2>6, <2>7 DEF OrderInv, Safe
<1>6. CASE /\ claim' = [claim EXCEPT ![c].pc = "unmark"]
           /\ UNCHANGED <<credited, lock>>
  <2> DEFINE n == [k EXCEPT !.pc = "unmark"]
  <2>1. claim' = [claim EXCEPT ![c] = n]
    BY <1>6
  <2>2. /\ n \in Claim /\ n.pc = "unmark" /\ n.tok = k.tok /\ n.tx = k.tx
        /\ n.now = k.now /\ n.order = k.order
    BY <1>1, ClaimFields
  <2> HIDE DEF n
  <2>3. Found(n)
    BY <1>1, <2>2 DEF Found, Asked
  <2>4. /\ claim' \in [Claims -> Claim] /\ claim'[c] = n
        /\ \A d \in Claims : d # c => claim'[d] = claim[d]
    BY <2>1, <2>2 DEF OrderInv, Types
  <2>5. Types' /\ Times'
    <3>1. /\ orders' \subseteq Order /\ used' \subseteq Used
          /\ lock' \in Claims \cup {Free} /\ credited' \in [Txs -> Nat]
      BY <1>2, <1>6 DEF OrderInv, Types
    <3> QED BY <1>2, <2>3, <2>4, <3>1, ClaimTyped DEF OrderInv
  <2>6. Safe'
    <3>1. clock' \in Int /\ clock <= clock'
      BY <1>2 DEF OrderInv, Types
    <3>2. \A d \in Claims : Marked(claim'[d]) =>
            /\ Marked(claim[d]) /\ lock' = lock
            /\ claim'[d].tx = claim[d].tx /\ claim'[d].tok = claim[d].tok
            /\ claim'[d].order = claim[d].order
      BY <1>1, <1>6, <2>2, <2>4
    <3> QED BY <1>2, <1>6, <3>1, <3>2, StillStep DEF OrderInv, Taken
  <2> QED BY <2>5, <2>6 DEF OrderInv
<1> QED BY <1>5, <1>6 DEF ClaimCredit, Credit, Unlock, accounts

\* unmark frees the transaction of a claim whose credit failed: the order is
\* open again, and nobody else has to do with the transaction.
LEMMA ClaimUnmarkKeeps ==
  ASSUME OrderInv, NEW c \in Claims, ClaimUnmark(c)
  PROVE  OrderInv'
<1> DEFINE k == claim[c]
<1>1. k.pc = "unmark" /\ k \in Claim /\ Marked(k)
  BY DEF ClaimUnmark, Marked, OrderInv, Types
<1>2. /\ UNCHANGED <<clock, quotes, hand, chain, credited, made>>
      /\ Saved(unmark(book, k), lapsed_file) \/ UNCHANGED <<orders, used>>
      /\ lock' = Free /\ Answer(c, "again")
  BY DEF ClaimUnmark, Unlock, file, accounts
<1>3. k.tx \in Txs /\ k.tx # NoTx
  BY <1>1, ClaimFields, ModelAssumption
<1>4. /\ lock = c /\ credited[k.tx] = 0 /\ ~(Taken /\ hand.tx = k.tx)
      /\ \A o \in orders : o.paid = k.tx =>
           /\ o.amt = k.order.amt /\ o.tok = k.tok
           /\ \A p \in orders : p.paid \in {NoTx, k.tx} /\ p.amt = o.amt => p = o
      /\ \A d \in Claims : Marked(claim[d]) => d = c
  BY <1>1 DEF OrderInv, Safe, Holders
<1>5. /\ claim' \in [Claims -> Claim]
      /\ ~Marked(claim'[c]) /\ Found(claim'[c])
      /\ \A d \in Claims : d # c => claim'[d] = claim[d]
  BY <1>1, <1>2, AnswerFound DEF Answers
<1>6. \A d \in Claims : ~Marked(claim'[d])
  BY <1>4, <1>5
<1>7. CASE UNCHANGED <<orders, used>>
  <2>1. Types' /\ Times'
    <3>1. /\ orders' \subseteq Order /\ used' \subseteq Used
          /\ lock' \in Claims \cup {Free} /\ credited' \in [Txs -> Nat]
      BY <1>2, <1>7 DEF OrderInv, Types
    <3> QED BY <1>2, <1>5, <3>1, ClaimTyped DEF OrderInv
  <2>2. clock' \in Int /\ clock <= clock'
    BY <1>2 DEF OrderInv, Types
  <2>3. Safe'
    BY <1>2, <1>6, <1>7, <2>2, StillStep DEF OrderInv, Taken
  <2> QED BY <2>1, <2>3 DEF OrderInv
<1>8. CASE Saved(unmark(book, k), lapsed_file)
  <2> DEFINE un(o) == [o EXCEPT !.paid = NoTx]
  <2>1. /\ orders' \subseteq Order /\ used' \subseteq Used
        /\ orders' = (orders \ Unmarks(k)) \cup {un(o) : o \in Unmarks(k)}
        /\ used' = {u \in used : u.tx # k.tx}
        /\ \A o \in Unmarks(k) : un(o).paid = NoTx /\ un(o).amt = o.amt
    BY <1>1, <1>8, UnmarkBook DEF Saved, OrderInv
  <2>2. \A o \in orders : o \in Unmarks(k) <=> o.paid = k.tx
    BY <1>4 DEF Unmarks
  <2>3. Unmarks(k) \subseteq orders
    BY DEF Unmarks
  <2> HIDE DEF un
  <2>4. \A o \in orders' : \/ o \in orders /\ o.paid # k.tx
                           \/ \E p \in orders : /\ p.paid = k.tx /\ o = un(p)
                                                /\ o.paid = NoTx /\ o.amt = p.amt
    BY <2>1, <2>2, <2>3
  <2>5. Types' /\ Times'
    <3>1. lock' \in Claims \cup {Free} /\ credited' \in [Txs -> Nat]
      BY <1>2 DEF OrderInv, Types
    <3> QED BY <1>2, <1>5, <2>1, <3>1, ClaimTyped DEF OrderInv
  <2>6. UsedRight'
    BY <1>2, <2>1 DEF OrderInv, Safe, UsedRight
  <2>7. Memory'
    <3> SUFFICES ASSUME NEW x \in Txs, Busy(x)'
                 PROVE  (chain[x] # NoPay)' /\ Remembered(x)'
      BY DEF Memory
    <3>1. x # k.tx /\ x # NoTx
      BY <1>2, <1>3, <1>4, <1>6, <2>4, ModelAssumption DEF Busy, Taken
    <3>2. Busy(x)
      BY <1>2, <1>6, <2>4, <3>1 DEF Busy, Taken
    <3>3. chain[x] # NoPay /\ Remembered(x)
      BY <3>2 DEF OrderInv, Safe, Memory
    <3> QED BY <1>2, <2>1, <3>1, <3>3 DEF Remembered, UsedIn
  <2>8. Holders'
    <3>1. Taken' => Taken /\ hand.tx \in Txs /\ hand.tx # NoTx
      BY <1>2, ModelAssumption DEF Taken, OrderInv, Types
    <3> QED BY <1>2, <1>6, <2>4, <3>1 DEF OrderInv, Safe, Holders
  <2>9. AmountsDistinct'
    <3> SUFFICES ASSUME NEW o \in orders', NEW p \in orders',
                        o.paid = NoTx, p.paid = NoTx, o.amt = p.amt
                 PROVE  o = p
      BY DEF AmountsDistinct
    <3>1. CASE o \in orders /\ p \in orders
      BY <3>1 DEF OrderInv, Safe, AmountsDistinct
    <3>2. CASE o \notin orders \/ p \notin orders
      BY <1>4, <2>4, <3>2
    <3> QED BY <3>1, <3>2
  <2>10. TxPaysOnce'
    BY <1>2 DEF OrderInv, Safe, TxPaysOnce
  <2> QED BY <2>5, <2>6, <2>7, <2>8, <2>9, <2>10 DEF OrderInv, Safe
<1> QED BY <1>2, <1>7, <1>8

-----------------------------------------------------------------------------
(* The operator's command, and everything else.                            *)

\* The types and the times, after a step of the operator.
LEMMA HandTyped ==
  ASSUME Types, Times, hand'.pc \in {"idle", "take", "credit", "put_back"},
         hand'.pc # "idle" =>
           /\ hand'.tx \in Txs /\ hand'.now \in 0..MaxTime /\ Fresh(hand'.now)
           /\ chain[hand'.tx] # NoPay
           /\ hand'.now - chain[hand'.tx].at < HandWithin,
         orders' \subseteq Order, used' \subseteq Used, credited' \in [Txs -> Nat],
         UNCHANGED <<clock, lock, quotes, claim, chain, made>>
  PROVE  Types' /\ Times'
<1>1. Types'
  BY DEF Types
<1>2. (\A c \in Claims : Found(claim[c]))'
  BY DEF Times, Found, Fresh
<1> QED BY <1>1, <1>2 DEF Times, Fresh

\* The operator starts.
LEMMA HandStartKeeps ==
  ASSUME OrderInv, NEW x \in Txs, NEW whose, HandStart(x, whose)
  PROVE  OrderInv'
<1>1. /\ chain[x] # NoPay /\ clock - chain[x].at < HandWithin
      /\ hand'.pc = "take" /\ hand'.tx = x /\ hand'.now = clock
      /\ UNCHANGED <<clock, orders, used, lock, quotes, claim, chain, credited, made>>
  BY DEF HandStart, file, accounts
<1>2. clock \in 0..MaxTime /\ clock \in Int /\ Fresh(clock)
  BY ModelAssumption DEF OrderInv, Types, Fresh
<1>3. /\ orders' \subseteq Order /\ used' \subseteq Used /\ credited' \in [Txs -> Nat]
  BY <1>1 DEF OrderInv, Types
<1>4. Types' /\ Times'
  BY <1>1, <1>2, <1>3, HandTyped DEF OrderInv
<1>5. ~Taken'
  BY <1>1 DEF Taken
<1>6. Safe'
  BY <1>1, <1>2, <1>5, StillStep DEF OrderInv
<1> QED BY <1>4, <1>6 DEF OrderInv

\* Everything take_lapsed may do to the orders and the used transactions:
\* nothing, prune them, or prune them and use a transaction not among them.
LEMMA TakeDoes ==
  ASSUME OrderInv, HandTake
  PROVE  LET b == prune(book, hand.now)
         IN  \/ UNCHANGED <<orders, used>> /\ hand' = Idle
             \/ orders' = b.orders /\ used' = b.used /\ hand' = Idle
             \/ /\ ~UsedIn(b.used, hand.tx)
                /\ orders' = b.orders
                /\ used' = b.used \cup {[tx |-> hand.tx, at |-> hand.now]}
                /\ hand'.pc = "credit" /\ hand'.tx = hand.tx /\ hand'.now = hand.now
<1> DEFINE b == prune(book, hand.now)
           u == [tx |-> hand.tx, at |-> hand.now]
<1>1. hand.pc = "take" /\ hand.now \in 0..MaxTime
  BY DEF HandTake, OrderInv, Types
<1>2. IsBook(b)
  BY <1>1, PruneShrinks DEF OrderInv, Safe, Shrunk
<1>3. PICK l, file1 :
        LET rest  == [b EXCEPT !.lapsed = without(@, l)]
            taken == [rest EXCEPT !.used = @ \cup {u}]
        IN  \/ Saved(b, lapsed_file) /\ hand' = Idle
            \/ /\ ~UsedIn(b.used, hand.tx) /\ Saved(taken, file1)
               /\ hand' = [pc |-> "credit", tx |-> hand.tx, now |-> hand.now,
                           record |-> l]
            \/ UNCHANGED <<orders, used>> /\ hand' = Idle
            \/ orders' = rest.orders /\ used' = rest.used /\ hand' = Idle
  <2> HIDE DEF u
  <2> QED BY DEF HandTake, NotSaved, u
<1> DEFINE rest  == [b EXCEPT !.lapsed = without(@, l)]
           taken == [rest EXCEPT !.used = @ \cup {u}]
<1> HIDE DEF b, u
<1>4. rest.orders = b.orders /\ rest.used = b.used
      /\ taken.orders = b.orders /\ taken.used = b.used \cup {u}
  <2> DEFINE L == without(b.lapsed, l)
             U == b.used \cup {u}
  <2> HIDE DEF L, U
  <2>1. rest = [orders |-> b.orders, used |-> b.used, lapsed |-> L,
                lapsed_pruned |-> b.lapsed_pruned, drop |-> b.drop]
    BY <1>2 DEF IsBook, L
  <2> HIDE DEF rest
  <2>2. rest.orders = b.orders /\ rest.used = b.used
    BY <2>1
  <2>3. taken = [rest EXCEPT !.used = U]
    BY <2>2 DEF U
  <2> HIDE DEF taken
  <2>4. taken.orders = b.orders /\ taken.used = U
    BY <2>1, <2>3
  <2> QED BY <2>2, <2>4 DEF U
<1>5. \/ UNCHANGED <<orders, used>> /\ hand' = Idle
      \/ orders' = b.orders /\ used' = b.used /\ hand' = Idle
      \/ /\ ~UsedIn(b.used, hand.tx)
         /\ orders' = b.orders
         /\ used' = b.used \cup {u}
         /\ hand'.pc = "credit" /\ hand'.tx = hand.tx /\ hand'.now = hand.now
  <2>1. \/ Saved(b, lapsed_file) /\ hand' = Idle
        \/ /\ ~UsedIn(b.used, hand.tx) /\ Saved(taken, file1)
           /\ hand' = [pc |-> "credit", tx |-> hand.tx, now |-> hand.now,
                       record |-> l]
        \/ UNCHANGED <<orders, used>> /\ hand' = Idle
        \/ orders' = rest.orders /\ used' = rest.used /\ hand' = Idle
    BY <1>3
  <2> HIDE DEF rest, taken
  <2> QED BY <1>4, <2>1 DEF Saved
<1> QED BY <1>5 DEF b, u

\* take_lapsed.
LEMMA HandTakeKeeps ==
  ASSUME OrderInv, Timely, HandTake
  PROVE  OrderInv'
<1> DEFINE b == prune(book, hand.now)
           u == [tx |-> hand.tx, at |-> hand.now]
<1>1. /\ hand.pc = "take" /\ hand.now \in 0..MaxTime /\ hand.tx \in Txs
      /\ hand.now <= clock /\ clock <= hand.now + Delay
      /\ chain[hand.tx] # NoPay /\ hand.now - chain[hand.tx].at < HandWithin
      /\ chain[hand.tx].at <= clock
  BY DEF HandTake, OrderInv, Types, Times, Fresh
<1>2. /\ clock \in Int /\ hand.now \in Int /\ chain[hand.tx].at \in Int
      /\ Delay \in Int /\ HandWithin \in Int /\ KEEP_PAID \in Int
  BY <1>1, LifetimesAssumption, ModelAssumption DEF OrderInv, Types, KEEP_PAID
<1>3. UNCHANGED <<clock, lock, quotes, claim, chain, credited, made>>
  BY DEF HandTake, accounts
<1>4. Shrunk(b, hand.now)
  BY <1>1, PruneShrinks DEF OrderInv, Safe
<1>5. b.orders \subseteq orders
  BY <1>1, BookIsBook, PruneKeeps DEF OrderInv
<1>6. \/ UNCHANGED <<orders, used>> /\ hand' = Idle
      \/ orders' = b.orders /\ used' = b.used /\ hand' = Idle
      \/ /\ ~UsedIn(b.used, hand.tx)
         /\ orders' = b.orders /\ used' = b.used \cup {u}
         /\ hand'.pc = "credit" /\ hand'.tx = hand.tx /\ hand'.now = hand.now
  BY TakeDoes
<1>7. u \in Used /\ u.tx = hand.tx /\ u.at = hand.now
  BY <1>1 DEF Used
<1> HIDE DEF b, u
<1>8. /\ orders' \subseteq orders /\ orders' \subseteq Order /\ used' \subseteq Used
      /\ \A v \in used' : v \in used \/ v = u
      /\ \A v \in used : hand.now < v.at + KEEP_PAID => v \in used'
  BY <1>4, <1>5, <1>6, <1>7 DEF Shrunk, IsBook, OrderInv, Types
<1>9. Types' /\ Times'
  <2>1. hand'.pc \in {"idle", "credit"} /\ (hand'.pc # "idle" =>
          hand'.tx = hand.tx /\ hand'.now = hand.now)
    BY <1>6 DEF Idle
  <2>2. credited' \in [Txs -> Nat]
    BY <1>3 DEF OrderInv, Types
  <2> QED BY <1>1, <1>3, <1>8, <2>1, <2>2, HandTyped DEF OrderInv, Fresh
<1>10. UsedRight'
  <2>1. chain[u.tx] # NoPay /\ chain[u.tx].at <= u.at + Delay
    BY <1>1, <1>2, <1>7
  <2> QED BY <1>3, <1>8, <2>1 DEF OrderInv, Safe, UsedRight
<1>11. \A x \in Txs : Busy(x) => chain[x] # NoPay /\ Remembered(x)'
  <2> SUFFICES ASSUME NEW x \in Txs, Busy(x)
               PROVE  chain[x] # NoPay /\ Remembered(x)'
    OBVIOUS
  <2>1. chain[x] # NoPay /\ Remembered(x)
    BY DEF OrderInv, Safe, Memory
  <2>2. CASE clock + Delay >= chain[x].at + KEEP_PAID
    BY <1>3, <2>1, <2>2 DEF Remembered
  <2>3. CASE UsedIn(used, x)
    <3>1. PICK v \in used : v.tx = x
      BY <2>3 DEF UsedIn
    <3>2. CASE hand.now < v.at + KEEP_PAID
      BY <1>8, <2>1, <3>1, <3>2 DEF Remembered, UsedIn
    <3>3. CASE ~(hand.now < v.at + KEEP_PAID)
      <4>1. chain[x].at <= v.at + Delay /\ v.at \in Int /\ chain[x].at \in Int
        BY <2>1, <3>1, ModelAssumption DEF OrderInv, Safe, UsedRight, Types, Used
      <4>2. clock + Delay >= chain[x].at + KEEP_PAID
        BY <1>1, <1>2, <3>3, <4>1
      <4> QED BY <1>3, <2>1, <4>2 DEF Remembered
    <3> QED BY <3>2, <3>3
  <2> QED BY <2>1, <2>2, <2>3 DEF Remembered
<1>12. ASSUME Taken' PROVE ~Busy(hand.tx) /\ hand'.tx = hand.tx /\ u \in used'
  <2>1. /\ ~UsedIn(b.used, hand.tx) /\ used' = b.used \cup {u}
        /\ hand'.tx = hand.tx
    BY <1>6, <1>12 DEF Taken, Idle
  <2>2. clock + Delay < chain[hand.tx].at + KEEP_PAID
    BY <1>1, <1>2 DEF Timely
  <2>3. ASSUME NEW v \in used, v.tx = hand.tx PROVE FALSE
    <3>1. v \notin b.used
      BY <2>1, <2>3 DEF UsedIn
    <3>2. ~(hand.now < v.at + KEEP_PAID)
      BY <1>4, <3>1 DEF Shrunk
    <3>3. chain[hand.tx].at <= v.at + Delay /\ v.at \in Int
      BY <2>3, ModelAssumption DEF OrderInv, Safe, UsedRight, Types, Used
    <3> QED BY <1>1, <1>2, <2>2, <3>2, <3>3
  <2>4. ~Remembered(hand.tx)
    BY <1>2, <2>2, <2>3 DEF Remembered, UsedIn
  <2> QED BY <1>1, <2>1, <2>4, UnusedIsFree
<1>13. Memory'
  <2> SUFFICES ASSUME NEW x \in Txs, Busy(x)'
               PROVE  (chain[x] # NoPay)' /\ Remembered(x)'
    BY DEF Memory
  <2>1. CASE Busy(x)
    BY <1>3, <1>11, <2>1
  <2>2. CASE ~Busy(x)
    <3>1. Taken' /\ x = hand.tx
      BY <1>3, <1>8, <1>12, <2>2 DEF Busy
    <3> QED BY <1>1, <1>3, <1>7, <1>12, <3>1 DEF Remembered, UsedIn
  <2> QED BY <2>1, <2>2
<1>14. Holders'
  <2>1. ASSUME NEW c \in Claims, Marked(claim[c])
        PROVE  /\ lock = c /\ credited[claim[c].tx] = 0
               /\ ~(Taken' /\ hand'.tx = claim[c].tx)
               /\ \A o \in orders' : o.paid = claim[c].tx =>
                    /\ o.amt = claim[c].order.amt /\ o.tok = claim[c].tok
                    /\ \A p \in orders' :
                         p.paid \in {NoTx, claim[c].tx} /\ p.amt = o.amt => p = o
    BY <1>8, <1>12, <2>1 DEF OrderInv, Safe, Holders, Busy
  <2>2. Taken' => /\ credited[hand'.tx] = 0
                  /\ \A o \in orders' : o.paid # hand'.tx
    BY <1>1, <1>8, <1>12 DEF Busy, OrderInv, Types
  <2> QED BY <1>3, <2>1, <2>2 DEF Holders
<1>15. AmountsDistinct'
  BY <1>8 DEF OrderInv, Safe, AmountsDistinct
<1>16. TxPaysOnce'
  BY <1>3 DEF OrderInv, Safe, TxPaysOnce
<1> QED BY <1>9, <1>10, <1>13, <1>14, <1>15, <1>16 DEF OrderInv, Safe

\* The operator credits a transaction, once; or could not.
LEMMA HandCreditKeeps ==
  ASSUME OrderInv, HandCredit
  PROVE  OrderInv'
<1>1. /\ hand.pc = "credit" /\ Taken /\ hand.tx \in Txs /\ hand.now \in 0..MaxTime
      /\ Fresh(hand.now) /\ chain[hand.tx] # NoPay
      /\ hand.now - chain[hand.tx].at < HandWithin
  BY DEF HandCredit, Taken, OrderInv, Types, Times
<1>2. UNCHANGED <<clock, orders, used, lock, quotes, claim, chain, made>>
  BY DEF HandCredit, file
<1>3. orders' \subseteq Order /\ used' \subseteq Used
  BY <1>2 DEF OrderInv, Types
<1>4. CASE credited' = [credited EXCEPT ![hand.tx] = @ + 1] /\ hand' = Idle
  <2>1. hand'.pc = "idle" /\ ~Taken'
    BY <1>4 DEF Idle, Taken
  <2>2. credited[hand.tx] = 0
    BY <1>1 DEF OrderInv, Safe, Holders
  <2>3. /\ credited' \in [Txs -> Nat] /\ credited'[hand.tx] = 1
        /\ \A x \in Txs : x # hand.tx => credited'[x] = credited[x]
    BY <1>1, <1>4, <2>2 DEF OrderInv, Types
  <2>4. Types' /\ Times'
    BY <1>2, <1>3, <2>1, <2>3, HandTyped DEF OrderInv
  <2>5. UsedRight' /\ AmountsDistinct'
    BY <1>2 DEF OrderInv, Safe, UsedRight, AmountsDistinct
  <2>6. Memory'
    <3> SUFFICES ASSUME NEW x \in Txs, Busy(x)'
                 PROVE  (chain[x] # NoPay)' /\ Remembered(x)'
      BY DEF Memory
    <3>1. Busy(x)
      BY <1>1, <1>2, <2>1, <2>3 DEF Busy
    <3> QED BY <1>2, <3>1 DEF OrderInv, Safe, Memory, Remembered
  <2>7. Holders'
    <3>1. \A c \in Claims : Marked(claim[c]) =>
            claim[c].tx \in Txs /\ claim[c].tx # hand.tx
      BY <1>1, ClaimFields DEF Marked, OrderInv, Types, Safe, Holders
    <3> QED BY <1>2, <2>1, <2>3, <3>1 DEF OrderInv, Safe, Holders
  <2>8. TxPaysOnce'
    BY <2>3 DEF OrderInv, Safe, TxPaysOnce
  <2> QED BY <2>4, <2>5, <2>6, <2>7, <2>8 DEF OrderInv, Safe
<1>5. CASE /\ hand' = [pc |-> "put_back", tx |-> hand.tx, now |-> hand.now,
                       record |-> hand.record]
           /\ UNCHANGED credited
  <2>1. hand'.pc = "put_back" /\ hand'.tx = hand.tx /\ hand'.now = hand.now
    BY <1>5
  <2>2. Types' /\ Times'
    <3>1. credited' \in [Txs -> Nat]
      BY <1>5 DEF OrderInv, Types
    <3> QED BY <1>1, <1>2, <1>3, <2>1, <3>1, HandTyped DEF OrderInv
  <2>3. clock' \in Int /\ clock <= clock'
    BY <1>2 DEF OrderInv, Types
  <2>4. Safe'
    BY <1>1, <1>2, <1>5, <2>1, <2>3, StillStep DEF OrderInv
  <2> QED BY <2>2, <2>4 DEF OrderInv
<1> QED BY <1>4, <1>5 DEF HandCredit, Credit, accounts

\* The operator frees a transaction whose credit failed.
LEMMA HandPutBackKeeps ==
  ASSUME OrderInv, HandPutBack
  PROVE  OrderInv'
<1> DEFINE e == [book EXCEPT !.lapsed = <<hand.record>>, !.used = Freed(@, hand.tx)]
<1>1. hand.pc = "put_back" /\ Taken /\ hand.tx \in Txs
  BY DEF HandPutBack, Taken, OrderInv, Types
<1>2. /\ UNCHANGED <<clock, lock, quotes, claim, chain, credited, made>>
      /\ hand'.pc = "idle" /\ ~Taken'
  BY DEF HandPutBack, accounts, Idle, Taken
<1>3. e.orders = orders /\ e.used = {v \in used : v.tx # hand.tx}
  BY DEF book, Freed
<1>4. Saved(e, lapsed_file) \/ NotSaved(e, lapsed_file, "hand")
  BY DEF HandPutBack
<1> HIDE DEF e
<1>5. /\ orders' = orders
      /\ used' = used \/ used' = {v \in used : v.tx # hand.tx}
  BY <1>3, <1>4 DEF Saved, NotSaved
<1>6. Types' /\ Times'
  <2>1. orders' \subseteq Order /\ used' \subseteq Used /\ credited' \in [Txs -> Nat]
    BY <1>2, <1>5 DEF OrderInv, Types
  <2> QED BY <1>2, <2>1, HandTyped DEF OrderInv
<1>7. UsedRight' /\ AmountsDistinct' /\ TxPaysOnce'
  BY <1>2, <1>5 DEF OrderInv, Safe, UsedRight, AmountsDistinct, TxPaysOnce
<1>8. Memory'
  <2> SUFFICES ASSUME NEW x \in Txs, Busy(x)'
               PROVE  (chain[x] # NoPay)' /\ Remembered(x)'
    BY DEF Memory
  <2>1. Busy(x)
    BY <1>2, <1>5 DEF Busy
  <2>2. x # hand.tx
    BY <1>1, <1>2, <1>5 DEF Busy, OrderInv, Safe, Holders
  <2>3. chain[x] # NoPay /\ Remembered(x)
    BY <2>1 DEF OrderInv, Safe, Memory
  <2> QED BY <1>2, <1>5, <2>2, <2>3 DEF Remembered, UsedIn
<1>9. Holders'
  BY <1>2, <1>5 DEF OrderInv, Safe, Holders
<1> QED BY <1>6, <1>7, <1>8, <1>9 DEF OrderInv, Safe

\* A payment appears on the chain: nobody knew of it.
LEMMA PayKeeps ==
  ASSUME OrderInv, NEW x \in Txs, NEW a \in Amounts, Pay(x, a)
  PROVE  OrderInv'
<1>1. PICK at \in (clock - CLOCK_SLACK)..clock :
        chain' = [chain EXCEPT ![x] = [amt |-> a, at |-> at]]
  BY DEF Pay
<1>2. /\ chain[x] = NoPay
      /\ UNCHANGED <<clock, orders, used, lock, quotes, claim, hand, credited, made>>
  BY DEF Pay, file, accounts
<1>3. clock \in Int /\ at \in Int /\ at <= clock
  BY LifetimesAssumption DEF OrderInv, Types
<1>4. /\ chain' \in [Txs -> [amt: Amounts, at: Int] \cup {NoPay}]
      /\ chain'[x].at = at
      /\ \A y \in Txs : y # x => chain'[y] = chain[y]
  BY <1>1, <1>3 DEF OrderInv, Types
<1>5. Types'
  BY <1>2, <1>4 DEF OrderInv, Types
<1>6. Times'
  <2>1. (\A y \in Txs : chain[y] # NoPay => chain[y].at <= clock)'
    BY <1>2, <1>3, <1>4 DEF OrderInv, Times
  <2>2. \A c \in Claims : Found(claim[c])'
    <3> SUFFICES ASSUME NEW c \in Claims PROVE Found(claim[c])'
      OBVIOUS
    <3>1. claim[c] \in Claim /\ Found(claim[c])
      BY DEF OrderInv, Types, Times
    <3>2. claim[c].pc \in {"mark", "credit", "unmark"} =>
            claim[c].tx \in Txs /\ claim[c].tx # x
      BY <1>2, <3>1, ClaimFields DEF Found
    <3> QED BY <1>2, <1>4, <3>1, <3>2 DEF Found, Fresh
  <2>3. hand.pc # "idle" => hand.tx \in Txs /\ hand.tx # x
    BY <1>2 DEF OrderInv, Types, Times
  <2> QED BY <1>2, <1>4, <2>1, <2>2, <2>3 DEF OrderInv, Times, Fresh
<1>7. Safe'
  <2>1. clock' \in Int /\ clock <= clock'
    BY <1>2, <1>3
  <2> QED BY <1>2, <1>4, <2>1, StillStep DEF OrderInv, Taken
<1> QED BY <1>5, <1>6, <1>7 DEF OrderInv

\* The issuer crashes: its claims end, its marks stay.
LEMMA CrashKeeps ==
  ASSUME OrderInv, Crash
  PROVE  OrderInv'
<1>1. /\ claim' = [c \in Claims |->
           IF claim[c].pc \in {"idle", "done"} THEN claim[c]
           ELSE [pc |-> "done", tok |-> claim[c].tok, tx |-> claim[c].tx,
                 answer |-> "cut"]]
      /\ quotes' = {} /\ lock' = Free
      /\ UNCHANGED <<clock, orders, used, hand, chain, credited, made>>
  BY DEF Crash, file, accounts
<1>2. ASSUME NEW c \in Claims
      PROVE  claim'[c] \in Claim /\ ~Marked(claim'[c]) /\ ~Asked(claim'[c])
  <2>1. claim[c] \in Claim
    BY DEF OrderInv, Types
  <2>2. CASE claim[c].pc \in {"idle", "done"}
    BY <1>1, <2>1, <2>2 DEF Marked, Asked
  <2>3. CASE claim[c].pc \notin {"idle", "done"}
    <3> DEFINE n == [pc |-> "done", tok |-> claim[c].tok, tx |-> claim[c].tx,
                     answer |-> "cut"]
    <3>1. claim'[c] = n
      BY <1>1, <2>3
    <3>2. n \in Claim /\ n.pc = "done"
      BY <2>1, <2>3, ClaimFields DEF Claim, Answers
    <3> QED BY <3>1, <3>2 DEF Marked, Asked
  <2> QED BY <2>2, <2>3
<1>3. claim' \in [Claims -> Claim]
  BY <1>1, <1>2
<1>4. Types'
  BY <1>1, <1>3 DEF OrderInv, Types
<1>5. Times'
  <2>1. \A c \in Claims : Found(claim[c])'
    BY <1>2 DEF Found, Asked
  <2> QED BY <1>1, <2>1 DEF OrderInv, Times, Fresh
<1>6. Safe'
  <2>1. clock' \in Int /\ clock <= clock'
    BY <1>1 DEF OrderInv, Types
  <2> QED BY <1>1, <1>2, <2>1, StillStep DEF OrderInv, Taken
<1> QED BY <1>4, <1>5, <1>6 DEF OrderInv

\* The operator's command is cut off.
LEMMA CutKeeps ==
  ASSUME OrderInv, Cut
  PROVE  OrderInv'
<1>1. /\ hand'.pc = "idle" /\ ~Taken'
      /\ UNCHANGED <<clock, orders, used, lock, quotes, claim, chain, credited, made>>
  BY DEF Cut, Idle, Taken, file, accounts
<1>2. Types' /\ Times'
  <2>1. orders' \subseteq Order /\ used' \subseteq Used /\ credited' \in [Txs -> Nat]
    BY <1>1 DEF OrderInv, Types
  <2> QED BY <1>1, <2>1, HandTyped DEF OrderInv
<1>3. clock' \in Int /\ clock <= clock'
  BY <1>1 DEF OrderInv, Types
<1>4. Safe'
  BY <1>1, <1>3, StillStep DEF OrderInv
<1> QED BY <1>2, <1>4 DEF OrderInv

\* Time passes, but not past what a task under way can bear.
LEMMA TickKeeps ==
  ASSUME OrderInv, Tick
  PROVE  OrderInv'
<1>1. /\ clock' = clock + 1 /\ clock < MaxTime
      /\ \A n \in InUse : clock + 1 - n <= Delay
      /\ UNCHANGED <<orders, used, lock, quotes, claim, hand, chain, credited, made>>
  BY DEF Tick, file, accounts
<1>2. clock \in Int /\ clock' \in 0..MaxTime /\ clock <= clock' /\ clock' \in Int
  BY <1>1, ModelAssumption DEF OrderInv, Types
<1>3. Types'
  BY <1>1, <1>2 DEF OrderInv, Types
<1>4. ASSUME NEW n \in InUse, n \in Int, Fresh(n) PROVE Fresh(n)'
  BY <1>1, <1>2, <1>4, ModelAssumption DEF Fresh
<1>5. Times'
  <2>1. (\A x \in Txs : chain[x] # NoPay => chain[x].at <= clock)'
    BY <1>1, <1>2 DEF OrderInv, Types, Times
  <2>2. (\A q \in quotes : Fresh(q.now))'
    <3> SUFFICES ASSUME NEW q \in quotes PROVE Fresh(q.now)'
      BY <1>1 DEF Fresh
    <3>1. q.now \in InUse /\ q.now \in Int /\ Fresh(q.now)
      BY DEF InUse, OrderInv, Types, Times
    <3> QED BY <1>1, <1>4, <3>1 DEF Fresh
  <2>3. \A c \in Claims : Found(claim[c])'
    <3> SUFFICES ASSUME NEW c \in Claims PROVE Found(claim[c])'
      OBVIOUS
    <3>1. claim[c] \in Claim /\ Found(claim[c])
      BY DEF OrderInv, Types, Times
    <3>2. ASSUME Asked(claim[c]) PROVE Fresh(claim[c].now)'
      <4>1. claim[c].now \in InUse
        <5>1. c \in {d \in Claims : claim[d].pc \notin {"idle", "done"}}
          BY <3>2 DEF Asked
        <5> QED BY <5>1 DEF InUse
      <4>2. claim[c].now \in Int /\ Fresh(claim[c].now)
        <5>1. claim[c].now \in 0..MaxTime
          BY <3>2, ClaimNow
        <5> QED BY <3>1, <3>2, <5>1 DEF Found
      <4> QED BY <1>1, <1>4, <4>1, <4>2 DEF Fresh
    <3> QED BY <1>1, <3>1, <3>2 DEF Found, Asked
  <2>4. (hand.pc # "idle" => Fresh(hand.now))'
    <3>1. ASSUME hand.pc # "idle" PROVE Fresh(hand.now)'
      <4>1. hand.now \in InUse /\ hand.now \in Int /\ Fresh(hand.now)
        BY <3>1 DEF InUse, OrderInv, Types, Times
      <4> QED BY <1>1, <1>4, <4>1 DEF Fresh
    <3> QED BY <1>1, <3>1
  <2> QED BY <1>1, <2>1, <2>2, <2>3, <2>4 DEF OrderInv, Times
<1>6. Safe'
  BY <1>1, <1>2, StillStep DEF OrderInv, Taken
<1> QED BY <1>3, <1>5, <1>6 DEF OrderInv

-----------------------------------------------------------------------------
(* "Already claimed" means credited.                                       *)

\* An order that is marked as paid was credited, or is being credited.
PaidIsCredited ==
  \A o \in orders : o.paid # NoTx =>
    \/ credited[o.paid] > 0
    \/ \E c \in Claims : Marked(claim[c]) /\ claim[c].tx = o.paid

AlreadyInv == PaidIsCredited /\ AlreadyMeansCredited

\* A step that marks no order, takes no credit back, lets no claim go that
\* holds a transaction, and tells nobody "already" of one not credited.
LEMMA AlreadyKept ==
  ASSUME OrderInv, AlreadyInv, PaidIn(orders', orders),
         \A x \in Txs : credited[x] > 0 => credited'[x] > 0,
         \A c \in Claims : Marked(claim[c]) =>
           \/ Marked(claim'[c]) /\ claim'[c].tx = claim[c].tx
           \/ credited'[claim[c].tx] > 0
           \/ \A o \in orders' : o.paid # claim[c].tx,
         \A c \in Claims : claim'[c].pc = "done" /\ claim'[c].answer = "already" =>
           claim'[c] = claim[c] \/ credited'[claim'[c].tx] > 0
  PROVE  AlreadyInv'
<1>1. PaidIsCredited'
  <2> SUFFICES ASSUME NEW o \in orders', o.paid # NoTx
               PROVE  \/ credited'[o.paid] > 0
                      \/ \E c \in Claims : Marked(claim'[c]) /\ claim'[c].tx = o.paid
    BY DEF PaidIsCredited, Marked
  <2>1. PICK p \in orders : p.paid = o.paid
    BY DEF PaidIn
  <2>2. o.paid \in Txs
    BY <2>1 DEF OrderInv, Types, Order
  <2>3. \/ credited[o.paid] > 0
        \/ \E c \in Claims : Marked(claim[c]) /\ claim[c].tx = o.paid
    BY <2>1 DEF AlreadyInv, PaidIsCredited
  <2> QED BY <2>2, <2>3
<1>2. AlreadyMeansCredited'
  <2> SUFFICES ASSUME NEW c \in Claims, claim'[c].pc = "done", claim'[c].answer = "already"
               PROVE  credited'[claim'[c].tx] > 0
    BY DEF AlreadyMeansCredited
  <2>1. CASE claim'[c] = claim[c]
    <3>1. claim[c] \in Claim /\ claim[c].pc # "idle"
      BY <2>1 DEF OrderInv, Types
    <3>2. claim[c].tx \in Txs
      BY <3>1, ClaimFields
    <3> QED BY <2>1, <3>2 DEF AlreadyInv, AlreadyMeansCredited
  <2> QED BY <2>1
<1> QED BY <1>1, <1>2 DEF AlreadyInv

\* A change to the file that marks nothing, saved or not.
LEMMA MarksNothing ==
  ASSUME OrderInv, NEW now, NEW b, Shrunk(b, now), change_orders(b) \/ ChangeFails(b)
  PROVE  PaidIn(orders', orders) /\ lock = Free
<1>1. Saved(b, lapsed_file) \/ NotSaved(b, lapsed_file, "orders")
  BY DEF change_orders, ChangeFails
<1>2. FileStep(now)
  BY <1>1, ShrunkSteps DEF OrderInv, Safe
<1> QED BY <1>2 DEF FileStep, change_orders, ChangeFails, Unlocked

\* Orders that only leave the file add no paid one.
LEMMA SamePaid ==
  ASSUME orders' \subseteq orders
  PROVE  PaidIn(orders', orders)
BY DEF PaidIn

\* Nobody holds a transaction while the issuer's lock is free.
LEMMA FreeMarksNone ==
  ASSUME OrderInv, lock = Free
  PROVE  \A c \in Claims : ~Marked(claim[c])
BY ModelAssumption DEF OrderInv, Safe, Holders

\* The step of a claim that changes nothing but the file, and answers nothing
\* or something else than "already".
LEMMA AlreadyByClaim ==
  ASSUME OrderInv, AlreadyInv, NEW c \in Claims, PaidIn(orders', orders),
         UNCHANGED credited, ~Marked(claim[c]), claim[c].pc # "idle",
         \/ \E n : claim' = [claim EXCEPT ![c] = n] /\ n.pc # "done"
         \/ \E a \in Answers \ {"already"} : Answer(c, a)
  PROVE  AlreadyInv'
<1>1. \A d \in Claims : d # c => claim'[d] = claim[d]
  BY DEF Answer, OrderInv, Types
<1>2. ~(claim'[c].pc = "done" /\ claim'[c].answer = "already")
  BY DEF Answer, OrderInv, Types
<1> QED BY <1>1, <1>2, AlreadyKept

\* Every step keeps it.
LEMMA AlreadyStep ==
  ASSUME Timely, Faults \cap {"crash", "unmark"} = {}, OrderInv, AlreadyInv, [Next]_vars
  PROVE  AlreadyInv'
<1> USE DEF file, accounts
<1>1. CASE UNCHANGED <<orders, claim, credited>>
  BY <1>1 DEF AlreadyInv, PaidIsCredited, AlreadyMeansCredited
<1>2. ASSUME NEW q \in quotes, QuoteRefused(q) \/ QuoteOpen(q) PROVE AlreadyInv'
  <2>1. q.now \in 0..MaxTime
    BY DEF OrderInv, Types
  <2>2. UNCHANGED <<claim, credited>>
    BY <1>2 DEF QuoteRefused, QuoteOpen
  <2>3. PaidIn(orders', orders)
    <3> DEFINE b == prune(book, q.now)
    <3>1. Shrunk(b, q.now)
      BY <2>1, PruneShrinks DEF OrderInv, Safe
    <3> HIDE DEF b
    <3>2. CASE change_orders(b) \/ ChangeFails(b)
      BY <3>1, <3>2, MarksNothing
    <3>3. CASE orders' = orders
      BY <3>3, SamePaid
    <3>4. ASSUME NEW n, n.paid = NoTx, orders' = b.orders \cup {n}
          PROVE  PaidIn(orders', orders)
      BY <3>1, <3>4 DEF PaidIn, Shrunk
    <3>5. ASSUME QuoteOpen(q) PROVE \E n : n.paid = NoTx /\ orders' = b.orders \cup {n}
      <4>1. PICK a \in Amounts :
              change_orders([b EXCEPT !.orders = @ \cup
                {[id |-> made + 1, tok |-> q.tok, amt |-> a, created |-> q.now,
                  paid |-> NoTx, tries |-> 0, unclaimed |-> TRUE]}])
        BY <3>5 DEF QuoteOpen, b
      <4> DEFINE n == [id |-> made + 1, tok |-> q.tok, amt |-> a, created |-> q.now,
                       paid |-> NoTx, tries |-> 0, unclaimed |-> TRUE]
      <4>2. n.paid = NoTx
        OBVIOUS
      <4>3. change_orders([b EXCEPT !.orders = @ \cup {n}])
        BY <4>1
      <4> HIDE DEF n
      <4>4. [b EXCEPT !.orders = @ \cup {n}].orders = b.orders \cup {n}
        BY <3>1 DEF Shrunk, IsBook
      <4> QED BY <4>2, <4>3, <4>4 DEF change_orders, Saved
    <3>6. ASSUME QuoteRefused(q)
          PROVE  change_orders(b) \/ ChangeFails(b) \/ orders' = orders
      BY <3>6 DEF QuoteRefused, b
    <3> QED BY <1>2, <3>2, <3>3, <3>4, <3>5, <3>6
  <2> QED BY <2>2, <2>3, AlreadyKept
<1>3. ASSUME NEW c \in Claims, NEW t \in Tokens, NEW x \in Txs, ClaimAsk(c, t, x)
      PROVE  AlreadyInv'
  <2> DEFINE a == known(t, clock)
             n == IF a \in {"nothing", "tries"}
                  THEN [pc |-> "done", tok |-> t, tx |-> x, answer |-> a]
                  ELSE [pc |-> IF a = "hold" THEN "hold" ELSE "pace",
                        tok |-> t, tx |-> x, now |-> clock]
  <2>1. /\ claim[c].pc = "idle" /\ claim' = [claim EXCEPT ![c] = n]
        /\ UNCHANGED <<orders, credited>>
    BY <1>3 DEF ClaimAsk
  <2> HIDE DEF a
  <2>2. ~(n.pc = "done" /\ n.answer = "already")
    OBVIOUS
  <2> HIDE DEF n
  <2>3. claim'[c] = n /\ \A d \in Claims : d # c => claim'[d] = claim[d]
    BY <2>1 DEF OrderInv, Types
  <2> QED BY <2>1, <2>2, <2>3, SamePaid, AlreadyKept DEF Marked
<1>4. ASSUME NEW c \in Claims, ClaimHold(c) PROVE AlreadyInv'
  <2> DEFINE b == hold(book, claim[c].tok, claim[c].now)
  <2>1. claim[c].pc = "hold" /\ ~Marked(claim[c]) /\ UNCHANGED credited
    BY <1>4 DEF ClaimHold, Marked
  <2>2. Shrunk(b, claim[c].now)
    BY <2>1, ClaimNow, HoldShrinks DEF Asked, OrderInv, Safe
  <2> HIDE DEF b
  <2>3. \/ change_orders(b) /\ claim' = [claim EXCEPT ![c].pc = "pace"]
        \/ ChangeFails(b) /\ Answer(c, "again")
    BY <1>4 DEF ClaimHold, b
  <2>4. PaidIn(orders', orders)
    BY <2>2, <2>3, MarksNothing
  <2>5. [claim[c] EXCEPT !.pc = "pace"].pc # "done"
    <3>1. claim[c] \in Claim
      BY DEF OrderInv, Types
    <3> QED BY <2>1, <3>1, ClaimFields
  <2>6. \/ \E n : claim' = [claim EXCEPT ![c] = n] /\ n.pc # "done"
        \/ \E a \in Answers \ {"already"} : Answer(c, a)
    <3>1. "again" \in Answers \ {"already"}
      BY DEF Answers
    <3>2. CASE claim' = [claim EXCEPT ![c].pc = "pace"]
      <4>1. claim' = [claim EXCEPT ![c] = [claim[c] EXCEPT !.pc = "pace"]]
        BY <3>2
      <4> QED BY <2>5, <4>1
    <3> QED BY <2>3, <3>1, <3>2
  <2> QED BY <2>1, <2>4, <2>6, AlreadyByClaim
<1>5. ASSUME NEW c \in Claims, ClaimPaced(c) \/ ClaimChain(c) PROVE AlreadyInv'
  <2>1. /\ claim[c].pc \in {"pace", "chain"} /\ ~Marked(claim[c])
        /\ UNCHANGED <<orders, credited>>
    BY <1>5 DEF ClaimPaced, ClaimChain, Marked
  <2>2. \/ \E n : claim' = [claim EXCEPT ![c] = n] /\ n.pc # "done"
        \/ \E a \in Answers \ {"already"} : Answer(c, a)
    BY <1>5 DEF ClaimPaced, ClaimChain, Answers
  <2> QED BY <2>1, <2>2, SamePaid, AlreadyByClaim
<1>6. ASSUME NEW c \in Claims, ClaimBefore(c) PROVE AlreadyInv'
  <2> DEFINE k    == claim[c]
             b    == prune(book, k.now)
             b2   == tried(hold(b, k.tok, k.now), k.tok, k.now)
             open == OpenOf(b2.orders, k.tok, k.now)
             n    == [pc |-> "chain", tok |-> k.tok, tx |-> k.tx, now |-> k.now,
                      open |-> open]
             same == \E o \in b.orders : o.tok = k.tok /\ o.paid = k.tx
  <2>1. k.pc = "pace" /\ ~Marked(k) /\ UNCHANGED credited
    BY <1>6 DEF ClaimBefore, Marked
  <2>2. k.tx \in Txs /\ k.tx # NoTx /\ k.tok \in Tokens /\ k.now \in 0..MaxTime
    BY <2>1, ClaimNow, ModelAssumption DEF Asked
  <2>3. Shrunk(b, k.now) /\ Shrunk(b2, k.now)
    BY <2>2, PruneShrinks, BeforeShrinks DEF OrderInv, Safe
  <2>4. b.orders \subseteq orders
    BY <2>2, BookIsBook, PruneKeeps DEF OrderInv
  <2>5. \/ /\ change_orders(b) \/ change_orders(b2) \/ ChangeFails(b) \/ ChangeFails(b2)
           /\ \E a \in Answers \ {"already"} : Answer(c, a)
        \/ change_orders(b2) /\ claim' = [claim EXCEPT ![c] = n]
        \/ change_orders(b) /\ same /\ Answer(c, "already")
    BY <1>6 DEF ClaimBefore, Answers
  <2>6. n.pc # "done"
    OBVIOUS
  <2> HIDE DEF b, b2, open, n
  <2>7. PaidIn(orders', orders) /\ lock = Free
    BY <2>3, <2>5, MarksNothing
  <2>8. CASE same /\ Answer(c, "already")
    <3>1. \A d \in Claims : ~Marked(claim[d])
      BY <2>7, FreeMarksNone
    <3>2. credited[k.tx] > 0
      BY <2>2, <2>4, <2>8, <3>1 DEF AlreadyInv, PaidIsCredited
    <3>3. claim'[c].tx = k.tx /\ \A d \in Claims : d # c => claim'[d] = claim[d]
      BY <2>8 DEF Answer, OrderInv, Types
    <3> QED BY <2>1, <2>7, <3>1, <3>2, <3>3, AlreadyKept
  <2>9. CASE \/ claim' = [claim EXCEPT ![c] = n]
             \/ \E a \in Answers \ {"already"} : Answer(c, a)
    BY <2>1, <2>6, <2>7, <2>9, AlreadyByClaim
  <2> QED BY <2>5, <2>8, <2>9
<1>7. ASSUME NEW c \in Claims, ClaimMark(c) PROVE AlreadyInv'
  <2> DEFINE k    == claim[c]
             e(o) == MarkIn(o, k.tx, k.now)
             n(o) == [pc |-> "credit", tok |-> k.tok, tx |-> k.tx, now |-> k.now,
                      order |-> k.order, marked |-> o, orders |-> e(o).orders]
  <2>1. k.pc = "mark" /\ ~Marked(k) /\ UNCHANGED credited /\ lock = Free
    BY <1>7 DEF ClaimMark, Marked, Unlocked
  <2>2. k.tx \in Txs /\ k.now \in 0..MaxTime
    BY <2>1, ClaimNow DEF Asked
  <2>3. \/ /\ change_orders(book) \/ ChangeFails(book)
           /\ \E a \in Answers \ {"already"} : Answer(c, a)
        \/ \E o \in MarkedBy(k) : /\ Saved(e(o), lapsed_file)
                                  /\ claim' = [claim EXCEPT ![c] = n(o)]
    BY <1>7 DEF ClaimMark, Answers, MarkIn
  <2>4. CASE /\ change_orders(book) \/ ChangeFails(book)
             /\ \E a \in Answers \ {"already"} : Answer(c, a)
    <3>1. orders' = orders
      BY <2>4, BookIsBook DEF change_orders, ChangeFails, Saved, NotSaved, OrderInv
    <3> QED BY <2>1, <2>4, <3>1, SamePaid, AlreadyByClaim
  <2>5. ASSUME NEW o \in MarkedBy(k), Saved(e(o), lapsed_file),
               claim' = [claim EXCEPT ![c] = n(o)]
        PROVE  AlreadyInv'
    <3>1. o \in orders
      BY DEF MarkedBy, OpenOf
    <3>2. orders' = (orders \ {o}) \cup {[o EXCEPT !.paid = k.tx]}
      BY <2>2, <2>5, <3>1, MarkBook DEF OrderInv, Saved
    <3>3. n(o).pc = "credit" /\ n(o).tx = k.tx
      OBVIOUS
    <3> HIDE DEF n, e
    <3>4. claim'[c] = n(o) /\ \A d \in Claims : d # c => claim'[d] = claim[d]
      BY <2>5 DEF OrderInv, Types
    <3>5. \A d \in Claims : ~Marked(claim[d])
      BY <2>1, FreeMarksNone
    <3>6. [o EXCEPT !.paid = k.tx].paid = k.tx
      BY <3>1 DEF OrderInv, Types, Order
    <3>7. PaidIsCredited'
      <4> SUFFICES ASSUME NEW p \in orders', p.paid # NoTx
                   PROVE  \/ credited'[p.paid] > 0
                          \/ \E d \in Claims : Marked(claim'[d]) /\ claim'[d].tx = p.paid
        BY DEF PaidIsCredited, Marked
      <4>1. CASE p.paid = k.tx
        BY <3>3, <3>4, <4>1 DEF Marked
      <4>2. CASE p \in orders
        BY <2>1, <3>5, <4>2 DEF AlreadyInv, PaidIsCredited
      <4> QED BY <3>2, <3>6, <4>1, <4>2
    <3>8. AlreadyMeansCredited'
      BY <2>1, <3>3, <3>4 DEF AlreadyInv, AlreadyMeansCredited
    <3> QED BY <3>7, <3>8 DEF AlreadyInv
  <2> QED BY <2>3, <2>4, <2>5
<1>8. ASSUME NEW c \in Claims, ClaimCredit(c) PROVE AlreadyInv'
  <2> DEFINE k == claim[c]
  <2>1. k.pc = "credit" /\ k \in Claim /\ Marked(k) /\ orders' = orders
    BY <1>8 DEF ClaimCredit, Marked, OrderInv, Types
  <2>2. k.tx \in Txs
    BY <2>1, ClaimFields
  <2>3. CASE Credit(k.tx, k.marked.id) /\ Answer(c, "credited")
    <3>1. /\ credited'[k.tx] = credited[k.tx] + 1 /\ credited[k.tx] \in Nat
          /\ \A x \in Txs : x # k.tx => credited'[x] = credited[x]
      BY <2>2, <2>3 DEF Credit, OrderInv, Types
    <3>2. /\ claim'[c].answer = "credited"
          /\ \A d \in Claims : d # c => claim'[d] = claim[d]
      BY <2>3 DEF Answer, OrderInv, Types
    <3>3. \A x \in Txs : credited[x] > 0 => credited'[x] > 0
      BY <3>1
    <3> QED BY <2>1, <3>1, <3>2, <3>3, SamePaid, AlreadyKept
  <2>4. CASE claim' = [claim EXCEPT ![c].pc = "unmark"] /\ UNCHANGED credited
    <3> DEFINE n == [k EXCEPT !.pc = "unmark"]
    <3>1. claim' = [claim EXCEPT ![c] = n]
      BY <2>4
    <3>2. n.pc = "unmark" /\ n.tx = k.tx
      BY <2>1, ClaimFields
    <3> HIDE DEF n
    <3>3. claim'[c] = n /\ \A d \in Claims : d # c => claim'[d] = claim[d]
      BY <3>1 DEF OrderInv, Types
    <3> QED BY <2>1, <2>4, <3>2, <3>3, SamePaid, AlreadyKept DEF Marked
  <2> QED BY <1>8, <2>3, <2>4 DEF ClaimCredit
<1>9. ASSUME NEW c \in Claims, ClaimUnmark(c) PROVE AlreadyInv'
  <2> DEFINE k == claim[c]
             un(o) == [o EXCEPT !.paid = NoTx]
  <2>1. k.pc = "unmark" /\ k \in Claim /\ Marked(k) /\ UNCHANGED credited
    BY <1>9 DEF ClaimUnmark, Marked, OrderInv, Types
  <2>2. k.tx \in Txs /\ k.tx # NoTx
    BY <2>1, ClaimFields, ModelAssumption
  <2>3. Saved(unmark(book, k), lapsed_file) /\ Answer(c, "again")
    BY <1>9 DEF ClaimUnmark, Fault
  <2>4. /\ orders' = (orders \ Unmarks(k)) \cup {un(o) : o \in Unmarks(k)}
        /\ \A o \in Unmarks(k) : un(o).paid = NoTx
    BY <2>1, <2>3, UnmarkBook DEF Saved, OrderInv
  <2>5. \A o \in orders : o \in Unmarks(k) <=> o.paid = k.tx
    BY <2>1 DEF Unmarks, OrderInv, Safe, Holders
  <2> HIDE DEF un
  <2>6. PaidIn(orders', orders) /\ \A o \in orders' : o.paid # k.tx
    BY <2>2, <2>4, <2>5 DEF PaidIn
  <2>7. /\ claim'[c].answer = "again"
        /\ \A d \in Claims : d # c => claim'[d] = claim[d]
    BY <2>3 DEF Answer, OrderInv, Types
  <2> QED BY <2>1, <2>6, <2>7, AlreadyKept
<1>10. CASE HandTake
  <2> DEFINE b == prune(book, hand.now)
  <2>1. hand.now \in 0..MaxTime /\ UNCHANGED <<claim, credited>>
    BY <1>10 DEF HandTake, OrderInv, Types
  <2>2. b.orders \subseteq orders
    BY <2>1, BookIsBook, PruneKeeps DEF OrderInv
  <2>3. orders' = orders \/ orders' = b.orders
    BY <1>10, TakeDoes
  <2> HIDE DEF b
  <2> QED BY <2>1, <2>2, <2>3, SamePaid, AlreadyKept
<1>11. CASE HandCredit
  <2>1. UNCHANGED <<claim, orders>> /\ hand.tx \in Txs
    BY <1>11 DEF HandCredit, OrderInv, Types
  <2>2. \A x \in Txs : credited[x] > 0 => credited'[x] > 0
    BY <1>11, <2>1 DEF HandCredit, Credit, OrderInv, Types
  <2> QED BY <2>1, <2>2, SamePaid, AlreadyKept
<1>12. CASE HandPutBack
  <2>1. UNCHANGED <<orders, claim, credited>>
    BY <1>12 DEF HandPutBack, Saved, NotSaved, book
  <2> QED BY <1>1, <2>1
<1>13. CASE Crash
  BY <1>13 DEF Crash, Fault
<1>14. CASE \/ \E t \in Tokens : QuoteAsk(t)
            \/ \E x \in Txs, whose \in {{t} : t \in Tokens} \cup {Tokens} :
                 HandStart(x, whose)
            \/ \E x \in Txs, a \in Amounts : Pay(x, a)
            \/ Cut \/ Tick \/ UNCHANGED vars
  <2>1. UNCHANGED <<orders, claim, credited>>
    BY <1>14 DEF QuoteAsk, HandStart, Pay, Cut, Tick, vars
  <2> QED BY <1>1, <2>1
<1> QED BY <1>2, <1>3, <1>4, <1>5, <1>6, <1>7, <1>8, <1>9, <1>10, <1>11, <1>12, <1>13,
           <1>14, Zenon DEF Next, Work

-----------------------------------------------------------------------------
(* The theorems.                                                           *)

\* Nothing has happened yet.
LEMMA InitKeeps == Init => OrderInv
<1> SUFFICES ASSUME Init PROVE OrderInv
  OBVIOUS
<1>1. Idle \in Claim /\ Idle.pc = "idle"
  BY DEF Idle, Claim
<1>2. Types
  BY <1>1, ModelAssumption DEF Init, Types
<1>3. Times
  BY <1>1, ModelAssumption DEF Init, Times, Found, Asked
<1>4. Safe
  BY <1>1 DEF Init, Safe, UsedRight, Memory, Busy, Holders, Marked, Taken,
              AmountsDistinct, TxPaysOnce
<1> QED BY <1>2, <1>3, <1>4 DEF OrderInv

\* Every step of every task keeps the invariant, as long as the tasks are
\* Timely.
LEMMA StepKeeps ==
  ASSUME Timely, OrderInv, [Next]_vars
  PROVE  OrderInv'
<1>1. CASE UNCHANGED vars
  <2>1. Types' /\ Times'
    BY <1>1 DEF vars, OrderInv, Types, Times, Found, Fresh
  <2>2. Safe'
    <3>1. clock' \in Int /\ clock <= clock'
      BY <1>1 DEF vars, OrderInv, Types
    <3> QED BY <1>1, <3>1, StillStep DEF vars, OrderInv, Taken
  <2> QED BY <2>1, <2>2 DEF OrderInv
<1>2. ASSUME NEW t \in Tokens, QuoteAsk(t) PROVE OrderInv'
  BY <1>2, QuoteAskKeeps
<1>3. ASSUME NEW q \in quotes, QuoteRefused(q) \/ QuoteOpen(q) PROVE OrderInv'
  BY <1>3, QuoteRefusedKeeps, QuoteOpenKeeps
<1>4. ASSUME NEW c \in Claims, NEW t \in Tokens, NEW x \in Txs, ClaimAsk(c, t, x)
      PROVE  OrderInv'
  BY <1>4, ClaimAskKeeps
<1>5. ASSUME NEW c \in Claims, Work(c) PROVE OrderInv'
  BY <1>5, ClaimHoldKeeps, ClaimPacedKeeps, ClaimBeforeKeeps, ClaimChainKeeps,
     ClaimMarkKeeps, ClaimCreditKeeps, ClaimUnmarkKeeps DEF Work
<1>6. ASSUME NEW x \in Txs, NEW whose, HandStart(x, whose) PROVE OrderInv'
  BY <1>6, HandStartKeeps
<1>7. CASE HandTake \/ HandCredit \/ HandPutBack
  BY <1>7, HandTakeKeeps, HandCreditKeeps, HandPutBackKeeps
<1>8. ASSUME NEW x \in Txs, NEW a \in Amounts, Pay(x, a) PROVE OrderInv'
  BY <1>8, PayKeeps
<1>9. CASE Crash \/ Cut \/ Tick
  BY <1>9, CrashKeeps, CutKeeps, TickKeeps
<1> QED BY <1>1, <1>2, <1>3, <1>4, <1>5, <1>6, <1>7, <1>8, <1>9 DEF Next

\* The invariant holds always.
LEMMA OrderInvHolds ==
  ASSUME Timely
  PROVE  Spec => []OrderInv
<1>1. OrderInv /\ [Next]_vars => OrderInv'
  BY StepKeeps
<1> QED BY <1>1, InitKeeps, PTL DEF Spec

\* A transaction pays once (the `used` list of Orders, mark_paid, take_lapsed),
\* for any number of tokens, orders, transactions and claims, whatever fails
\* and whoever crashes, as long as no task uses a reading of the clock, and the
\* operator credits no payment, older than Timely allows.
THEOREM TxPaysOnceHolds ==
  ASSUME Timely
  PROVE  Spec => []TxPaysOnce
<1>1. OrderInv => TxPaysOnce
  BY DEF OrderInv, Safe
<1> QED BY <1>1, OrderInvHolds, PTL

\* No two unpaid orders ask for the same amount (Orders::open and unmark).
THEOREM AmountsDistinctHolds ==
  ASSUME Timely
  PROVE  Spec => []AmountsDistinct
<1>1. OrderInv => AmountsDistinct
  BY DEF OrderInv, Safe
<1> QED BY <1>1, OrderInvHolds, PTL

\* Whoever is told "already claimed" finds the transaction credited (before_claim,
\* which looks for a marked order, and claim, which marks before it credits):
\* whatever files fail to be written and whatever the operator's command is cut
\* off from, unless the issuer crashes between marking and crediting or the mark
\* of a failed credit cannot be undone.  The run claim_cut_short shows that the
\* crash has to be excepted.
THEOREM AlreadyMeansCreditedHolds ==
  ASSUME Timely, Faults \cap {"crash", "unmark"} = {}
  PROVE  Spec => []AlreadyMeansCredited
<1>1. Init => AlreadyInv
  <2>1. Idle.pc = "idle"
    BY DEF Idle
  <2> QED BY <2>1 DEF Init, AlreadyInv, PaidIsCredited, AlreadyMeansCredited
<1>2. OrderInv /\ AlreadyInv /\ [Next]_vars => AlreadyInv'
  BY AlreadyStep
<1>3. AlreadyInv => AlreadyMeansCredited
  BY DEF AlreadyInv
<1> QED BY <1>1, <1>2, <1>3, OrderInvHolds, PTL DEF Spec

-----------------------------------------------------------------------------
(* What Only keeps of a sequence.                                          *)

\* The function by which Only goes along a sequence.
KeptUpTo(s, S, k, n) ==
  IF n = 0 THEN << >>
  ELSE IF s[n] \in S THEN Append(k[n - 1], s[n]) ELSE k[n - 1]
Keeps(s, S, k) == k = [n \in 0..Len(s) |-> KeptUpTo(s, S, k, n)]

\* Only gives the last value of any such function.
LEMMA OnlyIsKept ==
  ASSUME NEW s, NEW S
  PROVE  Only(s, S) = (CHOOSE k : Keeps(s, S, k))[Len(s)]
BY DEF Only, Keeps, KeptUpTo

\* There is such a function: up to each number, one that is right up to it.
LEMMA KeptExists ==
  ASSUME NEW s, NEW S, Len(s) \in Nat
  PROVE  \E k : Keeps(s, S, k)
<1> DEFINE UpTo(m, g) == \A n \in 0..m : g[n] = KeptUpTo(s, S, g, n)
           Bad == {m \in Nat : ~(\E g : UpTo(m, g))}
<1>1. Bad = {}
  <2> SUFFICES ASSUME Bad # {} PROVE FALSE
    OBVIOUS
  <2>1. PICK m \in Bad : \A j \in Bad : m <= j
    BY LeastNumber
  <2>2. m # 0
    <3> DEFINE z == [n \in 0..0 |-> << >>]
    <3>1. UpTo(0, z)
      BY DEF KeptUpTo
    <3> QED BY <3>1
  <2>3. m - 1 \in Nat /\ m - 1 \notin Bad
    <3>1. m \in Nat
      OBVIOUS
    <3>2. m - 1 \in Nat /\ ~(m <= m - 1)
      BY <2>2, <3>1
    <3> HIDE DEF Bad
    <3> QED BY <2>1, <3>2
  <2>4. PICK g : UpTo(m - 1, g)
    BY <2>3
  <2> DEFINE h == [n \in 0..m |-> IF n = m THEN KeptUpTo(s, S, g, m) ELSE g[n]]
  <2>5. ASSUME NEW n \in 0..m PROVE h[n] = KeptUpTo(s, S, h, n)
    <3>1. CASE n = 0
      BY <3>1, <2>2, <2>3, <2>4 DEF KeptUpTo
    <3>2. CASE n # 0
      <4>1. n - 1 \in 0..m /\ n - 1 # m
        BY <3>2, <2>1
      <4>2. h[n - 1] = g[n - 1]
        BY <4>1
      <4>3. h[n] = KeptUpTo(s, S, g, n)
        <5>1. CASE n = m
          BY <5>1
        <5>2. CASE n # m
          <6>1. n \in 0..(m - 1)
            BY <5>2, <2>1
          <6> QED BY <5>2, <6>1, <2>4
        <5> QED BY <5>1, <5>2
      <4> HIDE DEF h
      <4> QED BY <4>2, <4>3, <3>2 DEF KeptUpTo
    <3> QED BY <3>1, <3>2
  <2> HIDE DEF h
  <2>6. UpTo(m, h)
    BY <2>5
  <2> QED BY <2>1, <2>6
<1>2. PICK g : UpTo(Len(s), g)
  BY <1>1
<1> DEFINE k == [n \in 0..Len(s) |-> g[n]]
<1>3. ASSUME NEW n \in 0..Len(s) PROVE k[n] = KeptUpTo(s, S, k, n)
  <2>1. g[n] = KeptUpTo(s, S, g, n)
    BY <1>2
  <2>2. n # 0 => n - 1 \in 0..Len(s)
    OBVIOUS
  <2> QED BY <2>1, <2>2 DEF KeptUpTo
<1>4. k = [n \in 0..Len(s) |-> KeptUpTo(s, S, k, n)]
  BY <1>3
<1> QED BY <1>4 DEF Keeps

\* So Only keeps of a sequence what is in the set, and nothing else.
LEMMA OnlyKeeps ==
  ASSUME NEW R, NEW s \in Seq(R), NEW S
  PROVE  Only(s, S) \in Seq(R) /\ Range(Only(s, S)) = {x \in Range(s) : x \in S}
<1> DEFINE k == CHOOSE j : Keeps(s, S, j)
           Good(n) == /\ k[n] \in Seq(R)
                      /\ Range(k[n]) = {s[i] : i \in {j \in 1..n : s[j] \in S}}
           Bad == {n \in 0..Len(s) : ~Good(n)}
<1>1. Len(s) \in Nat /\ Keeps(s, S, k)
  BY KeptExists
<1>2. Only(s, S) = k[Len(s)]
  BY OnlyIsKept
<1>3. \A n \in 0..Len(s) : k[n] = KeptUpTo(s, S, k, n)
  BY <1>1 DEF Keeps
<1> HIDE DEF k
<1>4. Bad = {}
  <2> SUFFICES ASSUME Bad # {} PROVE FALSE
    OBVIOUS
  <2>1. PICK n \in Bad : \A j \in Bad : n <= j
    <3>1. Bad \subseteq Nat
      BY <1>1
    <3> HIDE DEF Bad
    <3> QED BY <3>1, LeastNumber
  <2>2. n \in 0..Len(s) /\ n \in Nat /\ ~Good(n)
    BY <1>1
  <2>3. n # 0
    <3>1. k[0] = << >>
      BY <1>1, <1>3 DEF KeptUpTo
    <3>2. Good(0)
      BY <3>1 DEF Range
    <3> QED BY <2>2, <3>2
  <2>4. n - 1 \in 0..Len(s) /\ n - 1 \notin Bad /\ n \in 1..Len(s)
    <3>1. n - 1 \in 0..Len(s) /\ n \in 1..Len(s) /\ ~(n <= n - 1)
      BY <1>1, <2>2, <2>3
    <3> HIDE DEF Bad
    <3> QED BY <2>1, <3>1
  <2>5. Good(n - 1)
    BY <2>4
  <2>6. s[n] \in R
    BY <2>4
  <2>7. k[n] = IF s[n] \in S THEN Append(k[n - 1], s[n]) ELSE k[n - 1]
    BY <1>3, <2>2, <2>3 DEF KeptUpTo
  <2>8. {s[i] : i \in {j \in 1..n : s[j] \in S}}
          = {s[i] : i \in {j \in 1..(n - 1) : s[j] \in S}}
              \cup (IF s[n] \in S THEN {s[n]} ELSE {})
    <3>1. 1..n = (1..(n - 1)) \cup {n}
      BY <2>2, <2>3
    <3> QED BY <3>1
  <2>9. CASE s[n] \in S
    <3> DEFINE q == k[n - 1]
    <3>1. q \in Seq(R) /\ k[n] = Append(q, s[n])
      BY <2>5, <2>7, <2>9
    <3>2. ASSUME NEW p \in Seq(R), NEW x \in R
          PROVE  Append(p, x) \in Seq(R) /\ Range(Append(p, x)) = Range(p) \cup {x}
      <4>1. /\ Append(p, x) \in Seq(R) /\ Len(Append(p, x)) = Len(p) + 1
            /\ \A i \in 1..Len(p) : Append(p, x)[i] = p[i]
            /\ Append(p, x)[Len(p) + 1] = x
        OBVIOUS
      <4>2. 1..(Len(p) + 1) = (1..Len(p)) \cup {Len(p) + 1}
        OBVIOUS
      <4>3. Range(Append(p, x)) = {Append(p, x)[i] : i \in 1..(Len(p) + 1)}
        <5>1. DOMAIN Append(p, x) = 1..Len(Append(p, x))
          BY <4>1
        <5> QED BY <4>1, <5>1 DEF Range
      <4>4. Range(p) = {p[i] : i \in 1..Len(p)}
        BY DEF Range
      <4> QED BY <4>1, <4>2, <4>3, <4>4
    <3> HIDE DEF q
    <3>3. Range(k[n]) = Range(q) \cup {s[n]} /\ k[n] \in Seq(R)
      BY <2>6, <3>1, <3>2
    <3>4. Range(q) = {s[i] : i \in {j \in 1..(n - 1) : s[j] \in S}}
      BY <2>5 DEF q
    <3> QED BY <2>2, <2>8, <2>9, <3>3, <3>4
  <2>10. CASE s[n] \notin S
    BY <2>2, <2>5, <2>7, <2>8, <2>10
  <2> QED BY <2>9, <2>10
<1>5. Good(Len(s))
  <2>1. Len(s) \in 0..Len(s)
    BY <1>1
  <2> QED BY <1>4, <2>1
<1>6. {s[i] : i \in {j \in 1..Len(s) : s[j] \in S}} = {x \in Range(s) : x \in S}
  BY DEF Range
<1> QED BY <1>2, <1>5, <1>6

-----------------------------------------------------------------------------
(* Where an order is: the second invariant.                                *)

\* The unpaid orders, and as it was the one that a claim is crediting.
Marking  == {c \in Claims : Marked(claim[c])}
Unpaid(S) == {o \in S : o.paid = NoTx}
Standing == Unpaid(orders) \cup {claim[c].marked : c \in Marking}

\* The records of the lapsed file.
Records == Range(lapsed_file)

\* A record lapsed when the life of its order was over.
IsRecord(r) == r \in Lapsed /\ r.lapsed >= UNCLAIMED_LIFETIME

\* The shape of the lapsed file and of what is counted.
FileTypes ==
  /\ lapsed_file \in Seq(Lapsed) /\ \A r \in Records : IsRecord(r)
  /\ lapsed_pruned \in 0..MaxTime
  /\ Taken => IsRecord(hand.record)
  /\ served \in [1..MaxOrders -> Nat]

\* Every order has its number, given once.
Numbered ==
  /\ \A o \in orders : o.id <= made
  /\ \A o, p \in orders : o.id = p.id => o = p
  /\ \A r \in Records : r.id <= made
  /\ Taken => hand.record.id <= made

\* The order a claim marked is in the file, marked.
MarkStands ==
  \A c \in Claims : Marked(claim[c]) =>
    /\ claim[c].marked \in Order /\ claim[c].marked.paid = NoTx
    /\ claim[c].now < claim[c].marked.created + ORDER_LIFETIME
    /\ [claim[c].marked EXCEPT !.paid = claim[c].tx] \in orders

-----------------------------------------------------------------------------
(* A loaded file, as far as the records and the numbers matter.            *)

\* The same order, whatever its tries and whether it is held.
Same(o, p) == /\ o.id = p.id /\ o.tok = p.tok /\ o.amt = p.amt
              /\ o.created = p.created /\ o.paid = p.paid

\* What a task has in memory: orders of the file, and of each unpaid one that it
\* dropped a record to be written.
Loaded(b, now) ==
  /\ IsBook(b) /\ b.lapsed \in Seq(Lapsed) /\ b.lapsed_pruned \in 0..MaxTime
  /\ b.drop \in Int /\ b.drop + LAPSED_KEPT <= now
  /\ \A o \in b.orders : \E p \in orders : Same(o, p)
  /\ \A o, p \in b.orders : o.id = p.id => o = p
  /\ \A p \in orders : p.paid = NoTx =>
       \/ \E o \in b.orders : o.id = p.id
       \/ \E r \in Range(b.lapsed) : r.id = p.id
       \/ now >= UNCLAIMED_LIFETIME + LAPSED_KEPT
  /\ \A r \in Range(b.lapsed) :
       /\ IsRecord(r)
       /\ \E p \in orders : p.paid = NoTx /\ p.id = r.id
       /\ \A o \in b.orders : o.id # r.id
       /\ \A s \in Range(b.lapsed) : s.id = r.id => s = r

\* One sequence after another has what either has.
LEMMA RangeOfBoth ==
  ASSUME NEW R, NEW s \in Seq(R), NEW t \in Seq(R)
  PROVE  s \o t \in Seq(R) /\ Range(s \o t) = Range(s) \cup Range(t)
<1>1. /\ s \o t \in Seq(R) /\ Len(s \o t) = Len(s) + Len(t)
      /\ Len(s) \in Nat /\ Len(t) \in Nat
      /\ \A i \in 1..Len(s) : (s \o t)[i] = s[i]
      /\ \A i \in 1..Len(t) : (s \o t)[i + Len(s)] = t[i]
  OBVIOUS
<1>2. /\ Range(s) = {s[i] : i \in 1..Len(s)} /\ Range(t) = {t[i] : i \in 1..Len(t)}
      /\ Range(s \o t) = {(s \o t)[i] : i \in 1..(Len(s) + Len(t))}
  BY <1>1 DEF Range
<1>3. ASSUME NEW i \in 1..(Len(s) + Len(t)) PROVE (s \o t)[i] \in Range(s) \cup Range(t)
  <2>1. CASE i \in 1..Len(s)
    BY <2>1, <1>1, <1>2
  <2>2. CASE i \notin 1..Len(s)
    <3>1. i - Len(s) \in 1..Len(t) /\ (i - Len(s)) + Len(s) = i
      BY <2>2, <1>1
    <3> QED BY <3>1, <1>1, <1>2
  <2> QED BY <2>1, <2>2
<1>4. ASSUME NEW i \in 1..Len(s) PROVE s[i] \in Range(s \o t)
  <2>1. i \in 1..(Len(s) + Len(t))
    BY <1>1
  <2> QED BY <2>1, <1>1, <1>2
<1>5. ASSUME NEW i \in 1..Len(t) PROVE t[i] \in Range(s \o t)
  <2>1. i + Len(s) \in 1..(Len(s) + Len(t))
    BY <1>1
  <2> QED BY <2>1, <1>1, <1>2
<1>6. Range(s \o t) \subseteq Range(s) \cup Range(t)
  BY <1>2, <1>3
<1>7. Range(s) \subseteq Range(s \o t) /\ Range(t) \subseteq Range(s \o t)
  BY <1>2, <1>4, <1>5
<1> QED BY <1>1, <1>6, <1>7

\* What a sequence has, it has at some place.
LEMMA RangeAt ==
  ASSUME NEW R, NEW s \in Seq(R)
  PROVE  /\ Len(s) \in Nat /\ Range(s) \subseteq R
         /\ \A i \in 1..Len(s) : s[i] \in Range(s)
         /\ \A x \in Range(s) : \E i \in 1..Len(s) : s[i] = x
BY DEF Range

\* A record is of its order, and lapses when it does.
LEMMA RecordIsRecord ==
  ASSUME NEW o \in Order
  PROVE  /\ IsRecord(RecordOf(o)) /\ RecordOf(o).id = o.id
         /\ RecordOf(o).lapsed = lapses_at(o) /\ lapses_at(o) \in Nat
         /\ lapses_at(o) >= o.created + UNCLAIMED_LIFETIME
         /\ lapses_at(o) <= o.created + ORDER_LIFETIME
<1>1. /\ o.id \in 1..MaxOrders /\ o.tok \in Tokens /\ o.amt \in Amounts
      /\ o.created \in 0..MaxTime /\ o.unclaimed \in BOOLEAN
  BY DEF Order
<1>2. /\ lapses_at(o) \in Nat /\ lapses_at(o) >= o.created + UNCLAIMED_LIFETIME
      /\ lapses_at(o) >= UNCLAIMED_LIFETIME /\ lapses_at(o) <= o.created + ORDER_LIFETIME
  BY <1>1, LifetimesAssumption, ModelAssumption DEF lapses_at
<1>3. (~o.unclaimed) \in BOOLEAN
  BY <1>1
<1> QED BY <1>1, <1>2, <1>3 DEF RecordOf, IsRecord, Lapsed

\* What prune adds to the records: those of the unpaid orders that lapsed.
Gone(S, now) == {o \in S : o.paid = NoTx /\ ~open_at(o, now)}

\* They are records of such orders, one of each.
LEMMA PruneRecords ==
  ASSUME NEW b, NEW now \in 0..MaxTime, IsBook(b), b.lapsed \in Seq(Lapsed),
         \A o, p \in b.orders : o.id = p.id => o = p
  PROVE  /\ prune(b, now).lapsed \in Seq(Lapsed)
         /\ Range(prune(b, now).lapsed)
              = {l \in Range(b.lapsed) \cup {RecordOf(o) : o \in Gone(b.orders, now)} :
                   now < l.lapsed + LAPSED_KEPT}
<1> DEFINE gone == Gone(b.orders, now)
           I    == 1..MaxOrders
           nums == [i \in 1..MaxOrders |-> i]
           of   == {o.id : o \in gone}
           ids  == Only(nums, of)
           new  == [n \in 1..Len(ids) |-> RecordOf(CHOOSE o \in gone : o.id = ids[n])]
           all  == b.lapsed \o new
<1>1. prune(b, now).lapsed = Only(all, {l \in Range(all) : now < l.lapsed + LAPSED_KEPT})
  BY DEF prune, Gone
<1>2. gone \subseteq b.orders /\ gone \subseteq Order
  BY DEF Gone, IsBook
<1>3. nums \in Seq(I) /\ Range(nums) = I
  BY ModelAssumption DEF Range
<1>4. of \subseteq I
  BY <1>2 DEF Order
<1> HIDE DEF I
<1>5. ids \in Seq(I) /\ Range(ids) = of
  <2> HIDE DEF nums, of
  <2>1. ids \in Seq(I) /\ Range(ids) = {x \in Range(nums) : x \in of}
    BY <1>3, OnlyKeeps
  <2> HIDE DEF ids
  <2> QED BY <1>3, <1>4, <2>1
<1> HIDE DEF ids
<1>6. ASSUME NEW n \in 1..Len(ids)
      PROVE  \E o \in gone : o.id = ids[n] /\ new[n] = RecordOf(o)
  <2>1. ids[n] \in of
    BY <1>5, RangeAt
  <2>2. (CHOOSE o \in gone : o.id = ids[n]) \in gone
        /\ (CHOOSE o \in gone : o.id = ids[n]).id = ids[n]
    BY <2>1
  <2> QED BY <2>2
<1>7. ASSUME NEW o \in gone PROVE \E n \in 1..Len(ids) : new[n] = RecordOf(o)
  <2>0. o.id \in Range(ids)
    BY <1>5
  <2>1. PICK n \in 1..Len(ids) : ids[n] = o.id
    BY <1>5, <2>0, RangeAt
  <2>2. PICK p \in gone : p.id = ids[n] /\ new[n] = RecordOf(p)
    BY <1>6
  <2>3. p = o
    BY <1>2, <2>1, <2>2
  <2> QED BY <2>2, <2>3
<1>8. Len(ids) \in Nat /\ DOMAIN new = 1..Len(ids)
  BY <1>5
<1> HIDE DEF new
<1>9. \A n \in 1..Len(ids) : new[n] \in Lapsed
  BY <1>2, <1>6, RecordIsRecord DEF IsRecord
<1>10. new \in Seq(Lapsed) /\ Range(new) = {RecordOf(o) : o \in gone}
  <2>1. new = [n \in 1..Len(ids) |-> new[n]]
    BY <1>8 DEF new
  <2>2. new \in Seq(Lapsed)
    BY <1>8, <1>9, <2>1
  <2>3. Range(new) = {new[n] : n \in 1..Len(ids)}
    BY <1>8 DEF Range
  <2> QED BY <1>6, <1>7, <2>2, <2>3
<1>11. all \in Seq(Lapsed) /\ Range(all) = Range(b.lapsed) \cup {RecordOf(o) : o \in gone}
  BY <1>10, RangeOfBoth
<1> HIDE DEF all, gone
<1> DEFINE young == {l \in Range(all) : now < l.lapsed + LAPSED_KEPT}
<1>12. Only(all, young) \in Seq(Lapsed) /\ Range(Only(all, young)) = {x \in Range(all) : x \in young}
  <2> HIDE DEF young
  <2> QED BY <1>11, OnlyKeeps
<1>13. prune(b, now).lapsed = Only(all, young)
  BY <1>1 DEF all
<1> QED BY <1>11, <1>12, <1>13 DEF gone

\* The file as it is loaded.
LEMMA BookLoaded ==
  ASSUME Types, FileTypes, Numbered, NEW now \in 0..MaxTime
  PROVE  Loaded(book, now)
<1>1. IsBook(book) /\ book.orders = orders
  BY BookIsBook
<1>2. book.lapsed = << >> /\ book.lapsed_pruned = lapsed_pruned /\ book.drop = -1 - LAPSED_KEPT
  BY DEF book
<1>3. book.lapsed \in Seq(Lapsed) /\ Range(book.lapsed) = {}
  BY <1>2 DEF Range
<1>4. book.drop \in Int /\ book.drop + LAPSED_KEPT <= now
  BY <1>2, LifetimesAssumption
<1>5. \A o \in orders : Same(o, o)
  BY DEF Same
<1> QED BY <1>1, <1>2, <1>3, <1>4, <1>5 DEF Loaded, FileTypes, Numbered

\* prune loses no unpaid order but to the records, or for their age.
LEMMA PruneLoaded ==
  ASSUME NEW now \in 0..MaxTime, NEW b, Loaded(b, now),
         \A o, p \in orders : o.id = p.id => o = p
  PROVE  /\ Loaded(prune(b, now), now)
         /\ prune(b, now).orders = {o \in b.orders : \/ open_at(o, now)
                                                     \/ /\ o.paid # NoTx
                                                        /\ now < o.created + KEEP_PAID}
         /\ Unpaid(prune(b, now).orders) = Open(b.orders, now)
<1> DEFINE p == prune(b, now)
           gone == Gone(b.orders, now)
<1>1. /\ IsBook(p) /\ p.orders \subseteq b.orders
  BY PruneKeeps DEF Loaded
<1>2. /\ p.lapsed \in Seq(Lapsed)
      /\ Range(p.lapsed) = {l \in Range(b.lapsed) \cup {RecordOf(o) : o \in gone} :
                              now < l.lapsed + LAPSED_KEPT}
  <2>1. IsBook(b) /\ b.lapsed \in Seq(Lapsed) /\ \A o, q \in b.orders : o.id = q.id => o = q
    BY DEF Loaded
  <2> QED BY <2>1, PruneRecords
<1>3. p.orders = {o \in b.orders : \/ open_at(o, now)
                                   \/ o.paid # NoTx /\ now < o.created + KEEP_PAID}
  BY DEF prune
<1>4. Unpaid(p.orders) = Open(b.orders, now)
  BY <1>3 DEF Unpaid, Open, open_at
<1>5. p.lapsed_pruned \in 0..MaxTime /\ p.drop \in Int /\ p.drop + LAPSED_KEPT <= now
  <2>1. p.lapsed_pruned = IF due(b, now) THEN now ELSE b.lapsed_pruned
    BY DEF prune, last_pruned
  <2>2. p.drop = IF due(b, now) THEN now - LAPSED_KEPT ELSE b.drop
    BY DEF prune
  <2> QED BY <2>1, <2>2, LifetimesAssumption DEF Loaded
<1> HIDE DEF p
<1>6. /\ gone \subseteq b.orders /\ gone \subseteq Order
      /\ \A o \in gone : o.paid = NoTx
      /\ \A o \in b.orders : o.paid = NoTx => o \in p.orders \/ o \in gone
      /\ gone \cap p.orders = {}
  BY <1>1, <1>3 DEF Gone, IsBook, Loaded, open_at
<1>7. \A o \in gone : /\ IsRecord(RecordOf(o)) /\ RecordOf(o).id = o.id
  BY <1>6, RecordIsRecord
<1>8. ASSUME NEW o \in orders, o.paid = NoTx
      PROVE  \/ \E q \in p.orders : q.id = o.id
             \/ \E r \in Range(p.lapsed) : r.id = o.id
             \/ now >= UNCLAIMED_LIFETIME + LAPSED_KEPT
  <2>r. ASSUME NEW r, IsRecord(r), r.id = o.id, r \in Range(b.lapsed) \cup {RecordOf(q) : q \in gone}
        PROVE  \/ \E s \in Range(p.lapsed) : s.id = o.id
               \/ now >= UNCLAIMED_LIFETIME + LAPSED_KEPT
    <3>1. r.lapsed \in Nat /\ r.lapsed >= UNCLAIMED_LIFETIME
      BY <2>r DEF IsRecord, Lapsed
    <3>2. CASE now < r.lapsed + LAPSED_KEPT
      BY <1>2, <2>r, <3>2
    <3>3. CASE ~(now < r.lapsed + LAPSED_KEPT)
      BY <3>1, <3>3, LifetimesAssumption
    <3> QED BY <3>2, <3>3
  <2>1. CASE \E r \in Range(b.lapsed) : r.id = o.id
    BY <2>1, <2>r DEF Loaded
  <2>2. ASSUME NEW q \in b.orders, q.id = o.id
        PROVE  \/ \E s \in p.orders : s.id = o.id
               \/ \E r \in Range(p.lapsed) : r.id = o.id
               \/ now >= UNCLAIMED_LIFETIME + LAPSED_KEPT
    <3>1. CASE q \in p.orders
      BY <2>2, <3>1
    <3>2. CASE q \in gone
      BY <2>2, <3>2, <1>7, <2>r
    <3>3. CASE q.paid # NoTx /\ q \notin p.orders
      <4>1. PICK u \in orders : Same(q, u)
        BY DEF Loaded
      <4>2. u = o
        BY <2>2, <4>1 DEF Same
      <4> QED BY <1>8, <3>3, <4>1, <4>2 DEF Same
    <3> QED BY <1>6, <3>1, <3>2, <3>3
  <2>3. \/ \E q \in b.orders : q.id = o.id
        \/ \E r \in Range(b.lapsed) : r.id = o.id
        \/ now >= UNCLAIMED_LIFETIME + LAPSED_KEPT
    BY <1>8 DEF Loaded
  <2> QED BY <2>1, <2>2, <2>3
<1>9. ASSUME NEW r \in Range(p.lapsed)
      PROVE  /\ IsRecord(r)
             /\ \E o \in orders : o.paid = NoTx /\ o.id = r.id
             /\ \A o \in p.orders : o.id # r.id
             /\ \A s \in Range(p.lapsed) : s.id = r.id => s = r
  <2>1. CASE r \in Range(b.lapsed)
    <3>1. \A s \in {RecordOf(q) : q \in gone} : s.id # r.id
      BY <1>6, <1>7, <2>1 DEF Loaded
    <3> QED BY <1>1, <1>2, <2>1, <3>1 DEF Loaded
  <2>2. ASSUME NEW q \in gone, r = RecordOf(q)
        PROVE  /\ IsRecord(r)
               /\ \E o \in orders : o.paid = NoTx /\ o.id = r.id
               /\ \A o \in p.orders : o.id # r.id
               /\ \A s \in Range(p.lapsed) : s.id = r.id => s = r
    <3>1. r.id = q.id /\ IsRecord(r)
      BY <1>7, <2>2
    <3>2. \E o \in orders : o.paid = NoTx /\ o.id = r.id
      BY <1>6, <3>1 DEF Loaded, Same
    <3>3. \A o \in p.orders : o.id # r.id
      BY <1>1, <1>6, <3>1 DEF Loaded
    <3>4. ASSUME NEW s \in Range(p.lapsed), s.id = r.id PROVE s = r
      <4>1. s \notin Range(b.lapsed)
        BY <1>6, <3>1, <3>4 DEF Loaded
      <4>2. PICK u \in gone : s = RecordOf(u)
        BY <1>2, <4>1
      <4>3. u = q
        BY <1>6, <1>7, <3>1, <3>4, <4>2 DEF Loaded
      <4> QED BY <2>2, <4>2, <4>3
    <3> QED BY <3>1, <3>2, <3>3, <3>4
  <2> QED BY <1>2, <2>1, <2>2
<1>10. /\ \A o \in p.orders : \E q \in orders : Same(o, q)
       /\ \A o, q \in p.orders : o.id = q.id => o = q
  BY <1>1 DEF Loaded
<1>11. Loaded(p, now)
  BY <1>1, <1>2, <1>5, <1>8, <1>9, <1>10 DEF Loaded
<1> QED BY <1>3, <1>4, <1>11 DEF p

-----------------------------------------------------------------------------
(* The caps, and a loaded file that hold and tried change.                 *)

\* The caps, of a set of orders.
CapsOf(S) ==
  /\ IsFiniteSet(S) /\ Cardinality(S) <= MAX_OPEN_ORDERS
  /\ \A t \in Tokens : Cardinality({o \in S : o.tok = t}) <= MAX_OPEN_PER_ACCOUNT
  /\ Cardinality({o \in S : ~o.unclaimed}) <= MAX_HELD_ORDERS

\* Fewer orders are within them too.
LEMMA FewerCaps ==
  ASSUME NEW S, NEW T, T \subseteq S, CapsOf(S)
  PROVE  CapsOf(T)
<1>1. IsFiniteSet(T) /\ Cardinality(T) <= Cardinality(S) /\ Cardinality(T) \in Nat /\ Cardinality(S) \in Nat
  BY FS_Subset, FS_CardinalityType DEF CapsOf
<1>2. ASSUME NEW A, NEW B, A \subseteq B, B \subseteq S
      PROVE  Cardinality(A) <= Cardinality(B) /\ Cardinality(A) \in Nat /\ Cardinality(B) \in Nat
  <2>1. IsFiniteSet(B)
    BY <1>2, FS_Subset DEF CapsOf
  <2> QED BY <1>2, <2>1, FS_Subset, FS_CardinalityType
<1>3. ASSUME NEW t \in Tokens PROVE Cardinality({o \in T : o.tok = t}) <= MAX_OPEN_PER_ACCOUNT
  <2>1. {o \in T : o.tok = t} \subseteq {o \in S : o.tok = t} /\ {o \in S : o.tok = t} \subseteq S
    OBVIOUS
  <2>2. Cardinality({o \in T : o.tok = t}) <= Cardinality({o \in S : o.tok = t})
        /\ Cardinality({o \in T : o.tok = t}) \in Nat /\ Cardinality({o \in S : o.tok = t}) \in Nat
    BY <2>1, <1>2
  <2> QED BY <2>2, CapsAssumption DEF CapsOf
<1>4. Cardinality({o \in T : ~o.unclaimed}) <= MAX_HELD_ORDERS
  <2>1. {o \in T : ~o.unclaimed} \subseteq {o \in S : ~o.unclaimed} /\ {o \in S : ~o.unclaimed} \subseteq S
    OBVIOUS
  <2>2. Cardinality({o \in T : ~o.unclaimed}) <= Cardinality({o \in S : ~o.unclaimed})
        /\ Cardinality({o \in T : ~o.unclaimed}) \in Nat /\ Cardinality({o \in S : ~o.unclaimed}) \in Nat
    BY <2>1, <1>2
  <2> QED BY <2>2, CapsAssumption DEF CapsOf
<1> QED BY <1>1, <1>3, <1>4, CapsAssumption DEF CapsOf

\* A function gives no more values than it has arguments.
LEMMA ImageCount ==
  ASSUME NEW S, IsFiniteSet(S), NEW g
  PROVE  /\ IsFiniteSet({g[o] : o \in S}) /\ Cardinality(S) \in Nat
         /\ Cardinality({g[o] : o \in S}) \in Nat
         /\ Cardinality({g[o] : o \in S}) <= Cardinality(S)
<1> DEFINE T == {g[o] : o \in S}
           f == [o \in S |-> g[o]]
<1>1. f \in Surjection(S, T)
  BY DEF Surjection
<1> HIDE DEF T, f
<1>2. IsFiniteSet(T) /\ Cardinality(T) <= Cardinality(S)
  BY <1>1, FS_Surjection
<1>3. Cardinality(S) \in Nat /\ Cardinality(T) \in Nat
  BY <1>2, FS_CardinalityType
<1> QED BY <1>2, <1>3 DEF T

\* Of orders with different numbers, less than r are before each of at most r.
LEMMA FewKept ==
  ASSUME NEW M, IsFiniteSet(M), M \subseteq Order, NEW r \in Nat,
         \A o, p \in M : o.id = p.id => o = p,
         NEW K, K = {o \in M : Cardinality({p \in M : p.id < o.id}) < r}
  PROVE  IsFiniteSet(K) /\ Cardinality(K) <= r /\ Cardinality(K) \in Nat
<1> DEFINE before(o) == {p \in M : p.id < o.id}
           f == [o \in K |-> Cardinality(before(o))]
           R == 0..(r - 1)
<1>1. \A o \in M : IsFiniteSet(before(o)) /\ Cardinality(before(o)) \in Nat
  BY FS_Subset, FS_CardinalityType
<1>k. K \subseteq M /\ \A o \in K : Cardinality(before(o)) < r
  OBVIOUS
<1>2. f \in [K -> R]
  <2>1. ASSUME NEW o \in K PROVE Cardinality(before(o)) \in R
    <3>1. Cardinality(before(o)) \in Nat /\ Cardinality(before(o)) < r
      BY <1>1, <1>k
    <3> HIDE DEF before
    <3> QED BY <3>1
  <2> HIDE DEF R, before
  <2> QED BY <2>1
<1>3. ASSUME NEW o \in K, NEW p \in K, o.id < p.id PROVE f[o] # f[p]
  <2>1. o.id \in Nat /\ p.id \in Nat /\ \A q \in M : q.id \in Nat
    BY DEF Order
  <2>2. before(o) \subseteq before(p) /\ o \in before(p) /\ o \notin before(o)
    BY <1>3, <2>1
  <2>3. IsFiniteSet(before(p)) /\ before(o) # before(p)
    BY <1>1, <2>2
  <2>4. Cardinality(before(o)) # Cardinality(before(p))
    <3> HIDE DEF before
    <3> QED BY <2>2, <2>3, FS_Subset
  <2> QED BY <2>4
<1>4. f \in Injection(K, R)
  <2>1. ASSUME NEW o \in K, NEW p \in K, f[o] = f[p] PROVE o = p
    <3>1. o.id \in Nat /\ p.id \in Nat
      BY DEF Order
    <3>2. o.id = p.id \/ o.id < p.id \/ p.id < o.id
      BY <3>1
    <3>3. o.id = p.id
      <4> HIDE DEF f
      <4> QED BY <1>3, <2>1, <3>2
    <3> QED BY <3>3
  <2> HIDE DEF f, R
  <2> QED BY <1>2, <2>1 DEF Injection, IsInjective
<1>5. IsFiniteSet(R) /\ Cardinality(R) = r
  BY FS_Interval
<1> HIDE DEF f, R
<1>6. IsFiniteSet(K) /\ Cardinality(K) <= r
  BY <1>4, <1>5, FS_Injection
<1>7. Cardinality(K) \in Nat
  BY <1>6, FS_CardinalityType
<1> QED BY <1>6, <1>7

\* A loaded file whose orders are changed one by one, each keeping what makes
\* it the same order.
LEMMA ChangedLoaded ==
  ASSUME NEW b, NEW now, Loaded(b, now), NEW g,
         \A o \in b.orders : g[o] \in Order /\ Same(g[o], o)
  PROVE  LET S == {g[o] : o \in b.orders}
         IN  /\ [b EXCEPT !.orders = S].orders = S
             /\ Loaded([b EXCEPT !.orders = S], now)
<1> DEFINE S == {g[o] : o \in b.orders}
           d == [b EXCEPT !.orders = S]
<1>1. S \subseteq Order
  OBVIOUS
<1>2. /\ \A o \in S : \E p \in orders : Same(o, p)
      /\ \A o, p \in S : o.id = p.id => o = p
      /\ \A o \in b.orders : \E p \in S : p.id = o.id
      /\ \A o \in S : \E p \in b.orders : p.id = o.id
  BY DEF Loaded, Same
<1> HIDE DEF S
<1>3. /\ IsBook(d) /\ d.orders = S /\ d.lapsed = b.lapsed
      /\ d.lapsed_pruned = b.lapsed_pruned /\ d.drop = b.drop
  BY <1>1 DEF IsBook, Loaded
<1> HIDE DEF d
<1>4. Loaded(d, now)
  <2>1. \A o \in orders : o.paid = NoTx =>
          \/ \E p \in S : p.id = o.id
          \/ \E r \in Range(b.lapsed) : r.id = o.id
          \/ now >= UNCLAIMED_LIFETIME + LAPSED_KEPT
    BY <1>2 DEF Loaded
  <2>2. \A r \in Range(b.lapsed) : \A o \in S : o.id # r.id
    BY <1>2 DEF Loaded
  <2> QED BY <1>2, <1>3, <2>1, <2>2 DEF Loaded
<1> QED BY <1>3, <1>4 DEF d, S

\* The same of how many are unpaid, and how many of one token.
LEMMA ChangedCount ==
  ASSUME NEW S, NEW g, CapsOf(Unpaid(S)), \A o \in S : Same(g[o], o),
         NEW T, T = Unpaid({g[o] : o \in S})
  PROVE  /\ T = {g[o] : o \in Unpaid(S)}
         /\ IsFiniteSet(T) /\ Cardinality(T) <= MAX_OPEN_ORDERS
         /\ \A t \in Tokens : Cardinality({o \in T : o.tok = t}) <= MAX_OPEN_PER_ACCOUNT
<1> DEFINE U == Unpaid(S)
<1>1. T = {g[o] : o \in U}
  BY DEF Unpaid, Same
<1>2. U \subseteq S /\ \A o \in U : Same(g[o], o)
  BY DEF Unpaid
<1> HIDE DEF U
<1>3. IsFiniteSet(T) /\ Cardinality(T) <= MAX_OPEN_ORDERS
  <2>1. IsFiniteSet(U) /\ Cardinality(U) <= MAX_OPEN_ORDERS
    BY DEF CapsOf, U
  <2> QED BY <1>1, <2>1, ImageCount, CapsAssumption
<1>4. ASSUME NEW t \in Tokens PROVE Cardinality({o \in T : o.tok = t}) <= MAX_OPEN_PER_ACCOUNT
  <2> DEFINE V == {o \in U : o.tok = t}
  <2>1. {o \in T : o.tok = t} = {g[o] : o \in V}
    BY <1>1, <1>2 DEF Same
  <2>2. IsFiniteSet(V) /\ Cardinality(V) <= MAX_OPEN_PER_ACCOUNT
    BY FS_Subset DEF CapsOf, U
  <2> HIDE DEF V
  <2>3. Cardinality({g[o] : o \in V}) <= MAX_OPEN_PER_ACCOUNT
    BY <2>2, ImageCount, CapsAssumption
  <2> QED BY <2>1, <2>3
<1> QED BY <1>1, <1>3, <1>4 DEF U

\* hold keeps to the cap on orders held.
LEMMA HoldLoaded ==
  ASSUME NEW t \in Tokens, NEW now \in 0..MaxTime, NEW b, Loaded(b, now),
         \A o, p \in orders : o.id = p.id => o = p
  PROVE  /\ Loaded(hold(b, t, now), now)
         /\ CapsOf(Unpaid(b.orders)) => CapsOf(Unpaid(hold(b, t, now).orders))
<1> DEFINE p    == prune(b, now)
           mine == {o \in OpenOf(p.orders, t, now) : o.unclaimed}
           kept == {o \in mine :
                      Cardinality({q \in mine : q.id < o.id}) < room_held(p, now)}
           g    == [o \in p.orders |-> IF o \in kept THEN [o EXCEPT !.unclaimed = FALSE] ELSE o]
           S    == {g[o] : o \in p.orders}
<1>1. Loaded(p, now) /\ Unpaid(p.orders) = Open(b.orders, now)
      /\ p.orders = {o \in b.orders : open_at(o, now) \/ (o.paid # NoTx /\ now < o.created + KEEP_PAID)}
  BY PruneLoaded
<1>2. kept \subseteq mine /\ mine \subseteq p.orders
  BY DEF OpenOf
<1>3. hold(b, t, now) = [p EXCEPT !.orders = (p.orders \ kept)
                            \cup {[o EXCEPT !.unclaimed = FALSE] : o \in kept}]
  BY DEF hold
<1>m. \A o \in mine : o.paid = NoTx /\ o.unclaimed
  BY DEF OpenOf, open_at
<1>h. Held(p.orders, now) = {o \in Unpaid(p.orders) : ~o.unclaimed}
  BY <1>1 DEF Held, Unpaid, open_at
<1>k. kept = {o \in mine : Cardinality({q \in mine : q.id < o.id}) < room_held(p, now)}
  OBVIOUS
<1> HIDE DEF p, mine, kept
<1>4. ASSUME NEW o \in p.orders
      PROVE  /\ g[o] \in Order /\ Same(g[o], o)
             /\ o \in kept => ~g[o].unclaimed
             /\ o \notin kept => g[o] = o
  <2>1. o \in Order
    BY <1>1 DEF Loaded, IsBook
  <2>2. CASE o \in kept
    <3>1. g[o] = [o EXCEPT !.unclaimed = FALSE]
      BY <2>2
    <3> HIDE DEF g
    <3> QED BY <2>1, <2>2, <3>1 DEF Order, Same
  <2>3. CASE o \notin kept
    BY <2>1, <2>3 DEF Same
  <2> QED BY <2>2, <2>3
<1>5. S = (p.orders \ kept) \cup {[o EXCEPT !.unclaimed = FALSE] : o \in kept}
  <2>1. \A o \in p.orders : g[o] = IF o \in kept THEN [o EXCEPT !.unclaimed = FALSE] ELSE o
    OBVIOUS
  <2> HIDE DEF g
  <2>2. S = {g[o] : o \in p.orders \ kept} \cup {g[o] : o \in kept}
    BY <1>2
  <2>3. {g[o] : o \in p.orders \ kept} = p.orders \ kept
    <3>1. \A o \in p.orders \ kept : g[o] = o
      BY <2>1
    <3> HIDE DEF S
    <3> QED BY <3>1
  <2>4. {g[o] : o \in kept} = {[o EXCEPT !.unclaimed = FALSE] : o \in kept}
    <3>1. \A o \in kept : g[o] = [o EXCEPT !.unclaimed = FALSE]
      BY <1>2, <2>1
    <3>2. ASSUME NEW x PROVE x \in {g[o] : o \in kept} <=> \E o \in kept : x = g[o]
      OBVIOUS
    <3>3. ASSUME NEW x PROVE x \in {[o EXCEPT !.unclaimed = FALSE] : o \in kept} <=> \E o \in kept : x = [o EXCEPT !.unclaimed = FALSE]
      OBVIOUS
    <3>4. ASSUME NEW x PROVE (\E o \in kept : x = g[o]) <=> (\E o \in kept : x = [o EXCEPT !.unclaimed = FALSE])
      BY <3>1
    <3> QED BY <3>2, <3>3, <3>4
  <2> QED BY <2>2, <2>3, <2>4
<1> HIDE DEF g
<1>6. [p EXCEPT !.orders = S].orders = S /\ Loaded([p EXCEPT !.orders = S], now)
  BY <1>1, <1>4, ChangedLoaded
<1>7. hold(b, t, now).orders = S /\ Loaded(hold(b, t, now), now)
  <2> HIDE DEF S
  <2> QED BY <1>3, <1>5, <1>6
<1>8. ASSUME CapsOf(Unpaid(b.orders)) PROVE CapsOf(Unpaid(S))
  <2> DEFINE U == Unpaid(p.orders)
             D == {o \in U : ~o.unclaimed}
             T == Unpaid(S)
             H == {g[o] : o \in kept}
  <2>1. CapsOf(U)
    <3>1. U \subseteq Unpaid(b.orders)
      BY <1>1 DEF Unpaid
    <3> HIDE DEF U
    <3> QED BY <1>8, <3>1, FewerCaps
  <2>2. /\ T = {g[o] : o \in U}
        /\ IsFiniteSet(T) /\ Cardinality(T) <= MAX_OPEN_ORDERS
        /\ \A u \in Tokens : Cardinality({o \in T : o.tok = u}) <= MAX_OPEN_PER_ACCOUNT
    <3>1. \A o \in p.orders : Same(g[o], o)
      BY <1>4
    <3> QED BY <2>1, <3>1, ChangedCount
  <2>3. U \subseteq p.orders /\ kept \subseteq U
    BY <1>2, <1>m DEF Unpaid
  <2>4. {o \in T : ~o.unclaimed} \subseteq D \cup H
    BY <1>4, <2>2, <2>3
  <2>5. IsFiniteSet(D) /\ Cardinality(D) \in Nat /\ Cardinality(D) <= MAX_HELD_ORDERS
    BY <2>1, FS_Subset, FS_CardinalityType DEF CapsOf
  <2>6. room_held(p, now) = MAX_HELD_ORDERS - Cardinality(D)
    BY <1>h DEF room_held
  <2>7. IsFiniteSet(mine) /\ mine \subseteq Order /\ \A o, q \in mine : o.id = q.id => o = q
    <3>1. mine \subseteq U
      BY <1>2, <1>m DEF Unpaid
    <3>2. mine \subseteq Order /\ \A o, q \in mine : o.id = q.id => o = q
      BY <1>1, <1>2 DEF Loaded, IsBook
    <3> HIDE DEF U
    <3> QED BY <2>1, <3>1, <3>2, FS_Subset DEF CapsOf
  <2> DEFINE r == room_held(p, now)
  <2>8. r \in Nat /\ r = MAX_HELD_ORDERS - Cardinality(D)
    BY <2>5, <2>6, CapsAssumption
  <2> HIDE DEF r
  <2>9. IsFiniteSet(kept) /\ Cardinality(kept) <= r /\ Cardinality(kept) \in Nat
    <3>1. kept = {o \in mine : Cardinality({q \in mine : q.id < o.id}) < r}
      BY <1>k DEF r
    <3> QED BY <2>7, <2>8, <3>1, FewKept
  <2>10. IsFiniteSet(H) /\ Cardinality(H) <= Cardinality(kept) /\ Cardinality(H) \in Nat
    BY <2>9, ImageCount
  <2> HIDE DEF D, H
  <2>11. IsFiniteSet(D \cup H) /\ Cardinality(D \cup H) <= Cardinality(D) + Cardinality(H)
    <3>1. IsFiniteSet(D \cup H) /\ Cardinality(D \cup H) = Cardinality(D) + Cardinality(H) - Cardinality(D \cap H)
      BY <2>5, <2>10, FS_Union
    <3>2. Cardinality(D \cap H) \in Nat
      BY <2>5, FS_Intersection, FS_CardinalityType
    <3> QED BY <2>5, <2>10, <3>1, <3>2
  <2>12. Cardinality({o \in T : ~o.unclaimed}) <= Cardinality(D \cup H)
         /\ Cardinality({o \in T : ~o.unclaimed}) \in Nat /\ Cardinality(D \cup H) \in Nat
    <3> HIDE DEF T
    <3>1. IsFiniteSet({o \in T : ~o.unclaimed})
      BY <2>4, <2>11, FS_Subset
    <3> QED BY <2>4, <2>11, <3>1, FS_Subset, FS_CardinalityType
  <2>13. Cardinality({o \in T : ~o.unclaimed}) <= MAX_HELD_ORDERS
    BY <2>5, <2>8, <2>9, <2>10, <2>11, <2>12, CapsAssumption
  <2> QED BY <2>2, <2>13 DEF CapsOf
<1> QED BY <1>7, <1>8

\* tried changes no count.
LEMMA TriedLoaded ==
  ASSUME NEW t \in Tokens, NEW now \in 0..MaxTime, NEW b, Loaded(b, now)
  PROVE  /\ Loaded(tried(b, t, now), now)
         /\ CapsOf(Unpaid(b.orders)) => CapsOf(Unpaid(tried(b, t, now).orders))
<1> DEFINE mine == OpenOf(b.orders, t, now)
           g    == [o \in b.orders |-> IF o \in mine THEN [o EXCEPT !.tries = @ + 1] ELSE o]
           S    == {g[o] : o \in b.orders}
<1>1. tried(b, t, now) = [b EXCEPT !.orders = (b.orders \ mine)
                            \cup {[o EXCEPT !.tries = @ + 1] : o \in mine}]
  BY DEF tried
<1>2. mine \subseteq b.orders
  BY DEF OpenOf
<1> HIDE DEF mine
<1>3. ASSUME NEW o \in b.orders
      PROVE  g[o] \in Order /\ Same(g[o], o) /\ g[o].unclaimed = o.unclaimed
  <2>1. o \in Order
    BY DEF Loaded, IsBook
  <2>2. CASE o \in mine
    <3>1. g[o] = [o EXCEPT !.tries = @ + 1]
      BY <2>2
    <3> HIDE DEF g
    <3> QED BY <2>1, <2>2, <3>1 DEF Order, Same
  <2>3. CASE o \notin mine
    BY <2>1, <2>3 DEF Same
  <2> QED BY <2>2, <2>3
<1>4. S = (b.orders \ mine) \cup {[o EXCEPT !.tries = @ + 1] : o \in mine}
  <2>1. \A o \in b.orders : g[o] = IF o \in mine THEN [o EXCEPT !.tries = @ + 1] ELSE o
    OBVIOUS
  <2> HIDE DEF g
  <2>2. S = {g[o] : o \in b.orders \ mine} \cup {g[o] : o \in mine}
    BY <1>2
  <2>3. {g[o] : o \in b.orders \ mine} = b.orders \ mine
    <3>1. \A o \in b.orders \ mine : g[o] = o
      BY <2>1
    <3> HIDE DEF S
    <3> QED BY <3>1
  <2>4. {g[o] : o \in mine} = {[o EXCEPT !.tries = @ + 1] : o \in mine}
    <3>1. \A o \in mine : g[o] = [o EXCEPT !.tries = @ + 1]
      BY <1>2, <2>1
    <3>2. ASSUME NEW x PROVE x \in {g[o] : o \in mine} <=> \E o \in mine : x = g[o]
      OBVIOUS
    <3>3. ASSUME NEW x PROVE x \in {[o EXCEPT !.tries = @ + 1] : o \in mine} <=> \E o \in mine : x = [o EXCEPT !.tries = @ + 1]
      OBVIOUS
    <3>4. ASSUME NEW x PROVE (\E o \in mine : x = g[o]) <=> (\E o \in mine : x = [o EXCEPT !.tries = @ + 1])
      BY <3>1
    <3> QED BY <3>2, <3>3, <3>4
  <2> QED BY <2>2, <2>3, <2>4
<1> HIDE DEF g
<1>5. [b EXCEPT !.orders = S].orders = S /\ Loaded([b EXCEPT !.orders = S], now)
  BY <1>3, ChangedLoaded
<1>6. tried(b, t, now).orders = S /\ Loaded(tried(b, t, now), now)
  <2> HIDE DEF S
  <2> QED BY <1>1, <1>4, <1>5
<1>7. ASSUME CapsOf(Unpaid(b.orders)) PROVE CapsOf(Unpaid(S))
  <2> DEFINE U == Unpaid(b.orders)
             T == Unpaid(S)
             D == {o \in U : ~o.unclaimed}
  <2>1. /\ T = {g[o] : o \in U}
        /\ IsFiniteSet(T) /\ Cardinality(T) <= MAX_OPEN_ORDERS
        /\ \A u \in Tokens : Cardinality({o \in T : o.tok = u}) <= MAX_OPEN_PER_ACCOUNT
    <3>1. \A o \in b.orders : Same(g[o], o)
      BY <1>3
    <3>2. CapsOf(Unpaid(b.orders)) /\ T = Unpaid({g[o] : o \in b.orders})
      BY <1>7
    <3> HIDE DEF T, S
    <3> QED BY <3>1, <3>2, ChangedCount
  <2>2. U \subseteq b.orders
    BY DEF Unpaid
  <2>3. {o \in T : ~o.unclaimed} = {g[o] : o \in D}
    BY <1>3, <2>1, <2>2
  <2>4. IsFiniteSet(D) /\ Cardinality(D) <= MAX_HELD_ORDERS
    BY <1>7, FS_Subset DEF CapsOf
  <2> HIDE DEF D
  <2>5. Cardinality({g[o] : o \in D}) <= MAX_HELD_ORDERS
    BY <2>4, ImageCount, CapsAssumption
  <2> QED BY <2>1, <2>3, <2>5 DEF CapsOf
<1> QED BY <1>6, <1>7

-----------------------------------------------------------------------------
(* The places an order can be in.                                          *)

\* Where the order with a number is, while its pack is owed.
Marks       == {claim[c].marked : c \in Marking}
Stands(i)   == \E o \in Standing : o.id = i
Recorded(i) == \E r \in Records : r.id = i
InHand(i)   == Taken /\ hand.record.id = i
Owed(i)     == Stands(i) \/ Recorded(i) \/ InHand(i)

\* So much time has passed that a record may have been let go.
Late == clock >= UNCLAIMED_LIFETIME + LAPSED_KEPT

\* It is in one place at most, and no pack is credited twice.
Once ==
  /\ \A i \in 1..MaxOrders :
       /\ served[i] <= 1
       /\ Owed(i) \/ i > made => served[i] = 0
       /\ ~(Stands(i) /\ Recorded(i))
       /\ ~(Stands(i) /\ InHand(i))
       /\ ~(Recorded(i) /\ InHand(i))
  /\ \A r, s \in Records : r.id = s.id => r = s

\* And it is in one place at least.
Kept == \A i \in 1..made : served[i] = 0 => Owed(i) \/ Late

\* Which failures leave an order in one place at most, and at least.
MayCut  == Faults \subseteq {"accounts", "cut"}
MayFail == Faults \subseteq {"orders", "accounts"}

\* What the index says is open is what stands, now and later.
AlikeFrom(S, T, n) == \A m \in Nat : m >= n => Open(S, m) = Open(T, m)

\* So is the file that a claim read and will note in the index.
IndexRight ==
  /\ index.unread \/ AlikeFrom(index.orders, Standing, clock)
  /\ \A c \in Claims : claim[c].pc = "credit" =>
       AlikeFrom(claim[c].orders, orders, clock)

\* Every mark can be undone.
Sure == "unmark" \notin Faults

\* The second invariant.
Placed  == FileTypes /\ Numbered /\ MarkStands /\ CapsOf(Standing)
BookInv == /\ Placed /\ (Sure => IndexRight)
           /\ (MayCut => Once) /\ (MayFail => Kept)

-----------------------------------------------------------------------------
\* Nothing is from outside the numbers.
LEMMA OwedNumbers ==
  ASSUME Types, FileTypes, Numbered, MarkStands, NEW i, Owed(i)
  PROVE  i \in 1..MaxOrders /\ i <= made /\ i \in 1..made
<1>1. ASSUME NEW o \in Standing, o.id = i PROVE i \in 1..MaxOrders /\ i <= made
  <2>1. CASE o \in Unpaid(orders)
    BY <1>1, <2>1 DEF Unpaid, Types, Numbered, Order
  <2>2. ASSUME NEW c \in Claims, Marked(claim[c]), o = claim[c].marked
        PROVE  i \in 1..MaxOrders /\ i <= made
    <3>1. [o EXCEPT !.paid = claim[c].tx] \in orders /\ o \in Order
      BY <2>2 DEF MarkStands
    <3>2. [o EXCEPT !.paid = claim[c].tx].id = o.id
      BY <3>1 DEF Order
    <3> QED BY <1>1, <3>1, <3>2 DEF Numbered, Types, Order
  <2> QED BY <2>1, <2>2 DEF Standing, Marking
<1>2. ASSUME NEW r \in Records, r.id = i PROVE i \in 1..MaxOrders /\ i <= made
  BY <1>2 DEF FileTypes, IsRecord, Lapsed, Numbered
<1>3. ASSUME Taken, hand.record.id = i PROVE i \in 1..MaxOrders /\ i <= made
  BY <1>3 DEF FileTypes, IsRecord, Lapsed, Numbered
<1>4. i \in 1..MaxOrders /\ i <= made
  BY <1>1, <1>2, <1>3 DEF Owed, Stands, Recorded, InHand
<1> QED BY <1>4 DEF Types

\* A step on which packs owed move, and are credited when they leave.
LEMMA OnceStep ==
  ASSUME Once, served \in [1..MaxOrders -> Nat], made \in Nat, made' \in Nat, made <= made',
         \A i \in 1..MaxOrders :
           /\ Owed(i)' => served'[i] = served[i] /\ (Owed(i) \/ i > made)
           /\ i > made' => served'[i] = served[i]
           /\ served'[i] = served[i] \/ (served'[i] = served[i] + 1 /\ Owed(i))
           /\ ~(Stands(i)' /\ Recorded(i)') /\ ~(Stands(i)' /\ InHand(i)')
           /\ ~(Recorded(i)' /\ InHand(i)'),
         \A r, s \in Records' : r.id = s.id => r = s
  PROVE  Once'
<1> SUFFICES ASSUME NEW i \in 1..MaxOrders
             PROVE  /\ served'[i] <= 1
                    /\ Owed(i)' \/ i > made' => served'[i] = 0
  BY DEF Once
<1>1. served[i] \in Nat /\ served[i] <= 1 /\ (Owed(i) \/ i > made => served[i] = 0)
  BY DEF Once
<1>2. i > made' => i > made
  OBVIOUS
<1>3. CASE served'[i] = served[i]
  BY <1>1, <1>2, <1>3
<1>4. CASE served'[i] = served[i] + 1 /\ Owed(i)
  BY <1>1, <1>4
<1> QED BY <1>3, <1>4

\* A step on which no pack that is owed is lost, unless it is Late.
LEMMA KeptStep ==
  ASSUME Kept, clock \in Int, clock' \in Int, clock <= clock', made \in Nat, made' \in Nat,
         \A i \in 1..made' : served'[i] = 0 =>
           \/ Owed(i)' \/ Late'
           \/ i \in 1..made /\ served[i] = 0 /\ (Owed(i) => Owed(i)')
  PROVE  Kept'
<1>1. Late => Late'
  BY LifetimesAssumption DEF Late
<1> QED BY <1>1 DEF Kept

\* The orders with a mark are not among the unpaid ones.
LEMMA MarkIsPaid ==
  ASSUME Types, MarkStands, NEW o \in Marks
  PROVE  o \in Order /\ o.paid = NoTx /\ \E p \in orders : p.id = o.id /\ p.paid # NoTx
<1>1. PICK c \in Claims : Marked(claim[c]) /\ o = claim[c].marked
  BY DEF Marks, Marking
<1>2. /\ o \in Order /\ o.paid = NoTx /\ [o EXCEPT !.paid = claim[c].tx] \in orders
  BY <1>1 DEF MarkStands
<1>3. [o EXCEPT !.paid = claim[c].tx].id = o.id /\ [o EXCEPT !.paid = claim[c].tx].paid = claim[c].tx
  BY <1>2 DEF Order
<1>4. claim[c].tx \in Txs
  BY <1>1, ClaimFields DEF Types, Marked
<1> QED BY <1>2, <1>3, <1>4, ModelAssumption

\* No order is new, or one with the next number.
Opens(N) ==
  \/ N = {} /\ made' = made
  \/ /\ made' = made + 1
     /\ \E n \in Order : N = {n} /\ n.paid = NoTx /\ n.id = made + 1

\* A changed file is saved, with a new order or without, and the record of one
\* order perhaps taken: who was owed a pack still is, or it is Late.
LEMMA ChangeMoves ==
  ASSUME Types, Placed, NEW b, NEW now \in 0..MaxTime, now <= clock, Loaded(b, now),
         NEW N, Opens(N), orders' = b.orders \cup N,
         Marks' = Marks, MarkStands', lapsed_file' \in Seq(Lapsed),
         lapsed_pruned' = b.lapsed_pruned,
         UNCHANGED <<clock, served>>,
         Records' \subseteq Records \cup Range(b.lapsed),
         \A r \in Records \cup Range(b.lapsed) :
           r \in Records' \/ r.lapsed <= b.drop \/ InHand(r.id)',
         \/ Taken = Taken' /\ (Taken => hand'.record = hand.record)
         \/ /\ ~Taken /\ hand'.record \in Records \cup Range(b.lapsed)
            /\ (MayCut /\ Once => hand'.record \notin Records')
  PROVE  /\ FileTypes' /\ Numbered'
         /\ (MayCut => Once) => (MayCut => Once')
         /\ Kept => Kept'
<1> DEFINE L == Range(b.lapsed)
<1>0. /\ made \in Nat /\ made' \in Nat /\ made <= made'
      /\ \A n \in N : n \in Order /\ n.paid = NoTx /\ n.id = made + 1 /\ made' = made + 1
      /\ made' # made => \E n \in N : n.id = made + 1 /\ made' = made + 1
      /\ \A n, m \in N : n = m
  BY DEF Opens, Types
<1>1. Standing = Unpaid(orders) \cup Marks /\ Standing' = Unpaid(b.orders) \cup Marks \cup N
  BY <1>0 DEF Standing, Marks, Unpaid
<1>2. \A r \in L : /\ IsRecord(r) /\ Stands(r.id)
                   /\ \A o \in b.orders : o.id # r.id
                   /\ \E p \in orders : p.paid = NoTx /\ p.id = r.id
                   /\ \A s \in L : s.id = r.id => s = r
  BY <1>1 DEF Loaded, Stands, Unpaid
<1>3. \A o \in b.orders : \E p \in orders : Same(o, p)
  BY DEF Loaded
<1>4. \A r \in L : r.id <= made
  BY <1>2 DEF Placed, Numbered
<1>i. /\ \A r \in Records \cup L : r.id \in Int /\ r.id <= made
      /\ Taken' => hand'.record.id \in Int /\ hand'.record.id <= made
  <2>1. \A r \in Records \cup L : r.id \in Int /\ r.id <= made
    BY <1>2, <1>4 DEF Placed, FileTypes, Numbered, IsRecord, Lapsed
  <2>2. Taken => hand.record.id \in Int /\ hand.record.id <= made
    BY DEF Placed, FileTypes, Numbered, IsRecord, Lapsed
  <2> QED BY <2>1, <2>2
<1>5. FileTypes'
  <2>1. \A r \in Records' : IsRecord(r)
    BY <1>2 DEF Placed, FileTypes
  <2>2. Taken' => IsRecord(hand'.record)
    BY <1>2 DEF Placed, FileTypes
  <2> QED BY <2>1, <2>2 DEF Placed, FileTypes, Loaded, IsRecord
<1>6. Numbered'
  <2>1. /\ \A o \in b.orders : o.id <= made
        /\ \A o, p \in b.orders : o.id = p.id => o = p
    BY <1>3 DEF Loaded, Placed, Numbered, Same
  <2>2. \A r \in Records \cup L : r.id <= made
    BY <1>4 DEF Placed, Numbered
  <2>i. made \in Int /\ \A o \in b.orders : o.id \in Int
    BY <1>0 DEF Loaded, IsBook, Order
  <2>3. Taken' => hand'.record.id <= made'
    BY <1>0, <1>i, <2>2
  <2>4. \A r \in Records' : r.id <= made'
    BY <1>0, <1>i, <2>2
  <2>5. \A o \in b.orders \cup N : o.id <= made'
    BY <1>0, <2>i, <2>1
  <2>6. \A o \in b.orders, n \in N : o.id # n.id
    BY <1>0, <2>i, <2>1
  <2>7. \A o, p \in b.orders \cup N : o.id = p.id => o = p
    BY <1>0, <2>1, <2>6
  <2> QED BY <2>3, <2>4, <2>5, <2>7 DEF Numbered
<1>7. ASSUME NEW i, Stands(i)' PROVE Stands(i) \/ i = made + 1
  <2>1. PICK o \in Unpaid(b.orders) \cup Marks \cup N : o.id = i
    BY <1>1, <1>7 DEF Stands
  <2>2. CASE o \in Marks
    BY <1>1, <2>1, <2>2 DEF Stands
  <2>3. CASE o \in Unpaid(b.orders)
    BY <1>1, <1>3, <2>1, <2>3 DEF Stands, Unpaid, Same
  <2> QED BY <1>0, <2>1, <2>2, <2>3
<1>8. ASSUME NEW i, Recorded(i)' PROVE Recorded(i) \/ Stands(i)
  BY <1>2, <1>8 DEF Recorded
<1>9. ASSUME NEW i, InHand(i)' PROVE InHand(i) \/ Recorded(i) \/ Stands(i)
  BY <1>2, <1>9 DEF Recorded, InHand
<1>10. ASSUME NEW r \in Records \cup L, r.lapsed <= b.drop PROVE Late
  <2>1. r.lapsed \in Nat /\ r.lapsed >= UNCLAIMED_LIFETIME
    BY <1>2 DEF Placed, FileTypes, IsRecord, Lapsed
  <2>2. b.drop \in Int /\ b.drop + LAPSED_KEPT <= now /\ clock \in Int
    BY DEF Loaded, Types
  <2> QED BY <1>10, <2>1, <2>2, LifetimesAssumption DEF Late
<1>11. ASSUME NEW i, Stands(i), ~Late
       PROVE  Stands(i)' \/ \E r \in L : r.id = i
  <2>1. PICK o \in Unpaid(orders) \cup Marks : o.id = i
    BY <1>1, <1>11 DEF Stands
  <2>2. CASE o \in Marks
    BY <1>1, <2>1, <2>2 DEF Stands
  <2>3. CASE o \in Unpaid(orders)
    <3>1. o \in orders /\ o.paid = NoTx
      BY <2>3 DEF Unpaid
    <3>2. ~(now >= UNCLAIMED_LIFETIME + LAPSED_KEPT)
      BY <1>11, LifetimesAssumption DEF Late, Types
    <3>3. (\E p \in b.orders : p.id = o.id) \/ \E r \in L : r.id = o.id
      BY <3>1, <3>2 DEF Loaded
    <3>4. ASSUME NEW p \in b.orders, p.id = o.id PROVE Stands(i)'
      <4>1. PICK q \in orders : Same(p, q)
        BY <1>3
      <4>2. q = o
        BY <3>1, <3>4, <4>1 DEF Same, Placed, Numbered
      <4>3. p \in Unpaid(b.orders)
        BY <3>1, <4>1, <4>2 DEF Same, Unpaid
      <4> QED BY <1>1, <2>1, <3>4, <4>3 DEF Stands
    <3> QED BY <2>1, <3>3, <3>4
  <2> QED BY <2>1, <2>2, <2>3
<1>12. ASSUME NEW r \in Records \cup L, ~Late PROVE Recorded(r.id)' \/ InHand(r.id)'
  BY <1>10, <1>12 DEF Recorded
<1>13. ASSUME NEW i, Owed(i), ~Late PROVE Owed(i)'
  <2>1. CASE Stands(i)
    BY <1>11, <1>12, <1>13, <2>1 DEF Owed
  <2>2. CASE Recorded(i)
    BY <1>12, <1>13, <2>2 DEF Owed, Recorded
  <2>3. CASE InHand(i)
    BY <2>3 DEF Owed, InHand
  <2> QED BY <1>13, <2>1, <2>2, <2>3 DEF Owed
<1>14. ASSUME Kept PROVE Kept'
  <2>1. Late' = Late /\ served' = served /\ clock' = clock
    BY DEF Late
  <2>2. clock \in Int /\ made \in Nat
    BY DEF Types
  <2>3. \A i \in 1..made' : served'[i] = 0 =>
           \/ Owed(i)' \/ Late'
           \/ i \in 1..made /\ served[i] = 0 /\ (Owed(i) => Owed(i)')
    <3>1. ASSUME NEW i \in 1..made', i \notin 1..made PROVE Owed(i)'
      <4>1. made' # made /\ i = made + 1
        BY <1>0, <3>1
      <4>2. Stands(i)'
        BY <1>0, <1>1, <4>1 DEF Stands
      <4> QED BY <4>2 DEF Owed
    <3> QED BY <1>13, <2>1, <3>1
  <2> QED BY <1>0, <1>14, <2>1, <2>2, <2>3, KeptStep
<1>15. ASSUME MayCut, Once PROVE Once'
  <2>1. ASSUME NEW i \in 1..MaxOrders, Owed(i)' PROVE Owed(i) \/ i > made
    BY <1>0, <1>7, <1>8, <1>9, <2>1 DEF Owed
  <2>2. ASSUME NEW r \in L PROVE ~Recorded(r.id) /\ ~InHand(r.id) /\ r.id \in 1..MaxOrders
    <3>1. Owed(r.id)
      BY <1>2 DEF Owed
    <3>2. r.id \in 1..MaxOrders
      BY <3>1, OwedNumbers DEF Placed
    <3> QED BY <1>2, <1>15, <3>2 DEF Once
  <2>3. ASSUME NEW i \in 1..MaxOrders, Stands(i)', Recorded(i)' PROVE FALSE
    <3>1. Stands(i)
      BY <1>0, <1>7, <1>i, <2>3 DEF Recorded
    <3>2. ~Recorded(i)
      BY <1>15, <3>1 DEF Once
    <3>3. PICK r \in L : r.id = i
      BY <2>3, <3>2 DEF Recorded
    <3>4. PICK o \in Marks : o.id = i
      BY <1>0, <1>1, <1>2, <1>i, <2>3, <3>3 DEF Stands, Unpaid
    <3>5. PICK p \in orders : p.id = i /\ p.paid # NoTx
      BY <3>4, MarkIsPaid DEF Placed
    <3>6. PICK q \in orders : q.id = i /\ q.paid = NoTx
      BY <1>2, <3>3
    <3> QED BY <3>5, <3>6 DEF Placed, Numbered
  <2>4. \A r, s \in Records \cup L : r.id = s.id => r = s
    <3>1. \A r \in L, s \in Records : r.id # s.id
      BY <2>2 DEF Recorded
    <3> QED BY <1>2, <1>15, <3>1 DEF Once
  <2>5. ASSUME NEW i \in 1..MaxOrders, Recorded(i)', InHand(i)' PROVE FALSE
    <3>1. PICK r \in Records' : r.id = i
      BY <2>5 DEF Recorded
    <3>2. CASE Taken = Taken' /\ (Taken => hand'.record = hand.record)
      <4>1. InHand(i)
        BY <2>5, <3>2 DEF InHand
      <4>2. ~Recorded(i)
        BY <1>15, <4>1 DEF Once
      <4>3. r \in L
        BY <3>1, <4>2 DEF Recorded
      <4> QED BY <2>2, <3>1, <4>1, <4>3
    <3>3. CASE hand'.record \in Records \cup L /\ hand'.record \notin Records'
      <4>1. hand'.record = r
        BY <2>4, <2>5, <3>1, <3>3 DEF InHand
      <4> QED BY <3>1, <3>3, <4>1
    <3> QED BY <1>15, <3>2, <3>3
  <2>6. ASSUME NEW i \in 1..MaxOrders, Stands(i)', InHand(i)' PROVE FALSE
    <3>1. Stands(i)
      BY <1>0, <1>7, <1>i, <2>6 DEF InHand
    <3>2. ~Recorded(i) /\ ~InHand(i)
      BY <1>15, <3>1 DEF Once
    <3>3. hand'.record \in L /\ hand'.record.id = i
      BY <2>6, <3>2 DEF InHand, Recorded
    <3>4. PICK o \in Marks : o.id = i
      BY <1>0, <1>1, <1>2, <1>i, <2>6, <3>3 DEF Stands, Unpaid
    <3>5. PICK p \in orders : p.id = i /\ p.paid # NoTx
      BY <3>4, MarkIsPaid DEF Placed
    <3>6. PICK q \in orders : q.id = i /\ q.paid = NoTx
      BY <1>2, <3>3
    <3> QED BY <3>5, <3>6 DEF Placed, Numbered
  <2>7. \A r, s \in Records' : r.id = s.id => r = s
    BY <2>4
  <2>8. served \in [1..MaxOrders -> Nat] /\ made \in Nat /\ served' = served
    BY DEF Placed, FileTypes, Types
  <2>9. \A i \in 1..MaxOrders :
          /\ Owed(i)' => served'[i] = served[i] /\ (Owed(i) \/ i > made)
          /\ i > made' => served'[i] = served[i]
          /\ served'[i] = served[i] \/ (served'[i] = served[i] + 1 /\ Owed(i))
          /\ ~(Stands(i)' /\ Recorded(i)') /\ ~(Stands(i)' /\ InHand(i)')
          /\ ~(Recorded(i)' /\ InHand(i)')
    BY <2>1, <2>3, <2>5, <2>6, <2>8
  <2>10. made <= made' /\ made' \in Nat
    BY <1>0
  <2> QED BY <1>15, <2>7, <2>8, <2>9, <2>10, OnceStep
<1> QED BY <1>5, <1>6, <1>14, <1>15

-----------------------------------------------------------------------------
(* What a change of the file does to the places.                           *)

\* The lapsed file after a change was saved, or was not.
LEMMA SavedRecords ==
  ASSUME NEW f \in Seq(Lapsed), NEW b, b.lapsed \in Seq(Lapsed), NEW g,
         g = Rewritten(f \o b.lapsed, b.drop)
  PROVE  /\ g \in Seq(Lapsed)
         /\ Range(g) = {r \in Range(f) \cup Range(b.lapsed) : r.lapsed > b.drop}
<1> DEFINE h == f \o b.lapsed
           S == {l \in Range(h) : l.lapsed > b.drop}
<1>1. h \in Seq(Lapsed) /\ Range(h) = Range(f) \cup Range(b.lapsed)
  BY RangeOfBoth
<1> HIDE DEF h, S
<1>2. g = Only(h, S)
  BY DEF Rewritten, h, S
<1>3. Only(h, S) \in Seq(Lapsed) /\ Range(Only(h, S)) = {x \in Range(h) : x \in S}
  BY <1>1, OnlyKeeps
<1> QED BY <1>1, <1>2, <1>3 DEF S

\* A failed save: some records are there, or the file is as a save leaves it.
LEMMA NotSavedRecords ==
  ASSUME NEW f \in Seq(Lapsed), NEW b, b.lapsed \in Seq(Lapsed), NEW kind, NotSaved(b, f, kind)
  PROVE  /\ lapsed_file' \in Seq(Lapsed)
         /\ Records' \subseteq Range(f) \cup Range(b.lapsed)
         /\ \A r \in Range(f) : r \in Records' \/ ~(r.lapsed > b.drop)
<1>1. ASSUME NEW n \in 0..Len(b.lapsed), lapsed_file' = f \o SubSeq(b.lapsed, 1, n)
      PROVE  /\ lapsed_file' \in Seq(Lapsed)
             /\ Records' \subseteq Range(f) \cup Range(b.lapsed)
             /\ \A r \in Range(f) : r \in Records' \/ ~(r.lapsed > b.drop)
  <2> DEFINE l == b.lapsed
             s == SubSeq(l, 1, n)
  <2>0. l \in Seq(Lapsed) /\ n \in 0..Len(l)
    BY <1>1
  <2> HIDE DEF l
  <2>1. s \in Seq(Lapsed) /\ Len(s) = n /\ \A i \in 1..n : s[i] = l[i]
    BY <2>0
  <2>2. Range(s) \subseteq Range(l)
    <3>1. ASSUME NEW x \in Range(s) PROVE x \in Range(l)
      <4>1. PICK i \in 1..n : s[i] = x
        BY <2>1, RangeAt
      <4>2. i \in 1..Len(l) /\ l[i] = x
        BY <2>0, <2>1, <4>1
      <4> QED BY <2>0, <4>2, RangeAt
    <3> QED BY <3>1
  <2> HIDE DEF s
  <2>3. f \o s \in Seq(Lapsed) /\ Range(f \o s) = Range(f) \cup Range(s)
    BY <2>1, RangeOfBoth
  <2>4. lapsed_file' = f \o s
    BY <1>1 DEF s, l
  <2> QED BY <2>2, <2>3, <2>4 DEF Records, l
<1>2. CASE lapsed_file' = Rewritten(f \o b.lapsed, b.drop)
  BY <1>2, SavedRecords DEF Records
<1> QED BY <1>1, <1>2 DEF NotSaved

\* The same, of what is under a later time.
LEMMA LaterAlike ==
  ASSUME NEW S, NEW T, NEW n, NEW m, n \in Nat, m \in Nat, n <= m, AlikeFrom(S, T, n)
  PROVE  AlikeFrom(S, T, m)
BY DEF AlikeFrom

\* A step on which what stands open stays so, and the index with it.
LEMMA IndexStep ==
  ASSUME Types, IndexRight, clock' \in Nat, clock <= clock', index' = index,
         AlikeFrom(Standing, Standing', clock'), AlikeFrom(orders, orders', clock'),
         \A c \in Claims : claim'[c].pc = "credit" =>
           claim[c].pc = "credit" /\ claim'[c].orders = claim[c].orders
  PROVE  IndexRight'
<1>1. clock \in Nat
  BY DEF Types
<1>2. ASSUME ~index.unread PROVE AlikeFrom(index.orders, Standing', clock')
  <2>1. AlikeFrom(index.orders, Standing, clock')
    BY <1>1, <1>2, LaterAlike DEF IndexRight
  <2> QED BY <2>1 DEF AlikeFrom
<1>3. ASSUME NEW c \in Claims, claim'[c].pc = "credit"
      PROVE  AlikeFrom(claim'[c].orders, orders', clock')
  <2>1. AlikeFrom(claim[c].orders, orders, clock')
    BY <1>1, <1>3, LaterAlike DEF IndexRight
  <2> QED BY <1>3, <2>1 DEF AlikeFrom
<1> QED BY <1>2, <1>3 DEF IndexRight

\* The paid orders are not open.
LEMMA SameAlike ==
  ASSUME NEW S, NEW n PROVE AlikeFrom(S, S, n) /\ AlikeFrom(S, Unpaid(S), n)
BY DEF AlikeFrom, Open, open_at, Unpaid

\* A step on which no order and no record moves: one may be marked.
LEMMA NothingMoves ==
  ASSUME OrderInv, BookInv, UNCHANGED <<lapsed_pruned, made, served>>,
         lapsed_file' \in Seq(Lapsed), Records' = Records, Standing' = Standing, MarkStands',
         \A o \in orders' : \E p \in orders : o.id = p.id,
         \A o, p \in orders' : o.id = p.id => o = p,
         Taken' = Taken, Taken => hand'.record = hand.record,
         clock' \in Nat, clock <= clock', IndexRight => IndexRight'
  PROVE  BookInv'
<1>1. Placed'
  BY DEF BookInv, Placed, FileTypes, Numbered, CapsOf
<1>2. \A i : Stands(i)' = Stands(i) /\ Recorded(i)' = Recorded(i) /\ InHand(i)' = InHand(i)
             /\ Owed(i)' = Owed(i)
  BY DEF Stands, Recorded, InHand, Owed
<1>3. Once => Once'
  BY <1>2 DEF Once
<1>4. Kept => Kept'
  <2>1. Late => Late'
    BY LifetimesAssumption DEF Late, OrderInv, Types
  <2> QED BY <1>2, <2>1 DEF Kept
<1> QED BY <1>1, <1>3, <1>4 DEF BookInv

\* A step that changes no file of orders and no mark.
LEMMA QuietStep ==
  ASSUME OrderInv, BookInv, UNCHANGED <<orders, lapsed_pruned, index, made, served>>,
         lapsed_file' \in Seq(Lapsed), Records' = Records, Marks' = Marks, MarkStands',
         Taken' = Taken, Taken => hand'.record = hand.record,
         clock' \in Nat, clock <= clock',
         \A c \in Claims : claim'[c].pc = "credit" =>
           claim[c].pc = "credit" /\ claim'[c].orders = claim[c].orders
  PROVE  BookInv'
<1>1. Standing' = Standing
  BY DEF Standing, Marks
<1>2. IndexRight => IndexRight'
  BY <1>1, IndexStep, SameAlike DEF OrderInv
<1>3. \A o, p \in orders : o.id = p.id => o = p
  BY DEF BookInv, Placed, Numbered
<1> QED BY <1>1, <1>2, <1>3, NothingMoves

\* A task of the issuer saves a changed file.
LEMMA IssuerChanges ==
  ASSUME OrderInv, BookInv, NEW b, NEW now \in 0..MaxTime, now <= clock, Loaded(b, now),
         NEW N, Opens(N), NEW d, d.orders = b.orders \cup N, d.lapsed = b.lapsed,
         d.drop = b.drop, d.lapsed_pruned = b.lapsed_pruned,
         CapsOf(Unpaid(d.orders)), change_orders(d),
         UNCHANGED <<clock, served, hand>>, \A c \in Claims : ~Marked(claim'[c])
  PROVE  BookInv'
<1>1. Marking = {} /\ Marking' = {} /\ Marks = {} /\ Marks' = {}
  BY FreeMarksNone DEF change_orders, Unlocked, Marking, Marks
<1>2. MarkStands'
  BY DEF MarkStands
<1>3. /\ lapsed_file' = Rewritten(lapsed_file \o b.lapsed, b.drop)
      /\ orders' = b.orders \cup N /\ lapsed_pruned' = b.lapsed_pruned /\ index' = IndexOf(d.orders)
      /\ orders' = d.orders
  BY DEF change_orders, Saved
<1>4. /\ lapsed_file' \in Seq(Lapsed)
      /\ Records' = {r \in Records \cup Range(b.lapsed) : r.lapsed > b.drop}
  <2>1. lapsed_file \in Seq(Lapsed) /\ b.lapsed \in Seq(Lapsed)
    BY DEF BookInv, Placed, FileTypes, Loaded
  <2>2. /\ lapsed_file' \in Seq(Lapsed)
        /\ Range(lapsed_file') = {r \in Range(lapsed_file) \cup Range(b.lapsed) : r.lapsed > b.drop}
    BY <1>3, <2>1, SavedRecords
  <2> QED BY <2>2 DEF Records
<1>5. \A r \in Records \cup Range(b.lapsed) : r \in Records' \/ r.lapsed <= b.drop
  <2>1. \A r \in Records \cup Range(b.lapsed) : r.lapsed \in Int
    BY DEF BookInv, Placed, FileTypes, Loaded, IsRecord, Lapsed
  <2>2. b.drop \in Int
    BY DEF Loaded
  <2> QED BY <1>4, <2>1, <2>2
<1>6. Taken = Taken' /\ (Taken => hand'.record = hand.record)
  BY DEF Taken
<1>7. Types /\ Placed
  BY DEF OrderInv, BookInv
<1>8. FileTypes' /\ Numbered' /\ ((MayCut => Once) => (MayCut => Once')) /\ (Kept => Kept')
  BY <1>1, <1>2, <1>3, <1>4, <1>5, <1>6, <1>7, ChangeMoves
<1>9. Standing' = Unpaid(d.orders)
  BY <1>1, <1>3 DEF Standing, Marks, Unpaid
<1>10. CapsOf(Standing)'
  BY <1>9 DEF CapsOf
<1>11. IndexRight'
  <2>1. index'.orders = d.orders
    BY <1>3 DEF IndexOf
  <2>2. AlikeFrom(index'.orders, Standing', clock')
    BY <1>9, <2>1, SameAlike
  <2> QED BY <2>2 DEF IndexRight, Marked
<1> QED BY <1>2, <1>8, <1>10, <1>11 DEF BookInv, Placed

\* What a change would write to the lapsed file are records, and it drops
\* only old ones.
Writes(b, now) ==
  /\ b.lapsed \in Seq(Lapsed) /\ b.drop \in Int /\ b.drop + LAPSED_KEPT <= now
  /\ \A r \in Range(b.lapsed) : IsRecord(r) /\ r.id <= made

\* A loaded file writes what it should.
LEMMA LoadedWrites ==
  ASSUME BookInv, NEW b, NEW now, Loaded(b, now)
  PROVE  Writes(b, now)
BY DEF Loaded, Writes, BookInv, Placed, Numbered

\* A change is not saved: the records may have been written, and old ones
\* dropped, by then.
LEMMA ChangeNotSaved ==
  ASSUME OrderInv, BookInv, NEW b, NEW now \in 0..MaxTime, now <= clock, Writes(b, now),
         NEW f \in Seq(Lapsed), Range(f) \subseteq Records,
         NEW kind, NotSaved(b, f, kind), kind # "orders" \/ f = lapsed_file,
         kind \in {"orders", "hand"},
         UNCHANGED <<clock, made, served, index>>,
         Marks' = Marks, MarkStands', Taken' => Taken /\ hand'.record = hand.record,
         kind = "orders" => hand' = hand,
         \A c \in Claims : claim'[c].pc = "credit" =>
           claim[c].pc = "credit" /\ claim'[c].orders = claim[c].orders
  PROVE  BookInv'
<1>1. UNCHANGED <<orders, lapsed_pruned>> /\ kind \in Faults
  BY DEF NotSaved, Fault
<1>2. b.lapsed \in Seq(Lapsed) /\ b.drop \in Int /\ b.drop + LAPSED_KEPT <= now
  BY DEF Writes
<1>3. /\ lapsed_file' \in Seq(Lapsed)
      /\ Records' \subseteq Range(f) \cup Range(b.lapsed)
      /\ \A r \in Range(f) : r \in Records' \/ ~(r.lapsed > b.drop)
  BY <1>2, NotSavedRecords
<1>4. \A r \in Range(b.lapsed) : IsRecord(r) /\ r.id <= made
  BY DEF Writes
<1>5. Standing' = Standing
  BY <1>1 DEF Standing, Marks
<1>6. FileTypes'
  <2>1. \A r \in Records' : IsRecord(r)
    BY <1>3, <1>4 DEF BookInv, Placed, FileTypes
  <2> QED BY <1>1, <1>3, <2>1 DEF BookInv, Placed, FileTypes, IsRecord
<1>7. Numbered'
  <2>1. \A r \in Records' : r.id <= made
    BY <1>3, <1>4 DEF BookInv, Placed, Numbered
  <2>2. Taken' => hand'.record.id <= made
    BY DEF BookInv, Placed, Numbered
  <2> QED BY <1>1, <2>1, <2>2 DEF BookInv, Placed, Numbered
<1>8. Placed'
  BY <1>5, <1>6, <1>7 DEF Placed, BookInv, CapsOf
<1>9. IndexRight => IndexRight'
  <2>1. clock' \in Nat /\ clock <= clock'
    BY DEF OrderInv, Types
  <2> QED BY <1>1, <1>5, <2>1, IndexStep, SameAlike DEF OrderInv
<1>10. ~MayCut
  BY <1>1 DEF MayCut
<1>11. ASSUME MayFail, Kept PROVE Kept'
  <2>1. kind = "orders" /\ f = lapsed_file /\ hand' = hand
    BY <1>1, <1>11 DEF MayFail
  <2>2. ASSUME NEW i, Owed(i), ~Late PROVE Owed(i)'
    <3>1. CASE Recorded(i)
      <4>1. PICK r \in Records : r.id = i
        BY <3>1 DEF Recorded
      <4>2. r.lapsed \in Nat /\ r.lapsed >= UNCLAIMED_LIFETIME
        BY <4>1 DEF BookInv, Placed, FileTypes, IsRecord, Lapsed
      <4>3. r.lapsed > b.drop
        BY <1>2, <2>2, <4>2, LifetimesAssumption DEF Late, OrderInv, Types
      <4>4. r \in Records'
        BY <1>3, <2>1, <4>1, <4>3 DEF Records
      <4> QED BY <4>1, <4>4 DEF Owed, Recorded
    <3> QED BY <1>5, <2>1, <2>2, <3>1 DEF Owed, Stands, InHand, Taken
  <2>3. Late' = Late
    BY DEF Late
  <2> QED BY <1>11, <2>2, <2>3 DEF Kept
<1> QED BY <1>8, <1>9, <1>10, <1>11 DEF BookInv

-----------------------------------------------------------------------------
(* The steps of quotes, and of claims before they mark.                    *)

\* The files a task of the issuer may be about to save.
Ready(b, now) == Loaded(b, now) /\ CapsOf(Unpaid(b.orders))

\* The file as loaded, pruned, with holds and with tries may all be saved.
LEMMA BooksReady ==
  ASSUME OrderInv, BookInv, NEW now \in 0..MaxTime
  PROVE  /\ Ready(book, now) /\ Ready(prune(book, now), now)
         /\ \A t \in Tokens : /\ Ready(hold(book, t, now), now)
                              /\ Ready(tried(hold(prune(book, now), t, now), t, now), now)
<1>1. Types /\ FileTypes /\ Numbered /\ CapsOf(Standing)
  BY DEF OrderInv, BookInv, Placed
<1>2. \A o, p \in orders : o.id = p.id => o = p
  BY <1>1 DEF Numbered
<1>3. book.orders = orders
  BY DEF book
<1>4. Ready(book, now)
  <2>1. Unpaid(orders) \subseteq Standing
    BY DEF Standing
  <2>2. CapsOf(Unpaid(orders))
    BY <1>1, <2>1, FewerCaps
  <2> QED BY <1>1, <1>3, <2>2, BookLoaded DEF Ready
<1>5. Ready(prune(book, now), now)
  <2>1. Loaded(prune(book, now), now) /\ Unpaid(prune(book, now).orders) = Open(book.orders, now)
    BY <1>2, <1>4, PruneLoaded DEF Ready
  <2>2. Open(book.orders, now) \subseteq Unpaid(book.orders)
    BY DEF Open, open_at, Unpaid
  <2>3. CapsOf(Open(book.orders, now))
    BY <1>4, <2>2, FewerCaps DEF Ready
  <2> QED BY <2>1, <2>3 DEF Ready
<1> DEFINE p == prune(book, now)
<1>6. Ready(p, now)
  BY <1>5
<1> HIDE DEF p
<1>7. ASSUME NEW t \in Tokens PROVE Ready(hold(book, t, now), now) /\ Ready(hold(p, t, now), now)
  BY <1>2, <1>4, <1>6, HoldLoaded DEF Ready
<1>8. ASSUME NEW t \in Tokens PROVE Ready(tried(hold(p, t, now), t, now), now)
  <2> DEFINE h == hold(p, t, now)
  <2>1. Ready(h, now)
    BY <1>7
  <2> HIDE DEF h
  <2>2. Ready(tried(h, t, now), now)
    BY <2>1, TriedLoaded DEF Ready
  <2> QED BY <2>2 DEF h
<1> QED BY <1>4, <1>5, <1>7, <1>8 DEF p

\* A task of the issuer changes the file, or fails to.
LEMMA IssuerStepKeeps ==
  ASSUME OrderInv, BookInv, NEW b, NEW now \in 0..MaxTime, now <= clock, Ready(b, now),
         change_orders(b) \/ ChangeFails(b),
         UNCHANGED <<clock, made, served, hand>>, \A c \in Claims : ~Marked(claim'[c])
  PROVE  BookInv'
<1>1. Loaded(b, now) /\ CapsOf(Unpaid(b.orders)) /\ Writes(b, now)
  BY LoadedWrites DEF Ready
<1>2. CASE change_orders(b)
  <2>1. Opens({}) /\ b.orders = b.orders \cup {}
    BY DEF Opens
  <2> QED BY <1>1, <1>2, <2>1, IssuerChanges
<1>3. CASE ChangeFails(b)
  <2>1. NotSaved(b, lapsed_file, "orders") /\ UNCHANGED index /\ lock = Free
    BY <1>3 DEF ChangeFails, Unlocked
  <2>2. Marks = {} /\ Marks' = {}
    BY <2>1, FreeMarksNone DEF Marking, Marks
  <2>3. MarkStands'
    BY DEF MarkStands
  <2>4. lapsed_file \in Seq(Lapsed) /\ Range(lapsed_file) \subseteq Records
    BY DEF BookInv, Placed, FileTypes, Records
  <2>5. Taken' => Taken /\ hand'.record = hand.record
    BY DEF Taken
  <2>6. \A c \in Claims : claim'[c].pc = "credit" =>
           claim[c].pc = "credit" /\ claim'[c].orders = claim[c].orders
    BY DEF Marked
  <2> DEFINE kind == "orders"
  <2>7. NotSaved(b, lapsed_file, kind) /\ kind \in {"orders", "hand"} /\ kind = "orders"
    BY <2>1
  <2> HIDE DEF kind
  <2> QED BY <1>1, <2>1, <2>2, <2>3, <2>4, <2>5, <2>6, <2>7, ChangeNotSaved
<1> QED BY <1>2, <1>3

\* Claims that mark nothing, and none of which marks later.
LEMMA NoneMarks ==
  ASSUME OrderInv, lock = Free, NEW c \in Claims, ~Marked(claim'[c]),
         \A d \in Claims : d # c => claim'[d] = claim[d]
  PROVE  \A d \in Claims : ~Marked(claim'[d])
<1>1. \A d \in Claims : ~Marked(claim[d])
  BY FreeMarksNone
<1> QED BY <1>1

\* A step that moves nothing, and on which claims keep their marks.
LEMMA StillKeeps ==
  ASSUME OrderInv, BookInv, UNCHANGED <<orders, lapsed_pruned, lapsed_file, index, made, served>>,
         Taken' = Taken, Taken => hand'.record = hand.record,
         clock' \in Nat, clock <= clock',
         \A c \in Claims : Marked(claim'[c]) \/ Marked(claim[c]) =>
           /\ Marked(claim'[c]) /\ Marked(claim[c])
           /\ claim'[c].marked = claim[c].marked /\ claim'[c].orders = claim[c].orders
           /\ claim'[c].tx = claim[c].tx /\ claim'[c].now = claim[c].now
           /\ claim'[c].pc = "credit" => claim[c].pc = "credit"
  PROVE  BookInv'
<1>1. Marking' = Marking
  BY DEF Marking
<1>2. Marks' = Marks
  BY <1>1 DEF Marks, Marking
<1>3. MarkStands'
  BY DEF MarkStands, BookInv, Placed
<1>4. lapsed_file' \in Seq(Lapsed) /\ Records' = Records
  BY DEF BookInv, Placed, FileTypes, Records
<1>5. \A c \in Claims : claim'[c].pc = "credit" =>
           claim[c].pc = "credit" /\ claim'[c].orders = claim[c].orders
  BY DEF Marked
<1> QED BY <1>2, <1>3, <1>4, <1>5, QuietStep

\* A quote that is refused saves the pruned file, or fails to.
LEMMA QuoteRefusedPlaces ==
  ASSUME OrderInv, BookInv, NEW q \in quotes, QuoteRefused(q)
  PROVE  BookInv'
<1> DEFINE b == prune(book, q.now)
<1>1. q.now \in 0..MaxTime /\ q.now <= clock
  BY DEF OrderInv, Types, Times, Fresh
<1>2. Ready(b, q.now)
  BY <1>1, BooksReady
<1> HIDE DEF b
<1>3. /\ change_orders(b) \/ ChangeFails(b) \/ UNCHANGED <<file, index>>
      /\ UNCHANGED <<clock, lock, claim, hand, accounts, made>>
  BY DEF QuoteRefused, b
<1>4. CASE change_orders(b) \/ ChangeFails(b)
  <2>1. \A c \in Claims : ~Marked(claim'[c])
    BY <1>3, <1>4, FreeMarksNone DEF change_orders, ChangeFails, Unlocked
  <2> QED BY <1>1, <1>2, <1>3, <1>4, <2>1, IssuerStepKeeps DEF accounts
<1>5. CASE UNCHANGED <<file, index>>
  <2>1. clock' \in Nat /\ clock <= clock'
    BY <1>3 DEF OrderInv, Types
  <2> QED BY <1>3, <1>5, <2>1, StillKeeps DEF accounts, file, Taken
<1> QED BY <1>3, <1>4, <1>5

\* A new order leaves room for itself.
LEMMA OneMoreFits ==
  ASSUME NEW S, CapsOf(S), NEW n, n \notin S, n.unclaimed = TRUE,
         Cardinality(S) < MAX_OPEN_ORDERS,
         Cardinality({o \in S : o.tok = n.tok}) < MAX_OPEN_PER_ACCOUNT
  PROVE  CapsOf(S \cup {n})
<1> DEFINE T == S \cup {n}
<1>1. IsFiniteSet(T) /\ Cardinality(T) = Cardinality(S) + 1 /\ Cardinality(S) \in Nat
  BY FS_AddElement, FS_CardinalityType DEF CapsOf
<1>2. {o \in T : ~o.unclaimed} = {o \in S : ~o.unclaimed}
  OBVIOUS
<1>3. ASSUME NEW t \in Tokens PROVE Cardinality({o \in T : o.tok = t}) <= MAX_OPEN_PER_ACCOUNT
  <2> DEFINE U == {o \in S : o.tok = t}
  <2>1. IsFiniteSet(U) /\ Cardinality(U) \in Nat /\ n \notin U
    BY FS_Subset, FS_CardinalityType DEF CapsOf
  <2>2. CASE t = n.tok
    <3>1. {o \in T : o.tok = t} = U \cup {n}
      BY <2>2
    <3>2. Cardinality(U) < MAX_OPEN_PER_ACCOUNT
      BY <2>2
    <3> HIDE DEF U
    <3>3. Cardinality(U \cup {n}) = Cardinality(U) + 1
      BY <2>1, FS_AddElement
    <3>4. Cardinality(U \cup {n}) <= MAX_OPEN_PER_ACCOUNT
      BY <2>1, <3>2, <3>3, CapsAssumption
    <3> QED BY <3>1, <3>4
  <2>3. CASE t # n.tok
    <3>1. {o \in T : o.tok = t} = U
      BY <2>3
    <3> QED BY <3>1 DEF CapsOf
  <2> QED BY <2>2, <2>3
<1>4. Cardinality(T) <= MAX_OPEN_ORDERS
  BY <1>1, CapsAssumption
<1> HIDE DEF T
<1>5. CapsOf(T)
  BY <1>1, <1>2, <1>3, <1>4 DEF CapsOf
<1> QED BY <1>5 DEF T

\* Orders::open: one order more, with the next number.
LEMMA QuoteOpenPlaces ==
  ASSUME OrderInv, BookInv, NEW q \in quotes, QuoteOpen(q)
  PROVE  BookInv'
<1> DEFINE b == prune(book, q.now)
           n(a) == [id |-> made + 1, tok |-> q.tok, amt |-> a, created |-> q.now,
                    paid |-> NoTx, tries |-> 0, unclaimed |-> TRUE]
           d(a) == [b EXCEPT !.orders = @ \cup {n(a)}]
<1>1. q.now \in 0..MaxTime /\ q.now <= clock /\ q.tok \in Tokens
  BY DEF OrderInv, Types, Times, Fresh
<1>2. Ready(b, q.now)
  BY <1>1, BooksReady
<1>3. Unpaid(b.orders) = Open(b.orders, q.now)
  <2>1. \A o \in b.orders : o.paid = NoTx => open_at(o, q.now)
    BY DEF prune
  <2> HIDE DEF b
  <2> QED BY <2>1 DEF Unpaid, Open, open_at
<1> HIDE DEF b
<1>4. PICK a \in Amounts : change_orders(d(a))
  BY DEF QuoteOpen, b
<1>5. /\ made < MaxOrders /\ made' = made + 1
      /\ UNCHANGED <<clock, lock, claim, hand, accounts>>
      /\ Cardinality(Open(b.orders, q.now)) < MAX_OPEN_ORDERS
      /\ Cardinality(OpenOf(b.orders, q.tok, q.now)) < MAX_OPEN_PER_ACCOUNT
  BY DEF QuoteOpen, b
<1> DEFINE N == {n(a)}
           S == b.orders \cup N
<1>6. n(a) \in Order
  BY <1>1, <1>5, ModelAssumption DEF Order, OrderInv, Types
<1>7. /\ n(a).id = made + 1 /\ n(a).paid = NoTx /\ n(a).unclaimed = TRUE /\ n(a).tok = q.tok
  OBVIOUS
<1>8. IsBook(b)
  BY <1>2 DEF Ready, Loaded
<1>9. d(a) = [b EXCEPT !.orders = S]
  OBVIOUS
<1> HIDE DEF n, d
<1>10. Opens(N)
  BY <1>5, <1>6, <1>7 DEF Opens
<1>11. /\ d(a).orders = S /\ d(a).lapsed = b.lapsed /\ d(a).drop = b.drop
       /\ d(a).lapsed_pruned = b.lapsed_pruned
  <2> HIDE DEF S
  <2> QED BY <1>8, <1>9 DEF IsBook
<1>12. CapsOf(Unpaid(S))
  <2> DEFINE U == Unpaid(b.orders)
  <2>1. Unpaid(S) = U \cup {n(a)}
    BY <1>7 DEF Unpaid
  <2>2. n(a) \notin U
    <3>1. \A o \in b.orders : \E p \in orders : o.id = p.id
      BY <1>2 DEF Ready, Loaded, Same
    <3>2. \A p \in orders : p.id <= made /\ p.id \in Int
      BY DEF BookInv, Placed, Numbered, OrderInv, Types, Order
    <3>3. made \in Int
      BY DEF OrderInv, Types
    <3> QED BY <1>7, <3>1, <3>2, <3>3 DEF Unpaid
  <2>3. OpenOf(b.orders, q.tok, q.now) = {o \in U : o.tok = q.tok}
    BY <1>3 DEF OpenOf, Open
  <2>4. Cardinality(U) < MAX_OPEN_ORDERS /\ Cardinality({o \in U : o.tok = q.tok}) < MAX_OPEN_PER_ACCOUNT
    BY <1>3, <1>5, <2>3
  <2>5. CapsOf(U)
    BY <1>2 DEF Ready
  <2> HIDE DEF U
  <2>6. CapsOf(U \cup {n(a)})
    BY <1>7, <2>2, <2>4, <2>5, OneMoreFits
  <2> QED BY <2>1, <2>6
<1>13. \A c \in Claims : ~Marked(claim'[c])
  BY <1>4, <1>5, FreeMarksNone DEF change_orders, Unlocked
<1>14. Loaded(b, q.now) /\ UNCHANGED <<clock, served, hand>>
  BY <1>2, <1>5 DEF Ready, accounts
<1> HIDE DEF S, N
<1>15. d(a).orders = b.orders \cup N /\ CapsOf(Unpaid(d(a).orders))
  BY <1>11, <1>12 DEF S
<1> QED BY <1>1, <1>4, <1>10, <1>11, <1>13, <1>14, <1>15, IssuerChanges

\* A claim holds the orders of its token.
LEMMA ClaimHoldPlaces ==
  ASSUME OrderInv, BookInv, NEW c \in Claims, ClaimHold(c)
  PROVE  BookInv'
<1> DEFINE k == claim[c]
           b == hold(book, k.tok, k.now)
<1>1. k.pc = "hold" /\ k \in Claim
  BY DEF ClaimHold, OrderInv, Types
<1>2. k.tok \in Tokens /\ k.now \in 0..MaxTime /\ k.now <= clock
  BY <1>1, ClaimNow DEF Asked
<1>3. Ready(b, k.now)
  BY <1>2, BooksReady
<1> HIDE DEF b
<1>4. /\ \/ change_orders(b) /\ claim' = [claim EXCEPT ![c].pc = "pace"]
         \/ ChangeFails(b) /\ Answer(c, "again")
      /\ UNCHANGED <<clock, lock, hand, accounts, made>>
  BY DEF ClaimHold, b
<1>5. ~Marked(claim'[c]) /\ \A d \in Claims : d # c => claim'[d] = claim[d]
  <2>1. CASE claim' = [claim EXCEPT ![c].pc = "pace"]
    <3>1. claim'[c] = [k EXCEPT !.pc = "pace"]
      BY <2>1 DEF OrderInv, Types
    <3>2. claim'[c].pc = "pace"
      BY <1>1, <3>1, ClaimFields
    <3> QED BY <2>1, <3>2 DEF Marked, OrderInv, Types
  <2>2. CASE Answer(c, "again")
    BY <1>1, <2>2, AnswerFound DEF Answers
  <2> QED BY <1>4, <2>1, <2>2
<1>6. \A d \in Claims : ~Marked(claim'[d])
  BY <1>4, <1>5, NoneMarks DEF change_orders, ChangeFails, Unlocked
<1> QED BY <1>2, <1>3, <1>4, <1>6, IssuerStepKeeps DEF accounts

\* before_claim counts a try, from the index or from the file.
LEMMA ClaimBeforePlaces ==
  ASSUME OrderInv, BookInv, NEW c \in Claims, ClaimBefore(c)
  PROVE  BookInv'
<1> DEFINE k    == claim[c]
           b    == prune(book, k.now)
           b2   == tried(hold(b, k.tok, k.now), k.tok, k.now)
           open == OpenOf(b2.orders, k.tok, k.now)
           n    == [pc |-> "chain", tok |-> k.tok, tx |-> k.tx, now |-> k.now,
                    open |-> open]
<1>1. k.pc = "pace" /\ k \in Claim
  BY DEF ClaimBefore, OrderInv, Types
<1>2. k.tok \in Tokens /\ k.now \in 0..MaxTime /\ k.now <= clock
  BY <1>1, ClaimNow DEF Asked
<1>3. Ready(b, k.now) /\ Ready(b2, k.now)
  BY <1>2, BooksReady
<1>4. /\ \/ /\ change_orders(b) \/ change_orders(b2) \/ ChangeFails(b) \/ ChangeFails(b2)
            /\ \E a \in Answers : Answer(c, a)
         \/ change_orders(b2) /\ claim' = [claim EXCEPT ![c] = n]
      /\ UNCHANGED <<clock, lock, hand, accounts, made>>
  BY DEF ClaimBefore, Answers
<1>5. ~Marked(n)
  BY DEF Marked
<1> HIDE DEF b, b2, open, n
<1>6. ~Marked(claim'[c]) /\ \A d \in Claims : d # c => claim'[d] = claim[d]
  <2>1. CASE claim' = [claim EXCEPT ![c] = n]
    BY <1>5, <2>1 DEF OrderInv, Types
  <2>2. ASSUME NEW a \in Answers, Answer(c, a)
        PROVE  ~Marked(claim'[c]) /\ \A d \in Claims : d # c => claim'[d] = claim[d]
    BY <1>1, <2>2, AnswerFound
  <2> QED BY <1>4, <2>1, <2>2
<1>7. \A d \in Claims : ~Marked(claim'[d])
  BY <1>4, <1>6, NoneMarks DEF change_orders, ChangeFails, Unlocked
<1>8. UNCHANGED <<clock, made, served, hand>>
  BY <1>4 DEF accounts
<1>9. ASSUME NEW e, Ready(e, k.now), change_orders(e) \/ ChangeFails(e) PROVE BookInv'
  BY <1>2, <1>7, <1>8, <1>9, IssuerStepKeeps
<1> QED BY <1>3, <1>4, <1>9

-----------------------------------------------------------------------------
(* A claim marks and credits.                                              *)

\* A change that writes no record and drops none.
LEMMA RecordsStay ==
  ASSUME BookInv, NEW b, b.lapsed = << >>, b.drop = -1 - LAPSED_KEPT,
         lapsed_file' = Rewritten(lapsed_file \o b.lapsed, b.drop)
  PROVE  lapsed_file' \in Seq(Lapsed) /\ Records' = Records
<1>1. lapsed_file \in Seq(Lapsed) /\ b.lapsed \in Seq(Lapsed) /\ Range(b.lapsed) = {}
  BY DEF BookInv, Placed, FileTypes, Range
<1>2. /\ lapsed_file' \in Seq(Lapsed)
      /\ Range(lapsed_file') = {r \in Range(lapsed_file) \cup Range(b.lapsed) : r.lapsed > b.drop}
  BY <1>1, SavedRecords
<1>3. \A r \in Range(lapsed_file) : r.lapsed \in Nat
  BY DEF BookInv, Placed, FileTypes, IsRecord, Lapsed, Records
<1>4. \A r \in Range(lapsed_file) : r.lapsed > b.drop
  BY <1>3, LifetimesAssumption
<1> QED BY <1>1, <1>2, <1>4 DEF Records

\* mark_paid: the order leaves the unpaid ones for the claim's mark.
LEMMA ClaimMarkPlaces ==
  ASSUME OrderInv, BookInv, NEW c \in Claims, ClaimMark(c)
  PROVE  BookInv'
<1> DEFINE k    == claim[c]
           e(o) == MarkIn(o, k.tx, k.now)
           n(o) == [pc |-> "credit", tok |-> k.tok, tx |-> k.tx, now |-> k.now,
                    order |-> k.order, marked |-> o, orders |-> e(o).orders]
<1>1. k.pc = "mark" /\ k \in Claim /\ lock = Free
  BY DEF ClaimMark, OrderInv, Types, Unlocked
<1>2. k.tok \in Tokens /\ k.tx \in Txs /\ k.now \in 0..MaxTime /\ k.now <= clock
  BY <1>1, ClaimNow DEF Asked
<1>3. /\ \/ /\ change_orders(book) \/ ChangeFails(book)
            /\ \E a \in Answers : Answer(c, a)
         \/ \E o \in MarkedBy(k) : /\ Saved(e(o), lapsed_file) /\ UNCHANGED index
                                   /\ claim' = [claim EXCEPT ![c] = n(o)]
      /\ UNCHANGED <<clock, hand, accounts, made>>
  BY DEF ClaimMark, Answers, MarkIn
<1>4. \A d \in Claims : ~Marked(claim[d])
  BY <1>1, FreeMarksNone
<1>5. ASSUME change_orders(book) \/ ChangeFails(book), NEW a \in Answers, Answer(c, a)
      PROVE  BookInv'
  <2>1. ~Marked(claim'[c]) /\ \A d \in Claims : d # c => claim'[d] = claim[d]
    BY <1>1, <1>5, AnswerFound
  <2>2. \A d \in Claims : ~Marked(claim'[d])
    BY <1>1, <2>1, NoneMarks
  <2>3. Ready(book, k.now)
    BY <1>2, BooksReady
  <2>4. UNCHANGED <<clock, made, served, hand>>
    BY <1>3 DEF accounts
  <2> QED BY <1>2, <1>5, <2>2, <2>3, <2>4, IssuerStepKeeps
<1>6. ASSUME NEW o \in MarkedBy(k), Saved(e(o), lapsed_file), UNCHANGED index,
             claim' = [claim EXCEPT ![c] = n(o)]
      PROVE  BookInv'
  <2> DEFINE m == [o EXCEPT !.paid = k.tx]
  <2>1. o \in orders /\ o.paid = NoTx /\ o \in Order /\ k.now < o.created + ORDER_LIFETIME
    <3>1. o \in OpenOf(orders, k.tok, k.now)
      BY DEF MarkedBy
    <3>2. orders \subseteq Order
      BY DEF OrderInv, Types
    <3> QED BY <1>2, <3>1, <3>2, OpenIsYoung
  <2>2. m.id = o.id /\ m.paid = k.tx /\ k.tx # NoTx
    BY <1>2, <2>1, ModelAssumption DEF Order
  <2>3. e(o).orders = (orders \ {o}) \cup {m}
    BY <1>2, <2>1, MarkBook DEF OrderInv
  <2>4. e(o).lapsed = << >> /\ e(o).drop = -1 - LAPSED_KEPT /\ e(o).lapsed_pruned = lapsed_pruned
    BY DEF MarkIn, book
  <2>5. n(o).pc = "credit" /\ n(o).marked = o /\ n(o).orders = e(o).orders /\ n(o).tx = k.tx /\ n(o).now = k.now
    OBVIOUS
  <2> HIDE DEF n, e, m
  <2>6. claim'[c] = n(o) /\ \A d \in Claims : d # c => claim'[d] = claim[d]
    BY <1>6 DEF OrderInv, Types
  <2>7. Marking = {} /\ Marking' = {c}
    BY <1>4, <2>5, <2>6 DEF Marking, Marked
  <2>8. orders' = (orders \ {o}) \cup {m} /\ lapsed_pruned' = lapsed_pruned
    BY <1>6, <2>3, <2>4 DEF Saved
  <2>9. Standing = Unpaid(orders) /\ Standing' = Unpaid(orders') \cup {o}
    BY <2>5, <2>6, <2>7 DEF Standing, Unpaid
  <2>10. Standing' = Standing
    BY <2>1, <2>2, <2>8, <2>9 DEF Unpaid
  <2>11. MarkStands'
    <3>1. m \in orders'
      BY <2>8
    <3> QED BY <1>4, <2>1, <2>5, <2>6, <3>1 DEF MarkStands, m
  <2>12. lapsed_file' \in Seq(Lapsed) /\ Records' = Records
    BY <1>6, <2>4, RecordsStay DEF Saved
  <2>13. /\ \A p \in orders' : \E q \in orders : p.id = q.id
         /\ \A p, q \in orders' : p.id = q.id => p = q
    <3>1. \A p, q \in orders : p.id = q.id => p = q
      BY DEF BookInv, Placed, Numbered
    <3> QED BY <2>1, <2>2, <2>8, <3>1
  <2>14. IndexRight => IndexRight'
    <3>1. \A d \in Claims : claim'[d].pc = "credit" => AlikeFrom(claim'[d].orders, orders', clock')
      <4>1. AlikeFrom(orders', orders', clock')
        BY SameAlike
      <4>2. claim'[c].orders = orders'
        BY <2>3, <2>5, <2>6, <2>8
      <4> QED BY <1>4, <2>6, <4>1, <4>2 DEF Marked
    <3> QED BY <1>3, <1>6, <2>10, <3>1 DEF IndexRight
  <2>15. Taken' = Taken /\ hand' = hand /\ clock' \in Nat /\ clock <= clock'
    BY <1>3 DEF Taken, OrderInv, Types
  <2> QED BY <1>3, <2>8, <2>10, <2>11, <2>12, <2>13, <2>14, <2>15, NothingMoves DEF accounts
<1> QED BY <1>3, <1>5, <1>6

\* Only the claim that has the lock has a mark.
LEMMA MarksAlone ==
  ASSUME OrderInv, NEW c \in Claims, Marked(claim[c])
  PROVE  /\ \A d \in Claims : d # c => ~Marked(claim[d])
         /\ Marking = {c} /\ Marks = {claim[c].marked}
         /\ Standing = Unpaid(orders) \cup {claim[c].marked}
<1>1. \A d \in Claims : Marked(claim[d]) => lock = d
  BY DEF OrderInv, Safe, Holders
<1>2. Marking = {c}
  BY <1>1 DEF Marking
<1> QED BY <1>1, <1>2 DEF Marks, Standing

\* The marked order is in the file, and nothing else has its number.
LEMMA MarkedOne ==
  ASSUME OrderInv, BookInv, NEW c \in Claims, Marked(claim[c])
  PROVE  /\ claim[c].marked \in Order /\ claim[c].marked.paid = NoTx
         /\ \E p \in orders : /\ p = [claim[c].marked EXCEPT !.paid = claim[c].tx]
                              /\ p.id = claim[c].marked.id
                              /\ p.paid = claim[c].tx /\ p.paid # NoTx
                              /\ claim[c].marked = [p EXCEPT !.paid = NoTx]
         /\ \A o \in Unpaid(orders) : o.id # claim[c].marked.id
<1> DEFINE m == claim[c].marked
           x == claim[c].tx
           p == [m EXCEPT !.paid = x]
<1>1. m \in Order /\ m.paid = NoTx /\ p \in orders
  BY DEF BookInv, Placed, MarkStands
<1>2. x \in Txs /\ x # NoTx
  <2>1. claim[c] \in Claim /\ claim[c].pc # "idle"
    BY DEF OrderInv, Types, Marked
  <2>2. x \in Txs
    BY <2>1, ClaimFields
  <2> QED BY <2>2, ModelAssumption
<1>3. p.id = m.id /\ p.paid = x /\ m = [p EXCEPT !.paid = NoTx]
  <2> HIDE DEF m, x
  <2> QED BY <1>1 DEF Order
<1>4. \A o \in orders : o.id = p.id => o = p
  BY <1>1 DEF BookInv, Placed, Numbered
<1> QED BY <1>1, <1>2, <1>3, <1>4 DEF Unpaid

\* A pack is credited, and its order is where it was no more.
LEMMA PackCredited ==
  ASSUME OrderInv, BookInv, NEW j, Owed(j), served' = [served EXCEPT ![j] = @ + 1],
         UNCHANGED <<clock, made>>, Records' = Records,
         \A i : /\ Stands(i)' => Stands(i)
                /\ Recorded(i)' => Recorded(i)
                /\ InHand(i)' => InHand(i)
                /\ Owed(i) => Owed(i)' \/ i = j,
         Once => ~Owed(j)'
  PROVE  served' \in [1..MaxOrders -> Nat] /\ (Once => Once') /\ (Kept => Kept')
<1>1. j \in 1..MaxOrders /\ j <= made /\ served \in [1..MaxOrders -> Nat]
  BY OwedNumbers DEF OrderInv, BookInv, Placed, FileTypes
<1>2. /\ served' \in [1..MaxOrders -> Nat] /\ served[j] \in Nat
      /\ served'[j] = served[j] + 1 /\ \A i \in 1..MaxOrders : i # j => served'[i] = served[i]
  BY <1>1
<1>3. made \in 0..MaxOrders /\ MaxOrders \in Nat /\ made \in Nat /\ clock \in Int
  BY ModelAssumption DEF OrderInv, Types
<1>4. ASSUME Once PROVE Once'
  <2>1. ASSUME NEW i \in 1..MaxOrders
        PROVE  /\ Owed(i)' => served'[i] = served[i] /\ (Owed(i) \/ i > made)
               /\ i > made' => served'[i] = served[i]
               /\ served'[i] = served[i] \/ (served'[i] = served[i] + 1 /\ Owed(i))
               /\ ~(Stands(i)' /\ Recorded(i)') /\ ~(Stands(i)' /\ InHand(i)')
               /\ ~(Recorded(i)' /\ InHand(i)')
    <3>1. Owed(i)' => i # j /\ Owed(i)
      BY <1>4 DEF Owed
    <3>2. i > made' => i # j
      BY <1>1, <1>3
    <3>3. ~(Stands(i)' /\ Recorded(i)') /\ ~(Stands(i)' /\ InHand(i)') /\ ~(Recorded(i)' /\ InHand(i)')
      BY <1>4 DEF Once
    <3> QED BY <1>2, <3>1, <3>2, <3>3
  <2>2. \A r, s \in Records' : r.id = s.id => r = s
    BY <1>4 DEF Once
  <2>3. made' \in Nat /\ made <= made'
    BY <1>3
  <2> QED BY <1>1, <1>3, <1>4, <2>1, <2>2, <2>3, OnceStep
<1>5. ASSUME Kept PROVE Kept'
  <2>1. ASSUME NEW i \in 1..made', served'[i] = 0
        PROVE  i \in 1..made /\ served[i] = 0 /\ (Owed(i) => Owed(i)')
    <3>1. i \in 1..MaxOrders /\ i \in 1..made
      BY <1>3
    <3>2. i # j
      BY <1>2, <2>1
    <3> QED BY <1>2, <2>1, <3>1, <3>2
  <2>2. clock' \in Int /\ clock <= clock' /\ made' \in Nat
    BY <1>3
  <2> QED BY <1>3, <1>5, <2>1, <2>2, KeptStep
<1> QED BY <1>2, <1>4, <1>5

\* The claim credits the pack and its mark ends; when it cannot, it still has it.
LEMMA ClaimCreditPlaces ==
  ASSUME OrderInv, BookInv, NEW c \in Claims, ClaimCredit(c)
  PROVE  BookInv'
<1> DEFINE k == claim[c]
<1>j. PICK j : j = k.marked.id
  OBVIOUS
<1>1. k.pc = "credit" /\ k \in Claim /\ Marked(k)
  BY DEF ClaimCredit, OrderInv, Types, Marked
<1>2. /\ \A d \in Claims : d # c => ~Marked(claim[d])
      /\ Standing = Unpaid(orders) \cup {k.marked}
  BY <1>1, MarksAlone
<1>3. UNCHANGED <<clock, file, hand, made>>
  BY DEF ClaimCredit
<1>c. clock' \in Nat /\ clock <= clock'
  BY <1>3 DEF OrderInv, Types
<1>4. CASE /\ Credit(k.tx, k.marked.id) /\ index' = IndexOf(k.orders) /\ Answer(c, "credited")
  <2>1. claim'[c].pc = "done" /\ \A d \in Claims : d # c => claim'[d] = claim[d]
    BY <1>1, <1>4, AnswerEnds DEF Answers, OrderInv
  <2>2. \A d \in Claims : ~Marked(claim'[d])
    BY <1>2, <2>1 DEF Marked
  <2>3. Standing' = Unpaid(orders)
    BY <1>3, <2>2 DEF Standing, Marking, file, Unpaid
  <2>4. Records' = Records /\ lapsed_file' = lapsed_file /\ lapsed_pruned' = lapsed_pruned /\ orders' = orders
    BY <1>3 DEF file, Records
  <2>5. k.marked \in Order /\ \A o \in Unpaid(orders) : o.id # j
    BY <1>1, <1>j, MarkedOne
  <2>6. Stands(j) /\ Owed(j)
    BY <1>2, <1>j DEF Stands, Owed
  <2>7. Taken' = Taken /\ hand' = hand
    BY <1>3 DEF Taken
  <2>8. \A i : /\ Recorded(i)' = Recorded(i) /\ InHand(i)' = InHand(i)
               /\ Stands(i)' => Stands(i) /\ i # j
               /\ Stands(i) => Stands(i)' \/ i = j
    <3>1. \A i : Recorded(i)' = Recorded(i) /\ InHand(i)' = InHand(i)
      BY <2>4, <2>7 DEF Recorded, InHand
    <3>2. \A i : /\ Stands(i)' => Stands(i) /\ i # j
                 /\ Stands(i) => Stands(i)' \/ i = j
      BY <1>2, <1>j, <2>3, <2>5 DEF Stands
    <3> QED BY <3>1, <3>2
  <2>9. served' = [served EXCEPT ![j] = @ + 1]
    BY <1>4, <1>j DEF Credit
  <2>10. Once => ~Owed(j)'
    <3>1. j \in 1..MaxOrders
      BY <1>j, <2>5 DEF Order
    <3> QED BY <2>6, <2>8, <3>1 DEF Once, Owed
  <2>11. served' \in [1..MaxOrders -> Nat] /\ (Once => Once') /\ (Kept => Kept')
    <3>1. \A i : Owed(i) => Owed(i)' \/ i = j
      BY <2>8 DEF Owed
    <3> QED BY <1>3, <2>4, <2>6, <2>8, <2>9, <2>10, <3>1, PackCredited
  <2>12. Placed'
    <3>1. FileTypes'
      BY <2>4, <2>7, <2>11 DEF BookInv, Placed, FileTypes
    <3>2. Numbered'
      BY <1>3, <2>4, <2>7 DEF BookInv, Placed, Numbered
    <3>3. MarkStands'
      BY <2>2 DEF MarkStands
    <3>4. CapsOf(Standing)'
      <4>1. CapsOf(Unpaid(orders))
        <5>1. Unpaid(orders) \subseteq Standing /\ CapsOf(Standing)
          BY <1>2 DEF BookInv, Placed
        <5> QED BY <5>1, FewerCaps
      <4> QED BY <2>3, <4>1 DEF CapsOf
    <3> QED BY <3>1, <3>2, <3>3, <3>4 DEF Placed
  <2>13. IndexRight => IndexRight'
    <3>1. ASSUME IndexRight PROVE AlikeFrom(k.orders, Unpaid(orders), clock)
      <4>1. AlikeFrom(k.orders, orders, clock) /\ AlikeFrom(orders, Unpaid(orders), clock)
        BY <1>1, <3>1, SameAlike DEF IndexRight
      <4> QED BY <4>1 DEF AlikeFrom
    <3>2. index'.orders = k.orders
      BY <1>4 DEF IndexOf
    <3> QED BY <1>3, <2>2, <2>3, <3>1, <3>2 DEF IndexRight, Marked
  <2> QED BY <2>11, <2>12, <2>13 DEF BookInv
<1>5. CASE claim' = [claim EXCEPT ![c].pc = "unmark"] /\ UNCHANGED <<accounts, index>>
  <2> DEFINE n == [k EXCEPT !.pc = "unmark"]
  <2>1. claim'[c] = n /\ \A d \in Claims : d # c => claim'[d] = claim[d]
    BY <1>5 DEF OrderInv, Types
  <2>2. /\ n.pc = "unmark" /\ n.marked = k.marked /\ n.orders = k.orders
        /\ n.tx = k.tx /\ n.now = k.now
    BY <1>1 DEF Claim
  <2> HIDE DEF n
  <2>3. \A d \in Claims : Marked(claim'[d]) \/ Marked(claim[d]) =>
           /\ Marked(claim'[d]) /\ Marked(claim[d])
           /\ claim'[d].marked = claim[d].marked /\ claim'[d].orders = claim[d].orders
           /\ claim'[d].tx = claim[d].tx /\ claim'[d].now = claim[d].now
           /\ claim'[d].pc = "credit" => claim[d].pc = "credit"
    BY <1>1, <2>1, <2>2 DEF Marked
  <2>4. /\ UNCHANGED <<orders, lapsed_pruned, lapsed_file, index, made, served>>
        /\ Taken' = Taken /\ hand' = hand
    BY <1>3, <1>5 DEF file, accounts, Taken
  <2> QED BY <1>c, <2>3, <2>4, StillKeeps
<1> QED BY <1>4, <1>5 DEF ClaimCredit

-----------------------------------------------------------------------------
(* A mark is undone, the issuer crashes, the operator credits or puts back.*)

\* The marks are gone, and whatever was marked stays paid.
LEMMA MarksGone ==
  ASSUME OrderInv, BookInv, UNCHANGED <<orders, lapsed_pruned, lapsed_file, made, served>>,
         \A d \in Claims : ~Marked(claim'[d]),
         Taken' = Taken, Taken => hand'.record = hand.record
  PROVE  Placed' /\ Standing' = Unpaid(orders)
<1>1. Standing' = Unpaid(orders)
  BY DEF Standing, Marking, Unpaid
<1>2. FileTypes'
  BY DEF BookInv, Placed, FileTypes, Records
<1>3. Numbered'
  BY DEF BookInv, Placed, Numbered, Records
<1>4. MarkStands'
  BY DEF MarkStands
<1>5. CapsOf(Standing)'
  <2>1. Unpaid(orders) \subseteq Standing /\ CapsOf(Standing)
    BY DEF BookInv, Placed, Standing
  <2>2. CapsOf(Unpaid(orders))
    BY <2>1, FewerCaps
  <2> QED BY <1>1, <2>2 DEF CapsOf
<1> QED BY <1>1, <1>2, <1>3, <1>4, <1>5 DEF Placed

\* unmark: the order is unpaid as it was, or the mark stays and the order is lost.
LEMMA ClaimUnmarkPlaces ==
  ASSUME OrderInv, BookInv, NEW c \in Claims, ClaimUnmark(c)
  PROVE  BookInv'
<1> DEFINE k == claim[c]
           b == unmark(book, k)
<1>1. k.pc = "unmark" /\ k \in Claim /\ Marked(k)
  BY DEF ClaimUnmark, OrderInv, Types, Marked
<1>2. /\ \A d \in Claims : d # c => ~Marked(claim[d])
      /\ Standing = Unpaid(orders) \cup {k.marked}
  BY <1>1, MarksAlone
<1>3. UNCHANGED <<clock, index, hand, accounts, made>> /\ Answer(c, "again")
  BY DEF ClaimUnmark
<1>4. claim'[c].pc = "done" /\ \A d \in Claims : d # c => claim'[d] = claim[d]
  BY <1>1, <1>3, AnswerEnds DEF Answers, OrderInv
<1>5. \A d \in Claims : ~Marked(claim'[d])
  BY <1>2, <1>4 DEF Marked
<1>6. Taken' = Taken /\ hand' = hand /\ UNCHANGED served /\ clock' \in Nat /\ clock <= clock'
  BY <1>3 DEF Taken, accounts, OrderInv, Types
<1>7. CASE Saved(b, lapsed_file)
  <2>1. PICK p \in orders : /\ p.id = k.marked.id /\ p.paid = k.tx /\ p.paid # NoTx
                            /\ k.marked = [p EXCEPT !.paid = NoTx]
    BY <1>1, MarkedOne
  <2>2. Unmarks(k) = {p}
    <3>1. \A o \in orders : o.paid = k.tx =>
            /\ o.amt = k.order.amt /\ o.tok = k.tok
            /\ \A q \in orders : q.paid \in {NoTx, k.tx} /\ q.amt = o.amt => q = o
      BY <1>1 DEF OrderInv, Safe, Holders
    <3>2. p \in Unmarks(k)
      BY <2>1, <3>1 DEF Unmarks
    <3>3. \A o \in Unmarks(k) : o = p
      BY <2>1, <3>1 DEF Unmarks
    <3> QED BY <3>2, <3>3
  <2> PICK m : m = k.marked
    OBVIOUS
  <2>3. m \in Order /\ m.paid = NoTx /\ m.id = p.id /\ \A o \in Unpaid(orders) : o.id # m.id
    BY <1>1, <2>1, MarkedOne
  <2>4. orders' = (orders \ {p}) \cup {m}
    <3>1. b.orders = (orders \ Unmarks(k)) \cup {[o EXCEPT !.paid = NoTx] : o \in Unmarks(k)}
      BY <1>1, UnmarkBook DEF OrderInv
    <3> HIDE DEF b
    <3> QED BY <1>7, <2>1, <2>2, <3>1 DEF Saved
  <2>5. b.lapsed = << >> /\ b.drop = -1 - LAPSED_KEPT /\ b.lapsed_pruned = lapsed_pruned
    BY DEF unmark, book
  <2> HIDE DEF b
  <2>6. lapsed_file' \in Seq(Lapsed) /\ Records' = Records
    BY <1>7, <2>5, RecordsStay DEF Saved
  <2>7. lapsed_pruned' = lapsed_pruned
    BY <1>7, <2>5 DEF Saved
  <2>8. Standing' = Unpaid(orders')
    BY <1>5 DEF Standing, Marking, Unpaid
  <2>9. Standing' = Standing
    BY <1>2, <2>1, <2>3, <2>4, <2>8 DEF Unpaid
  <2>10. MarkStands'
    BY <1>5 DEF MarkStands
  <2>11. /\ \A o \in orders' : \E q \in orders : o.id = q.id
         /\ \A o, q \in orders' : o.id = q.id => o = q
    <3>1. \A o, q \in orders : o.id = q.id => o = q
      BY DEF BookInv, Placed, Numbered
    <3> QED BY <2>3, <2>4, <3>1
  <2>12. IndexRight => IndexRight'
    BY <1>3, <1>5, <2>9 DEF IndexRight, Marked
  <2> QED BY <1>3, <1>6, <2>6, <2>7, <2>9, <2>10, <2>11, <2>12, NothingMoves
<1>8. CASE Fault("unmark") /\ UNCHANGED file
  <2>1. ~Sure /\ ~MayCut /\ ~MayFail
    BY <1>8 DEF Fault, Sure, MayCut, MayFail
  <2>2. Placed'
    BY <1>3, <1>5, <1>6, <1>8, MarksGone DEF file
  <2>3. ~Sure /\ ~MayCut /\ ~MayFail
    BY <2>1
  <2> QED BY <2>2, <2>3 DEF BookInv, Sure, MayCut, MayFail
<1> QED BY <1>7, <1>8 DEF ClaimUnmark

\* A crash: claims and their marks are gone, and so is the index.
LEMMA CrashPlaces ==
  ASSUME OrderInv, BookInv, Crash
  PROVE  BookInv'
<1>1. \A d \in Claims : ~Marked(claim'[d])
  <2> SUFFICES ASSUME NEW d \in Claims PROVE ~Marked(claim'[d])
    OBVIOUS
  <2>1. claim'[d] = IF claim[d].pc \in {"idle", "done"} THEN claim[d]
                    ELSE [pc |-> "done", tok |-> claim[d].tok, tx |-> claim[d].tx, answer |-> "cut"]
    BY DEF Crash
  <2> QED BY <2>1 DEF Marked
<1>2. UNCHANGED <<clock, orders, lapsed_pruned, lapsed_file, made, served, hand>>
  BY DEF Crash, file, accounts
<1>3. Placed' /\ Standing' = Unpaid(orders)
  BY <1>1, <1>2, MarksGone DEF Taken
<1>4. ~MayCut /\ ~MayFail
  BY DEF Crash, Fault, MayCut, MayFail
<1>5. IndexRight'
  <2>1. index' = IndexOf(orders) \/ index' = Unread
    BY DEF Crash
  <2>2. CASE index' = Unread
    BY <1>1, <2>2 DEF Unread, IndexRight, Marked
  <2>3. CASE index' = IndexOf(orders)
    <3>1. index'.orders = orders /\ AlikeFrom(orders, Unpaid(orders), clock')
      BY <2>3, SameAlike DEF IndexOf
    <3> QED BY <1>1, <1>3, <3>1 DEF IndexRight, Marked
  <2> QED BY <2>1, <2>2, <2>3
<1> QED BY <1>3, <1>4, <1>5 DEF BookInv, MayCut, MayFail

\* The operator's record is nobody's any more.
LEMMA CutPlaces ==
  ASSUME OrderInv, BookInv, Cut
  PROVE  BookInv'
<1>1. /\ UNCHANGED <<clock, orders, lapsed_pruned, lapsed_file, index, claim, made, served>>
      /\ hand' = Idle /\ "cut" \in Faults
  BY DEF Cut, Fault, file, accounts
<1>2. ~Taken' /\ clock' \in Nat /\ clock <= clock'
  BY <1>1 DEF Taken, Idle, OrderInv, Types
<1>3. Standing' = Standing /\ Records' = Records
  BY <1>1 DEF Standing, Marking, Records, Unpaid
<1>4. Placed'
  BY <1>1, <1>2, <1>3 DEF BookInv, Placed, FileTypes, Numbered, MarkStands, CapsOf
<1>5. \A i : Stands(i)' = Stands(i) /\ Recorded(i)' = Recorded(i) /\ ~InHand(i)'
  BY <1>2, <1>3 DEF Stands, Recorded, InHand
<1>6. Once => Once'
  BY <1>1, <1>3, <1>5 DEF Once, Owed
<1>7. ~MayFail
  BY <1>1 DEF MayFail
<1>8. IndexRight => IndexRight'
  BY <1>1, <1>3 DEF IndexRight
<1> QED BY <1>4, <1>6, <1>7, <1>8 DEF BookInv, MayFail

\* The operator credits the pack of the record taken, or will put it back.
LEMMA HandCreditPlaces ==
  ASSUME OrderInv, BookInv, HandCredit
  PROVE  BookInv'
<1>j. PICK j : j = hand.record.id
  OBVIOUS
<1>1. hand.pc = "credit" /\ Taken /\ UNCHANGED <<clock, file, index, claim, made>>
  BY DEF HandCredit, Taken
<1>2. clock' \in Nat /\ clock <= clock' /\ UNCHANGED <<orders, lapsed_pruned, lapsed_file>>
  BY <1>1 DEF OrderInv, Types, file
<1>3. CASE Credit(hand.tx, hand.record.id) /\ hand' = Idle
  <2>1. ~Taken'
    BY <1>3 DEF Taken, Idle
  <2>2. Standing' = Standing /\ Records' = Records
    BY <1>1, <1>2 DEF Standing, Marking, Records, Unpaid
  <2>3. \A i : /\ Stands(i)' = Stands(i) /\ Recorded(i)' = Recorded(i) /\ ~InHand(i)'
               /\ InHand(i) => i = j
    BY <1>j, <2>1, <2>2 DEF Stands, Recorded, InHand
  <2>4. InHand(j) /\ Owed(j)
    BY <1>j, <1>1 DEF InHand, Owed
  <2>5. served' = [served EXCEPT ![j] = @ + 1]
    BY <1>j, <1>3 DEF Credit
  <2>6. \A i : Owed(i) => Owed(i)' \/ i = j
    BY <2>3 DEF Owed
  <2>7. Once => ~Owed(j)'
    <3>1. j \in 1..MaxOrders
      BY <2>4, OwedNumbers DEF OrderInv, BookInv, Placed
    <3> QED BY <2>3, <2>4, <3>1 DEF Once, Owed
  <2>8. served' \in [1..MaxOrders -> Nat] /\ (Once => Once') /\ (Kept => Kept')
    BY <1>1, <2>2, <2>3, <2>4, <2>5, <2>6, <2>7, PackCredited
  <2>9. Placed'
    BY <1>1, <1>2, <2>1, <2>2, <2>8 DEF BookInv, Placed, FileTypes, Numbered, MarkStands, CapsOf
  <2>10. IndexRight => IndexRight'
    BY <1>1, <1>2, <2>2 DEF IndexRight
  <2> QED BY <2>8, <2>9, <2>10 DEF BookInv
<1>4. CASE /\ hand' = [pc |-> "put_back", tx |-> hand.tx, now |-> hand.now, record |-> hand.record]
           /\ UNCHANGED accounts
  <2>1. Taken' /\ hand'.record = hand.record
    BY <1>4 DEF Taken
  <2>2. UNCHANGED <<orders, lapsed_pruned, lapsed_file, index, made, served, claim>>
    BY <1>1, <1>2, <1>4 DEF accounts
  <2> QED BY <1>1, <1>2, <2>1, <2>2, StillKeeps
<1> QED BY <1>3, <1>4 DEF HandCredit

\* The record that could not be credited is put back.
LEMMA HandPutBackPlaces ==
  ASSUME OrderInv, BookInv, HandPutBack
  PROVE  BookInv'
<1> DEFINE b == [book EXCEPT !.lapsed = <<hand.record>>, !.used = Freed(@, hand.tx)]
<1>r. PICK r : r = hand.record
  OBVIOUS
<1>1. /\ hand.pc = "put_back" /\ Taken /\ hand' = Idle /\ ~Taken'
      /\ UNCHANGED <<clock, index, claim, made, served>>
      /\ Saved(b, lapsed_file) \/ NotSaved(b, lapsed_file, "hand")
  BY DEF HandPutBack, Taken, Idle, accounts
<1>2. /\ b.lapsed = <<r>> /\ b.drop = -1 - LAPSED_KEPT
      /\ b.orders = orders /\ b.lapsed_pruned = lapsed_pruned
  BY <1>r DEF book
<1> HIDE DEF b
<1>3. IsRecord(r) /\ r.id <= made /\ r \in Lapsed /\ r.lapsed \in Nat
  BY <1>r, <1>1 DEF BookInv, Placed, FileTypes, Numbered, IsRecord, Lapsed
<1>4. b.lapsed \in Seq(Lapsed) /\ Range(b.lapsed) = {r}
  BY <1>2, <1>3 DEF Range
<1>5. lapsed_file \in Seq(Lapsed) /\ clock \in 0..MaxTime /\ clock \in Nat
  BY DEF BookInv, Placed, FileTypes, OrderInv, Types
<1>6. CASE Saved(b, lapsed_file)
  <2>1. /\ orders' = orders /\ lapsed_pruned' = lapsed_pruned
        /\ lapsed_file' = Rewritten(lapsed_file \o b.lapsed, b.drop)
    BY <1>2, <1>6 DEF Saved
  <2>2. lapsed_file' \in Seq(Lapsed) /\ Records' = Records \cup {r}
    <3>1. /\ lapsed_file' \in Seq(Lapsed)
          /\ Range(lapsed_file') = {s \in Range(lapsed_file) \cup Range(b.lapsed) : s.lapsed > b.drop}
      BY <1>4, <1>5, <2>1, SavedRecords
    <3>2. \A s \in Records \cup {r} : s.lapsed \in Nat
      BY <1>3 DEF BookInv, Placed, FileTypes, IsRecord, Lapsed
    <3>3. \A s \in Records \cup {r} : s.lapsed > b.drop
      BY <1>2, <3>2, LifetimesAssumption
    <3> QED BY <1>4, <3>1, <3>3 DEF Records
  <2>3. Standing' = Standing
    BY <1>1, <2>1 DEF Standing, Marking, Unpaid
  <2>4. \A i : /\ Stands(i)' = Stands(i) /\ ~InHand(i)' /\ (InHand(i) <=> i = r.id)
               /\ Recorded(i)' <=> Recorded(i) \/ InHand(i)
               /\ Owed(i)' = Owed(i)
    <3>1. \A i : Stands(i)' = Stands(i) /\ ~InHand(i)' /\ (InHand(i) <=> i = r.id)
      BY <1>r, <1>1, <2>3 DEF Stands, InHand
    <3>2. \A i : Recorded(i)' <=> Recorded(i) \/ i = r.id
      BY <2>2 DEF Recorded
    <3> QED BY <3>1, <3>2 DEF Owed
  <2>5. Placed'
    BY <1>1, <1>3, <2>1, <2>2, <2>3 DEF BookInv, Placed, FileTypes, Numbered, MarkStands, CapsOf
  <2>6. ASSUME Once PROVE Once'
    <3>1. Owed(r.id)
      BY <2>4 DEF Owed
    <3>2. r.id \in 1..MaxOrders
      BY <3>1, OwedNumbers DEF OrderInv, BookInv, Placed
    <3>3. ~Recorded(r.id)
      BY <2>4, <2>6, <3>2 DEF Once
    <3>4. \A s, t \in Records' : s.id = t.id => s = t
      BY <2>2, <2>6, <3>3 DEF Once, Recorded
    <3>5. \A i \in 1..MaxOrders :
            /\ ~(Stands(i)' /\ Recorded(i)')
            /\ ~(Stands(i)' /\ InHand(i)')
            /\ ~(Recorded(i)' /\ InHand(i)')
      BY <2>4, <2>6 DEF Once
    <3>6. \A i \in 1..MaxOrders :
            served'[i] <= 1 /\ (Owed(i)' \/ i > made' => served'[i] = 0)
      BY <1>1, <2>4, <2>6 DEF Once
    <3> QED BY <3>4, <3>5, <3>6 DEF Once
  <2>7. Kept => Kept'
    <3>1. Late' = Late
      BY <1>1 DEF Late
    <3> QED BY <1>1, <2>4, <3>1 DEF Kept
  <2>8. IndexRight => IndexRight'
    BY <1>1, <2>1, <2>3 DEF IndexRight
  <2> QED BY <2>5, <2>6, <2>7, <2>8 DEF BookInv
<1>7. CASE NotSaved(b, lapsed_file, "hand")
  <2>1. Writes(b, clock)
    BY <1>2, <1>3, <1>4, <1>5, LifetimesAssumption DEF Writes
  <2>2. Range(lapsed_file) \subseteq Records
    BY DEF Records
  <2>3. Marks' = Marks /\ MarkStands'
    <3>1. orders' = orders
      BY <1>7 DEF NotSaved
    <3> QED BY <1>1, <3>1 DEF Marks, Marking, MarkStands, BookInv, Placed
  <2> DEFINE kind == "hand"
  <2>4. NotSaved(b, lapsed_file, kind) /\ kind \in {"orders", "hand"} /\ kind # "orders"
    BY <1>7
  <2>5. clock <= clock
    BY <1>5
  <2> HIDE DEF kind
  <2> QED BY <1>1, <1>5, <2>1, <2>2, <2>3, <2>4, <2>5, ChangeNotSaved
<1> QED BY <1>1, <1>6, <1>7

-----------------------------------------------------------------------------
(* The operator takes a record.                                            *)

\* An order that is open stays what it was when it was open, earlier.
LEMMA OpenBefore ==
  ASSUME NEW o \in Order, NEW n \in Nat, NEW m \in Nat, n <= m, open_at(o, m)
  PROVE  open_at(o, n)
<1>1. lapses_at(o) \in Nat
  BY RecordIsRecord
<1> QED BY <1>1 DEF open_at

\* The operator's command prunes the file at its time: a marked order stays,
\* as the claim that marked it is young, and what is open now stays.
LEMMA HandPrunes ==
  ASSUME OrderInv, BookInv, Timely, hand.pc = "take",
         orders' = prune(book, hand.now).orders, UNCHANGED <<clock, claim, index>>
  PROVE  /\ MarkStands' /\ Marks' = Marks /\ Standing' \subseteq Standing
         /\ IndexRight => IndexRight'
<1> DEFINE b == prune(book, hand.now)
<1>1. /\ hand.now \in 0..MaxTime /\ hand.now <= clock /\ clock \in Nat /\ MaxTime \in Nat
  BY ModelAssumption DEF OrderInv, Types, Times, Fresh
<1>2. b.orders = {o \in orders : \/ open_at(o, hand.now)
                                 \/ /\ o.paid # NoTx
                                    /\ hand.now < o.created + KEEP_PAID}
  BY DEF prune, book
<1>3. orders \subseteq Order
  BY DEF OrderInv, Types
<1> HIDE DEF b
<1>4. orders' = b.orders
  BY DEF b
<1>5. MarkStands'
  <2> SUFFICES ASSUME NEW c \in Claims, Marked(claim[c])
               PROVE  [claim[c].marked EXCEPT !.paid = claim[c].tx] \in b.orders
    BY <1>4 DEF MarkStands, BookInv, Placed
  <2> DEFINE k == claim[c]
             m == k.marked
  <2>1. m \in Order /\ k.now < m.created + ORDER_LIFETIME
    BY DEF BookInv, Placed, MarkStands
  <2>2. k.now \in 0..MaxTime /\ clock <= k.now + Delay
    BY ClaimNow DEF Marked, Asked
  <2>3. PICK p \in orders : p = [m EXCEPT !.paid = k.tx] /\ p.paid # NoTx
    BY MarkedOne
  <2>4. p.created = m.created /\ m.created \in 0..MaxTime
    BY <2>1, <2>3 DEF Order
  <2>5. hand.now < p.created + KEEP_PAID
    <3>1. \A h, n, q, cl \in Nat : h <= cl /\ cl <= n + Delay /\ n < q + ORDER_LIFETIME => h < q + KEEP_PAID
      BY ModelAssumption, LifetimesAssumption DEF Timely, KEEP_PAID
    <3> HIDE DEF k, m
    <3> QED BY <1>1, <2>1, <2>2, <2>4, <3>1
  <2>6. p \in b.orders
    BY <1>2, <2>3, <2>5
  <2> QED BY <2>3, <2>6
<1>6. Marks' = Marks
  BY DEF Marks, Marking
<1>7. Standing = Unpaid(orders) \cup Marks /\ Standing' = Unpaid(b.orders) \cup Marks
  BY <1>4, <1>6 DEF Standing, Marks, Unpaid
<1>8. b.orders \subseteq orders
  BY <1>2
<1>9. Standing' \subseteq Standing
  BY <1>7, <1>8 DEF Unpaid
<1>10. ASSUME NEW m \in Nat, m >= clock', NEW o \in orders, open_at(o, m) PROVE o \in b.orders
  BY <1>1, <1>2, <1>3, <1>10, OpenBefore
<1>11. AlikeFrom(orders, orders', clock')
  BY <1>4, <1>8, <1>10 DEF AlikeFrom, Open
<1>12. AlikeFrom(Standing, Standing', clock')
  BY <1>7, <1>8, <1>10 DEF AlikeFrom, Open, Unpaid
<1>13. IndexRight => IndexRight'
  <2>1. Types /\ clock' \in Nat /\ clock <= clock'
    BY <1>1 DEF OrderInv
  <2> QED BY <1>11, <1>12, <2>1, IndexStep
<1> QED BY <1>5, <1>6, <1>9, <1>13

\* It saves the pruned file, and may have taken a record.
LEMMA HandChanges ==
  ASSUME OrderInv, BookInv, Timely, hand.pc = "take", NEW b, Loaded(b, hand.now),
         b.orders = prune(book, hand.now).orders, orders' = b.orders,
         lapsed_pruned' = b.lapsed_pruned,
         UNCHANGED <<clock, claim, index, made, served>>, lapsed_file' \in Seq(Lapsed),
         Records' \subseteq Records \cup Range(b.lapsed),
         \A r \in Records \cup Range(b.lapsed) :
           r \in Records' \/ r.lapsed <= b.drop \/ InHand(r.id)',
         \/ ~Taken'
         \/ /\ hand'.record \in Records \cup Range(b.lapsed)
            /\ (MayCut /\ Once => hand'.record \notin Records')
  PROVE  BookInv'
<1>h. PICK h : h = hand.now
  OBVIOUS
<1>1. h \in 0..MaxTime /\ h <= clock /\ ~Taken /\ Loaded(b, h)
  BY <1>h DEF OrderInv, Types, Times, Fresh, Taken
<1>2. /\ MarkStands' /\ Marks' = Marks /\ Standing' \subseteq Standing
      /\ IndexRight => IndexRight'
  BY HandPrunes
<1>3. Opens({}) /\ orders' = b.orders \cup {} /\ Types /\ Placed
  BY DEF Opens, OrderInv, BookInv
<1>4. FileTypes' /\ Numbered' /\ ((MayCut => Once) => (MayCut => Once')) /\ (Kept => Kept')
  <2>1. \/ Taken = Taken' /\ (Taken => hand'.record = hand.record)
        \/ /\ ~Taken /\ hand'.record \in Records \cup Range(b.lapsed)
           /\ (MayCut /\ Once => hand'.record \notin Records')
    <3>1. Taken \in BOOLEAN /\ Taken' \in BOOLEAN
      BY DEF Taken
    <3> QED BY <1>1, <3>1
  <2> QED BY <1>1, <1>2, <1>3, <2>1, ChangeMoves
<1>5. CapsOf(Standing)'
  <2>1. PICK T : T = Standing'
    OBVIOUS
  <2>2. CapsOf(T)
    BY <1>2, <2>1, FewerCaps DEF BookInv, Placed
  <2> QED BY <2>1, <2>2 DEF CapsOf
<1> QED BY <1>2, <1>4, <1>5 DEF BookInv, Placed, MayCut, MayFail, Sure

\* What is read of the lapsed file is of its records.
LEMMA ReadIsRecord ==
  ASSUME NEW f \in Seq(Lapsed)
  PROVE  read_lapsed(f) \subseteq Range(f)
BY RangeAt DEF read_lapsed

\* One record less.
LEMMA WithoutOne ==
  ASSUME NEW f \in Seq(Lapsed), NEW l
  PROVE  without(f, l) \in Seq(Lapsed) /\ Range(without(f, l)) = Range(f) \ {l}
<1> DEFINE S == Range(f) \ {l}
<1>1. S = Range(f) \ {l}
  OBVIOUS
<1> HIDE DEF S
<1>2. Only(f, S) \in Seq(Lapsed) /\ Range(Only(f, S)) = {x \in Range(f) : x \in S}
  BY OnlyKeeps
<1>3. without(f, l) = Only(f, S)
  BY <1>1 DEF without
<1> QED BY <1>1, <1>2, <1>3

\* take_lapsed: the record leaves the file for the operator's hand.
LEMMA HandTakePlaces ==
  ASSUME OrderInv, BookInv, Timely, HandTake
  PROVE  BookInv'
<1> DEFINE b     == prune(book, hand.now)
           paid  == chain[hand.tx]
           kept  == {l \in read_lapsed(lapsed_file) : l.amt = paid.amt}
           fits  == {l \in kept \cup Range(b.lapsed) :
                       /\ l.amt = paid.amt /\ hand.now < l.lapsed + LAPSED_KEPT
                       /\ could_be_paid_at(l, paid.at) /\ l.tok \in hand.whose}
           pick  == CHOOSE r \in fits : TRUE
           rest  == [b EXCEPT !.lapsed = without(@, pick)]
           taken == [rest EXCEPT !.used = @ \cup {[tx |-> hand.tx, at |-> hand.now]}]
           file1 == IF pick \in kept THEN without(lapsed_file, pick) ELSE lapsed_file
<1>1. hand.pc = "take" /\ UNCHANGED <<clock, index, claim, made, served>>
  BY DEF HandTake, accounts
<1>2. /\ hand.now \in 0..MaxTime /\ hand.now <= clock /\ ~Taken
      /\ lapsed_file \in Seq(Lapsed) /\ Range(lapsed_file) = Records
  BY <1>1 DEF OrderInv, Types, Times, Fresh, Taken, BookInv, Placed, FileTypes, Records
<1>3. Loaded(b, hand.now) /\ Writes(b, hand.now) /\ IsBook(b) /\ b.lapsed \in Seq(Lapsed)
  <2>1. Loaded(b, hand.now)
    BY <1>2, BooksReady DEF Ready
  <2> HIDE DEF b
  <2> QED BY <2>1, LoadedWrites DEF Loaded
<1>4. kept \subseteq Records
  BY <1>2, ReadIsRecord
<1>5. \/ Saved(b, lapsed_file) /\ hand' = Idle
      \/ NotSaved(b, lapsed_file, "hand") /\ hand' = Idle
      \/ /\ Cardinality(fits) = 1
         /\ \/ /\ Saved(taken, file1)
               /\ hand' = [pc |-> "credit", tx |-> hand.tx, now |-> hand.now, record |-> pick]
            \/ NotSaved(taken, file1, "hand") /\ hand' = Idle
            \/ NotSaved(rest, lapsed_file, "hand") /\ hand' = Idle
            \/ /\ pick \in kept /\ hand' = Idle
               /\ orders' = rest.orders /\ lapsed_pruned' = rest.lapsed_pruned
               /\ lapsed_file' = Rewritten(lapsed_file \o rest.lapsed, rest.drop)
  BY DEF HandTake
<1>6. Cardinality(fits) = 1 => pick \in kept \cup Range(b.lapsed)
  <2>1. Cardinality(fits) = 1 => fits # {}
    <3> HIDE DEF fits
    <3> QED BY FS_EmptySet
  <2>2. fits \subseteq kept \cup Range(b.lapsed)
    OBVIOUS
  <2> HIDE DEF fits, kept, b
  <2> QED BY <2>1, <2>2
<1>7. b.orders = prune(book, hand.now).orders
  OBVIOUS
<1> PICK l : l = pick
  OBVIOUS
<1>8. without(b.lapsed, l) \in Seq(Lapsed) /\ Range(without(b.lapsed, l)) = Range(b.lapsed) \ {l}
  BY <1>3, WithoutOne
<1>9. /\ rest.orders = b.orders /\ rest.lapsed = without(b.lapsed, l) /\ rest.drop = b.drop
      /\ rest.lapsed_pruned = b.lapsed_pruned
      /\ taken.orders = b.orders /\ taken.lapsed = without(b.lapsed, l) /\ taken.drop = b.drop
      /\ taken.lapsed_pruned = b.lapsed_pruned
  <2> HIDE DEF b, pick
  <2> QED BY <1>3 DEF IsBook
<1>10. /\ file1 \in Seq(Lapsed) /\ Range(file1) \subseteq Records
       /\ pick \in kept => Range(file1) = Records \ {l}
       /\ pick \notin kept => Range(file1) = Records
  BY <1>2, WithoutOne
<1> HIDE DEF b, kept, fits, pick, rest, taken, file1
<1>11. hand' = Idle => ~Taken'
  BY DEF Taken, Idle
<1>12. /\ \A r \in Records \cup Range(b.lapsed) : r.lapsed \in Int
       /\ b.drop \in Int
  BY <1>3 DEF Loaded, BookInv, Placed, FileTypes, IsRecord, Lapsed
<1>13. ASSUME NEW e, NEW f \in Seq(Lapsed), e.lapsed \in Seq(Lapsed), e.drop = b.drop,
              lapsed_file' = Rewritten(f \o e.lapsed, e.drop)
       PROVE  /\ lapsed_file' \in Seq(Lapsed)
              /\ Records' = {r \in Range(f) \cup Range(e.lapsed) : r.lapsed > b.drop}
  BY <1>13, SavedRecords DEF Records
<1>14. CASE Saved(b, lapsed_file) /\ hand' = Idle
  <2>1. /\ lapsed_file' \in Seq(Lapsed)
        /\ Records' = {r \in Records \cup Range(b.lapsed) : r.lapsed > b.drop}
        /\ orders' = b.orders /\ lapsed_pruned' = b.lapsed_pruned
    BY <1>2, <1>3, <1>13, <1>14 DEF Saved
  <2>2. \A r \in Records \cup Range(b.lapsed) : r \in Records' \/ r.lapsed <= b.drop
    BY <1>12, <2>1
  <2> QED BY <1>1, <1>3, <1>7, <1>11, <1>14, <2>1, <2>2, HandChanges
<1>15. CASE Cardinality(fits) = 1 /\ pick \in kept /\ hand' = Idle
            /\ orders' = rest.orders /\ lapsed_pruned' = rest.lapsed_pruned
            /\ lapsed_file' = Rewritten(lapsed_file \o rest.lapsed, rest.drop)
  <2>1. /\ lapsed_file' \in Seq(Lapsed)
        /\ Records' = {r \in Records \cup (Range(b.lapsed) \ {l}) : r.lapsed > b.drop}
        /\ orders' = b.orders /\ lapsed_pruned' = b.lapsed_pruned
    BY <1>2, <1>8, <1>9, <1>13, <1>15
  <2>2. \A r \in Records \cup Range(b.lapsed) : r \in Records' \/ r.lapsed <= b.drop
    BY <1>4, <1>12, <1>15, <2>1
  <2> QED BY <1>1, <1>3, <1>7, <1>11, <1>15, <2>1, <2>2, HandChanges
<1>16. CASE /\ Cardinality(fits) = 1 /\ Saved(taken, file1)
            /\ hand' = [pc |-> "credit", tx |-> hand.tx, now |-> hand.now, record |-> pick]
  <2>1. /\ lapsed_file' \in Seq(Lapsed)
        /\ Records' = {r \in Range(file1) \cup (Range(b.lapsed) \ {l}) : r.lapsed > b.drop}
        /\ orders' = b.orders /\ lapsed_pruned' = b.lapsed_pruned
    BY <1>8, <1>9, <1>10, <1>13, <1>16 DEF Saved
  <2>2. Taken' /\ hand'.record = l
    BY <1>16 DEF Taken
  <2>3. \A r \in Records \cup Range(b.lapsed) : r \in Records' \/ r.lapsed <= b.drop \/ InHand(r.id)'
    <3>1. InHand(l.id)'
      BY <2>2 DEF InHand
    <3> QED BY <1>10, <1>12, <2>1, <3>1
  <2>4. l \in Records \cup Range(b.lapsed)
    BY <1>4, <1>6, <1>16
  <2>5. ASSUME MayCut, Once PROVE l \notin Records'
    <3>1. CASE pick \in kept
      BY <1>10, <2>1, <3>1
    <3>2. CASE pick \notin kept
      <4>1. l \in Range(b.lapsed)
        BY <1>6, <1>16, <3>2
      <4>2. Stands(l.id)
        BY <1>3, <4>1 DEF Loaded, Stands, Standing, Unpaid
      <4>3. l.id \in 1..MaxOrders
        BY <4>2, OwedNumbers DEF Owed, OrderInv, BookInv, Placed
      <4>4. l \notin Records
        BY <2>5, <4>2, <4>3 DEF Once, Recorded
      <4> QED BY <1>10, <2>1, <4>4
    <3> QED BY <3>1, <3>2
  <2>6. Records' \subseteq Records \cup Range(b.lapsed)
    BY <1>10, <2>1
  <2> QED BY <1>1, <1>3, <1>7, <2>1, <2>2, <2>3, <2>4, <2>5, <2>6, HandChanges
<1>17. ASSUME NEW e, NEW f \in Seq(Lapsed), Range(f) \subseteq Records, Writes(e, hand.now),
              NotSaved(e, f, "hand"), hand' = Idle
       PROVE  BookInv'
  <2>h. PICK h : h = hand.now
    OBVIOUS
  <2>1. h \in 0..MaxTime /\ h <= clock /\ Writes(e, h)
    BY <1>2, <1>17, <2>h
  <2>2. Marks' = Marks /\ MarkStands'
    <3>1. orders' = orders
      BY <1>17 DEF NotSaved
    <3> QED BY <1>1, <3>1 DEF Marks, Marking, MarkStands, BookInv, Placed
  <2> DEFINE kind == "hand"
  <2>3. NotSaved(e, f, kind) /\ kind \in {"orders", "hand"} /\ kind # "orders"
    BY <1>17
  <2> HIDE DEF kind
  <2> QED BY <1>1, <1>11, <1>17, <2>1, <2>2, <2>3, ChangeNotSaved
<1>18. Writes(rest, hand.now) /\ Writes(taken, hand.now)
  BY <1>3, <1>8, <1>9 DEF Writes
<1> QED BY <1>2, <1>3, <1>5, <1>10, <1>14, <1>15, <1>16, <1>17, <1>18

-----------------------------------------------------------------------------
(* Every step together.                                                    *)

\* Steps of claims that neither mark nor change the file.
LEMMA ClaimQuiet ==
  ASSUME OrderInv, BookInv, NEW c \in Claims, ~Marked(claim[c]), ~Marked(claim'[c]),
         \A d \in Claims : d # c => claim'[d] = claim[d],
         UNCHANGED <<clock, file, index, hand, accounts, made>>
  PROVE  BookInv'
<1>1. /\ UNCHANGED <<orders, lapsed_pruned, lapsed_file, index, made, served, hand>>
      /\ Taken' = Taken /\ clock' \in Nat /\ clock <= clock'
  BY DEF file, accounts, Taken, OrderInv, Types
<1> QED BY <1>1, StillKeeps

\* Every step keeps the second invariant too.
LEMMA BookStep ==
  ASSUME Timely, OrderInv, BookInv, [Next]_vars
  PROVE  BookInv'
<1>1. ASSUME NEW q \in quotes, QuoteRefused(q) \/ QuoteOpen(q) PROVE BookInv'
  BY <1>1, QuoteRefusedPlaces, QuoteOpenPlaces
<1>2. ASSUME NEW c \in Claims, NEW t \in Tokens, NEW x \in Txs, ClaimAsk(c, t, x)
      PROVE  BookInv'
  <2> DEFINE a == known(t, clock)
             n == IF a \in {"nothing", "tries"}
                  THEN [pc |-> "done", tok |-> t, tx |-> x, answer |-> a]
                  ELSE [pc |-> IF a = "hold" THEN "hold" ELSE "pace",
                        tok |-> t, tx |-> x, now |-> clock]
  <2>1. /\ claim[c].pc = "idle" /\ claim' = [claim EXCEPT ![c] = n]
        /\ UNCHANGED <<clock, file, index, hand, accounts, made>>
    BY <1>2 DEF ClaimAsk
  <2> HIDE DEF a
  <2>2. ~Marked(n)
    BY DEF Marked
  <2> HIDE DEF n
  <2>3. claim'[c] = n /\ \A d \in Claims : d # c => claim'[d] = claim[d]
    BY <2>1 DEF OrderInv, Types
  <2>4. ~Marked(claim[c])
    BY <2>1 DEF Marked
  <2> QED BY <2>1, <2>2, <2>3, <2>4, ClaimQuiet
<1>3. ASSUME NEW c \in Claims, ClaimPaced(c) \/ ClaimChain(c) PROVE BookInv'
  <2> DEFINE n(o) == [pc |-> "mark", tok |-> claim[c].tok, tx |-> claim[c].tx,
                      now |-> claim[c].now, order |-> o]
  <2>1. /\ claim[c].pc \in {"pace", "chain"}
        /\ UNCHANGED <<clock, file, index, hand, accounts, made>>
        /\ \/ \E o : claim' = [claim EXCEPT ![c] = n(o)]
           \/ \E a \in Answers : Answer(c, a)
    BY <1>3 DEF ClaimPaced, ClaimChain, Answers
  <2>2. \A o : ~Marked(n(o))
    BY DEF Marked
  <2> HIDE DEF n
  <2>3. ~Marked(claim'[c]) /\ \A d \in Claims : d # c => claim'[d] = claim[d]
    <3>1. ASSUME NEW o, claim' = [claim EXCEPT ![c] = n(o)]
          PROVE  ~Marked(claim'[c]) /\ \A d \in Claims : d # c => claim'[d] = claim[d]
      BY <2>2, <3>1 DEF OrderInv, Types
    <3>2. ASSUME NEW a \in Answers, Answer(c, a)
          PROVE  ~Marked(claim'[c]) /\ \A d \in Claims : d # c => claim'[d] = claim[d]
      BY <2>1, <3>2, AnswerFound
    <3> QED BY <2>1, <3>1, <3>2
  <2>4. ~Marked(claim[c])
    BY <2>1 DEF Marked
  <2> QED BY <2>1, <2>3, <2>4, ClaimQuiet
<1>4. ASSUME NEW c \in Claims, Work(c) PROVE BookInv'
  BY <1>3, <1>4, ClaimHoldPlaces, ClaimBeforePlaces, ClaimMarkPlaces, ClaimCreditPlaces,
     ClaimUnmarkPlaces DEF Work
<1>5. CASE HandTake \/ HandCredit \/ HandPutBack \/ Crash \/ Cut
  BY <1>5, HandTakePlaces, HandCreditPlaces, HandPutBackPlaces, CrashPlaces, CutPlaces
<1>6. CASE \/ \E t \in Tokens : QuoteAsk(t)
           \/ \E x \in Txs, whose \in {{t} : t \in Tokens} \cup {Tokens} :
                HandStart(x, whose)
           \/ \E x \in Txs, a \in Amounts : Pay(x, a)
           \/ Tick \/ UNCHANGED vars
  <2>1. /\ UNCHANGED <<orders, lapsed_pruned, lapsed_file, index, made, served, claim>>
        /\ clock' = clock \/ clock' = clock + 1
        /\ Taken' = Taken /\ (Taken => hand'.record = hand.record)
    <3>1. ASSUME NEW x \in Txs, NEW whose, HandStart(x, whose)
          PROVE  /\ UNCHANGED <<orders, lapsed_pruned, lapsed_file, index, made, served, claim, clock>>
                 /\ ~Taken /\ ~Taken'
      BY <3>1 DEF HandStart, file, accounts, Taken
    <3>2. Taken \in BOOLEAN /\ Taken' \in BOOLEAN
      BY DEF Taken
    <3>3. CASE \/ \E t \in Tokens : QuoteAsk(t)
               \/ \E x \in Txs, a \in Amounts : Pay(x, a)
               \/ Tick \/ UNCHANGED vars
      BY <3>3 DEF QuoteAsk, Pay, Tick, vars, file, accounts, Taken
    <3> QED BY <1>6, <3>1, <3>2, <3>3
  <2>2. clock' \in Nat /\ clock <= clock'
    BY <2>1 DEF OrderInv, Types
  <2> QED BY <2>1, <2>2, StillKeeps
<1> QED BY <1>1, <1>2, <1>4, <1>5, <1>6, Zenon DEF Next

\* Nothing has been opened yet.
LEMMA BookInit == Init => BookInv
<1> SUFFICES ASSUME Init PROVE BookInv
  OBVIOUS
<1>1. Idle.pc = "idle"
  BY DEF Idle
<1>2. ~Taken /\ Marking = {} /\ Records = {} /\ Standing = {} /\ MarkStands
  BY <1>1 DEF Init, Taken, Marking, Marked, Records, Range, Standing, Unpaid, MarkStands
<1>3. FileTypes /\ Numbered
  BY <1>2, ModelAssumption DEF Init, FileTypes, Numbered
<1>4. CapsOf({})
  <2>1. IsFiniteSet({}) /\ Cardinality({}) = 0
    BY FS_EmptySet
  <2>2. {o \in {} : ~o.unclaimed} = {} /\ \A t \in Tokens : {o \in {} : o.tok = t} = {}
    OBVIOUS
  <2> QED BY <2>1, <2>2, CapsAssumption DEF CapsOf
<1>5. IndexRight
  BY <1>1, <1>2, SameAlike DEF Init, IndexRight, IndexOf
<1>6. Once /\ Kept
  BY <1>2 DEF Init, Once, Kept, Owed, Stands, Recorded, InHand
<1> QED BY <1>2, <1>3, <1>4, <1>5, <1>6 DEF BookInv, Placed

\* Both invariants hold always.
LEMMA BookInvHolds ==
  ASSUME Timely
  PROVE  Spec => [](OrderInv /\ BookInv)
<1>1. OrderInv /\ BookInv /\ [Next]_vars => BookInv'
  BY BookStep
<1>2. OrderInv /\ [Next]_vars => OrderInv'
  BY StepKeeps
<1> QED BY <1>1, <1>2, InitKeeps, BookInit, PTL DEF Spec

\* One try more on each of a set of orders.
LEMMA OneTryMore ==
  ASSUME NEW M, IsFiniteSet(M), M \subseteq Order,
         \A o, p \in M : o.id = p.id => o = p
  PROVE  Tries({[o EXCEPT !.tries = @ + 1] : o \in M}) = Tries(M) + Cardinality(M)
<1> DEFINE u    == [o \in M |-> [o EXCEPT !.tries = @ + 1]]
           of   == [o \in Order |-> o.tries]
           I(S) == {u[o] : o \in S}
           Good(S) == SumOf(of, I(S)) = SumOf(of, S) + Cardinality(S)
           Bad  == {S \in SUBSET M : ~Good(S)}
<1>1. ASSUME NEW o \in M
      PROVE  /\ u[o] \in Order /\ u[o].tries = o.tries + 1 /\ u[o].id = o.id /\ o.tries \in Nat
             /\ o \in Order /\ of[o] = o.tries /\ of[u[o]] = o.tries + 1
  <2>1. o \in Order /\ u[o] = [o EXCEPT !.tries = @ + 1]
    OBVIOUS
  <2>2. u[o] \in Order /\ u[o].tries = o.tries + 1 /\ u[o].id = o.id /\ o.tries \in Nat
    <3> HIDE DEF u
    <3> QED BY <2>1 DEF Order
  <2> HIDE DEF u
  <2> QED BY <2>1, <2>2
<1> HIDE DEF u, of
<1>2. \A S \in SUBSET M : IsFiniteSet(S) /\ Cardinality(S) \in Nat /\ IsFiniteSet(I(S))
  BY FS_Subset, FS_CardinalityType, ImageCount
<1>3. Good({})
  <2>1. I({}) = {} /\ Cardinality({}) = 0
    BY FS_EmptySet
  <2> QED BY <2>1, SumEmpty
<1>4. Bad = {}
  <2> SUFFICES ASSUME Bad # {} PROVE FALSE
    OBVIOUS
  <2>1. PICK S \in Bad : \A U \in Bad : Cardinality(S) <= Cardinality(U)
    <3>1. \A U \in Bad : IsFiniteSet(U)
      BY <1>2
    <3> HIDE DEF Bad
    <3> QED BY <3>1, SmallestSet
  <2>2. S \subseteq M /\ ~Good(S) /\ S # {}
    BY <1>3, <2>1
  <2>3. PICK o \in S : TRUE
    BY <2>2
  <2> DEFINE T == S \ {o}
  <2>4. T \subseteq M /\ o \in M /\ IsFiniteSet(T) /\ IsFiniteSet(I(T)) /\ Cardinality(T) \in Nat
    BY <1>2, <2>2
  <2>5. Cardinality(S) = Cardinality(T) + 1 /\ S = T \cup {o} /\ o \notin T
    <3>1. S = T \cup {o} /\ o \notin T
      OBVIOUS
    <3> HIDE DEF T
    <3> QED BY <2>4, <3>1, FS_AddElement
  <2>6. Good(T)
    <3>1. Cardinality(S) \in Nat /\ ~(Cardinality(S) <= Cardinality(T))
      BY <2>4, <2>5
    <3>2. T \notin Bad
      <4> HIDE DEF T, Bad
      <4> QED BY <2>1, <3>1
    <3> QED BY <2>4, <3>2
  <2>7. I(S) = I(T) \cup {u[o]} /\ u[o] \notin I(T)
    <3>1. I(S) = I(T) \cup {u[o]}
      OBVIOUS
    <3>2. ASSUME NEW p \in T PROVE u[p] # u[o]
      <4>1. p \in M /\ p # o
        BY <2>4
      <4> QED BY <1>1, <2>4, <4>1
    <3> QED BY <3>1, <3>2
  <2> HIDE DEF T
  <2>8. /\ \A y \in T : of[y] \in Int
        /\ \A y \in I(T) : of[y] \in Int
        /\ of[o] = o.tries /\ of[u[o]] = o.tries + 1 /\ o.tries \in Int
    BY <1>1, <2>4
  <2>9. SumOf(of, S) = of[o] + SumOf(of, T) /\ SumOf(of, T) \in Int
    BY <2>4, <2>5, <2>8, SumWith, SumIsInt
  <2>10. SumOf(of, I(S)) = of[u[o]] + SumOf(of, I(T)) /\ SumOf(of, I(T)) \in Int
    <3>1. PICK J : J = I(T)
      OBVIOUS
    <3>2. PICK z : z = u[o]
      OBVIOUS
    <3>3. of[z] \in Int /\ IsFiniteSet(J) /\ (\A y \in J : of[y] \in Int) /\ z \notin J
      BY <2>4, <2>7, <2>8, <3>1, <3>2
    <3>4. SumOf(of, J \cup {z}) = of[z] + SumOf(of, J) /\ SumOf(of, J) \in Int
      BY <3>3, SumWith, SumIsInt
    <3> QED BY <2>7, <3>1, <3>2, <3>4
  <2>11. Good(S)
    BY <2>4, <2>5, <2>6, <2>8, <2>9, <2>10
  <2> QED BY <2>2, <2>11
<1>5. SumOf(of, I(M)) = SumOf(of, M) + Cardinality(M)
  BY <1>4
<1>6. ASSUME NEW S, IsFiniteSet(S), S \subseteq Order PROVE Tries(S) = SumOf(of, S)
  <2> DEFINE g == [o \in S |-> o.tries]
  <2>1. \A o \in S : g[o] = of[o]
    BY <1>6 DEF of
  <2>2. Tries(S) = SumOf(g, S)
    BY DEF Tries
  <2> HIDE DEF g
  <2> QED BY <1>6, <2>1, <2>2, SumSame
<1>7. I(M) = {[o EXCEPT !.tries = @ + 1] : o \in M}
  <2>1. \A o \in M : u[o] = [o EXCEPT !.tries = @ + 1]
    BY DEF u
  <2>2. ASSUME NEW x PROVE x \in I(M) <=> \E o \in M : x = u[o]
    OBVIOUS
  <2>3. ASSUME NEW x PROVE x \in {[o EXCEPT !.tries = @ + 1] : o \in M} <=> \E o \in M : x = [o EXCEPT !.tries = @ + 1]
    OBVIOUS
  <2>4. ASSUME NEW x PROVE (\E o \in M : x = u[o]) <=> (\E o \in M : x = [o EXCEPT !.tries = @ + 1])
    BY <2>1
  <2> QED BY <2>2, <2>3, <2>4
<1>8. IsFiniteSet(I(M)) /\ I(M) \subseteq Order
  BY <1>1, <1>2
<1>9. Tries(I(M)) = SumOf(of, I(M)) /\ Tries(M) = SumOf(of, M)
  <2> HIDE DEF I
  <2> QED BY <1>6, <1>8
<1> QED BY <1>5, <1>7, <1>9

-----------------------------------------------------------------------------
(* What the second invariant says.                                         *)

\* When the index alone turns a claim away.
LEMMA KnownSays ==
  ASSUME NEW t, NEW now, NEW M, M = OpenOf(index.orders, t, now)
  PROVE  /\ known(t, now) = "nothing" => ~index.unread /\ M = {}
         /\ known(t, now) = "tries" =>
              ~index.unread /\ Tries(M) + Cardinality(M) > MAX_CLAIM_TRIES
<1> DEFINE paid == \E o \in index.orders : /\ o.tok = t /\ o.paid # NoTx
                                           /\ now < o.created + KEEP_PAID
           held == /\ \E o \in M : o.unclaimed
                   /\ Cardinality(Held(index.orders, now)) < MAX_HELD_ORDERS
           much == Tries(M) + Cardinality(M) > MAX_CLAIM_TRIES
<1>1. known(t, now) = CASE index.unread -> "file"
        [] ~index.unread /\ M = {} /\ ~paid -> "nothing"
        [] ~index.unread /\ M = {} /\ paid -> "file"
        [] ~index.unread /\ M # {} ->
             IF ~paid /\ much THEN "tries" ELSE IF held THEN "hold" ELSE "file"
  BY DEF known
<1> HIDE DEF paid, held, much
<1>2. CASE index.unread
  <2>1. known(t, now) = "file"
    BY <1>1, <1>2
  <2> QED BY <2>1
<1>3. CASE ~index.unread /\ M = {}
  <2>1. known(t, now) = "file" \/ known(t, now) = "nothing"
    BY <1>1, <1>3
  <2> QED BY <1>3, <2>1
<1>4. CASE ~index.unread /\ M # {}
  <2>1. known(t, now) = IF ~paid /\ much THEN "tries" ELSE IF held THEN "hold" ELSE "file"
    BY <1>1, <1>4
  <2>2. known(t, now) = "tries" => much
    BY <2>1
  <2>3. known(t, now) # "nothing"
    BY <2>1
  <2> QED BY <1>4, <2>2, <2>3 DEF much
<1> QED BY <1>2, <1>3, <1>4

\* An order's pack is credited once, be it by two claims or by a claim and by
\* the operator (claim, mark_paid, take_lapsed), and "already claimed" is said
\* of a credited transaction only: whatever credits fail and wherever the
\* operator's command is cut off.  A failed save of the orders is excepted, as
\* rewrite_lapsed comes before it and the order is then in both files; a crash
\* or a failed unmark leaves a mark without a credit.
THEOREM CreditsExactHolds ==
  ASSUME Timely, Faults \subseteq {"accounts", "cut"}
  PROVE  Spec => []CreditsExact
<1>1. OrderInv /\ BookInv => OrderCreditedOnce
  BY DEF BookInv, MayCut, Once, OrderCreditedOnce
<1>2. Faults \cap {"crash", "unmark"} = {}
  OBVIOUS
<1>3. Spec => []AlreadyMeansCredited
  BY <1>2, AlreadyMeansCreditedHolds
<1>4. OrderCreditedOnce /\ AlreadyMeansCredited => CreditsExact
  BY DEF CreditsExact
<1>5. Spec => [](OrderInv /\ BookInv)
  BY BookInvHolds
<1> QED BY <1>1, <1>3, <1>4, <1>5, PTL

\* No order is lost: until its pack is credited it is in the orders file, in the
\* lapsed file or in the operator's hand, or the week of its record is over
\* (Orders::update writes the lapsed file first, prune drops no unpaid order
\* without a record, take_lapsed and its put_back), whatever saves of the issuer
\* and credits fail.  A crash, a failed unmark, or a cut or failed write of the
\* operator's command after the record was taken are excepted: each leaves the
\* order nowhere.
THEOREM OrderKeptHolds ==
  ASSUME Timely, Faults \subseteq {"orders", "accounts"}
  PROVE  Spec => []OrderKept
<1>1. ASSUME OrderInv, BookInv PROVE OrderKept
  <2> SUFFICES ASSUME NEW i \in 1..made, served[i] = 0
               PROVE  \/ \E o \in orders : o.id = i /\ (o.paid = NoTx \/ lock # Free)
                      \/ hand.pc \in {"credit", "put_back"} /\ hand.record.id = i
                      \/ \E k \in 1..Len(lapsed_file) : lapsed_file[k].id = i
                      \/ clock >= UNCLAIMED_LIFETIME + LAPSED_KEPT
    BY DEF OrderKept
  <2>1. Owed(i) \/ Late
    BY <1>1 DEF BookInv, MayFail, Kept
  <2>2. CASE Stands(i)
    <3>1. PICK o \in Standing : o.id = i
      BY <2>2 DEF Stands
    <3>2. CASE o \in Unpaid(orders)
      BY <3>1, <3>2 DEF Unpaid
    <3>3. ASSUME NEW c \in Claims, Marked(claim[c]), o = claim[c].marked
          PROVE  \E p \in orders : p.id = i /\ lock # Free
      <4>1. \E p \in orders : p.id = o.id
        BY <1>1, <3>3, MarkedOne
      <4>2. lock = c
        BY <1>1, <3>3 DEF OrderInv, Safe, Holders
      <4> QED BY <3>1, <4>1, <4>2, ModelAssumption
    <3> QED BY <3>1, <3>2, <3>3 DEF Standing, Marking
  <2>3. CASE Recorded(i)
    <3>1. lapsed_file \in Seq(Lapsed)
      BY <1>1 DEF BookInv, Placed, FileTypes
    <3> QED BY <2>3, <3>1, RangeAt DEF Recorded, Records
  <2> QED BY <2>1, <2>2, <2>3 DEF Owed, InHand, Taken, Late
<1>2. OrderInv /\ BookInv => OrderKept
  BY <1>1
<1>3. Spec => [](OrderInv /\ BookInv)
  BY BookInvHolds
<1> QED BY <1>2, <1>3, PTL

\* The caps bound what stands, and what is open stands.
LEMMA CapsAreKept ==
  ASSUME OrderInv, BookInv
  PROVE  CapsKept
<1>1. CapsOf(Standing) /\ IsFiniteSet(Standing)
  BY DEF BookInv, Placed, CapsOf
<1>2. ASSUME NEW A, NEW B, A \subseteq B, B \subseteq Standing, NEW n \in Nat, Cardinality(B) <= n
      PROVE  Cardinality(A) <= n
  <2>1. IsFiniteSet(B)
    BY <1>1, <1>2, FS_Subset
  <2>2. Cardinality(A) <= Cardinality(B) /\ Cardinality(A) \in Nat /\ Cardinality(B) \in Nat
    BY <1>2, <2>1, FS_Subset, FS_CardinalityType
  <2> QED BY <1>2, <2>2
<1>3. /\ Open(orders, clock) \subseteq Standing
      /\ Held(orders, clock) \subseteq {o \in Standing : ~o.unclaimed}
      /\ \A t \in Tokens : OpenOf(orders, t, clock) \subseteq {o \in Standing : o.tok = t}
  BY DEF Open, Held, OpenOf, open_at, Standing, Unpaid
<1>4. Cardinality(Open(orders, clock)) <= MAX_OPEN_ORDERS
  BY <1>1, <1>2, <1>3, CapsAssumption DEF CapsOf
<1>5. ASSUME NEW t \in Tokens PROVE Cardinality(OpenOf(orders, t, clock)) <= MAX_OPEN_PER_ACCOUNT
  <2> DEFINE B == {o \in Standing : o.tok = t}
  <2>1. OpenOf(orders, t, clock) \subseteq B /\ B \subseteq Standing /\ Cardinality(B) <= MAX_OPEN_PER_ACCOUNT
    BY <1>1, <1>3 DEF CapsOf
  <2> HIDE DEF B
  <2> QED BY <1>2, <2>1, CapsAssumption
<1>6. Cardinality(Held(orders, clock)) <= MAX_HELD_ORDERS
  <2> DEFINE B == {o \in Standing : ~o.unclaimed}
  <2>1. Held(orders, clock) \subseteq B /\ B \subseteq Standing /\ Cardinality(B) <= MAX_HELD_ORDERS
    BY <1>1, <1>3 DEF CapsOf
  <2> HIDE DEF B
  <2> QED BY <1>2, <2>1, CapsAssumption
<1> QED BY <1>4, <1>5, <1>6 DEF CapsKept

\* What tried makes of the open orders of a token: one try more on each.
LEMMA TriedOpen ==
  ASSUME OrderInv, NEW t, NEW M, M = OpenOf(orders, t, clock)
  PROVE  OpenOf(tried(book, t, clock).orders, t, clock) = {[o EXCEPT !.tries = @ + 1] : o \in M}
<1> DEFINE I == {[o EXCEPT !.tries = @ + 1] : o \in M}
           S == (orders \ M) \cup I
<1>1. M \subseteq orders /\ orders \subseteq Order
  BY DEF OpenOf, OrderInv, Types
<1>2. ASSUME NEW o \in M PROVE [o EXCEPT !.tries = @ + 1].tok = t /\ open_at([o EXCEPT !.tries = @ + 1], clock)
  <2>1. o \in Order /\ o.tok = t /\ open_at(o, clock)
    BY <1>1 DEF OpenOf
  <2> PICK p : p = [o EXCEPT !.tries = @ + 1]
    OBVIOUS
  <2>2. p.tok = o.tok /\ p.paid = o.paid /\ p.created = o.created /\ p.unclaimed = o.unclaimed
    BY <2>1 DEF Order
  <2>3. lapses_at(p) = lapses_at(o)
    BY <2>2 DEF lapses_at
  <2>4. open_at(p, clock)
    BY <2>1, <2>2, <2>3 DEF open_at
  <2> QED BY <2>1, <2>2, <2>4
<1>3. \A p \in I : p.tok = t /\ open_at(p, clock)
  BY <1>2
<1>4. tried(book, t, clock).orders = S
  <2>1. tried(book, t, clock) = [book EXCEPT !.orders = S]
    BY DEF tried, book
  <2> HIDE DEF S
  <2> QED BY <2>1 DEF book
<1> HIDE DEF I
<1>5. OpenOf(S, t, clock) = I
  BY <1>1, <1>3 DEF OpenOf
<1> QED BY <1>4, <1>5 DEF I

\* What the index answers is what the file would have answered.
LEMMA IndexIsSound ==
  ASSUME OrderInv, BookInv, Sure
  PROVE  IndexSound
<1>1. IndexRight /\ clock \in Nat
  BY DEF BookInv, OrderInv, Types
<1> SUFFICES ASSUME NEW t \in Tokens
             PROVE  /\ known(t, clock) = "nothing" =>
                         ~\E o \in orders : o.tok = t /\ open_at(o, clock)
                    /\ lock = Free /\ known(t, clock) = "tries" =>
                         Tries(OpenOf(tried(book, t, clock).orders, t, clock)) > MAX_CLAIM_TRIES
  BY DEF IndexSound
<1> DEFINE M == OpenOf(index.orders, t, clock)
<1>2. ~index.unread => M = OpenOf(Standing, t, clock)
  <2>1. \A S : OpenOf(S, t, clock) = {o \in Open(S, clock) : o.tok = t}
    BY DEF OpenOf, Open
  <2>2. ASSUME ~index.unread PROVE Open(index.orders, clock) = Open(Standing, clock)
    <3>1. clock >= clock
      BY <1>1
    <3> QED BY <1>1, <2>2, <3>1 DEF IndexRight, AlikeFrom
  <2> QED BY <2>1, <2>2
<1>3. /\ known(t, clock) = "nothing" => ~index.unread /\ M = {}
      /\ known(t, clock) = "tries" =>
           ~index.unread /\ Tries(M) + Cardinality(M) > MAX_CLAIM_TRIES
  BY KnownSays
<1> HIDE DEF M
<1>4. ASSUME known(t, clock) = "nothing", NEW o \in orders, o.tok = t, open_at(o, clock) PROVE FALSE
  <2>1. o \in OpenOf(Standing, t, clock)
    BY <1>4 DEF OpenOf, Standing, Unpaid, open_at
  <2> QED BY <1>2, <1>3, <1>4, <2>1
<1>5. ASSUME lock = Free, known(t, clock) = "tries"
      PROVE  Tries(OpenOf(tried(book, t, clock).orders, t, clock)) > MAX_CLAIM_TRIES
  <2>1. Standing = Unpaid(orders)
    <3>1. Marking = {}
      BY <1>5, FreeMarksNone DEF Marking
    <3> QED BY <3>1 DEF Standing
  <2>2. M = OpenOf(orders, t, clock)
    BY <1>2, <1>3, <1>5, <2>1 DEF OpenOf, Unpaid, open_at
  <2>3. OpenOf(tried(book, t, clock).orders, t, clock) = {[o EXCEPT !.tries = @ + 1] : o \in M}
    BY <2>2, TriedOpen
  <2>4. M \subseteq Standing /\ M \subseteq orders /\ orders \subseteq Order
    BY <2>1, <2>2 DEF OpenOf, Unpaid, open_at, OrderInv, Types
  <2>5. IsFiniteSet(M) /\ M \subseteq Order /\ \A o, p \in M : o.id = p.id => o = p
    <3>1. IsFiniteSet(Standing)
      BY DEF BookInv, Placed, CapsOf
    <3>2. IsFiniteSet(M)
      BY <2>4, <3>1, FS_Subset
    <3> QED BY <2>4, <3>2 DEF BookInv, Placed, Numbered
  <2>6. Tries({[o EXCEPT !.tries = @ + 1] : o \in M}) = Tries(M) + Cardinality(M)
    BY <2>5, OneTryMore
  <2> QED BY <1>3, <1>5, <2>3, <2>6
<1> QED BY <1>4, <1>5

\* The caps on orders open, of one token and held are kept (Orders::open, hold),
\* and the Index that known answers from turns away only what the file would
\* have (Index, tried), at every moment and with every failure and crash but
\* one: an unmark that fails leaves the order paid in the file and unpaid in
\* the index.
THEOREM BookSoundHolds ==
  ASSUME Timely, "unmark" \notin Faults
  PROVE  Spec => []BookSound
<1>1. OrderInv /\ BookInv => BookSound
  BY CapsAreKept, IndexIsSound DEF BookSound, Sure
<1>2. Spec => [](OrderInv /\ BookInv)
  BY BookInvHolds
<1> QED BY <1>1, <1>2, PTL
=============================================================================
