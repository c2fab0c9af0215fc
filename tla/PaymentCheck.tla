---------------------------- MODULE PaymentCheck ----------------------------
(* How a claim's transaction is checked: the issuer asks each of the chain's *)
(* RPCs in turn, reads what the wallet received from the balances each one   *)
(* reports, and believes what a strict majority of them agrees on.  Some of  *)
(* them may lie, any may fail to answer or be behind, and the transaction    *)
(* may become final while they are being asked.                              *)
EXTENDS Sequences, SequencesExt, Sums

CONSTANTS
  Rpcs, Liars,        \* the RPCs in the order asked; those that may say anything
  Txs,                \* what the transaction may be on the chain
  Wallet, Decimals,   \* the receiving wallet; the token's decimals
  NotYet

\* A majority of the RPCs says what it sees.
ASSUME RpcAssumption ==
  /\ Len(Rpcs) \in Nat /\ DOMAIN Rpcs = 1..Len(Rpcs)
  /\ 2 * Cardinality({i \in DOMAIN Rpcs : Rpcs[i] \in Liars}) < Len(Rpcs)

\* The balances of a transaction name each account once.
ASSUME TxAssumption ==
  \A t \in Txs : \A list \in {t.pre, t.post} :
    /\ IsFiniteSet(list) /\ \A e \in list : e.amount \in Nat
    /\ \A e, f \in list : e.index = f.index => e = f

VARIABLES
  tx,                 \* the transaction on the chain, NotYet before it is final
  verdicts,           \* what the RPCs asked so far said of it
  quorum              \* what a claim of it took them to say

checkVars == <<tx, verdicts, quorum>>

\* An answer, or what the answers come to.
Said(what) == [is |-> what, n |-> 0, at |-> 0]

CheckInit == tx = NotYet /\ verdicts = <<>> /\ quorum = Said("none")

Finalized(t) ==
  /\ tx = NotYet /\ t \in Txs /\ tx' = t
  /\ UNCHANGED <<verdicts, quorum>>

\* A payment read from the balances of the wallet's accounts before and after.
ours(list) == {e \in list : e.owner = Wallet}
total(list) == SumOf([e \in list |-> e.amount], list)
amount_at(list, i) == total({e \in list : e.index = i})
gained(t) == [e \in ours(t.post) |-> e.amount - amount_at(ours(t.pre), e.index)]

received_by(t) ==
  SumOf(gained(t), ours(t.post))
  - total({e \in ours(t.pre) : \A p \in ours(t.post) : p.index # e.index})

Paid(n, at) == [is |-> "paid", n |-> n, at |-> at]
Unreachable == Said("unreachable")

inspect_payment(t) ==
  IF t = NotYet THEN Said("not-found")
  ELSE IF t.shape # "read" THEN Said("malformed")
  ELSE IF t.err THEN Said("failed")
  ELSE IF \E e \in ours(t.pre \cup t.post) : e.decimals # Decimals THEN Said("decimals")
  ELSE IF received_by(t) <= 0 THEN Said("no-transfer")
  ELSE Paid(received_by(t), t.time)

\* What an RPC may answer: nothing readable, the chain as it is, or as it was
\* before the transaction; anything, if it lies.
Lies == {Paid(n, at) : n \in 1..3, at \in 0..1} \cup {Said("not-found"), Said("failed")}
may_say(r) ==
  {Unreachable, inspect_payment(tx), Said("not-found")} \cup (IF r \in Liars THEN Lies ELSE {})

MutNeed == Len(Rpcs) \div 2

need == Len(Rpcs) \div 2 + 1
agree(vs, v) == Cardinality({i \in DOMAIN vs : vs[i] = v})
tally(vs) ==
  LET most == {v \in ToSet(vs) : v # Unreachable /\ agree(vs, v) >= need}
  IN  IF most = {} THEN Said("undecided")
      ELSE IF \E v \in most : v.is = "paid" THEN CHOOSE v \in most : v.is = "paid"
      ELSE CHOOSE v \in most : TRUE

\* A claim asks every RPC in turn; the last answer is followed by the tally.
AskRpc ==
  LET r == Rpcs[Len(verdicts) + 1] IN
  \E v \in may_say(r) :
    /\ IF Len(verdicts) + 1 < Len(Rpcs)
       THEN verdicts' = Append(verdicts, v) /\ UNCHANGED quorum
       ELSE verdicts' = <<>> /\ quorum' = tally(Append(verdicts, v))
    /\ UNCHANGED tx

CheckNext == AskRpc \/ \E t \in Txs : Finalized(t)
CheckSpec == CheckInit /\ [][CheckNext]_checkVars
-----------------------------------------------------------------------------
\* "no single RPC -- lying or broken -- decides it": what a claim is credited
\* on is what the transaction really brought the wallet, whichever RPCs of a
\* minority lie, and whatever the others fail to say or saw too early.
ConfirmedIsReal ==
  quorum.is = "paid" =>
    LET holds(list) == total(ours(list))
    IN  /\ tx # NotYet /\ ~tx.err
        /\ quorum.n = holds(tx.post) - holds(tx.pre) /\ quorum.at = tx.time
=============================================================================
