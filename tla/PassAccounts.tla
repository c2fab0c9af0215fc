---------------------------- MODULE PassAccounts ----------------------------
(* The issuer's accounts and the machines that fetch passes with their       *)
(* tokens.  A request is charged in the accounts file, then signed, and      *)
(* given back when it could not be; the three are apart, and in between the  *)
(* account may be topped up, switched off or asked again, the day may end    *)
(* and the issuer stop.  A machine asks chunk by chunk and keeps what came   *)
(* when a later chunk fails.  Passes are counted, not told apart: the blind  *)
(* signature is taken as one.                                                *)
EXTENDS Sums

CONSTANTS
  Machines,           \* each fetches with the account's one token
  Quota,              \* passes a day of an account not prepaid
  Pack,               \* passes a purchase credits
  NodesWanted,        \* passes a fetch asks for
  MAX_PER_REQUEST,
  NoAccount, NoBalance,
  LastDay, MaxTopUps, MaxIssueFaults, MaxFetches   \* bounds

ASSUME AccountConstants ==
  /\ IsFiniteSet(Machines) /\ {Quota, Pack, NodesWanted, MAX_PER_REQUEST} \subseteq Nat
  /\ NoBalance \notin Int
  /\ NoAccount \notin [enabled : BOOLEAN, day : Int, used : Int, balance : Int \cup {NoBalance}]

VARIABLES
  account,            \* the account in the file
  day,                \* UTC days
  issue,              \* each machine's request at the issuer
  fetching,           \* each machine's fetch
  held_passes,        \* passes in each machine's wallet, as saved
  signed, received, lost, topped, onQuota,   \* history: passes signed; that
      \* reached their machine; charged and neither signed nor given back;
      \* bought; counted on a day's quota
  chargedOn,          \* history: passes counted on each day's quota
  topups, issueFaults, fetches

acctVars == <<account, day, issue, fetching, held_passes, signed, received, lost,
              topped, onQuota, chargedOn, topups, issueFaults, fetches>>
history == <<signed, received, lost, topped, onQuota, chargedOn>>
limits == <<topups, issueFaults, fetches>>

NoIssue == [pc |-> "none", n |-> 0, day |-> 0]
Idle == [pc |-> "idle", left |-> 0, got |-> 0, asked |-> 0]

AccountInit ==
  /\ account \in {NoAccount,
                  [enabled |-> TRUE, day |-> 0, used |-> 0, balance |-> NoBalance],
                  [enabled |-> TRUE, day |-> 0, used |-> 0, balance |-> 0]}
  /\ day = 1 /\ issue = [m \in Machines |-> NoIssue]
  /\ fetching = [m \in Machines |-> Idle] /\ held_passes = [m \in Machines |-> 0]
  /\ signed = 0 /\ received = [m \in Machines |-> 0] /\ lost = 0
  /\ topped = 0 /\ onQuota = 0
  /\ chargedOn = [d \in 1..LastDay |-> 0]
  /\ topups = 0 /\ issueFaults = 0 /\ fetches = 0
-----------------------------------------------------------------------------
(* The accounts.                                                             *)

prepaid(a) == a.balance # NoBalance
minus(a, b) == IF a > b THEN a - b ELSE 0

\* Another day than the one "used" counts: it counts from nothing.
rolled(a, d) ==
  IF prepaid(a) \/ a.day = d THEN a ELSE [a EXCEPT !.day = d, !.used = 0]
left_on(a) == IF prepaid(a) THEN a.balance ELSE minus(Quota, a.used)
may_charge(a, n, d) == a.enabled /\ n <= left_on(rolled(a, d))
charge(a, n, d) ==
  LET r == rolled(a, d)
  IN  IF ~a.enabled THEN a ELSE IF n > left_on(r) THEN r
      ELSE IF prepaid(r) THEN [r EXCEPT !.balance = @ - n]
      ELSE [r EXCEPT !.used = @ + n]

MutRefund(a, n, d) == IF a.day = d THEN [a EXCEPT !.used = minus(@, n)] ELSE a

\* Back to the balance if it is prepaid by now, else to the day it was
\* counted on, if that is still the one counted.
refund(a, n, d) ==
  IF prepaid(a) THEN [a EXCEPT !.balance = @ + n]
  ELSE IF a.day = d THEN [a EXCEPT !.used = minus(@, n)] ELSE a

credit(a, n) ==
  IF a = NoAccount THEN [enabled |-> TRUE, day |-> 0, used |-> 0, balance |-> n]
  ELSE [a EXCEPT !.balance = IF @ = NoBalance THEN n ELSE @ + n]

\* A claim that was paid, or an order credited by hand.
TopUp ==
  /\ topups < MaxTopUps /\ topups' = topups + 1
  /\ account' = credit(account, Pack) /\ topped' = topped + Pack
  /\ UNCHANGED <<day, issue, fetching, held_passes, signed, received, lost, onQuota,
                 chargedOn, issueFaults, fetches>>

set_enabled(on) ==
  /\ account # NoAccount /\ account.enabled # on
  /\ account' = [account EXCEPT !.enabled = on]
  /\ UNCHANGED <<day, issue, fetching, held_passes, history, limits>>
-----------------------------------------------------------------------------
(* The issuer: one request.  The day is read before the account's turn.      *)

\* Whether an answer still has someone waiting for it.
waits(m) == fetching[m].pc = "asking"

\* Refused: by its shape, its key, its account, or a file that fails.
Refuse(m) ==
  /\ issue' = [issue EXCEPT ![m] = NoIssue]
  /\ fetching' = IF waits(m) THEN [fetching EXCEPT ![m].pc = "stopped"] ELSE fetching

IssueAsk(m) ==
  /\ issue[m].pc = "asked"
  /\ \/ /\ issue' = [issue EXCEPT ![m].pc = "charge", ![m].day = day]
        /\ UNCHANGED fetching
     \/ Refuse(m)
  /\ UNCHANGED <<account, day, held_passes, history, limits>>

\* A change of the accounts file that is not saved.
NotSavedThen(step) == issueFaults < MaxIssueFaults /\ issueFaults' = issueFaults + 1 /\ step

IssueCharge(m) ==
  LET n == issue[m].n  d == issue[m].day IN
  /\ issue[m].pc = "charge"
  /\ \/ /\ ~(account # NoAccount /\ may_charge(account, n, d))
        /\ account' = IF account = NoAccount THEN account ELSE charge(account, n, d)
        /\ Refuse(m) /\ UNCHANGED <<onQuota, chargedOn, issueFaults>>
     \/ /\ account # NoAccount /\ may_charge(account, n, d)
        /\ account' = charge(account, n, d)
        /\ issue' = [issue EXCEPT ![m].pc = "sign"]
        /\ onQuota' = IF prepaid(account) THEN onQuota ELSE onQuota + n
        /\ chargedOn' = IF prepaid(account) THEN chargedOn
                        ELSE [chargedOn EXCEPT ![d] = @ + n]
        /\ UNCHANGED <<fetching, issueFaults>>
     \/ /\ NotSavedThen(Refuse(m)) /\ UNCHANGED <<account, onQuota, chargedOn>>
  /\ UNCHANGED <<day, held_passes, signed, received, lost, topped, topups, fetches>>

\* All of them, or none and the count is given back.
IssueSign(m) ==
  /\ issue[m].pc = "sign"
  /\ \/ issue' = [issue EXCEPT ![m].pc = "answer"] /\ signed' = signed + issue[m].n
     \/ issue' = [issue EXCEPT ![m].pc = "refund"] /\ UNCHANGED signed
  /\ UNCHANGED <<account, day, fetching, held_passes, received, lost, topped, onQuota,
                 chargedOn, limits>>

\* Whether it was saved is not looked at.
IssueRefund(m) ==
  LET n == issue[m].n  d == issue[m].day
      same_day == ~prepaid(account) /\ account.day = d
  IN
  /\ issue[m].pc = "refund" /\ Refuse(m)
  /\ \/ /\ account' = refund(account, n, d)
        /\ lost' = IF prepaid(account) \/ same_day THEN lost ELSE lost + n
        /\ onQuota' = IF same_day THEN onQuota - n ELSE onQuota
        /\ chargedOn' = IF same_day THEN [chargedOn EXCEPT ![d] = @ - n] ELSE chargedOn
        /\ UNCHANGED issueFaults
     \/ /\ NotSavedThen(lost' = lost + n) /\ UNCHANGED <<account, onQuota, chargedOn>>
  /\ UNCHANGED <<day, held_passes, signed, received, topped, topups, fetches>>

\* The answer arrives, or its machine is gone.
IssueAnswer(m) ==
  LET n == issue[m].n IN
  /\ issue[m].pc = "answer" /\ issue' = [issue EXCEPT ![m] = NoIssue]
  /\ IF waits(m)
     THEN /\ fetching' = [fetching EXCEPT ![m].pc = "chunk", ![m].got = @ + n,
                                          ![m].left = @ - n]
          /\ received' = [received EXCEPT ![m] = @ + n]
     ELSE UNCHANGED <<fetching, received>>
  /\ UNCHANGED <<account, day, held_passes, signed, lost, topped, onQuota, chargedOn, limits>>

InHand == {m \in Machines : issue[m].pc \in {"sign", "refund"}}
in_hand == SumOf([m \in Machines |-> issue[m].n], InHand)

\* The issuer stops: what was charged and not signed stays charged.
IssuerStops ==
  /\ issueFaults < MaxIssueFaults /\ issueFaults' = issueFaults + 1
  /\ lost' = lost + in_hand
  /\ issue' = [m \in Machines |-> NoIssue]
  /\ fetching' = [m \in Machines |-> IF waits(m) THEN [fetching[m] EXCEPT !.pc = "stopped"]
                                     ELSE fetching[m]]
  /\ UNCHANGED <<account, day, held_passes, signed, received, topped, onQuota,
                 chargedOn, topups, fetches>>

DayEnds ==
  /\ day < LastDay /\ day' = day + 1
  /\ UNCHANGED <<account, issue, fetching, held_passes, history, limits>>
-----------------------------------------------------------------------------
(* A machine: `passes get` or a top-up.                                      *)

FetchStart(m) ==
  /\ fetching[m].pc = "idle" /\ fetches < MaxFetches /\ fetches' = fetches + 1
  /\ fetching' = [fetching EXCEPT ![m].pc = "chunk", ![m].left = NodesWanted]
  /\ UNCHANGED <<account, day, issue, held_passes, history, topups, issueFaults>>

\* The next chunk is asked for, unless a top-up may not go on; past the last,
\* what came is kept.
FetchChunk(m) ==
  LET n == Min({MAX_PER_REQUEST, fetching[m].left}) IN
  /\ fetching[m].pc = "chunk"
  /\ \/ /\ n > 0 /\ issue[m].pc = "none"
        /\ fetching' = [fetching EXCEPT ![m].pc = "asking"]
        /\ issue' = [issue EXCEPT ![m] = [pc |-> "asked", n |-> n, day |-> 0]]
     \/ /\ fetching' = [fetching EXCEPT ![m].pc = "stopped"]
        /\ UNCHANGED issue
  /\ UNCHANGED <<account, day, held_passes, history, limits>>

\* No answer in time, or none that verifies.
FetchGivesUp(m) ==
  /\ waits(m) /\ fetching' = [fetching EXCEPT ![m].pc = "stopped"]
  /\ UNCHANGED <<account, day, issue, held_passes, history, limits>>

MutFetched(f) == f.left = 0

\* Only a failure before any pass is an error.
Fetched(f) == f.got > 0

FetchDone(m) ==
  /\ fetching[m].pc = "stopped" /\ fetching' = [fetching EXCEPT ![m] = Idle]
  /\ held_passes' = [held_passes EXCEPT ![m] =
                       IF Fetched(fetching[m]) THEN @ + fetching[m].got ELSE @]
  /\ UNCHANGED <<account, day, issue, history, limits>>

AccountNext ==
  \/ TopUp \/ DayEnds \/ IssuerStops \/ \E on \in BOOLEAN : set_enabled(on)
  \/ \E m \in Machines :
       \/ IssueAsk(m) \/ IssueCharge(m) \/ IssueSign(m) \/ IssueRefund(m) \/ IssueAnswer(m)
       \/ FetchStart(m) \/ FetchChunk(m) \/ FetchGivesUp(m) \/ FetchDone(m)

AccountSpec == AccountInit /\ [][AccountNext]_acctVars
-----------------------------------------------------------------------------
\* No pass is made of nothing and none vanishes unseen: what the account has
\* left, what is being signed, what was signed and what a stop or a failed
\* write cost add up to what was bought and what was counted on its quotas,
\* through charges and refunds on either side of a purchase or of midnight.
BalanceExact ==
  LET left == IF account # NoAccount /\ prepaid(account) THEN account.balance ELSE 0
  IN  left + in_hand + signed + lost
      = topped + onQuota

\* Every pass that reached its machine is in its wallet once the fetch is
\* over, whatever stopped it.
PaidPassesKept ==
  \A m \in Machines : received[m] = held_passes[m] + fetching[m].got

\* "an account gets its quota a day and not one more"
QuotaKept == \A d \in 1..LastDay : chargedOn[d] <= Quota

\* What an account paid for is signed once and reaches a wallet.
AccountExact == BalanceExact /\ PaidPassesKept
-----------------------------------------------------------------------------
\* What it rests on: a request in hand was charged to an account, which stays.
AnyAccount == [enabled : BOOLEAN, day : Int, used : Int, balance : Int \cup {NoBalance}]
AccountsTyped ==
  /\ account \in AnyAccount \cup {NoAccount} /\ day \in Int
  /\ issue \in [Machines -> [pc : {"none", "asked", "charge", "sign", "refund", "answer"}, n : Nat, day : Int]]
  /\ fetching \in [Machines -> [pc : {"idle", "chunk", "asking", "stopped"}, left : Int, got : Nat, asked : {0}]]
  /\ held_passes \in [Machines -> Nat] /\ received \in [Machines -> Nat]
  /\ signed \in Int /\ lost \in Int /\ topped \in Int /\ onQuota \in Int
AccountInv ==
  /\ AccountsTyped /\ BalanceExact /\ PaidPassesKept
  /\ \A m \in Machines : issue[m].pc \in {"sign", "refund"} => account # NoAccount
=============================================================================
