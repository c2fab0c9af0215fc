----------------------------- MODULE PassOrders -----------------------------
(* Buying passes on the client: the account token and the ones it replaced,  *)
(* the open order, `passes buy`, `claim` and `token`.  The token may be the  *)
(* only copy of what a payment bought: the issuer keeps its hash.  The       *)
(* command line holds the lock beside the pocket for the whole command and   *)
(* may be killed at any step; the service keeps a token it is given with no  *)
(* lock.                                                                     *)
EXTENDS Naturals, FiniteSets

CONSTANTS
  AccountTokens,
  Typed,              \* the ones a person has from elsewhere; the rest are made here
  Wallets,            \* where the signed list may say to pay
  Shells,             \* commands of the command line
  SvcSets,            \* tokens the service is given to keep
  NoToken, NoOrder, Nobody,
  MaxOrders, MaxLists \* bounds

ASSUME OrdersConstants ==
  Typed \cup SvcSets \subseteq AccountTokens /\ NoToken \notin AccountTokens /\ Nobody \notin Shells

VARIABLES
  pass_token,         \* pass.token
  previous,           \* the ones kept beside it, by name
  order_file,         \* order.json
  list_wallet,        \* the wallet the pocket's list names
  file_lock,          \* who holds the lock beside the pocket
  shell,              \* each command
  setting,            \* the service's keep_token: its step and what it read
  issued_orders,      \* orders the issuer has opened: [token, amount, paid, credited]
  lists_seen

orderVars == <<pass_token, previous, order_file, list_wallet, file_lock, shell,
               setting, issued_orders, lists_seen>>

Names == 0..Cardinality(AccountTokens)
Amounts == 1..MaxOrders
KeptTokens == {previous[n] : n \in Names} \ {NoToken}
Rest == [pc |-> "start", token |-> NoToken, old |-> NoToken, order |-> NoOrder,
         amount |-> 0]

OrdersInit ==
  /\ pass_token \in Typed \cup {NoToken}
  /\ previous = [n \in Names |-> NoToken] /\ order_file = NoOrder
  /\ list_wallet \in Wallets /\ file_lock = Nobody
  /\ shell = [s \in Shells |-> Rest] /\ setting = [t \in SvcSets |-> Rest]
  /\ issued_orders = {} /\ lists_seen = 1
-----------------------------------------------------------------------------
(* keep_token: the old one is read, kept under a free name, written over.    *)

ReadOld(p, t) ==
  [p EXCEPT !.pc = "keep", !.token = t, !.old = pass_token]

MutFreeName == {0}

\* The first name no kept token has.
free_name == {n \in Names : previous[n] = NoToken /\ \A i \in 0..n - 1 : previous[i] # NoToken}

keeps(p) ==
  IF p.old \in {NoToken, p.token} \cup KeptTokens THEN previous' = previous
  ELSE \E n \in free_name : previous' = [previous EXCEPT ![n] = p.old]

Free(s) == file_lock' = IF file_lock = s THEN Nobody ELSE file_lock
Over(s, p) == shell' = [shell EXCEPT ![s] = [p EXCEPT !.pc = "over"]] /\ Free(s)

TokenStart(s, t) ==
  /\ shell[s].pc = "start" /\ file_lock = Nobody /\ file_lock' = s
  /\ shell' = [shell EXCEPT ![s] = ReadOld(@, t)]
  /\ UNCHANGED <<pass_token, previous, order_file, list_wallet, setting, issued_orders,
                 lists_seen>>

TokenKeep(s) ==
  /\ shell[s].pc = "keep" /\ keeps(shell[s])
  /\ shell' = [shell EXCEPT ![s].pc = "write"]
  /\ UNCHANGED <<pass_token, order_file, list_wallet, file_lock, setting, issued_orders,
                 lists_seen>>

TokenWrite(s) ==
  /\ shell[s].pc = "write" /\ pass_token' = shell[s].token /\ Over(s, shell[s])
  /\ UNCHANGED <<previous, order_file, list_wallet, setting, issued_orders, lists_seen>>

\* The service's: the same three steps, under no lock.
SvcToken(t) ==
  /\ \/ /\ setting[t].pc = "start"
        /\ setting' = [setting EXCEPT ![t] = ReadOld(@, t)]
        /\ UNCHANGED <<pass_token, previous>>
     \/ /\ setting[t].pc = "keep" /\ keeps(setting[t])
        /\ setting' = [setting EXCEPT ![t].pc = "write"] /\ UNCHANGED pass_token
     \/ /\ setting[t].pc = "write" /\ pass_token' = t
        /\ setting' = [setting EXCEPT ![t].pc = "over"] /\ UNCHANGED previous
  /\ UNCHANGED <<order_file, list_wallet, file_lock, shell, issued_orders, lists_seen>>
-----------------------------------------------------------------------------
(* buy.                                                                      *)

\* An open order is in the way, unless it is to be replaced.
BuyStart(s, replace) ==
  /\ shell[s].pc = "start" /\ file_lock = Nobody
  /\ order_file = NoOrder \/ replace
  /\ file_lock' = s /\ shell' = [shell EXCEPT ![s].pc = "buy"]
  /\ UNCHANGED <<pass_token, previous, order_file, list_wallet, setting, issued_orders,
                 lists_seen>>

Made == AccountTokens \ Typed
Unused == {t \in Made : t # pass_token /\ t \notin KeptTokens
                        /\ \A o \in issued_orders : o.token # t
                        /\ \A s \in Shells : shell[s].token # t}

MutTokenForPurchase(s) ==
  /\ shell[s].pc = "buy"
  /\ \E t \in Unused \cup {pass_token} :
       /\ pass_token # NoToken => t = pass_token
       /\ t # NoToken /\ UNCHANGED pass_token
       /\ shell' = [shell EXCEPT ![s].pc = "quote", ![s].token = t]
  /\ UNCHANGED <<previous, order_file, list_wallet, file_lock, setting, issued_orders,
                 lists_seen>>

\* The token kept, or one made and kept before anything is asked.
token_for_purchase(s) ==
  /\ shell[s].pc = "buy"
  /\ \/ /\ pass_token # NoToken
        /\ shell' = [shell EXCEPT ![s].pc = "quote", ![s].token = pass_token]
        /\ UNCHANGED pass_token
     \/ /\ pass_token = NoToken
        /\ \E t \in Unused : /\ pass_token' = t
                             /\ shell' = [shell EXCEPT ![s].pc = "quote", ![s].token = t]
  /\ UNCHANGED <<previous, order_file, list_wallet, file_lock, setting, issued_orders,
                 lists_seen>>

\* Where to pay is the list's, or the answer is refused; the order keeps it.
check_answer(wallet) == wallet = list_wallet
Order(t, a, w) == [token |-> t, amount |-> a, wallet |-> w]

\* The issuer opens an order; its answer is lost, refused or taken.
Quote(s, wallet) ==
  LET a == Cardinality(issued_orders) + 1 IN
  /\ shell[s].pc = "quote" /\ a \in Amounts
  /\ issued_orders' = issued_orders \cup
       {[token |-> shell[s].token, amount |-> a, paid |-> FALSE, credited |-> FALSE]}
  /\ \/ /\ check_answer(wallet)
        /\ shell' = [shell EXCEPT ![s].pc = "order",
                                  ![s].order = Order(shell[s].token, a, list_wallet)]
        /\ UNCHANGED file_lock
     \/ Over(s, shell[s])
  /\ UNCHANGED <<pass_token, previous, order_file, list_wallet, setting, lists_seen>>

KeepOrder(s) ==
  /\ shell[s].pc = "order" /\ order_file' = shell[s].order /\ Over(s, shell[s])
  /\ UNCHANGED <<pass_token, previous, list_wallet, setting, issued_orders, lists_seen>>
-----------------------------------------------------------------------------
(* claim.                                                                    *)

\* An order the list no longer stands behind is not to be paid, nor claimed.
check_order(o) == o.wallet = list_wallet

ClaimStart(s, a) ==
  /\ shell[s].pc = "start" /\ file_lock = Nobody
  /\ order_file # NoOrder /\ check_order(order_file) /\ pass_token # NoToken
  /\ file_lock' = s
  /\ shell' = [shell EXCEPT ![s].pc = "claim", ![s].token = pass_token,
                            ![s].order = order_file, ![s].amount = a]
  /\ UNCHANGED <<pass_token, previous, order_file, list_wallet, setting, issued_orders,
                 lists_seen>>

paid_by(o, t, a) == o.token = t /\ o.amount = a /\ o.paid

\* The issuer credits the order of this token that the transaction paid, or
\* has credited it before, or has none; the answer may be lost.
SendClaim(s) ==
  LET p == shell[s]
      mine == {o \in issued_orders : paid_by(o, p.token, p.amount)}
  IN
  /\ p.pc = "claim"
  /\ issued_orders' = {IF o \in mine THEN [o EXCEPT !.credited = TRUE] ELSE o :
                         o \in issued_orders}
  /\ \/ /\ mine # {} /\ p.amount = p.order.amount
        /\ shell' = [shell EXCEPT ![s].pc = "remove"] /\ UNCHANGED file_lock
     \/ Over(s, p)
  /\ UNCHANGED <<pass_token, previous, order_file, list_wallet, setting, lists_seen>>

RemoveOrder(s) ==
  /\ shell[s].pc = "remove" /\ order_file' = NoOrder /\ Over(s, shell[s])
  /\ UNCHANGED <<pass_token, previous, list_wallet, setting, issued_orders, lists_seen>>
-----------------------------------------------------------------------------
\* The command is killed: the lock goes with it.
Killed(s) ==
  /\ shell[s].pc \notin {"start", "over"} /\ Over(s, shell[s])
  /\ UNCHANGED <<pass_token, previous, order_file, list_wallet, setting, issued_orders,
                 lists_seen>>

\* The person pays what an order said, while it was open or after.
PayAmount(o) ==
  /\ o \in issued_orders /\ ~o.paid
  /\ order_file # NoOrder /\ order_file.amount = o.amount /\ check_order(order_file)
  /\ issued_orders' = (issued_orders \ {o}) \cup {[o EXCEPT !.paid = TRUE]}
  /\ UNCHANGED <<pass_token, previous, order_file, list_wallet, file_lock, shell, setting,
                 lists_seen>>

ImportList(w) ==
  /\ file_lock = Nobody /\ lists_seen < MaxLists /\ w # list_wallet
  /\ lists_seen' = lists_seen + 1 /\ list_wallet' = w
  /\ UNCHANGED <<pass_token, previous, order_file, file_lock, shell, setting, issued_orders>>

OrdersNext ==
  \/ \E s \in Shells :
       \/ \E t \in Typed : TokenStart(s, t)
       \/ \E r \in BOOLEAN : BuyStart(s, r)
       \/ \E a \in Amounts : ClaimStart(s, a)
       \/ \E w \in Wallets : Quote(s, w)
       \/ TokenKeep(s) \/ TokenWrite(s) \/ token_for_purchase(s) \/ KeepOrder(s)
       \/ SendClaim(s) \/ RemoveOrder(s) \/ Killed(s)
  \/ \E t \in SvcSets : SvcToken(t)
  \/ \E o \in issued_orders : PayAmount(o)
  \/ \E w \in Wallets : ImportList(w)

\* The service's steps between the commands, and no command between them. It
\* takes no lock, so nothing in the code sees to it.
InTurn ==
  /\ setting' # setting => /\ file_lock = Nobody
                           /\ \A t \in SvcSets : setting'[t] # setting[t] \/ setting[t].pc \in {"start", "over"}
  /\ shell' # shell => \A t \in SvcSets : setting[t].pc \in {"start", "over"}

OrdersInTurn == OrdersInit /\ [][OrdersNext /\ InTurn]_orderVars
-----------------------------------------------------------------------------
\* What was paid can be had: the token of every order that was paid is still
\* on this machine, as the account token or kept beside it, whatever was
\* killed or replaced since.
PaidTokenKept ==
  \A o \in issued_orders : o.paid => o.token \in KeptTokens \cup {pass_token}
-----------------------------------------------------------------------------
\* What it rests on: whoever is about to write a token over the one there has
\* read that one and kept it, and every order is of a token that is there.
Tok == AccountTokens \cup {NoToken}
AnyOrder == [token : Tok, amount : Amounts, wallet : Wallets] \cup {NoOrder}
Process == [pc : {"start", "over", "keep", "write", "buy", "quote", "order", "claim", "remove"},
            token : Tok, old : Tok, order : AnyOrder, amount : {0} \cup Amounts]
OrdersTyped ==
  /\ pass_token \in Tok /\ previous \in [Names -> Tok] /\ order_file \in AnyOrder /\ list_wallet \in Wallets
  /\ shell \in [Shells -> Process] /\ setting \in [SvcSets -> Process] /\ file_lock \in Shells \cup {Nobody}
  /\ issued_orders \subseteq [token : AccountTokens, amount : Amounts, paid : BOOLEAN, credited : BOOLEAN]
Midway(p) == p.pc \in {"keep", "write"}
OldIsKept(p) ==
  /\ Midway(p) => p.old = pass_token
  /\ p.pc = "write" => p.old \in {NoToken, p.token} \cup KeptTokens
Alone ==
  /\ \A s \in Shells : shell[s].pc \notin {"start", "over"} => file_lock = s
  /\ \A t \in SvcSets : Midway(setting[t]) => setting[t].token = t /\ file_lock = Nobody
  /\ \A t, u \in SvcSets : Midway(setting[t]) /\ Midway(setting[u]) => t = u
ReadsAreFresh ==
  /\ \A s \in Shells : OldIsKept(shell[s]) /\ (shell[s].pc = "quote" => shell[s].token = pass_token /\ pass_token # NoToken)
  /\ \A t \in SvcSets : OldIsKept(setting[t]) /\ setting[t].pc \in {"start", "keep", "write", "over"}
TokensKept == \A o \in issued_orders : o.token \in KeptTokens \cup {pass_token}
OrdersInv == OrdersTyped /\ Alone /\ ReadsAreFresh /\ TokensKept
=============================================================================
