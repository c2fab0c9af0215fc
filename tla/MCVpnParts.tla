----------------------------- MODULE MCVpnParts -----------------------------
(* The parts of HidraVPN beside the node's admission, the order book and the *)
(* daemon. They share no state: each behaviour is of the one part `which`    *)
(* names, and the others stay as they began.                                 *)
EXTENDS NodePocket, ControlChannel, PassOrders, PassAccounts, SessionLimiter,
        Sales, Host, UserspaceWg

CONSTANTS Parts, k1, k2
VARIABLE which
-----------------------------------------------------------------------------
(* NodePocket: two nodes whose names and roles change between lists, one of  *)
(* them withdrawn by the last.                                               *)
Rec(k, n, role, adm, f) == [key |-> k, name |-> n, role |-> role, admission |-> adm, facts |-> f]
MCLists == {
  [sequence |-> 1, removed |-> {}, current |-> TRUE,
   nodes |-> <<Rec(k1, "a", "exit", "pass", 1), Rec(k2, "b", "none", "open", 1)>>],
  [sequence |-> 2, removed |-> {}, current |-> TRUE,
   nodes |-> <<Rec(k1, "b", "entry", "pass", 2), Rec(k2, "a", "both", "pass", 2)>>],
  [sequence |-> 3, removed |-> {k1}, current |-> TRUE,
   nodes |-> <<Rec(k2, "b", "exit", "pass", 3)>>]}
MCHand == {Rec(k1, "a", "both", "manual", 0), Rec(k2, "b", "exit", "manual", 0)}

(* PassSales: feeds that agree, drift, jump, name another token or are down.  *)
Pool(m, p, l) == [mint |-> m, price |-> p, liquidity |-> l]
MCFeeds == {<<>>, <<Pool("hnet", 10, 1), Pool("hnet", 20, 0)>>, <<Pool("hnet", 12, 1)>>,
            <<Pool("other", 10, 5), Pool("hnet", 20, 1)>>}

(* PaymentCheck: a payment into an account that was there, one that moved an  *)
(* account to another index, a failed one, one of another shape or scale.     *)
Bal(i, o, a) == [index |-> i, owner |-> o, amount |-> a, decimals |-> 6]
MCTxs == {[shape |-> "read", err |-> FALSE, time |-> 1, pre |-> {Bal(1, "w", 1)}, post |-> {Bal(1, "w", 3)}],
          [shape |-> "read", err |-> FALSE, time |-> 1, pre |-> {Bal(1, "w", 1), Bal(3, "o", 3)},
           post |-> {Bal(2, "w", 3)}],
          [shape |-> "read", err |-> TRUE, time |-> 1, pre |-> {}, post |-> {Bal(1, "w", 2)}],
          [shape |-> "other", err |-> FALSE, time |-> 0, pre |-> {}, post |-> {}],
          [shape |-> "read", err |-> FALSE, time |-> 1, pre |-> {},
           post |-> {[Bal(1, "w", 2) EXCEPT !.decimals = 9]}]}
MCRpcs == <<"r1", "r2", "r3">>

(* KillSwitch: an entry on the DNS port, one of IPv6, an exit behind.         *)
MCNodes == {Endpoint("node", 4, 53), Endpoint("node2", 6, 51820)}
MCExit == Endpoint("exit", 4, 51820)
MCAdm == {Endpoint("node", 4, 443)}
MCExitAdm == Endpoint("exit", 4, 443)
-----------------------------------------------------------------------------
OrdersParts == {"commands", "service token", "token race"}
Init ==
  /\ which \in Parts
  /\ PocketInit /\ ChanInit /\ OrdersInit /\ AccountInit /\ LimInit
  /\ SalesInit /\ CheckInit /\ KsInit /\ NetInit /\ WgInit
  \* The parts that begin in several states begin in one of them elsewhere.
  /\ which # "kill switch" => os = "linux"
  /\ which # "net plan" => platform = "file" /\ target = CHOOSE n \in PlanNodes : TRUE
  /\ which \notin OrdersParts => pass_token = NoToken /\ list_wallet = CHOOSE w \in Wallets : TRUE
  /\ which # "accounts" => account = NoAccount

Others(part) ==
  /\ UNCHANGED which
  /\ part # "pocket" => UNCHANGED pocketVars
  /\ part # "channel" => UNCHANGED chanVars
  /\ part # "orders" => UNCHANGED orderVars
  /\ part # "accounts" => UNCHANGED acctVars
  /\ part # "limiter" => UNCHANGED limVars
  /\ part # "sales" => UNCHANGED salesVars
  /\ part # "check" => UNCHANGED checkVars
  /\ part # "kill switch" => UNCHANGED ksVars
  /\ part # "net plan" => UNCHANGED netVars
  /\ part # "userspace" => UNCHANGED wgVars

\* "commands": the service sets no token. "service token": it sets one, with a
\* command fewer, in turn with the commands. It takes no lock: what comes of
\* the race is the run of "token race".
Undisturbed == shell'[CHOOSE s \in Shells : TRUE] = Rest /\ InTurn

PocketStep == which = "pocket" /\ PocketNext /\ Others("pocket")
ChannelStep == which = "channel" /\ ChanNext /\ Others("channel")
OrdersStep ==
  /\ which \in OrdersParts /\ OrdersNext /\ Others("orders")
  /\ which = "commands" => UNCHANGED setting
  /\ which = "service token" => Undisturbed
AccountsStep == which = "accounts" /\ AccountNext /\ Others("accounts")
LimiterStep == which = "limiter" /\ LimNext /\ Others("limiter")
\* The feeds are watched with the clock still, the quotes with one rate fetched.
RatesStep == which = "rates" /\ RateNext /\ ticks' <= 1 /\ Others("sales")
QuotesStep == which = "quotes" /\ SalesNext /\ Len(said') <= 1 /\ Others("sales")
CheckStep == which = "check" /\ CheckNext /\ Others("check")
KillSwitchStep == which = "kill switch" /\ KsNext /\ Others("kill switch")
NetPlanStep == which = "net plan" /\ NetNext /\ Others("net plan")
UserspaceStep == which = "userspace" /\ WgNext /\ Others("userspace")

Next ==
  \/ PocketStep \/ ChannelStep \/ OrdersStep \/ AccountsStep \/ LimiterStep \/ RatesStep
  \/ QuotesStep \/ CheckStep \/ KillSwitchStep \/ NetPlanStep \/ UserspaceStep

vars == <<which, pocketVars, chanVars, orderVars, acctVars, limVars, salesVars,
          checkVars, ksVars, netVars, wgVars>>
Spec == Init /\ [][Next]_vars
=============================================================================
