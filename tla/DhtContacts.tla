---------------------------- MODULE DhtContacts ----------------------------
(* Whom a DHT node keeps in its routing table, and how they get there: the   *)
(* ping-back of whoever wrote to it, the pings of the bootstrap and of the   *)
(* maintenance, the answers to its own lookups; nodes that move, go silent,  *)
(* answer from elsewhere, or whose packets arrive from another address.      *)
EXTENDS Naturals, FiniteSets

CONSTANTS DhtIds, Us,      \* node IDs, this node's own among them
          Addrs,           \* addresses a packet may come from
          Prefix, Ip,      \* an address's network (NoPrefix: not a public one) and its host
          Bucket,          \* the bucket of an ID, by its distance from Us
          NoPrefix, Nobody,
          K, MAX_PER_PREFIX_IN_BUCKET, MAX_PER_PREFIX_IN_TABLE,
          MAX_PINGBACKS, PINGBACKS_PER_NETWORK, MAX_BACKOFF_ENTRIES,
          MaxMoves         \* bound of the runs: nodes changing address

ASSUME ContactsConstants ==
    Us \in DhtIds /\ {MAX_PINGBACKS, MAX_PER_PREFIX_IN_BUCKET, MAX_PER_PREFIX_IN_TABLE} \subseteq Nat

VARIABLES seats,       \* RoutingTable: ID -> address and whether it is past STALE_TIMEOUT
          at,          \* who is at an address
          asks,        \* requests out whose answer this node waits for
          in_flight, per_budget, per_host, failed,   \* Checks
          permits,     \* the ping-back semaphore
          chores,      \* stale nodes the maintenance has still to ping
          met,         \* <<node, address>> pairs at which the node answered
          moves

ctVars == <<seats, at, asks, in_flight, per_budget, per_host, failed, permits, chores, met, moves>>
checkVars == <<in_flight, per_budget, per_host, failed, permits>>

Ask == [kind : {"check", "meet", "walk", "stale"}, id : DhtIds, to : Addrs]
check_budget(a) == IF Prefix[a] # NoPrefix THEN <<"network", Prefix[a]>> ELSE <<"address", a>>
check_host(a) == IF Prefix[a] # NoPrefix THEN <<"ip", Ip[a]>> ELSE <<"address", a>>
Budgets == {check_budget(a) : a \in Addrs}
Hosts == {check_host(a) : a \in Addrs}

CtInit ==
    /\ seats = <<>> /\ asks = {} /\ chores = {} /\ met = {} /\ moves = 0
    /\ at \in [Addrs -> (DhtIds \ {Us}) \cup {Nobody}]
    /\ \A a, b \in Addrs : at[a] = at[b] => a = b \/ at[a] = Nobody
    /\ in_flight = {} /\ per_budget = [b \in Budgets |-> 0] /\ per_host = {} /\ failed = {}
    /\ permits = MAX_PINGBACKS

----------------------------------------------------------------------------
(* RoutingTable::update: a network has its share of a bucket and of the table, *)
(* a seated node keeps its address, a full bucket takes nobody.                *)
count_prefix(id, a) == {n \in DOMAIN seats \ {id} : Prefix[seats[n].addr] = Prefix[a]}
TooManyFromPrefix(id, a) ==
    /\ Prefix[a] # NoPrefix
    /\ \/ Cardinality({n \in count_prefix(id, a) : Bucket[n] = Bucket[id]}) >= MAX_PER_PREFIX_IN_BUCKET
       \/ Cardinality(count_prefix(id, a)) >= MAX_PER_PREFIX_IN_TABLE
is_full(b) == Cardinality({n \in DOMAIN seats : Bucket[n] = b}) >= K

seated(id, a) == [n \in DOMAIN seats \cup {id} |-> IF n = id THEN [addr |-> a, old |-> FALSE] ELSE seats[n]]
update_or_insert(id, a) ==
    IF id \in DOMAIN seats
    THEN IF seats[id].addr # a THEN seats ELSE [seats EXCEPT ![id].old = FALSE]
    ELSE IF is_full(Bucket[id]) THEN seats ELSE seated(id, a)

update(id, a) == IF id = Us \/ TooManyFromPrefix(id, a) THEN seats ELSE update_or_insert(id, a)

unseat(id) == [n \in DOMAIN seats \ {id} |-> seats[n]]

----------------------------------------------------------------------------
(* consider_contact: a request came from `a`, signed by `id`. One check per  *)
(* host, a few per network, none of a host that was silent a moment ago.     *)
may_check(id, a) ==
    /\ id # Us /\ id \notin DOMAIN seats
    /\ check_host(a) \notin failed
    /\ per_budget[check_budget(a)] < PINGBACKS_PER_NETWORK
    /\ check_host(a) \notin per_host
    /\ <<id, a>> \notin in_flight

take_check(id, a) ==
    /\ in_flight' = in_flight \cup {<<id, a>>}
    /\ per_host' = per_host \cup {check_host(a)}
    /\ per_budget' = [per_budget EXCEPT ![check_budget(a)] = @ + 1]

(* A bug: only a check that seated its contact gives its place back. *)
MutRelease(id, a, silent) ==
    /\ in_flight' = in_flight \ {<<id, a>>}
    /\ per_host' = per_host \ {check_host(a)}
    /\ per_budget' = IF silent THEN per_budget ELSE [per_budget EXCEPT ![check_budget(a)] = @ - 1]
    /\ failed' = IF silent /\ Cardinality(failed) < MAX_BACKOFF_ENTRIES
                 THEN failed \cup {check_host(a)} ELSE failed

(* release: the place goes back; a silent host is remembered while there is room. *)
release(id, a, silent) ==
    /\ in_flight' = in_flight \ {<<id, a>>}
    /\ per_host' = per_host \ {check_host(a)}
    /\ per_budget' = [per_budget EXCEPT ![check_budget(a)] = @ - 1]
    /\ failed' = IF silent /\ Cardinality(failed) < MAX_BACKOFF_ENTRIES
                 THEN failed \cup {check_host(a)} ELSE failed

(* process_packet, a request: with no permit left the place taken is given back at once. *)
Packet(id, a) ==
    /\ may_check(id, a)
    /\ IF permits > 0
       THEN /\ take_check(id, a) /\ permits' = permits - 1
            /\ asks' = asks \cup {[kind |-> "check", id |-> id, to |-> a]} /\ UNCHANGED failed
       ELSE UNCHANGED <<in_flight, per_host, per_budget, permits, failed, asks>>
    /\ UNCHANGED <<seats, at, chores, met, moves>>

(* check_contact: the node that wrote must be the one that answers. *)
CheckAnswered(r) ==
    /\ r.kind = "check" /\ at[r.to] # Nobody
    /\ seats' = IF at[r.to] = r.id THEN update(r.id, r.to) ELSE seats
    /\ met' = met \cup {<<at[r.to], r.to>>}
    /\ release(r.id, r.to, FALSE) /\ permits' = permits + 1
    /\ asks' = asks \ {r} /\ UNCHANGED <<at, chores, moves>>

(* The answer came from another address. *)
CheckElsewhere(r) ==
    /\ r.kind = "check" /\ at[r.to] # Nobody
    /\ release(r.id, r.to, FALSE) /\ permits' = permits + 1
    /\ asks' = asks \ {r} /\ UNCHANGED <<seats, at, chores, met, moves>>

(* request_timeout ran out: nobody there, or the packet or its answer was lost. *)
CheckSilent(r) ==
    /\ r.kind = "check"
    /\ release(r.id, r.to, TRUE) /\ permits' = permits + 1
    /\ asks' = asks \ {r} /\ UNCHANGED <<seats, at, chores, met, moves>>

----------------------------------------------------------------------------
(* bootstrap: one address after another is pinged, and whoever answers is seated. *)
Bootstrap(a) ==
    /\ \A r \in asks : r.kind # "meet"
    /\ asks' = asks \cup {[kind |-> "meet", id |-> Us, to |-> a]}
    /\ UNCHANGED <<seats, at, chores, met, moves, checkVars>>

(* ping_and_seat answered, for the bootstrap or the maintenance. *)
PingAnswered(r) ==
    /\ r.kind \in {"meet", "stale"} /\ at[r.to] # Nobody
    /\ seats' = update(at[r.to], r.to) /\ met' = met \cup {<<at[r.to], r.to>>}
    /\ asks' = asks \ {r}
    /\ chores' = IF r.kind = "stale" THEN chores \ {r.id} ELSE chores
    /\ UNCHANGED <<at, moves, checkVars>>

(* It failed: silence, or an answer from another address. A stale node goes. *)
PingFailed(r) ==
    /\ r.kind \in {"meet", "stale"}
    /\ seats' = IF r.kind = "stale" THEN unseat(r.id) ELSE seats
    /\ chores' = IF r.kind = "stale" THEN chores \ {r.id} ELSE chores
    /\ asks' = asks \ {r} /\ UNCHANGED <<at, met, moves, checkVars>>

(* A lookup asks a node at the address its table, or another node's answer, gave. *)
WalkAsk(id, a) ==
    /\ id # Us /\ \A r \in asks : r.kind # "walk"
    /\ asks' = asks \cup {[kind |-> "walk", id |-> id, to |-> a]}
    /\ UNCHANGED <<seats, at, chores, met, moves, checkVars>>

(* request_from: only an answer from that address, by that node, counts. *)
request_from(r) == IF at[r.to] = r.id THEN update(r.id, r.to) ELSE seats

WalkAnswered(r) ==
    /\ r.kind = "walk" /\ at[r.to] # Nobody
    /\ seats' = request_from(r) /\ met' = met \cup {<<at[r.to], r.to>>}
    /\ asks' = asks \ {r} /\ UNCHANGED <<at, chores, moves, checkVars>>

WalkFailed(r) ==
    /\ r.kind = "walk"
    /\ asks' = asks \ {r} /\ UNCHANGED <<seats, at, chores, met, moves, checkVars>>

----------------------------------------------------------------------------
(* run_maintenance: the stale nodes are listed, then looked up again and pinged one by one. *)
stale_nodes == {n \in DOMAIN seats : seats[n].old}
Maintain ==
    /\ chores = {} /\ chores' = stale_nodes /\ chores' # {}
    /\ UNCHANGED <<seats, at, asks, met, moves, checkVars>>

MaintainOne(id) ==
    /\ id \in chores /\ \A r \in asks : r.kind # "stale"
    /\ IF id \in DOMAIN seats
       THEN asks' = asks \cup {[kind |-> "stale", id |-> id, to |-> seats[id].addr]} /\ UNCHANGED chores
       ELSE chores' = chores \ {id} /\ UNCHANGED asks
    /\ UNCHANGED <<seats, at, met, moves, checkVars>>

(* Ten minutes without an answer: every seat is stale, every back-off is over. *)
TimePasses ==
    /\ seats' = [n \in DOMAIN seats |-> [seats[n] EXCEPT !.old = TRUE]]
    /\ failed' = {}
    /\ UNCHANGED <<at, asks, in_flight, per_budget, per_host, permits, chores, met, moves>>

(* A node leaves its address, for another or for good; another may come to it. *)
Move(a, id) ==
    /\ moves < MaxMoves /\ moves' = moves + 1
    /\ at' = [b \in Addrs |-> IF b = a THEN id ELSE IF id # Nobody /\ at[b] = id THEN Nobody ELSE at[b]]
    /\ UNCHANGED <<seats, asks, chores, met, checkVars>>

CtNext ==
    \/ \E id \in DhtIds \ {Us}, a \in Addrs : Packet(id, a) \/ WalkAsk(id, a)
    \/ \E r \in asks : CheckAnswered(r) \/ CheckElsewhere(r) \/ CheckSilent(r) \/ PingAnswered(r) \/ PingFailed(r)
                       \/ WalkAnswered(r) \/ WalkFailed(r)
    \/ \E a \in Addrs : Bootstrap(a)
    \/ Maintain \/ (\E id \in DhtIds : MaintainOne(id)) \/ TimePasses
    \/ \E a \in Addrs, id \in (DhtIds \ {Us}) \cup {Nobody} : Move(a, id)

CtSpec == CtInit /\ [][CtNext]_ctVars

----------------------------------------------------------------------------
(* A node sits at an address only if it answered there itself: not because   *)
(* its packet came from there, nor because another node said so              *)
(* (consider_contact, check_contact, request_from).                          *)
SeatEarned == \A n \in DOMAIN seats : <<n, seats[n].addr>> \in met

being_checked == {r \in asks : r.kind = "check"}
(* What the checks hold is what is being checked: no place of a host, of a   *)
(* network or of the semaphore is lost or given back twice, whatever answer  *)
(* a check gets (consider_contact's take and release).                       *)
ChecksBalanced ==
    /\ in_flight = {<<r.id, r.to>> : r \in being_checked}
    /\ per_host = {check_host(r.to) : r \in being_checked}
    /\ \A b \in Budgets : per_budget[b] = Cardinality({r \in being_checked : check_budget(r.to) = b})
    /\ permits = MAX_PINGBACKS - Cardinality(being_checked)

seated_from(a) == {n \in DOMAIN seats : Prefix[seats[n].addr] = Prefix[a]}
(* No network has more than its share of the table (update). *)
NetworkShare ==
    \A a \in Addrs : Prefix[a] # NoPrefix =>
        /\ Cardinality(seated_from(a)) <= MAX_PER_PREFIX_IN_TABLE
        /\ \A n \in seated_from(a) : Cardinality({m \in seated_from(a) : Bucket[m] = Bucket[n]}) <= MAX_PER_PREFIX_IN_BUCKET

(* The table and the checks together: every seat was earned at its address,  *)
(* no network has more than its share, and no check's place is ever lost.    *)
ContactsSound == SeatEarned /\ NetworkShare /\ ChecksBalanced

----------------------------------------------------------------------------
(* What it rests on: finitely many seats and requests, each of an address,   *)
(* and one check of a host at a time.                                        *)
ContactsTyped ==
    /\ IsFiniteSet(DOMAIN seats) /\ (\A n \in DOMAIN seats : seats[n] \in [addr : Addrs, old : BOOLEAN])
    /\ IsFiniteSet(asks) /\ asks \subseteq Ask
    /\ at \in [Addrs -> (DhtIds \ {Us}) \cup {Nobody}]
    /\ DOMAIN per_budget = Budgets
OneCheckPerHost == \A r, q \in being_checked : check_host(r.to) = check_host(q.to) => r = q
ContactsInv == ContactsTyped /\ OneCheckPerHost /\ ContactsSound
============================================================================
