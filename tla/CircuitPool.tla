---------------------------- MODULE CircuitPool ----------------------------
(* Building circuits hop by hop, keeping some ready in the client's pool and *)
(* handing them to the sessions of the proxy; and what the relays keep of    *)
(* each circuit meanwhile: a layer in their table, reaped when unused, and   *)
(* the guard's link, dropped when idle. Every circuit here takes the same    *)
(* relays, so that they compete for the relays' tables.                      *)
EXTENDS Naturals, FiniteSets

CONSTANTS Cids, Sessions,
          HOPS, POOL_TTL, POOL_TARGET_SIZE, MAX_POOL_SIZE, MAX_RETRIES,
          CONTROL_IDLE, BUILT_CIRCUIT_IDLE, RELAY_TTL, MAX_CIRCUITS,
          LastTime, MaxFaults   \* bounds of the runs

VARIABLES time,
          stage,       \* circuit -> "none", "build", "extending", "pooled", "held", "stream", "gone"
          hops,        \* hops the client has a layer with
          created_at,  \* when the circuit joined the pool or went to its session
          circuits,    \* relay -> circuit -> when its state there was last used
          guardLink,   \* circuits whose link to the guard is up -> the time of its last cell
          by,          \* circuit -> the session it is for, or Pool
          tries,       \* session -> attempts begun
          session,     \* session -> "idle", "trying", "open", "failed"
          broken,      \* circuits a fault has touched
          faults

cpVars == <<time, stage, hops, created_at, circuits, guardLink, by, tries, session, broken, faults>>
Pool == "pool"
Relays3 == 1..HOPS

(* A circuit is too old for the pool before a relay or the guard gives it up. *)
ASSUME PoolConstants ==
    /\ IsFiniteSet(Cids) /\ Pool \notin Sessions /\ HOPS \in Nat \ {0}
    /\ {POOL_TTL, BUILT_CIRCUIT_IDLE, RELAY_TTL, MAX_CIRCUITS, MAX_POOL_SIZE} \subseteq Nat
    /\ POOL_TTL <= BUILT_CIRCUIT_IDLE /\ POOL_TTL <= RELAY_TTL

CpInit ==
    /\ time = 0 /\ stage = [c \in Cids |-> "none"] /\ hops = [c \in Cids |-> 0] /\ created_at = [c \in Cids |-> 0]
    /\ circuits = [r \in Relays3 |-> <<>>] /\ guardLink = <<>> /\ by = [c \in Cids |-> Pool]
    /\ tries = [s \in Sessions |-> 0] /\ session = [s \in Sessions |-> "idle"] /\ broken = {} /\ faults = 0

----------------------------------------------------------------------------
without_c(f, c) == [d \in DOMAIN f \ {c} |-> f[d]]
with_c(f, c, t) == [d \in DOMAIN f \cup {c} |-> IF d = c THEN t ELSE f[d]]
pooled == {c \in Cids : stage[c] = "pooled"}
ready == {c \in pooled : time - created_at[c] < POOL_TTL}

(* create_circuit: the unused are reaped, then the relay must have room and not know the id. *)
reaped(r) == [d \in {e \in DOMAIN circuits[r] : time - circuits[r][e] < RELAY_TTL} |-> circuits[r][d]]
room(r, c) == Cardinality(DOMAIN reaped(r)) < MAX_CIRCUITS /\ c \notin DOMAIN reaped(r)
create_circuit(r, c) == [circuits EXCEPT ![r] = with_c(reaped(r), c, time)]

(* A control cell for the first h hops, and its reply: open_control and seal_reply at each. *)
known(c, h) == \A r \in 1..h : c \in DOMAIN circuits[r]
touched(t, c, h) == [r \in Relays3 |-> IF r <= h THEN [t[r] EXCEPT ![c] = time] ELSE t[r]]

(* The client drops the circuit: its link goes, what the relays hold stays until it is reaped. *)
dropped(c) == /\ stage' = [stage EXCEPT ![c] = "gone"] /\ guardLink' = without_c(guardLink, c)

(* A session that lost its circuit tries again, up to MAX_RETRIES attempts. *)
after_failure(c) ==
    IF by[c] = Pool THEN session
    ELSE [session EXCEPT ![by[c]] = IF tries[by[c]] < MAX_RETRIES THEN "idle" ELSE "failed"]

----------------------------------------------------------------------------
(* direct_handshake with the guard, then CreateCircuit, which the guard may refuse. *)
direct_handshake(c, who) ==
    /\ stage[c] = "none" /\ by' = [by EXCEPT ![c] = who]
    /\ \/ /\ room(1, c) /\ circuits' = create_circuit(1, c)
          /\ stage' = [stage EXCEPT ![c] = "build"] /\ hops' = [hops EXCEPT ![c] = 1]
          /\ guardLink' = with_c(guardLink, c, time)
       \/ /\ ~room(1, c) /\ circuits' = [circuits EXCEPT ![1] = reaped(1)]
          /\ stage' = [stage EXCEPT ![c] = "gone"] /\ UNCHANGED <<hops, guardLink>>
    /\ UNCHANGED <<time, created_at, broken, faults>>

(* maintain: the pool is filled to its target, one circuit at a time. *)
BuildForPool(c) ==
    /\ Cardinality(pooled) < POOL_TARGET_SIZE
    /\ \A d \in Cids : by[d] = Pool => stage[d] \notin {"build", "extending"}
    /\ direct_handshake(c, Pool) /\ UNCHANGED <<tries, session>>

(* get_circuit with nothing in the pool: a session builds its own. *)
BuildOnDemand(c, s) ==
    /\ session[s] = "idle" /\ tries[s] < MAX_RETRIES /\ ready = {}
    /\ direct_handshake(c, s) /\ tries' = [tries EXCEPT ![s] = @ + 1]
    /\ session' = [session EXCEPT ![s] = IF room(1, c) THEN "trying" ELSE IF tries'[s] < MAX_RETRIES THEN @ ELSE "failed"]

(* extend_to, round one: the last hop opens a link to the next and carries message A. *)
Extend(c) ==
    /\ stage[c] = "build" /\ hops[c] < HOPS /\ c \in DOMAIN guardLink /\ known(c, hops[c])
    /\ circuits' = touched(circuits, c, hops[c]) /\ guardLink' = [guardLink EXCEPT ![c] = time]
    /\ stage' = [stage EXCEPT ![c] = "extending"]
    /\ UNCHANGED <<time, hops, created_at, by, tries, session, broken, faults>>

(* Round two: message C and CreateCircuit; the new hop registers the circuit.   *)
(* With the last hop the circuit is built, for the pool or for its session.    *)
ExtendFinish(c) ==
    LET h == hops[c] + 1
        done == h = HOPS
    IN  /\ stage[c] = "extending" /\ c \in DOMAIN guardLink /\ known(c, h - 1) /\ room(h, c)
        /\ circuits' = touched(create_circuit(h, c), c, h)
        /\ guardLink' = IF done /\ by[c] = Pool /\ Cardinality(pooled) >= MAX_POOL_SIZE
                        THEN without_c(guardLink, c) ELSE [guardLink EXCEPT ![c] = time]
        /\ hops' = [hops EXCEPT ![c] = h]
        /\ stage' = [stage EXCEPT ![c] = CASE ~done -> "build" [] done /\ by[c] # Pool -> "held"
                                           [] done /\ by[c] = Pool /\ Cardinality(pooled) < MAX_POOL_SIZE -> "pooled"
                                           [] OTHER -> "gone"]
        /\ created_at' = IF done THEN [created_at EXCEPT ![c] = time] ELSE created_at
        /\ UNCHANGED <<time, by, tries, session, broken, faults>>

(* The next hop is refused by policy, full, unreachable, or not the relay its key names (check_identity). *)
BuildFails(c) ==
    /\ stage[c] \in {"build", "extending"} /\ dropped(c) /\ session' = after_failure(c)
    /\ UNCHANGED <<time, hops, created_at, circuits, by, tries, broken, faults>>

(* maintain prunes what is too old; get_circuit discards it too. *)
PruneStale ==
    /\ pooled # ready
    /\ stage' = [c \in Cids |-> IF c \in pooled \ ready THEN "gone" ELSE stage[c]]
    /\ guardLink' = [d \in DOMAIN guardLink \ (pooled \ ready) |-> guardLink[d]]
    /\ UNCHANGED <<time, hops, created_at, circuits, by, tries, session, broken, faults>>

(* get_circuit: the pool's newest that is not too old. *)
GetCircuit(s, c) ==
    /\ session[s] = "idle" /\ tries[s] < MAX_RETRIES
    /\ c \in ready /\ \A d \in ready : created_at[d] <= created_at[c]
    /\ session' = [session EXCEPT ![s] = "trying"] /\ tries' = [tries EXCEPT ![s] = @ + 1]
    /\ by' = [by EXCEPT ![c] = s] /\ stage' = [stage EXCEPT ![c] = "held"]
    /\ UNCHANGED <<time, hops, created_at, circuits, guardLink, broken, faults>>

(* The exit's answer comes back only over a circuit every hop still knows. *)
connects(c) == c \in DOMAIN guardLink /\ known(c, HOPS)

(* connect: StreamBegin. Each hop that opens it takes the circuit out of its   *)
(* table; the first that does not know it ends the link, and the session       *)
(* tries another circuit, as it does when the destination cannot be reached.   *)
Connect5(c, reached) ==
    LET ok == connects(c) /\ reached
        upto == IF c \notin DOMAIN guardLink THEN 0
                ELSE CHOOSE h \in 0..HOPS : known(c, h) /\ (h = HOPS \/ c \notin DOMAIN circuits[h + 1])
    IN  /\ stage[c] = "held"
        /\ circuits' = [r \in Relays3 |-> IF r <= upto THEN without_c(circuits[r], c) ELSE circuits[r]]
        /\ IF ok THEN /\ stage' = [stage EXCEPT ![c] = "stream"] /\ guardLink' = [guardLink EXCEPT ![c] = time]
                      /\ session' = [session EXCEPT ![by[c]] = "open"]
           ELSE dropped(c) /\ session' = after_failure(c)
        /\ UNCHANGED <<time, hops, created_at, by, tries, broken, faults>>

StreamEnds(c) ==
    /\ stage[c] = "stream" /\ dropped(c) /\ session' = [session EXCEPT ![by[c]] = "failed"]
    /\ UNCHANGED <<time, hops, created_at, circuits, by, tries, broken, faults>>

(* A bug: a circuit that waits in the pool is held to the limit of one being set up. *)
MutIdle(c) == IF stage[c] \in {"build", "extending", "pooled", "held"} THEN CONTROL_IDLE ELSE BUILT_CIRCUIT_IDLE

(* serve_link: how long the guard's link may be idle, less while it holds an unfinished extension. *)
idle(c) == IF stage[c] = "extending" THEN CONTROL_IDLE ELSE BUILT_CIRCUIT_IDLE

LinkIdle(c) ==
    /\ c \in DOMAIN guardLink /\ stage[c] # "stream" /\ time - guardLink[c] >= idle(c)
    /\ guardLink' = without_c(guardLink, c)
    /\ UNCHANGED <<time, stage, hops, created_at, circuits, by, tries, session, broken, faults>>

(* The network, or a relay's restart, takes a circuit down where it stands. *)
CircuitBreaks(c, r) ==
    /\ faults < MaxFaults /\ faults' = faults + 1
    /\ stage[c] \in {"build", "extending", "pooled", "held"} /\ broken' = broken \cup {c}
    /\ circuits' = [circuits EXCEPT ![r] = without_c(@, c)]
    /\ guardLink' = IF r = 1 THEN without_c(guardLink, c) ELSE guardLink
    /\ UNCHANGED <<time, stage, hops, created_at, by, tries, session>>

ClockTicks ==
    /\ time < LastTime /\ time' = time + 1
    /\ UNCHANGED <<stage, hops, created_at, circuits, guardLink, by, tries, session, broken, faults>>

CpNext ==
    \/ \E c \in Cids, s \in Sessions : BuildOnDemand(c, s)
    \/ \E c \in Cids : BuildForPool(c) \/ Extend(c) \/ ExtendFinish(c) \/ BuildFails(c) \/ StreamEnds(c) \/ LinkIdle(c)
    \/ \E c \in Cids, ok \in BOOLEAN : Connect5(c, ok)
    \/ \E s \in Sessions, c \in Cids : GetCircuit(s, c)
    \/ \E c \in Cids, r \in Relays3 : CircuitBreaks(c, r)
    \/ PruneStale \/ ClockTicks

CpSpec == CpInit /\ [][CpNext]_cpVars

----------------------------------------------------------------------------
(* A circuit the pool would hand out is still there: no relay has reaped its *)
(* layer and the guard has not dropped its link, unless a fault took it      *)
(* (router.rs CIRCUIT_TTL: "so the relay never discards a circuit a client   *)
(* may still present from its pool").                                        *)
PooledIsUsable == \A c \in ready \ broken : c \in DOMAIN guardLink /\ known(c, HOPS)

(* A circuit carries one session's stream, and a session has one open circuit. *)
OneStreamEach ==
    /\ \A c, d \in Cids : stage[c] = "stream" /\ stage[d] = "stream" /\ by[c] = by[d] => c = d
    /\ \A s \in Sessions : session[s] = "open" => \E c \in Cids : stage[c] = "stream" /\ by[c] = s

(* The relays' tables and the pool stay within their limits. *)
WithinLimits ==
    /\ \A r \in Relays3 : Cardinality(DOMAIN circuits[r]) <= MAX_CIRCUITS
    /\ Cardinality(pooled) <= MAX_POOL_SIZE

(* What the pool promises a session: circuits that work, one each, within the limits. *)
PoolSound == PooledIsUsable /\ OneStreamEach /\ WithinLimits

----------------------------------------------------------------------------
(* What it rests on: whatever the relays and the guard keep of a pooled      *)
(* circuit was last used when it joined the pool or later, and a session has *)
(* one circuit at a time.                                                    *)
Stages == {"none", "build", "extending", "pooled", "held", "stream", "gone"}
Stamped(f) == DOMAIN f \subseteq Cids /\ \A c \in DOMAIN f : f[c] \in Nat
PoolTyped ==
    /\ time \in Nat /\ stage \in [Cids -> Stages] /\ hops \in [Cids -> Nat] /\ created_at \in [Cids -> Nat]
    /\ DOMAIN circuits = Relays3 /\ (\A r \in Relays3 : Stamped(circuits[r])) /\ Stamped(guardLink)
    /\ by \in [Cids -> Sessions \cup {Pool}] /\ session \in [Sessions -> {"idle", "trying", "open", "failed"}]
    /\ \A c \in Cids : stage[c] = "extending" => hops[c] < HOPS
KeptSinceMade(c) ==
    /\ c \in DOMAIN guardLink /\ guardLink[c] >= created_at[c]
    /\ \A r \in Relays3 : c \in DOMAIN circuits[r] /\ circuits[r][c] >= created_at[c]
UsableWhileReady == \A c \in Cids : stage[c] = "pooled" =>
    created_at[c] <= time /\ (c \notin broken /\ time - created_at[c] < POOL_TTL => KeptSinceMade(c))
Live(c) == stage[c] \in {"build", "extending", "held", "stream"}
OneCircuitEach ==
    /\ \A c \in Cids : Live(c) /\ by[c] # Pool => session[by[c]] = IF stage[c] = "stream" THEN "open" ELSE "trying"
    /\ \A c, d \in Cids : Live(c) /\ Live(d) /\ by[c] = by[d] /\ by[c] # Pool => c = d
    /\ \A c \in Cids : stage[c] \in {"held", "stream"} => by[c] # Pool
    /\ \A s \in Sessions : session[s] = "open" => \E c \in Cids : stage[c] = "stream" /\ by[c] = s
PoolInv == PoolTyped /\ UsableWhileReady /\ OneCircuitEach /\ WithinLimits
============================================================================
