--------------------------- MODULE SessionLimiter ---------------------------
(* The admission service of an open node under load: the connections it     *)
(* holds, the sliding windows of its rate limiter, and what its handlers,    *)
(* the main loop and the reaper do to them.  A handler looks at the window,  *)
(* checks the work, takes a place, waits for the main loop and gives the     *)
(* place back when it is refused; its whole connection may be dropped at     *)
(* any of its waits.  Work is a client that does as much as it was asked     *)
(* for or not; the lease table is a set of keys.  A key has one place among  *)
(* the sessions and the clock never goes back, so their queue is kept as when *)
(* each key took its place: what slides off its front is what is old.        *)
EXTENDS Naturals, Sequences, FiniteSets

CONSTANTS
  Conns,              \* connections
  Keys,               \* client keys
  Ips, Relays,        \* addresses; those of listed entries
  MaxConnections, PerIp, PerRelay,   \* LIMITS
  GLOBAL, PER_IP, SESSION_GLOBAL, SESSION_PER_IP,
  Window,             \* ticks a window lasts
  max_leases,         \* max_clients of the node
  MaxTime             \* bound

ASSUME LimiterConstants ==
  /\ {SESSION_GLOBAL, SESSION_PER_IP, Window, MaxTime} \subseteq Nat
  /\ "none" \notin Ips

VARIABLES
  time,
  lasting, lasting_ip,   \* times of lasting admissions: all, by address
  sessions,           \* session keys with a place -> when they took it
  session_ip,         \* times new session keys were allowed, by address
  conn,               \* each connection
  asked_q,            \* connections waiting for the main loop
  clients,            \* keys that hold a lease, with whether they shook hands
  held_leases,        \* the copy of the number of leases that prices the work
  granted             \* history: <<connection, address, time>> of new places

limVars == <<time, lasting, lasting_ip, sessions, session_ip, conn, asked_q,
             clients, held_leases, granted>>
windows == <<lasting, lasting_ip, sessions, session_ip>>

Closed == [pc |-> "closed", ip |-> "none", key |-> "none", session |-> FALSE,
           bits |-> 0, recorded |-> "none"]
Served == {c \in Conns : conn[c].pc \notin {"new", "closed"}}

LimInit ==
  /\ time = 0 /\ lasting = <<>> /\ lasting_ip = [i \in Ips |-> <<>>]
  /\ sessions = [k \in {} |-> 0] /\ session_ip = [i \in Ips |-> <<>>]
  /\ conn = [c \in Conns |-> [Closed EXCEPT !.pc = "new"]]
  /\ asked_q = <<>> /\ clients = {} /\ held_leases = 0 /\ granted = {}
-----------------------------------------------------------------------------
(* The windows.                                                              *)

\* Popped from the front while the front is older than the window.
old_front(q) == CHOOSE n \in 0..Len(q) :
                  /\ \A i \in 1..n : time - q[i] > Window
                  /\ n < Len(q) => time - q[n + 1] <= Window
slid(q) == SubSeq(q, old_front(q) + 1, Len(q))

session_keys == {k \in DOMAIN sessions : time - sessions[k] <= Window}
slid_sessions == [k \in session_keys |-> sessions[k]]
used_places == Cardinality(session_keys)

\* Two bits more from half full, four from three quarters, six from seven
\* eighths.
extra_bits(used, ceiling) ==
  IF used * 2 < ceiling THEN 0 ELSE IF used * 4 < ceiling * 3 THEN 2
  ELSE IF used * 8 < ceiling * 7 THEN 4 ELSE 6

session_bits ==
  LET a == extra_bits(used_places, SESSION_GLOBAL)
      b == extra_bits(held_leases, max_leases)
  IN  IF a > b THEN a ELSE b

\* "None" for the address of a listed relay, which is not counted.
counted(ip) == ip \notin Relays
session_refusal(key, ip) ==
  IF key \in session_keys THEN "no"
  ELSE IF used_places >= SESSION_GLOBAL THEN "node"
  ELSE IF counted(ip) /\ Len(slid(session_ip[ip])) >= SESSION_PER_IP THEN "address"
  ELSE "no"

\* What a look at the window forgets of it: the address's, if it comes to that.
Slide(key, ip) ==
  /\ sessions' = slid_sessions
  /\ session_ip' = IF key \notin session_keys /\ used_places < SESSION_GLOBAL /\ counted(ip)
                   THEN [session_ip EXCEPT ![ip] = slid(@)] ELSE session_ip

forget(keys) == [k \in DOMAIN sessions \ keys |-> sessions[k]]
-----------------------------------------------------------------------------
(* The connections.                                                          *)

Close(c) == conn' = [conn EXCEPT ![c] = Closed]

share(ip) == IF ip \in Relays THEN PerRelay ELSE PerIp
OpenOf(ip) == {c \in Served : conn[c].ip = ip}

\* Accepted, then given a slot and a place in its address's share, or closed.
AcceptConn(c, ip) ==
  /\ conn[c].pc = "new"
  /\ IF Cardinality(Served) < MaxConnections /\ Cardinality(OpenOf(ip)) < share(ip)
     THEN conn' = [conn EXCEPT ![c].pc = "read", ![c].ip = ip]
     ELSE Close(c)
  /\ UNCHANGED <<time, windows, asked_q, clients, held_leases, granted>>

\* The whole request is in: for a session or for a lasting lease.  Anything
\* else, or nothing in time, is answered or closed with nothing changed.
ReadRequest(c, key, session) ==
  /\ conn[c].pc = "read"
  /\ conn' = [conn EXCEPT ![c].pc = IF session THEN "room" ELSE "allow",
                          ![c].key = key, ![c].session = session]
  /\ UNCHANGED <<time, windows, asked_q, clients, held_leases, granted>>

\* Told before any work is asked of it.
SessionRoom(c) ==
  /\ conn[c].pc = "room" /\ Slide(conn[c].key, conn[c].ip)
  /\ IF session_refusal(conn[c].key, conn[c].ip) = "no"
     THEN conn' = [conn EXCEPT ![c].pc = "price"] ELSE Close(c)
  /\ UNCHANGED <<time, lasting, lasting_ip, asked_q, clients, held_leases, granted>>

\* The client did the work asked of it now, or is told how much and goes.
CheckWork(c, bits) ==
  /\ conn[c].pc = "price" /\ sessions' = slid_sessions
  /\ IF bits >= session_bits THEN conn' = [conn EXCEPT ![c].pc = "take"] ELSE Close(c)
  /\ UNCHANGED <<time, lasting, lasting_ip, session_ip, asked_q, clients,
                 held_leases, granted>>

MutRefusalNow(key, ip) == "no"

\* Looked at again under the lock that takes the place.
refusal_now(key, ip) == session_refusal(key, ip)

AllowSession(c) ==
  LET key == conn[c].key  ip == conn[c].ip  again == key \in session_keys IN
  /\ conn[c].pc = "take"
  /\ \/ /\ refusal_now(key, ip) # "no" /\ Close(c) /\ Slide(key, ip) /\ UNCHANGED granted
     \/ /\ refusal_now(key, ip) = "no" /\ again
        /\ conn' = [conn EXCEPT ![c].pc = "send", ![c].recorded = "again"]
        /\ sessions' = slid_sessions /\ UNCHANGED <<session_ip, granted>>
     \/ /\ refusal_now(key, ip) = "no" /\ ~again
        /\ conn' = [conn EXCEPT ![c].pc = "send", ![c].recorded = "new"]
        /\ sessions' = [k \in session_keys \cup {key} |-> IF k = key THEN time ELSE sessions[k]]
        /\ session_ip' = IF counted(ip)
                         THEN [session_ip EXCEPT ![ip] = Append(slid(@), time)]
                         ELSE session_ip
        /\ granted' = granted \cup {<<c, ip, time>>}
  /\ UNCHANGED <<time, lasting, lasting_ip, asked_q, clients, held_leases>>

\* A lasting lease is counted whether or not it is then made.
AllowLasting(c) ==
  LET ip == conn[c].ip
      looked == Len(slid(lasting)) < GLOBAL
      ok == looked /\ Len(slid(lasting_ip[ip])) < PER_IP
  IN
  /\ conn[c].pc = "allow"
  /\ lasting' = IF ok THEN Append(slid(lasting), time) ELSE slid(lasting)
  /\ lasting_ip' = IF ok THEN [lasting_ip EXCEPT ![ip] = Append(slid(@), time)]
                   ELSE IF looked THEN [lasting_ip EXCEPT ![ip] = slid(@)] ELSE lasting_ip
  /\ IF ok THEN conn' = [conn EXCEPT ![c].pc = "send"] ELSE Close(c)
  /\ UNCHANGED <<time, sessions, session_ip, asked_q, clients, held_leases, granted>>

SendAdmit(c) ==
  /\ conn[c].pc = "send" /\ conn' = [conn EXCEPT ![c].pc = "wait"]
  /\ asked_q' = Append(asked_q, c)
  /\ UNCHANGED <<time, windows, clients, held_leases, granted>>

\* Refused by the main loop, or not answered in four seconds: a key that took
\* its place for this request gives it back.
NotAdmitted(c) ==
  /\ conn[c].pc = "refused" \/ conn[c].pc = "wait"
  /\ sessions' = IF conn[c].recorded = "new" THEN forget({conn[c].key})
                 ELSE sessions
  /\ Close(c)
  /\ UNCHANGED <<time, lasting, lasting_ip, session_ip, asked_q, clients,
                 held_leases, granted>>

\* The invite is written; or, wherever it waits, the connection's own five
\* seconds are over and all of it is dropped.
EndConn(c) ==
  /\ conn[c].pc \in {"admitted", "read", "room", "price", "take", "allow", "send", "wait",
                     "refused"}
  /\ Close(c)
  /\ UNCHANGED <<time, windows, asked_q, clients, held_leases, granted>>
-----------------------------------------------------------------------------
(* The main loop, the reaper and the rest of the world.                      *)

Client(key, session, came) == [key |-> key, session |-> session, came |-> came]
has_lease(key) == \E l \in clients : l.key = key

\* A request nobody waits for is passed over; a key with a lease keeps it.
LoopAdmit ==
  LET c == Head(asked_q)  key == conn[c].key IN
  /\ asked_q # <<>> /\ asked_q' = Tail(asked_q)
  /\ IF conn[c].pc # "wait" THEN UNCHANGED <<conn, clients, held_leases>>
     ELSE IF has_lease(key) \/ Cardinality(clients) < max_leases
     THEN /\ conn' = [conn EXCEPT ![c].pc = "admitted"]
          /\ clients' = IF has_lease(key) THEN clients
                        ELSE clients \cup {Client(key, conn[c].session, FALSE)}
          /\ held_leases' = Cardinality(clients')
     ELSE conn' = [conn EXCEPT ![c].pc = "refused"] /\ UNCHANGED <<clients, held_leases>>
  /\ UNCHANGED <<time, windows, granted>>

\* The leases gone quiet lapse, and a session key that never shook hands gives
\* its place back.
ReapClients(gone) ==
  /\ gone # {} /\ gone \subseteq clients /\ clients' = clients \ gone
  /\ held_leases' = Cardinality(clients')
  /\ sessions' = forget({l.key : l \in {g \in gone : g.session /\ ~g.came}})
  /\ UNCHANGED <<time, lasting, lasting_ip, session_ip, conn, asked_q, granted>>

Handshake(l) ==
  /\ l \in clients /\ ~l.came
  /\ clients' = (clients \ {l}) \cup {[l EXCEPT !.came = TRUE]}
  /\ UNCHANGED <<time, windows, conn, asked_q, held_leases, granted>>

\* The operator's revoke, a process of its own: the copy is not refreshed.
OperatorRevokes(l) ==
  /\ l \in clients /\ clients' = clients \ {l}
  /\ UNCHANGED <<time, windows, conn, asked_q, held_leases, granted>>

TimePasses ==
  /\ time < MaxTime /\ time' = time + 1
  /\ UNCHANGED <<windows, conn, asked_q, clients, held_leases, granted>>

LimNext ==
  \/ \E c \in Conns :
       \/ \E ip \in Ips : AcceptConn(c, ip)
       \/ \E key \in Keys, session \in BOOLEAN : ReadRequest(c, key, session)
       \/ \E bits \in {0, 6} : CheckWork(c, bits)
       \/ SessionRoom(c) \/ AllowSession(c) \/ AllowLasting(c) \/ SendAdmit(c)
       \/ NotAdmitted(c) \/ EndConn(c)
  \/ LoopAdmit \/ TimePasses
  \/ \E gone \in SUBSET clients : ReapClients(gone)
  \/ \E l \in clients : Handshake(l) \/ OperatorRevokes(l)
-----------------------------------------------------------------------------
LimSpec == LimInit /\ [][LimNext]_limVars

\* However many handlers look at the window at once, no address but a listed
\* relay's is allowed more new session keys in a window than its share, places
\* given back included, and the window itself never holds more than it may.
granted_from(ip, t) == {g \in granted : g[2] = ip /\ g[3] >= t}
ShareKept ==
  /\ Cardinality(DOMAIN sessions) <= SESSION_GLOBAL
  /\ \A ip \in Ips \ Relays, t \in 0..MaxTime :
       Cardinality({g \in granted_from(ip, t) : g[3] <= t + Window}) <= SESSION_PER_IP

\* What it rests on: every place allowed to an address since some time that is
\* still in the window is counted in the address's own window.
conn_pcs == {"new", "closed", "read", "room", "price", "take", "allow", "send", "wait", "refused", "admitted"}
AnyConn == [pc : conn_pcs, ip : Ips \cup {"none"}, key : Keys \cup {"none"},
            session : BOOLEAN, bits : Nat, recorded : {"none", "new", "again"}]
ConnTyped ==
  /\ conn \in [Conns -> AnyConn]
  /\ \A c \in Conns : conn[c].pc \notin {"new", "closed"} => conn[c].ip \in Ips
LimTyped ==
  /\ time \in 0..MaxTime /\ ConnTyped /\ asked_q \in Seq(Conns)
  /\ IsFiniteSet(DOMAIN sessions) /\ session_ip \in [Ips -> Seq(Nat)]
  /\ IsFiniteSet(granted) /\ granted \subseteq Conns \X Ips \X (0..time)
counts_from(ip, t) == {i \in DOMAIN session_ip[ip] : session_ip[ip][i] >= t}
PlacesCounted ==
  \A ip \in Ips \ Relays, t \in 0..MaxTime :
    t + Window >= time => Cardinality(granted_from(ip, t)) <= Cardinality(counts_from(ip, t))
LimInv == LimTyped /\ PlacesCounted /\ ShareKept

\* "A session key that was not admitted holds no place in the window"
PlaceIsForSomeone ==
  \A k \in session_keys :
    has_lease(k) \/ \E c \in Served : conn[c].key = k
=============================================================================
