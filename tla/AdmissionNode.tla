--------------------------- MODULE AdmissionNode ---------------------------
(***************************************************************************)
(* A node that admits clients (hidravpn-node): the main loop of main.rs    *)
(* with its reaper, the handlers of the admission service that wait for    *)
(* it, the lease table on disk, the peers of the WireGuard device, and the *)
(* operator's `admit` and `revoke`, a process of its own.                  *)
(*                                                                         *)
(* The list of spent passes is the one SpentList describes.  The lock on   *)
(* the lease table is held from the step that reads it to the step that    *)
(* writes it; the device is changed outside the lock.  Any write and any   *)
(* call of the device may fail, the node may be stopped or killed at any   *)
(* step, and a handler may give up at any time.                            *)
(*                                                                         *)
(* Time is abstracted to what it makes true: a pass expires, a lease goes  *)
(* quiet for longer than its window, a handler has waited long enough.     *)
(***************************************************************************)
EXTENDS SpentList, Naturals, FiniteSets, Sequences

CONSTANTS
    Keys,           \* the WireGuard keys of clients
    Requests,       \* the requests that reach the admission service
    NoPass, NoReq,  \* no pass with the request; no request in hand
    PassOf,         \* the pass a request redeems, or NoPass (POST /admit)
    KeyOf,          \* the key a request asks to be admitted
    KindOf,         \* "pass", "session" or "open": the source of its lease
    OpKeys,         \* the keys the operator admits and revokes
    Hosts,          \* addresses the tunnel subnet has for clients
    max_clients,    \* leases the node holds at most
    lasting_cap,    \* lasting leases won openly that it holds at most
    QueueCap,       \* the channel's capacity (64)
    MaxFaults,      \* bound on the writes and device calls that fail
    MaxStops,       \* bound on stops and crashes
    MaxOps          \* bound on the operator's commands

ASSUME NodeAssumption ==
    /\ NoPass \notin Passes /\ NoReq \notin Requests
    /\ PassOf \in [Requests -> Passes \cup {NoPass}]
    /\ KeyOf \in [Requests -> Keys]
    /\ KindOf \in [Requests -> {"pass", "session", "open"}]
    /\ \A r \in Requests : KindOf[r] = "pass" <=> PassOf[r] \in Passes
    /\ OpKeys \subseteq Keys
    /\ Hosts \in Nat /\ max_clients \in Nat /\ lasting_cap \in Nat /\ QueueCap \in Nat
    /\ MaxFaults \in Nat /\ MaxStops \in Nat /\ MaxOps \in Nat

VARIABLES
    leases,         \* peers.json: the lease of each key
    peers,          \* the device: the address each key may send from, 0 for none
    pc,             \* where the main loop is
    cur,            \* the request in its hands
    answer,         \* the HTTP status it will answer, 0 before it is known
    late,           \* nobody waits for the answer: the admission is being undone
    view,           \* the table as read, and changed, under the lock
    gone,           \* the keys whose leases the reaper is dropping
    queue,          \* the channel from the handlers to the main loop
    phase,          \* where the handler of each request is
    code,           \* the status the handler got or made, 0 for none
    op,             \* the operator's command between the table and the device
    quiet,          \* keys with no sign of life for longer than their window
    faults, stops, ops,
    \* history
    won,            \* the requests of each pass that were handed an invite
    cut,            \* passes in hand when the node was killed
    leaked,         \* keys whose lease could not be taken back
    paid            \* the pass each key's lease was made for, or NoPass

loopVars    == <<pc, cur, answer, late, view, gone>>
handlerVars == <<queue, phase, code>>
worldVars   == <<quiet, faults, stops, ops>>
histVars    == <<won, cut, leaked, paid>>
nodeVars    == <<listVars, leases, peers, pc, cur, answer, late, view, gone, queue,
                 phase, code, op, quiet, faults, stops, ops, won, cut, leaked, paid>>

Sources == {"manual", "open", "session", "pass"}
NoLease == [ip |-> 0, source |-> "none"]
Lease   == [ip : 1..Hosts, source : Sources]
Tables  == [Keys -> Lease \cup {NoLease}]
NoTable == [k \in Keys |-> NoLease]
NoPeers == [k \in Keys |-> 0]
NoOp    == [kind |-> "none", key |-> NoReq, ip |-> 0]

Fault == faults < MaxFaults /\ faults' = faults + 1

-----------------------------------------------------------------------------
(* The lease table (leases.rs).                                            *)

leased(T) == {k \in Keys : T[k] # NoLease}
used(T)   == {T[k].ip : k \in leased(T)}
Distinct(T) == \A j, k \in leased(T) : T[j].ip = T[k].ip => j = k
has_room(T) == \E ip \in 1..Hosts : ip \notin used(T)

\* One past the number of leases, as if none was ever dropped.
MutNextByCount(T) == Cardinality(leased(T)) + 1

\* The lowest unused address.
next_free(T) ==
    CHOOSE ip \in 1..Hosts : ip \notin used(T) /\ \A j \in 1..(ip - 1) : j \in used(T)

count_source(T, s) == Cardinality({k \in Keys : T[k].source = s})

refusal_for_room(T, r) ==
    /\ T[KeyOf[r]] = NoLease
    /\ \/ Cardinality(leased(T)) >= max_clients
       \/ ~has_room(T)
       \/ KindOf[r] = "open" /\ count_source(T, "open") >= lasting_cap

\* A key that has a lease keeps the one it has, source included.
admit_as(T, k, source) ==
    IF T[k] # NoLease THEN T ELSE [T EXCEPT ![k] = [ip |-> next_free(T), source |-> source]]

\* Only the address is cleared.
MutRevokeAddress(T, k) == [T EXCEPT ![k].ip = 0]

revoke(T, k) == [T EXCEPT ![k] = NoLease]

\* Only keys made for one connection lapse.
MutLapsedSessions(T) == {k \in quiet : T[k].source = "session"}

lapsed(T) == {k \in quiet : T[k].source \in Sources \ {"manual"}}
expire_idle(T) == [k \in Keys |-> IF k \in lapsed(T) THEN NoLease ELSE T[k]]

\* The operator's commands do not wait for the lock.
MutNoLock == TRUE

\* The file is locked by the node from reading it to writing it.
Unlocked == pc \notin {"save", "reapSave"}

(* The device (wg.rs): an allowed address belongs to one peer, the last    *)
(* it was given to.                                                        *)

add_peer(P, k, ip) ==
    [j \in Keys |-> IF j = k THEN ip ELSE IF P[j] = ip THEN 0 ELSE P[j]]
remove_peers(P, K) == [j \in Keys |-> IF j \in K THEN 0 ELSE P[j]]

-----------------------------------------------------------------------------

TablesTypeOK ==
    /\ leases \in Tables /\ view \in Tables
    /\ peers \in [Keys -> 0..Hosts]
    /\ gone \subseteq Keys
    /\ op \in [kind : {"none", "admit", "revoke"}, key : Keys \cup {NoReq}, ip : 0..Hosts]
    /\ op # NoOp => op.key \in Keys
    /\ quiet \subseteq Keys

LoopTypeOK ==
    /\ pc \in {"down", "start", "select", "update", "save", "peer", "undoPeer",
               "undoLease", "undoPass", "reply", "reapSave", "reapPeers"}
    /\ cur \in Requests \cup {NoReq}
    /\ pc \in {"update", "save", "peer", "undoPeer", "undoLease", "undoPass", "reply"}
          => cur \in Requests
    /\ answer \in {0, 200, 409, 503}
    /\ late \in BOOLEAN

HandlersTypeOK ==
    /\ queue \in Seq(Requests)
    /\ phase \in [Requests -> {"idle", "checked", "waiting", "got", "told", "lost"}]
    /\ code \in [Requests -> {0, 200, 403, 409, 503}]

CountsTypeOK == faults \in Nat /\ stops \in Nat /\ ops \in Nat

HistTypeOK ==
    /\ won \in [Passes -> SUBSET Requests]
    /\ cut \subseteq Passes /\ leaked \subseteq Keys
    /\ paid \in [Keys -> Passes \cup {NoPass}]

NodeTypeOK ==
    ListTypeOK /\ TablesTypeOK /\ LoopTypeOK /\ HandlersTypeOK /\ CountsTypeOK /\ HistTypeOK

NodeInit ==
    /\ ListInit
    /\ leases = NoTable /\ view = NoTable /\ peers = NoPeers
    /\ pc = "select" /\ cur = NoReq /\ answer = 0 /\ late = FALSE /\ gone = {}
    /\ queue = <<>>
    /\ phase = [r \in Requests |-> "idle"]
    /\ code = [r \in Requests |-> 0]
    /\ op = NoOp
    /\ quiet = {} /\ faults = 0 /\ stops = 0 /\ ops = 0
    /\ won = [p \in Passes |-> {}] /\ cut = {} /\ leaked = {}
    /\ paid = [k \in Keys |-> NoPass]

-----------------------------------------------------------------------------
(* The handlers of the admission service (admission.rs).                   *)

Pending(r) == phase[r] \in {"checked", "waiting", "got"}

\* POST /redeem checks the pass: its issuer key must be current.  POST /admit
\* gets this far when its rate limits allow it.
Check(r) ==
    /\ pc \notin {"down", "start"}
    /\ phase[r] = "idle"
    /\ IF PassOf[r] \in expired
       THEN /\ phase' = [phase EXCEPT ![r] = "told"]
            /\ code'  = [code EXCEPT ![r] = 403]
       ELSE phase' = [phase EXCEPT ![r] = "checked"] /\ UNCHANGED code
    /\ UNCHANGED <<listVars, leases, peers, loopVars, queue, op, worldVars, histVars>>

\* tx.send(): waits for a place in the channel.
Send(r) ==
    /\ phase[r] = "checked"
    /\ Len(queue) < QueueCap
    /\ phase' = [phase EXCEPT ![r] = "waiting"]
    /\ queue' = Append(queue, r)
    /\ UNCHANGED <<listVars, leases, peers, loopVars, code, op, worldVars, histVars>>

\* Four seconds without an answer: 503, and the reply channel is closed.
GiveUp(r) ==
    /\ phase[r] = "waiting"
    /\ phase' = [phase EXCEPT ![r] = "told"]
    /\ code'  = [code EXCEPT ![r] = 503]
    /\ UNCHANGED <<listVars, leases, peers, loopVars, queue, op, worldVars, histVars>>

\* The connection's five seconds are over, or it breaks as the answer is
\* written: the client hears nothing.
Drop(r) ==
    /\ Pending(r)
    /\ phase' = [phase EXCEPT ![r] = "lost"]
    /\ UNCHANGED <<listVars, leases, peers, loopVars, queue, code, op, worldVars, histVars>>

Deliver(r) ==
    /\ phase[r] = "got"
    /\ phase' = [phase EXCEPT ![r] = "told"]
    /\ UNCHANGED <<listVars, leases, peers, loopVars, queue, code, op, worldVars, histVars>>

-----------------------------------------------------------------------------
(* The main loop: one admission.                                           *)

\* Back to select!, with nothing in hand.
Rest ==
    /\ pc' = "select" /\ cur' = NoReq /\ answer' = 0 /\ late' = FALSE
    /\ view' = NoTable /\ gone' = {}

\* The answer is known: it goes to the handler next.
Answer(status) == pc' = "reply" /\ answer' = status

\* The list of spent passes is not looked at.
MutTakeUnchecked ==
    /\ pc = "select" /\ queue # <<>>
    /\ queue' = Tail(queue)
    /\ LET r == Head(queue)
       IN  IF phase[r] # "waiting"
           THEN UNCHANGED loopVars
           ELSE /\ cur' = r
                /\ pc' = "update" /\ UNCHANGED <<answer, late, view, gone>>
    /\ UNCHANGED <<listVars, leases, peers, phase, code, op, worldVars, histVars>>

\* The next request, unless its handler has stopped waiting, and unless its
\* pass is spent.
TakeRequest ==
    /\ pc = "select" /\ queue # <<>>
    /\ queue' = Tail(queue)
    /\ LET r == Head(queue)
       IN  IF phase[r] # "waiting"
           THEN UNCHANGED loopVars
           ELSE /\ cur' = r
                /\ IF PassOf[r] \in spent
                   THEN Answer(409) /\ UNCHANGED <<late, view, gone>>
                   ELSE pc' = "update" /\ UNCHANGED <<answer, late, view, gone>>
    /\ UNCHANGED <<listVars, leases, peers, phase, code, op, worldVars, histVars>>

\* Leases::update, up to the save: the table is locked and read, the lease is
\* made in memory, and the pass is written down as spent.  A refusal for want
\* of room, and a pass that could not be written down, change no lease; a lock
\* or a table that fails is answered by undo_admission(Undo::Spent).
NodeUpdate ==
    /\ pc = "update"
    /\ LET p == PassOf[cur]
           T == admit_as(leases, KeyOf[cur], KindOf[cur])
       IN  \/ /\ Fault
              /\ pc' = "undoPass"
              /\ UNCHANGED <<listVars, answer, view, paid>>
           \/ /\ refusal_for_room(leases, cur)
              /\ Answer(503)
              /\ UNCHANGED <<listVars, view, faults, paid>>
           \/ /\ ~refusal_for_room(leases, cur)
              /\ IF p = NoPass THEN UNCHANGED listVars ELSE TakeOk(p)
              /\ view' = T
              /\ pc' = "save"
              /\ paid' = IF leases[KeyOf[cur]] = NoLease
                         THEN [paid EXCEPT ![KeyOf[cur]] = p] ELSE paid
              /\ UNCHANGED <<answer, faults>>
           \/ /\ ~refusal_for_room(leases, cur)
              /\ p # NoPass
              /\ Fault
              /\ TakeFails(p)
              /\ Answer(503)
              /\ UNCHANGED <<view, paid>>
    /\ UNCHANGED <<leases, peers, cur, late, gone, handlerVars, op, quiet, stops, ops,
                   won, cut, leaked>>

\* The table is written over the old one, and the lock let go.
NodeSave ==
    /\ pc = "save"
    /\ \/ /\ leases' = view
          /\ quiet' = IF leases[KeyOf[cur]] = NoLease THEN quiet \ {KeyOf[cur]} ELSE quiet
          /\ pc' = "peer"
          /\ UNCHANGED faults
       \/ /\ Fault
          /\ pc' = "undoPass"
          /\ UNCHANGED <<leases, quiet>>
    /\ UNCHANGED <<listVars, peers, cur, answer, late, view, gone, handlerVars, op,
                   stops, ops, histVars>>

\* The key into the device, and its invite.
NodeAddPeer ==
    /\ pc = "peer"
    /\ LET added == add_peer(peers, KeyOf[cur], view[KeyOf[cur]].ip)
       IN  \/ peers' = added /\ Answer(200) /\ UNCHANGED faults
           \/ Fault /\ peers' \in {peers, added} /\ pc' = "undoPeer" /\ UNCHANGED answer
    /\ UNCHANGED <<listVars, leases, cur, late, view, gone, handlerVars, op,
                   quiet, stops, ops, histVars>>

\* undo_admission, Undo::Admitted: the peer, then the lease, whether or not
\* each of them works.
UndoPeer ==
    /\ pc = "undoPeer"
    /\ \/ peers' = remove_peers(peers, {KeyOf[cur]}) /\ UNCHANGED faults
       \/ Fault /\ UNCHANGED peers
    /\ pc' = "undoLease"
    /\ UNCHANGED <<listVars, leases, cur, answer, late, view, gone, handlerVars, op,
                   quiet, stops, ops, histVars>>

\* The lease stays in the table: only the peer and the pass are undone.
MutUndoKeepsLease ==
    /\ pc = "undoLease"
    /\ pc' = "undoPass"
    /\ UNCHANGED <<leases, leaked, listVars, peers, cur, answer, late, view, gone,
                   handlerVars, op, quiet, faults, stops, ops, won, cut, paid>>

UndoLease ==
    /\ pc = "undoLease"
    /\ \/ leases' = revoke(leases, KeyOf[cur]) /\ UNCHANGED <<faults, leaked>>
       \/ Fault /\ leaked' = leaked \cup {KeyOf[cur]} /\ UNCHANGED leases
    /\ pc' = "undoPass"
    /\ UNCHANGED <<listVars, peers, cur, answer, late, view, gone, handlerVars, op,
                   quiet, stops, ops, won, cut, paid>>

\* A late answer is dropped with nothing undone.
MutUndoPassForgets ==
    /\ pc = "undoPass"
    /\ UNCHANGED <<listVars, faults>>
    /\ IF late THEN Rest ELSE Answer(503) /\ UNCHANGED <<cur, late, view, gone>>
    /\ UNCHANGED <<leases, peers, handlerVars, op, quiet, stops, ops, histVars>>

\* The pass is taken back, and the client told to keep it (503); or it stays
\* spent, and the client told that (409).  An answer nobody waits for goes
\* nowhere.
UndoPass ==
    /\ pc = "undoPass"
    /\ LET p == PassOf[cur]
       IN  \E status \in {503, 409} :
              /\ \/ status = 503 /\ p \notin spent /\ UNCHANGED <<listVars, faults>>
                 \/ status = 503 /\ GiveBackOk(p) /\ UNCHANGED faults
                 \/ status = 409 /\ Fault /\ GiveBackFails(p)
              /\ IF late THEN Rest ELSE Answer(status) /\ UNCHANGED <<cur, late, view, gone>>
    /\ UNCHANGED <<leases, peers, handlerVars, op, quiet, stops, ops, histVars>>

\* reply.send(): to a handler that waits; an invite bought with a pass that
\* nobody waits for is taken back.
Reply ==
    /\ pc = "reply"
    /\ \/ /\ phase[cur] = "waiting"
          /\ phase' = [phase EXCEPT ![cur] = "got"]
          /\ code'  = [code EXCEPT ![cur] = answer]
          /\ won' = IF answer = 200 /\ PassOf[cur] # NoPass
                    THEN [won EXCEPT ![PassOf[cur]] = @ \cup {cur}] ELSE won
          /\ Rest
       \/ /\ phase[cur] # "waiting"
          /\ IF answer = 200 /\ PassOf[cur] # NoPass
             THEN /\ pc' = "undoPeer" /\ late' = TRUE
                  /\ UNCHANGED <<cur, answer, view, gone>>
             ELSE Rest
          /\ UNCHANGED <<phase, code, won>>
    /\ UNCHANGED <<listVars, leases, peers, queue, op, worldVars, cut, leaked, paid>>

-----------------------------------------------------------------------------
(* The main loop: the reaper.                                              *)

\* A tick: the spent list pruned, then the table locked and read, and the
\* leases that have gone quiet dropped from it.
ReapTick ==
    /\ pc = "select"
    /\ Prune
    /\ \/ Fault /\ UNCHANGED <<pc, view, gone>>
       \/ lapsed(leases) = {} /\ UNCHANGED <<pc, view, gone, faults>>
       \/ /\ lapsed(leases) # {}
          /\ view' = expire_idle(leases)
          /\ gone' = lapsed(leases)
          /\ pc' = "reapSave"
          /\ UNCHANGED faults
    /\ UNCHANGED <<leases, peers, cur, answer, late, handlerVars, op, quiet, stops, ops,
                   histVars>>

ReapSave ==
    /\ pc = "reapSave"
    /\ \/ /\ leases' = view
          /\ pc' = "reapPeers"
          /\ UNCHANGED <<cur, answer, late, view, gone, faults>>
       \/ Fault /\ Rest /\ UNCHANGED leases
    /\ UNCHANGED <<listVars, peers, handlerVars, op, quiet, stops, ops, histVars>>

\* The leases go and the peers stay.
MutReapKeepsPeers ==
    /\ pc = "reapPeers"
    /\ Rest
    /\ UNCHANGED <<peers, faults, listVars, leases, handlerVars, op, quiet, stops, ops,
                   histVars>>

\* The peers of the leases dropped, whether or not each removal works.
ReapPeers ==
    /\ pc = "reapPeers"
    /\ \/ peers' = remove_peers(peers, gone) /\ UNCHANGED faults
       \/ Fault /\ \E K \in SUBSET gone : peers' = remove_peers(peers, K)
    /\ Rest
    /\ UNCHANGED <<listVars, leases, handlerVars, op, quiet, stops, ops, histVars>>

-----------------------------------------------------------------------------
(* Stopping and starting.                                                  *)

\* Nothing is left of the process: what it had in hand, its channel and its
\* handlers, of which those in heard still get an answer out.
Halt(heard) ==
    /\ stops < MaxStops /\ stops' = stops + 1
    /\ pc' = "down" /\ cur' = NoReq /\ answer' = 0 /\ late' = FALSE
    /\ view' = NoTable /\ gone' = {}
    /\ queue' = <<>>
    /\ phase' = [r \in Requests |-> IF r \in heard THEN "told"
                                    ELSE IF Pending(r) THEN "lost" ELSE phase[r]]
    /\ code' = [r \in Requests |-> IF r \in heard /\ phase[r] # "got" THEN 503 ELSE code[r]]
    /\ UNCHANGED <<listVars, leases, op, quiet, faults, ops, won, leaked, paid>>

\* SIGTERM, seen by select!: the channel closes, handlers answer 503 if the
\* process lives long enough, and the device is taken down.
Stop ==
    /\ pc = "select"
    /\ \E heard \in SUBSET {r \in Requests : Pending(r)} : Halt(heard)
    /\ peers' = NoPeers
    /\ UNCHANGED cut

\* A crash or a power cut, at any step.  A kernel device outlives the process.
Crash ==
    /\ pc # "down"
    /\ Halt({})
    /\ peers' \in {peers, NoPeers}
    /\ cut' = IF cur # NoReq /\ PassOf[cur] # NoPass THEN cut \cup {PassOf[cur]} ELSE cut

\* run(): a device with no peers, the leases and the spent list as the disk has them.
Start ==
    /\ pc = "down"
    /\ pc' = "start"
    /\ peers' = NoPeers
    /\ view' = leases
    /\ UNCHANGED <<listVars, leases, cur, answer, late, gone, handlerVars, op, worldVars,
                   histVars>>

\* Every lease read goes into the device; a peer that cannot be added stops the start.
StartPeers ==
    /\ pc = "start"
    /\ \/ /\ peers' = [k \in Keys |-> IF view[k] # NoLease THEN view[k].ip
                                      ELSE IF peers[k] \in used(view) THEN 0 ELSE peers[k]]
          /\ Reload
          /\ Rest
          /\ UNCHANGED faults
       \/ /\ Fault
          /\ pc' = "down" /\ view' = NoTable
          /\ UNCHANGED <<listVars, peers, cur, answer, late, gone>>
    /\ UNCHANGED <<leases, handlerVars, op, quiet, stops, ops, histVars>>

-----------------------------------------------------------------------------
(* The operator: the table under its lock, then the device of the running  *)
(* node.                                                                   *)

OpAdmit(k) ==
    /\ op = NoOp /\ ops < MaxOps /\ ops' = ops + 1
    /\ Unlocked
    /\ leases[k] # NoLease \/ has_room(leases)
    /\ LET T == admit_as(leases, k, "manual")
       IN  leases' = T /\ op' = [kind |-> "admit", key |-> k, ip |-> T[k].ip]
    /\ UNCHANGED <<listVars, peers, loopVars, handlerVars, quiet, faults, stops, histVars>>

OpRevoke(k) ==
    /\ op = NoOp /\ ops < MaxOps /\ ops' = ops + 1
    /\ Unlocked
    /\ leases[k] # NoLease
    /\ leases' = revoke(leases, k)
    /\ op' = [kind |-> "revoke", key |-> k, ip |-> 0]
    /\ UNCHANGED <<listVars, peers, loopVars, handlerVars, quiet, faults, stops, histVars>>

\* The same in the device, if there is one and the call works.
OpDevice ==
    /\ op # NoOp
    /\ op' = NoOp
    /\ \/ /\ peers' = IF op.kind = "admit" THEN add_peer(peers, op.key, op.ip)
                      ELSE remove_peers(peers, {op.key})
          /\ UNCHANGED faults
       \/ Fault /\ UNCHANGED peers
       \/ pc = "down" /\ UNCHANGED <<peers, faults>>
    /\ UNCHANGED <<listVars, leases, loopVars, handlerVars, quiet, stops, ops, histVars>>

-----------------------------------------------------------------------------
(* Time and the clients.                                                   *)

PassExpires(p) ==
    /\ Lapse(p)
    /\ UNCHANGED <<leases, peers, loopVars, handlerVars, op, worldVars, histVars>>

\* Longer without a sign of life than the lease's window.
GoQuiet(k) ==
    /\ k \notin quiet
    /\ leases[k].source \in Sources \ {"manual"}
    /\ quiet' = quiet \cup {k}
    /\ UNCHANGED <<listVars, leases, peers, loopVars, handlerVars, op, faults, stops, ops,
                   histVars>>

\* A handshake, or bytes, through the device.
ComeBack(k) ==
    /\ k \in quiet
    /\ peers[k] # 0
    /\ quiet' = quiet \ {k}
    /\ UNCHANGED <<listVars, leases, peers, loopVars, handlerVars, op, faults, stops, ops,
                   histVars>>

-----------------------------------------------------------------------------

Admission ==
    \/ TakeRequest \/ NodeUpdate \/ NodeSave \/ NodeAddPeer
    \/ UndoPeer \/ UndoLease \/ UndoPass \/ Reply

Reaper == ReapTick \/ ReapSave \/ ReapPeers

Handler(r) == Check(r) \/ Send(r) \/ GiveUp(r) \/ Drop(r) \/ Deliver(r)

Operator == (\E k \in OpKeys : OpAdmit(k) \/ OpRevoke(k)) \/ OpDevice

Environment ==
    \/ Stop \/ Crash
    \/ \E p \in Passes : PassExpires(p)
    \/ \E k \in Keys : GoQuiet(k) \/ ComeBack(k)

NodeNext ==
    \/ Admission
    \/ Reaper
    \/ Start \/ StartPeers
    \/ \E r \in Requests : Handler(r)
    \/ Operator
    \/ Environment

\* The loop runs what it has begun; select! picks its branches at random, so
\* the reaper's tick is not passed over for ever; systemd starts a stopped node.
NodeFairness ==
    /\ WF_nodeVars(Admission \/ ReapSave \/ ReapPeers)
    /\ SF_nodeVars(ReapTick)
    /\ WF_nodeVars(Start \/ StartPeers)

NodeSpec == NodeInit /\ [][NodeNext]_nodeVars /\ NodeFairness

-----------------------------------------------------------------------------
(* Properties.                                                             *)

\* A valid pass admits once: of all its redemptions, repeated, late, cut by
\* crashes or by failed writes, at most one is handed an invite while the
\* pass is valid (main.rs, run; "so a crash in between cannot let it be spent
\* again").
AdmitsOnce == \A p \in Passes \ expired : Cardinality(won[p]) <= 1

\* A lease bought with a pass is never on disk without its pass being spent
\* there too, as long as the pass is valid, unless the lease could not be
\* taken back (main.rs: "Written down as spent before the lease is saved").
LeaseIsPaidFor ==
    \A k \in Keys :
        leases[k].source = "pass" /\ k \notin leaked
            => paid[k] \in Passes /\ (paid[k] \in acked \cup expired)

\* The node asks of the list only what SpentList lets a caller ask: it takes no
\* pass that is held, and gives back none it did not take, so the promise that
\* SpentPasses keeps under those steps is there for it (main.rs, run and
\* undo_admission; leases.rs, SpentPasses).
UsesListRightly == ListSpec

\* No pass is used up for nothing: one that is held as spent was handed an
\* invite, or is in the loop's hands, or a crash cut its redemption off, or
\* a write of the list failed for it (main.rs: "admitting now would spend that
\* pass for nothing"; "the pass is taken back").
SpentForSomething ==
    \A p \in spent \ (doubt \cup cut) :
        won[p] # {} \/ (cur # NoReq /\ PassOf[cur] = p)

\* No two leases hold the same address.
AddressesDistinct == Distinct(leases)

\* The node changes no lease but the one it is admitting or undoing and those
\* it found quiet: what the operator decides between its reading of the table
\* and its writing is never lost (leases.rs, update: "or write a revoked lease
\* back").
OthersLeasesKept ==
    [][\A k \in Keys : leases'[k] # leases[k] =>
          \/ ops' # ops
          \/ cur # NoReq /\ k = KeyOf[cur]
          \/ pc = "reapSave" /\ k \in gone /\ leases'[k] = NoLease]_nodeVars

\* Between two tasks of the loop the device holds the leases and nothing else,
\* as long as no call failed and the operator kept away (main.rs, run: the
\* admission branch and the reaper change the table, then the device).
DeviceMatchesLeases ==
    pc = "select" /\ faults = 0 /\ ops = 0 =>
        \A k \in Keys : peers[k] = leases[k].ip

\* What the operator decided last about a key, and finished, is so in the
\* device whenever the loop is between two tasks (main.rs: "so an operator's
\* `admit` or `revoke` is never undone").
OperatorNeverUndone ==
    pc = "select" /\ op = NoOp =>
        \A k \in OpKeys :
            /\ leases[k] = NoLease => peers[k] = 0
            /\ leases[k].source = "manual" => peers[k] = leases[k].ip

\* A client told to keep its pass (a 5xx) can really use it again, unless
\* another redemption of the pass is under way, or won, or was cut off.
KeptPassWorks ==
    \A r \in Requests :
        phase[r] = "told" /\ code[r] = 503 /\ PassOf[r] \in spent /\ cur = NoReq
            => won[PassOf[r]] # {} \/ PassOf[r] \in cut

\* A 5xx is never given to a client whose key stays admitted.
RefusedIsNotAdmitted ==
    \A r \in Requests :
        phase[r] = "told" /\ code[r] = 503 /\ KindOf[r] = "pass" /\ cur = NoReq
            => leases[KeyOf[r]].source # "pass" \/ won[PassOf[r]] # {} \/ PassOf[r] \in cut

\* A lease whose client has gone quiet does not hold its place for ever: it
\* lapses, or its client comes back.
QuietLeaseLapses ==
    \A k \in Keys :
        (k \in quiet /\ leases[k].source \in Sources \ {"manual"})
            ~> (k \notin quiet \/ leases[k].source \notin Sources \ {"manual"})
-----------------------------------------------------------------------------
(* The inductive invariants behind AdmitsOnce and AddressesDistinct.       *)

\* A pass that was handed an invite is in the spent list, until it expires.
WonIsTaken == \A p \in Passes : won[p] # {} => p \in acked \cup expired

\* The loop holds a pass's fate: it may admit with it, or give it back.
InHand ==
    \/ pc \in {"update", "save", "peer", "undoPeer", "undoLease", "undoPass"}
    \/ pc = "reply" /\ answer = 200

\* No one was handed an invite for the valid pass in hand.
InHandIsFresh ==
    InHand /\ PassOf[cur] \in Passes =>
        won[PassOf[cur]] = {} \/ PassOf[cur] \in expired

\* The loop made a lease with the pass in hand.
Bought ==
    \/ pc \in {"save", "peer", "undoPeer", "undoLease"}
    \/ pc = "reply" /\ answer = 200

\* From the moment its lease may be saved, the pass in hand is in the list.
InHandIsTaken == Bought /\ PassOf[cur] \in Passes => PassOf[cur] \in acked

\* The list is asked to take only what it does not hold, and to give back only
\* what it took.
AskedRightly ==
    /\ pc = "update" => PassOf[cur] \notin spent
    /\ pc = "undoPass" /\ PassOf[cur] \in spent => PassOf[cur] \in acked

SpendInv ==
    /\ TakenIsHeld /\ WonIsTaken /\ AdmitsOnce
    /\ InHandIsFresh /\ InHandIsTaken /\ AskedRightly

\* While the loop holds the lock, its view is the table but for what it is
\* about to change.
ViewIsCurrent ==
    /\ pc = "save" => \A k \in Keys : k # KeyOf[cur] => view[k] = leases[k]
    /\ pc = "reapSave" =>
          \A k \in Keys : view[k] = IF k \in gone THEN NoLease ELSE leases[k]

TableInv == ViewIsCurrent /\ Distinct(leases) /\ (~Unlocked => Distinct(view))

NodeInv == NodeTypeOK /\ SpendInv /\ TableInv

\* A pass and a lease stand for each other: no lease that no pass, operator or
\* open door stands for, and no pass used up that gave its client nothing.
PassForLease == LeaseIsPaidFor /\ SpentForSomething
-----------------------------------------------------------------------------
(* What the rest rests on.                                                 *)

\* Between two tasks nothing is in hand.
HandsEmpty == pc \in {"down", "start", "select", "reapSave", "reapPeers"} => cur = NoReq

\* The pass a key's lease was made for is in the list, or was.
PaidIn(T, k) ==
    T[k].source = "pass" /\ k \notin leaked
        => paid[k] \in Passes /\ (paid[k] \in acked \cup expired)

\* A lease that is about to be saved is paid for too, and no lease but the one
\* in hand stands on the pass that may yet be given back.
PaidInv ==
    /\ LeaseIsPaidFor
    /\ pc = "save" => PaidIn(view, KeyOf[cur])
    /\ InHand /\ PassOf[cur] \in Passes =>
          \A k \in Keys :
             leases[k].source = "pass" /\ k \notin leaked /\ paid[k] = PassOf[cur] =>
                \/ PassOf[cur] \in expired
                \/ k = KeyOf[cur] /\ pc \in {"peer", "undoPeer", "undoLease", "reply"}

\* A pass that is held, or that a start may find again, did its client some
\* good, or is in hand for the first time.
Served(p) == p \in (spent \cup acked) \ (doubt \cup cut) => won[p] # {}
\* The pass in hand is not taken yet, or not any more.
Untaken ==
    \/ pc = "update"
    \/ pc = "undoPass" /\ PassOf[cur] \notin spent
    \/ pc = "reply" /\ answer # 200
GoodInv ==
    /\ HandsEmpty
    /\ \A p \in Passes : (cur # NoReq => PassOf[cur] # p) => Served(p)
    /\ Untaken /\ PassOf[cur] \in Passes => Served(PassOf[cur])
    /\ Bought /\ PassOf[cur] \in Passes => PassOf[cur] \in spent

\* Where the device differs from the table, the loop is about to change it.
DeviceInv ==
    /\ ops = 0 => op = NoOp
    /\ ops = 0 /\ pc \in {"peer", "start"} => view = leases
    /\ ops = 0 /\ pc = "start" => peers = NoPeers
    /\ faults = 0 /\ ops = 0 /\ pc \notin {"down", "start"} =>
          \A k \in Keys :
             \/ peers[k] = leases[k].ip
             \/ pc = "peer" /\ k = KeyOf[cur] /\ peers[k] = 0
             \/ pc = "undoLease" /\ k = KeyOf[cur] /\ peers[k] = 0
             \/ pc = "reapPeers" /\ k \in gone
    /\ faults = 0 /\ ops = 0 /\ pc = "undoLease" => peers[KeyOf[cur]] = 0
    /\ faults = 0 /\ ops = 0 /\ pc = "reapPeers" => \A k \in gone : leases[k] = NoLease
    /\ faults = 0 /\ ops = 0 /\ pc = "peer" => leases[KeyOf[cur]] # NoLease
    /\ pc = "save" => /\ view[KeyOf[cur]] # NoLease
                      /\ leases[KeyOf[cur]] \in {NoLease, view[KeyOf[cur]]}
=============================================================================
