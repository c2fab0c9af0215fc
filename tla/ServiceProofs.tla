---------------------------- MODULE ServiceProofs ----------------------------
(***************************************************************************)
(* Proofs about two programs that serve connections of their own: the      *)
(* client's service, for any number of requests, accounts, nodes, passes,  *)
(* failures and crashes, and the relay of the chat and forum pages, for    *)
(* any number of pages, topics and filters.                                *)
(***************************************************************************)
EXTENDS ClientDaemon, RelayBroker, SumTheorems, FiniteSetTheorems, SequenceTheorems, TLAPS

-----------------------------------------------------------------------------
(* The steps of a request.                                                 *)

\* A request that moves on keeps what it asked for; the others do not move.
Moved(r, pc) ==
  /\ req' \in [Reqs -> Request]
  /\ req'[r].pc = pc
  /\ req'[r].cmd = req[r].cmd /\ req'[r].stop = req[r].stop
  /\ req'[r].who = req[r].who
  /\ \A c \in Reqs \ {r} : req'[c] = req[c]

LEMMA GoMoves ==
    ASSUME req \in [Reqs -> Request], NEW r \in Reqs, NEW pc \in Pcs, Go(r, pc)
    PROVE  Moved(r, pc) /\ req'[r].stopped = req[r].stopped
<1>1. req[r] \in Request
  OBVIOUS
<1>2. [req[r] EXCEPT !.pc = pc] \in Request
  BY <1>1 DEF Request
<1>3. req' = [req EXCEPT ![r] = [req[r] EXCEPT !.pc = pc]]
  BY DEF Go
<1>4. req'[r] = [req[r] EXCEPT !.pc = pc]
  BY <1>3
<1> QED BY <1>1, <1>2, <1>3, <1>4 DEF Moved, Request

LEMMA DoneMoves ==
    ASSUME req \in [Reqs -> Request], NEW r \in Reqs, Done(r)
    PROVE  Moved(r, "done")
<1>1. "done" \in Pcs
  BY DEF Pcs
<1> QED BY <1>1, GoMoves DEF Done, Go

\* Every place of a request, and what holding a lock means there.
LEMMA Places ==
    /\ Building \subseteq HasFile /\ HasFile \subseteq HasPocket /\ HasPocket \subseteq Pcs
    /\ "done" \in Pcs \ HasPocket
    /\ {"idle", "owned", "stop", "may", "pocket", "down", "note"} \subseteq Pcs \ HasPocket
    /\ "file" \in HasPocket \ HasFile
    /\ {"state", "ask", "answer"} \subseteq HasFile \ Building
    /\ {"hold", "first", "behind", "save", "route", "arm", "finish"} \subseteq Building
BY DEF Building, HasFile, HasPocket, Pcs

\* A request that leaves lets go of its locks.
LEMMA LockingLeave ==
    ASSUME Typed, Locking, NEW r \in Reqs, Leave(r),
           state_lock = r => build' = NoBuild, state_lock # r => UNCHANGED build
    PROVE  Locking'
<1>1. Moved(r, "done")
  BY DoneMoves DEF Leave, Typed
<1>2. /\ connecting' = connecting \ {r}
      /\ pocket_lock' = IF pocket_lock = r THEN Free ELSE pocket_lock
      /\ file_lock' = IF file_lock = r THEN Free ELSE file_lock
      /\ state_lock' = IF state_lock = r THEN Free ELSE state_lock
  BY DEF Leave, Released
<1>3. Free \notin Reqs
  BY ClientAssumption
<1> QED BY <1>1, <1>2, <1>3, Places DEF Locking, Moved

\* A request that moves on without a lock being taken or let go.
LEMMA LockingMove ==
    ASSUME Typed, Locking, NEW r \in Reqs, NEW pc \in Pcs, Moved(r, pc), UNCHANGED locks,
           pc \in Building <=> req[r].pc \in Building,
           pc \in HasFile <=> req[r].pc \in HasFile,
           req[r].pc \in HasPocket => pc \in HasPocket,
           connecting' = connecting \/
             (connecting' = connecting \cup {r} /\ req[r].cmd \in Connects),
           pc \notin {"stop", "idle"},
           state_lock = r => build' \in Build /\ build'.old = build.old,
           state_lock # r => UNCHANGED build
    PROVE  Locking'
<1>2. UNCHANGED <<pocket_lock, file_lock, state_lock>>
  BY DEF locks
<1>3. Free \notin Reqs
  BY ClientAssumption
<1> QED BY <1>2, <1>3, Places DEF Locking, Moved

-----------------------------------------------------------------------------
(* The pocket.                                                             *)

LEMMA MarkUsed ==
    ASSUME NEW k \in Pocket, NEW u
    PROVE  /\ mark_used(k, u) \in Pocket
           /\ \A p, w : WonIn(mark_used(k, u), p, w) => WonIn(k, p, w)
<1> DEFINE m == mark_used(k, u)
<1>1. ASSUME NEW n \in Nodes
      PROVE  /\ m[n] \in Binding \cup {NoPass}
             /\ m[n] # NoPass => k[n] # NoPass /\ m[n].pass = k[n].pass /\ m[n].way = k[n].way
  <2>1. k[n] \in Binding \cup {NoPass}
    BY DEF Pocket
  <2>2. m[n] = IF k[n] # NoPass /\ k[n].pass \in u
               THEN [k[n] EXCEPT !.used = TRUE, !.old = FALSE] ELSE k[n]
    BY DEF mark_used
  <2>3. CASE k[n] # NoPass /\ k[n].pass \in u
    BY <2>1, <2>2, <2>3 DEF Binding
  <2> QED BY <2>1, <2>2, <2>3
<1>2. m = [n \in Nodes |-> m[n]]
  BY DEF mark_used
<1>3. m \in Pocket
  BY <1>1, <1>2 DEF Pocket
<1> QED BY <1>1, <1>3 DEF WonIn

LEMMA Replace ==
    ASSUME NEW k \in Pocket, NEW q \in Passes, NEW v \in Ways
    PROVE  /\ replace(k, q, v) \in Pocket
           /\ \A p, w : WonIn(replace(k, q, v), p, w) => WonIn(k, p, w) \/ (p = q /\ w = v)
<1> DEFINE n == PassNode[q]
           b == [pass |-> q, way |-> v, used |-> FALSE, old |-> FALSE]
<1>1. n \in Nodes /\ b \in Binding
  BY ClientAssumption DEF Binding
<1>2. CASE replace(k, q, v) = k
  BY <1>2
<1>3. CASE replace(k, q, v) = [k EXCEPT ![n] = b]
  BY <1>1, <1>3 DEF Pocket, WonIn
<1> QED BY <1>2, <1>3 DEF replace

\* What `new_identity` may rotate to are nodes of the pocket.
Hops == [entry : Entries \cup {NoNode}, exit : Exits \cup {NoNode}]

LEMMA RotationPicks ==
    ASSUME NEW a \in Circuit
    PROVE  \A p \in choose_rotation(a) : p \in Hops
<1> SUFFICES ASSUME NEW p \in choose_rotation(a) PROVE p \in Hops
  OBVIOUS
<1>1. a.entries \subseteq Entries /\ a.pool \subseteq Exits /\ a.exit \in Exits \cup {NoNode}
      /\ a.entry \in Entries \cup {NoNode}
  BY DEF Circuit
<1>2. \A s, ok : preferring(s, ok) \subseteq s
  BY DEF preferring
<1>3. CASE a.entry = NoNode
  <2>1. \E x \in Exits \cup {NoNode} : p = [entry |-> NoNode, exit |-> x]
    BY <1>1, <1>2, <1>3 DEF choose_rotation
  <2> QED BY <2>1 DEF Hops
<1>4. CASE a.entry # NoNode
  <2> DEFINE others == a.pool \ {a.exit}
             ok(e, x) == e # x /\ pair_allowed(e, x, a.allow)
             exits == preferring({x \in others : \E e \in a.entries : ok(e, x)},
                                 {x \in Exits : usable_behind(wallet, x)})
             next == IF exits = {} THEN {a.exit} ELSE exits
             with(x) == {e \in a.entries : ok(e, x)}
             entries(x) == LET o == preferring(with(x) \ {a.entry},
                                               {e \in Entries : usable(kept, wallet, e)})
                           IN  IF o = {} THEN with(x) \cap {a.entry} ELSE o
  <2>1. next \subseteq Exits \cup {NoNode} /\ \A x : entries(x) \subseteq Entries
    BY <1>1, <1>2
  <2>2. p \in UNION {{[entry |-> e, exit |-> x] : e \in entries(x)} : x \in next}
    BY <1>4, Zenon DEF choose_rotation
  <2> HIDE DEF next, entries
  <2>3. \E x \in next : \E e \in entries(x) : p = [entry |-> e, exit |-> x]
    BY <2>2
  <2> QED BY <2>1, <2>3 DEF Hops
<1> QED BY <1>3, <1>4

LEMMA ConnectPicks ==
    ASSUME NEW pr \in BOOLEAN, NEW al
    PROVE  LET pl == plan_connect(pr, al) IN
           /\ \A p \in pl.picks : p.entry \in Entries \cup {NoNode} /\ p.exit \in Exits
           /\ pl.entries \subseteq Entries /\ pl.pool \subseteq Exits
<1>1. \A es, xs : \A p \in Picks(es, xs, pr, al) : p.entry \in Entries \cup {NoNode} /\ p.exit \in Exits
  BY DEF Picks, Pair
<1>2. /\ without_dead(pr).entries \subseteq Entries
      /\ without_dead(pr).exits \subseteq Exits
  BY DEF without_dead
<1> QED BY <1>1, <1>2 DEF plan_connect

-----------------------------------------------------------------------------
(* The shape of the state, and who holds which lock.                       *)

LEMMA ShapeInit == Init => Typed /\ Locking
<1> SUFFICES ASSUME Init PROVE Typed /\ Locking
  OBVIOUS
<1>1. Idle \in Request
  BY DEF Idle, Request, Pcs, Accounts
<1>2. Typed
  BY <1>1, ClientAssumption DEF Init, Typed, Pocket
<1>3. \A r \in Reqs : req[r].pc = "idle"
  BY DEF Init, Idle
<1>4. Locking
  BY <1>3, ClientAssumption, Places DEF Init, Locking
<1> QED BY <1>2, <1>4

LEMMA ShapeAsk ==
    ASSUME Typed, Locking, NEW r \in Reqs, Ask(r)
    PROVE  /\ Typed' /\ Locking' /\ req[r].pc = "idle"
           /\ req'[r].pc \in {"owned", "stop", "may", "file", "pocket"}
           /\ \A d \in Reqs \ {r} : req'[d] = req[d]
<1>1. PICK c \in Commands[r], u \in Accounts, al \in BOOLEAN :
        req' = [req EXCEPT ![r] = [Idle EXCEPT !.cmd = c, !.who = u, !.owner = u, !.allow = al,
                                               !.pc = Begins(c)]]
  BY Zenon DEF Ask
<1>2. c \in Cmds
  BY ClientAssumption
<1>3. /\ Begins(c) \in {"owned", "stop", "may", "file", "pocket"}
      /\ Begins(c) = "stop" => c \in {"down", "shutdown"}
  BY <1>2 DEF Cmds, Connects, Begins
<1>4. /\ req'[r] = [Idle EXCEPT !.cmd = c, !.who = u, !.owner = u, !.allow = al, !.pc = Begins(c)]
      /\ \A d \in Reqs \ {r} : req'[d] = req[d]
  BY <1>1 DEF Typed
<1>5. req'[r] = [pc |-> Begins(c), cmd |-> c, who |-> u, owner |-> u, entry |-> NoNode,
                 exit |-> NoNode, entries |-> {}, pool |-> {}, allow |-> al,
                 stop |-> FALSE, stopped |-> {}, used |-> {}]
  BY <1>4 DEF Idle
<1>6. Begins(c) \in Pcs
  BY <1>3, Places
<1>7. req'[r] \in Request /\ req'[r].pc = Begins(c) /\ req'[r].cmd = c
  <2>1. req'[r] \in Request
    BY <1>2, <1>5, <1>6 DEF Request
  <2> QED BY <1>5, <2>1
<1>8. req' \in [Reqs -> Request]
  BY <1>1, <1>4, <1>7 DEF Typed
<1>9. req[r].pc = "idle" /\ req'[r].pc \notin HasFile /\ "idle" \notin HasPocket
      /\ UNCHANGED <<connecting, pocket_lock, file_lock, state_lock, build>>
  BY <1>3, <1>7, Places DEF Ask, locks
<1>10. Locking'
  <2>1. r \notin {state_lock, file_lock, pocket_lock} /\ r \notin connecting
    BY <1>9, Places DEF Locking
  <2>2. /\ \A d \in Reqs : req'[d].pc \in Building <=> state_lock' = d
        /\ \A d \in Reqs : req'[d].pc \in HasFile <=> file_lock' = d
        /\ \A d \in Reqs : pocket_lock' = d => req'[d].pc \in HasPocket
    BY <1>4, <1>9, <2>1, Places DEF Locking
  <2>3. \A d \in Reqs : /\ d \in connecting' \/ req'[d].pc \in Building =>
                             req'[d].cmd \in Connects /\ req'[d].pc # "idle"
                        /\ req'[d].pc = "stop" => req'[d].cmd \in {"down", "shutdown"}
    BY <1>3, <1>4, <1>7, <1>9, <2>1, Places DEF Locking
  <2>4. state_lock' # Free => /\ build' \in Build
                              /\ req'[state_lock'].cmd = "rotate" => build'.old \in Circuit
    BY <1>4, <1>9, <2>1 DEF Locking
  <2>5. /\ {pocket_lock', file_lock', state_lock'} \subseteq Reqs \cup {Free}
        /\ state_lock' = Free => build' = NoBuild
    BY <1>9 DEF Locking
  <2> QED BY <2>2, <2>3, <2>4, <2>5 DEF Locking
<1>11. Typed'
  BY <1>8 DEF Ask, Typed, files
<1> QED BY <1>3, <1>4, <1>7, <1>9, <1>10, <1>11

LEMMA ShapeConnectPlan ==
    ASSUME Typed, Locking, NEW r \in Reqs, ConnectPlan(r)
    PROVE  Typed' /\ Locking' /\ \E pc \in {"done", "pocket"} : Moved(r, pc)
<1> DEFINE privado == req[r].cmd = "privado"
           plans == plan_connect(privado, req[r].allow)
<1>0. /\ req[r].pc = "owned" /\ req[r].cmd \in {"rapido", "privado"}
      /\ UNCHANGED <<locks, active, build, files>> /\ req[r] \in Request
  BY DEF ConnectPlan, Typed
<1>1. CASE Done(r) /\ UNCHANGED connecting
  <2>1. Moved(r, "done")
    BY <1>1, DoneMoves DEF Typed
  <2> QED BY <1>0, <1>1, <2>1, LockingMove, Places DEF Typed, Moved, files, Locking
<1>2. ASSUME NEW p \in plans.picks,
             req' = [req EXCEPT ![r].pc = "pocket", ![r].entry = p.entry,
                       ![r].exit = p.exit, ![r].pool = plans.pool,
                       ![r].entries = IF privado THEN plans.entries ELSE {}],
             connecting' = connecting \cup {r}
      PROVE  Typed' /\ Locking' /\ Moved(r, "pocket")
  <2>1. /\ p.entry \in Entries \cup {NoNode} /\ p.exit \in Exits
        /\ plans.entries \subseteq Entries /\ plans.pool \subseteq Exits
    BY ConnectPicks
  <2> HIDE DEF plans, privado
  <2>2. req'[r] = [req[r] EXCEPT !.pc = "pocket", !.entry = p.entry,
                       !.exit = p.exit, !.pool = plans.pool,
                       !.entries = IF privado THEN plans.entries ELSE {}]
    BY <1>0, <1>2 DEF Typed
  <2>3. req'[r] \in Request
    BY <1>0, <2>1, <2>2, Places DEF Request
  <2>4. Moved(r, "pocket")
    BY <1>0, <1>2, <2>2, <2>3 DEF Moved, Typed, Request
  <2>5. connecting' = connecting \cup {r} /\ req[r].cmd \in Connects
    BY <1>0, <1>2 DEF Connects
  <2>6. Typed'
    BY <1>0, <2>4, <2>5 DEF Typed, Moved, files
  <2>7. Locking'
    BY <1>0, <2>4, <2>5, LockingMove, Places DEF Locking
  <2> QED BY <2>4, <2>6, <2>7
<1> QED BY <1>1, <1>2 DEF ConnectPlan

LEMMA ShapeRotateAsk ==
    ASSUME Typed, Locking, NEW r \in Reqs, RotateAsk(r)
    PROVE  Typed' /\ Locking' /\ \E pc \in {"done", "pocket"} : Moved(r, pc)
<1>0. /\ req[r].pc = "owned" /\ req[r].cmd = "rotate"
      /\ UNCHANGED <<locks, active, build, files>> /\ req[r] \in Request
  BY DEF RotateAsk, Typed
<1>1. CASE Done(r) /\ UNCHANGED connecting
  <2>1. Moved(r, "done")
    BY <1>1, DoneMoves DEF Typed
  <2> QED BY <1>0, <1>1, <2>1, LockingMove, Places DEF Typed, Moved, files, Locking
<1>2. CASE /\ active # NoCircuit
           /\ req' = [req EXCEPT ![r].pc = "pocket", ![r].owner = active.owner]
           /\ connecting' = connecting \cup {r}
  <2>1. active.owner \in Accounts
    BY <1>2 DEF Typed, Circuit
  <2>2. req'[r] = [req[r] EXCEPT !.pc = "pocket", !.owner = active.owner]
    BY <1>0, <1>2 DEF Typed
  <2>3. req'[r] \in Request
    BY <1>0, <2>1, <2>2, Places DEF Request
  <2>4. Moved(r, "pocket")
    BY <1>0, <1>2, <2>2, <2>3 DEF Moved, Typed, Request
  <2> QED BY <1>0, <1>2, <2>4, LockingMove, Places DEF Typed, Moved, files, Locking, Connects
<1> QED BY <1>1, <1>2 DEF RotateAsk

LEMMA ShapeLockPocket ==
    ASSUME Typed, Locking, NEW r \in Reqs, LockPocket(r)
    PROVE  Typed' /\ Locking'
<1>1. req[r].pc = "pocket" /\ pocket_lock = Free /\ pocket_lock' = r /\ Moved(r, "file")
      /\ UNCHANGED <<connecting, file_lock, state_lock, active, build, wallet, kept>>
  BY GoMoves, Places DEF LockPocket, Typed, files
<1>2. Typed'
  BY <1>1 DEF Typed, Moved
<1> QED BY <1>1, <1>2, Places, ClientAssumption DEF Locking, Moved

LEMMA ShapeLockFile ==
    ASSUME Typed, Locking, NEW r \in Reqs, LockFile(r)
    PROVE  Typed' /\ Locking'
<1>1. req[r].pc = "file" /\ file_lock = Free /\ file_lock' = r /\ Moved(r, "state")
      /\ UNCHANGED <<connecting, pocket_lock, state_lock, active, build, wallet, kept>>
  BY GoMoves, Places DEF LockFile, Typed, files
<1>2. Typed'
  BY <1>1 DEF Typed, Moved
<1> QED BY <1>1, <1>2, Places, ClientAssumption DEF Locking, Moved

LEMMA ShapeLockState ==
    ASSUME Typed, Locking, NEW r \in Reqs, LockState(r)
    PROVE  Typed' /\ Locking'
<1> DEFINE q == req[r]
           picks == IF q.cmd # "rotate" THEN {[entry |-> q.entry, exit |-> q.exit]}
                    ELSE IF active = NoCircuit THEN {} ELSE choose_rotation(active)
<1>0. /\ q.pc = "state" /\ q.cmd \in Connects /\ state_lock = Free
      /\ UNCHANGED <<wallet, kept>> /\ q \in Request
  BY DEF LockState, Typed, files, Connects
<1>1. CASE Leave(r) /\ UNCHANGED <<active, build>>
  <2>1. Moved(r, "done")
    BY <1>1, DoneMoves DEF Typed, Leave
  <2>2. Locking'
    BY <1>0, <1>1, LockingLeave, ClientAssumption
  <2> QED BY <1>0, <1>1, <2>1, <2>2 DEF Typed, Moved, Leave
<1>2. ASSUME NEW p \in picks, build' = Started(r, active, p.entry, p.exit),
             state_lock' = r, active' = NoCircuit, Go(r, "hold"),
             UNCHANGED <<connecting, pocket_lock, file_lock>>
      PROVE  Typed' /\ Locking'
  <2>1. p \in Hops /\ (q.cmd = "rotate" => active \in Circuit)
    BY <1>0, RotationPicks DEF Typed, Hops, Request
  <2>2. build' \in Build /\ build'.old = active
    BY <1>2, <2>1 DEF Started, Build, Typed, Hops
  <2>3. Moved(r, "hold")
    BY <1>2, GoMoves, Places DEF Typed
  <2>4. Typed'
    BY <1>0, <1>2, <2>2, <2>3 DEF Typed, Moved
  <2> HIDE DEF picks
  <2>5. Locking'
    BY <1>0, <1>2, <2>1, <2>2, <2>3, Places, ClientAssumption DEF Locking, Moved
  <2> QED BY <2>4, <2>5
<1> QED BY <1>1, <1>2 DEF LockState

-----------------------------------------------------------------------------
(* A build.                                                                *)

\* One step of a build: what it asked for and what it replaces stay.
Step(r, pc) ==
  /\ Moved(r, pc) /\ state_lock = r /\ state_lock' = r
  /\ build \in Build /\ build' \in Build
  /\ build'.old = build.old
  /\ UNCHANGED <<connecting, active, ended, issued, token_sent, protect, stopping>>

\* A step that may win an invite with a pass, one way: a pass that leaves the
\* wallet is used up, and one that is new in the pocket was not used before.
Redeemed(way) ==
  /\ spent \subseteq spent'
  /\ build.wallet \subseteq build'.wallet \cup spent'
  /\ \A p, w : WonIn(build'.kept, p, w) =>
       WonIn(build.kept, p, w) \/ (w = way /\ p \in spent' \ spent)
  /\ \/ build'.first = build.first
     \/ way = "direct" /\ build'.first \in spent' \ spent
     \/ WonIn(build.kept, build'.first, "direct")
  /\ \/ build'.behind = build.behind
     \/ way = "behind" /\ build'.behind \in spent' \ spent

LEMMA ShapeStep ==
    ASSUME Typed, Locking, NEW r \in Reqs, req[r].pc \in Building,
           NEW pc \in Building, Go(r, pc), build' \in Build, build'.old = build.old,
           UNCHANGED <<connecting, locks, active, kept>>, wallet' \subseteq Passes
    PROVE  Typed' /\ Locking' /\ Moved(r, pc) /\ state_lock = r
<1>1. Moved(r, pc) /\ pc \in Pcs
  BY GoMoves, Places DEF Typed
<1>2. state_lock = r /\ pc \in HasFile /\ pc \in HasPocket /\ req[r].pc \in HasFile
  BY Places DEF Locking
<1>3. pc \notin {"stop", "idle"}
  BY DEF Building
<1>4. Locking'
  BY <1>1, <1>2, <1>3, LockingMove
<1>5. Typed'
  BY <1>1 DEF Typed, Moved
<1> QED BY <1>1, <1>2, <1>4, <1>5

LEMMA ABuild ==
    ASSUME Typed, Locking, NEW r \in Reqs, req[r].pc \in Building
    PROVE  build \in Build /\ state_lock = r
BY ClientAssumption DEF Locking

LEMMA StepHold ==
    ASSUME Typed, Locking, NEW r \in Reqs, Hold(r)
    PROVE  /\ Typed' /\ Locking' /\ Step(r, "first") /\ Redeemed("none")
           /\ UNCHANGED <<wallet, kept, spent, shown>>
           /\ build'.was_held \/ build.old # NoCircuit \/ ks = "open"
<1>0. build \in Build /\ state_lock = r /\ build.kept \in Pocket /\ req[r].pc = "hold"
  BY ABuild, Places DEF Hold, Build
<1>1. CASE build.old # NoCircuit
  <2>1. build' = [build EXCEPT !.kept = mark_used(build.kept, spec_passes(build.old))]
    BY <1>1 DEF Hold
  <2>2. build' \in Build /\ build'.old = build.old /\ build'.wallet = build.wallet
        /\ build'.kept = mark_used(build.kept, spec_passes(build.old))
        /\ build'.first = build.first /\ build'.behind = build.behind
        /\ build'.was_held = build.was_held
    BY <1>0, <2>1, MarkUsed DEF Build
  <2>3. Typed' /\ Locking' /\ Moved(r, "first")
    BY <1>0, <2>2, ShapeStep, Places DEF Hold, files, Typed
  <2> QED BY <1>0, <1>1, <2>2, <2>3, MarkUsed DEF Step, Redeemed, Hold, files, hist, locks, service
<1>2. CASE build.old = NoCircuit
  <2>1. build' = [build EXCEPT !.was_held = ks # "open"]
    BY <1>2 DEF Hold
  <2>2. build' \in Build /\ build'.old = build.old /\ build'.wallet = build.wallet
        /\ build'.kept = build.kept
        /\ build'.first = build.first /\ build'.behind = build.behind
        /\ build'.was_held = (ks # "open")
    BY <1>0, <2>1 DEF Build
  <2>3. Typed' /\ Locking' /\ Moved(r, "first")
    BY <1>0, <2>2, ShapeStep, Places DEF Hold, files, Typed
  <2> QED BY <1>0, <1>2, <2>2, <2>3 DEF Step, Redeemed, Hold, files, hist, locks, service
<1> QED BY <1>1, <1>2

\* The build that failed, and one that lost a pass.
LEMMA Torn ==
    ASSUME NEW b \in Build
    PROVE  LET t == [b EXCEPT !.failed = TRUE] IN
           /\ t \in Build /\ t.old = b.old /\ t.was_held = b.was_held /\ t.wallet = b.wallet
           /\ t.kept = b.kept /\ t.first = b.first /\ t.behind = b.behind /\ t.failed
BY DEF Build

LEMMA Paid ==
    ASSUME NEW b \in Build, NEW p \in b.wallet, NEW way \in Ways, NEW stopped,
           NEW how \in Outcomes(p, stopped), Redeem(p, way, how)
    PROVE  LET c == [b EXCEPT !.wallet = after(b.wallet, p, how)] IN
           /\ c \in Build /\ c.old = b.old /\ c.was_held = b.was_held
           /\ b.wallet \subseteq c.wallet \cup spent' /\ spent \subseteq spent'
           /\ c.kept = b.kept /\ c.first = b.first /\ c.behind = b.behind
           /\ how = "taken" => p \in spent' \ spent
           /\ p \in Passes
<1> DEFINE w == after(b.wallet, p, how)
           c == [b EXCEPT !.wallet = w]
<1>1. w \subseteq b.wallet /\ b.wallet \subseteq Passes
  BY DEF after, Build
<1>2. b.wallet \subseteq w \cup spent' /\ spent \subseteq spent'
  BY DEF after, Redeem
<1>3. how = "taken" => p \in spent' \ spent
  BY DEF Outcomes, Redeem
<1> HIDE DEF w
<1>4. c \in Build /\ c.wallet = w /\ c.old = b.old /\ c.was_held = b.was_held
      /\ c.kept = b.kept /\ c.first = b.first /\ c.behind = b.behind
  BY <1>1 DEF Build
<1> QED BY <1>1, <1>2, <1>3, <1>4 DEF w

LEMMA StepPrepareFirst ==
    ASSUME Typed, Locking, NEW r \in Reqs, PrepareFirst(r)
    PROVE  /\ Typed' /\ Locking' /\ Redeemed("direct") /\ build'.was_held = build.was_held
           /\ \E pc \in {"behind", "save"} : Step(r, pc)
           /\ UNCHANGED <<wallet, kept, shown, ks>>
<1>0. build \in Build /\ state_lock = r /\ build.kept \in Pocket /\ req[r].pc = "first"
  BY ABuild, Places DEF PrepareFirst, Build
<1>1. UNCHANGED <<connecting, locks, active, ended, issued, token_sent, protect,
                  stopping, wallet, kept, shown, ks>>
  BY DEF PrepareFirst, files, service, machine
<1> DEFINE b == build
           Same == b'.old = b.old /\ b'.was_held = b.was_held /\ b' \in Build
           Goes == \E pc \in {"behind", "save"} : Go(r, pc)
<1>2. SUFFICES Same /\ Goes /\ Redeemed("direct")
  <2>1. SUFFICES ASSUME Same, NEW pc \in {"behind", "save"}, Go(r, pc)
                 PROVE  Typed' /\ Locking' /\ Step(r, pc)
    BY <1>1
  <2>2. Typed' /\ Locking' /\ Moved(r, pc)
    BY <1>0, <1>1, <2>1, ShapeStep, Places DEF Typed
  <2> QED BY <1>0, <1>1, <2>1, <2>2 DEF Step, locks
<1>3. CASE (Go(r, "save") /\ build' = Tear /\ UNCHANGED spent)
           \/ (Go(r, "behind") /\ UNCHANGED <<build, spent>>)
  BY <1>0, <1>3, Torn DEF Redeemed, Tear
<1>4. ASSUME NEW first \in PassNodes, first_hop_pass(r, first)
      PROVE  Same /\ Goes /\ Redeemed("direct")
  <2>1. first \in Nodes
    BY ClientAssumption
  <2>2. ASSUME NEW c \in Build, c.old = b.old, c.was_held = b.was_held, c.kept = b.kept,
               c.first = b.first, c.behind = b.behind, spent \subseteq spent',
               b.wallet \subseteq c.wallet \cup spent',
               \/ Go(r, "save") /\ build' = [c EXCEPT !.failed = TRUE]
               \/ /\ Go(r, "behind") /\ direct_pass(b.kept, first)
                  /\ build' = [c EXCEPT !.first = b.kept[first].pass]
        PROVE  Same /\ Goes /\ Redeemed("direct")
    <3>1. CASE Go(r, "save") /\ build' = [c EXCEPT !.failed = TRUE]
      BY <2>2, <3>1, Torn DEF Redeemed
    <3>2. CASE /\ Go(r, "behind") /\ direct_pass(b.kept, first)
               /\ build' = [c EXCEPT !.first = b.kept[first].pass]
      <4>1. WonIn(b.kept, b.kept[first].pass, "direct") /\ b.kept[first].pass \in Passes
        BY <1>0, <2>1, <3>2 DEF direct_pass, WonIn, Pocket, Binding
      <4>2. build' \in Build /\ build'.old = c.old /\ build'.was_held = c.was_held
            /\ build'.kept = c.kept /\ build'.first = b.kept[first].pass
            /\ build'.behind = c.behind /\ build'.wallet = c.wallet
        BY <2>2, <3>2, <4>1 DEF Build
      <4> QED BY <2>2, <3>2, <4>1, <4>2 DEF Redeemed
    <3> QED BY <2>2, <3>1, <3>2
  <2>3. ASSUME NEW p \in b.wallet, NEW how \in Outcomes(p, req[r].stop),
               Redeem(p, "direct", how), how = "taken", Go(r, "behind"),
               build' = [[b EXCEPT !.wallet = after(b.wallet, p, how)]
                            EXCEPT !.first = p, !.kept = replace(b.kept, p, "direct")]
        PROVE  Same /\ Goes /\ Redeemed("direct")
    <3> DEFINE c == [b EXCEPT !.wallet = after(b.wallet, p, how)]
    <3>1. /\ c \in Build /\ c.old = b.old /\ c.was_held = b.was_held
          /\ b.wallet \subseteq c.wallet \cup spent' /\ spent \subseteq spent'
          /\ c.kept = b.kept /\ c.first = b.first /\ c.behind = b.behind
          /\ p \in spent' \ spent /\ p \in Passes
      BY <1>0, <2>3, Paid DEF Ways
    <3> DEFINE k == replace(b.kept, p, "direct")
    <3>2. k \in Pocket /\ \A q, w : WonIn(k, q, w) => WonIn(b.kept, q, w) \/ (q = p /\ w = "direct")
      BY <1>0, <3>1, Replace DEF Ways
    <3>3. build' = [c EXCEPT !.first = p, !.kept = k]
      BY <2>3
    <3> HIDE DEF c, k
    <3>4. build' \in Build /\ build'.old = c.old /\ build'.was_held = c.was_held
          /\ build'.kept = k /\ build'.first = p
          /\ build'.behind = c.behind /\ build'.wallet = c.wallet
      BY <3>1, <3>2, <3>3 DEF Build
    <3> QED BY <2>3, <3>1, <3>2, <3>4 DEF Redeemed
  <2>4. CASE \E p \in {q \in b.wallet : PassNode[q] = first} :
               \E how \in Outcomes(p, req[r].stop) :
                 LET c == [b EXCEPT !.wallet = after(@, p, how)] IN
                 /\ Redeem(p, "direct", how)
                 /\ IF how = "taken"
                    THEN /\ Go(r, "behind")
                         /\ build' = [c EXCEPT !.first = p, !.kept = replace(@, p, "direct")]
                    ELSE IF direct_pass(b.kept, first) /\ ~req[r].stop
                         THEN /\ Go(r, "behind")
                              /\ build' = [c EXCEPT !.first = b.kept[first].pass]
                         ELSE Go(r, "save") /\ build' = [c EXCEPT !.failed = TRUE]
    <3>1. PICK p \in b.wallet : \E how \in Outcomes(p, req[r].stop) :
                 LET c == [b EXCEPT !.wallet = after(@, p, how)] IN
                 /\ Redeem(p, "direct", how)
                 /\ IF how = "taken"
                    THEN /\ Go(r, "behind")
                         /\ build' = [c EXCEPT !.first = p, !.kept = replace(@, p, "direct")]
                    ELSE IF direct_pass(b.kept, first) /\ ~req[r].stop
                         THEN /\ Go(r, "behind")
                              /\ build' = [c EXCEPT !.first = b.kept[first].pass]
                         ELSE Go(r, "save") /\ build' = [c EXCEPT !.failed = TRUE]
      BY <2>4, Zenon
    <3>2. PICK how \in Outcomes(p, req[r].stop) :
                 LET c == [b EXCEPT !.wallet = after(@, p, how)] IN
                 /\ Redeem(p, "direct", how)
                 /\ IF how = "taken"
                    THEN /\ Go(r, "behind")
                         /\ build' = [c EXCEPT !.first = p, !.kept = replace(@, p, "direct")]
                    ELSE IF direct_pass(b.kept, first) /\ ~req[r].stop
                         THEN /\ Go(r, "behind")
                              /\ build' = [c EXCEPT !.first = b.kept[first].pass]
                         ELSE Go(r, "save") /\ build' = [c EXCEPT !.failed = TRUE]
      BY <3>1, Zenon
    <3> DEFINE c == [b EXCEPT !.wallet = after(b.wallet, p, how)]
    <3>3. /\ c \in Build /\ c.old = b.old /\ c.was_held = b.was_held
          /\ b.wallet \subseteq c.wallet \cup spent' /\ spent \subseteq spent'
          /\ c.kept = b.kept /\ c.first = b.first /\ c.behind = b.behind
      BY <1>0, <3>2, Paid DEF Ways
    <3>4. CASE how = "taken"
      <4>1. build' = [c EXCEPT !.first = p, !.kept = replace(b.kept, p, "direct")]
        BY <3>2, <3>3, <3>4
      <4> QED BY <2>3, <3>2, <3>4, <4>1
    <3>5. CASE how # "taken"
      BY <2>2, <3>2, <3>3, <3>5
    <3> QED BY <3>4, <3>5
  <2>5. CASE /\ UNCHANGED <<sent, spent>>
             /\ \/ Go(r, "save") /\ build' = [b EXCEPT !.failed = TRUE]
                \/ /\ Go(r, "behind") /\ direct_pass(b.kept, first)
                   /\ build' = [b EXCEPT !.first = b.kept[first].pass]
    BY <1>0, <2>2, <2>5
  <2> QED BY <1>4, <2>4, <2>5, Zenon DEF first_hop_pass, fresh
<1> QED BY <1>3, <1>4, Zenon DEF PrepareFirst

LEMMA StepPrepareFails ==
    ASSUME Typed, Locking, NEW r \in Reqs, PrepareFails(r)
    PROVE  /\ Typed' /\ Locking' /\ Redeemed("none") /\ build'.was_held = build.was_held
           /\ Step(r, "save") /\ UNCHANGED <<wallet, kept, spent, shown, ks>>
<1>0. build \in Build /\ state_lock = r /\ req[r].pc \in Building
  BY ABuild, Places DEF PrepareFails
<1>1. /\ build' \in Build /\ build'.old = build.old /\ build'.was_held = build.was_held
      /\ Redeemed("none")
  BY <1>0, Torn DEF PrepareFails, Tear, Redeemed
<1>2. UNCHANGED <<connecting, locks, active, ended, issued, token_sent, protect,
                  stopping, wallet, kept, spent, shown, ks>>
  BY DEF PrepareFails, files, service, machine, hist
<1>3. Typed' /\ Locking' /\ Moved(r, "save")
  BY <1>0, <1>1, <1>2, ShapeStep, Places DEF Typed, PrepareFails
<1> QED BY <1>0, <1>1, <1>2, <1>3 DEF Step, locks

LEMMA StepPrepareBehind ==
    ASSUME Typed, Locking, NEW r \in Reqs, PrepareBehind(r)
    PROVE  /\ Typed' /\ Locking' /\ Redeemed("behind") /\ build'.was_held = build.was_held
           /\ Step(r, "save") /\ UNCHANGED <<wallet, kept>>
           /\ shown' \in {shown, shown \cup Direct(build)}
           /\ ks' \in {ks, "hold"}
<1>0. build \in Build /\ state_lock = r /\ build.kept \in Pocket /\ req[r].pc = "behind"
  BY ABuild, Places DEF PrepareBehind, Build
<1>1. /\ UNCHANGED <<connecting, locks, active, ended, issued, token_sent, protect,
                    stopping, wallet, kept>>
      /\ Go(r, "save")
  BY DEF PrepareBehind, files, service, admit_behind
<1>2. shown' \in {shown, shown \cup Direct(build)} /\ ks' \in {ks, "hold"}
  BY DEF PrepareBehind, admit_behind
<1> DEFINE b == build
           Same == b'.old = b.old /\ b'.was_held = b.was_held /\ b' \in Build
<1>3. SUFFICES Same /\ Redeemed("behind")
  <2>1. SUFFICES ASSUME Same PROVE Typed' /\ Locking' /\ Step(r, "save")
    BY <1>1, <1>2
  <2>2. Typed' /\ Locking' /\ Moved(r, "save")
    BY <1>0, <1>1, <2>1, ShapeStep, Places DEF Typed
  <2> QED BY <1>0, <1>1, <2>1, <2>2 DEF Step, locks
<1>4. CASE /\ \/ UNCHANGED build
              \/ build' = [b EXCEPT !.failed = TRUE]
           /\ UNCHANGED spent
  BY <1>0, <1>4, Torn DEF Redeemed
<1>5. ASSUME NEW p \in b.wallet, NEW how \in Outcomes(p, req[r].stop),
             Redeem(p, "behind", how),
             LET c == [b EXCEPT !.wallet = after(@, p, how)] IN
             IF how = "taken"
             THEN build' = [c EXCEPT !.behind = p, !.kept = replace(@, p, "behind")]
             ELSE build' = [c EXCEPT !.failed = TRUE]
      PROVE  Same /\ Redeemed("behind")
  <2> DEFINE c == [b EXCEPT !.wallet = after(b.wallet, p, how)]
  <2>1. /\ c \in Build /\ c.old = b.old /\ c.was_held = b.was_held
        /\ b.wallet \subseteq c.wallet \cup spent' /\ spent \subseteq spent'
        /\ c.kept = b.kept /\ c.first = b.first /\ c.behind = b.behind
        /\ how = "taken" => p \in spent' \ spent
        /\ p \in Passes
    BY <1>0, <1>5, Paid DEF Ways
  <2>2. CASE how # "taken"
    BY <1>5, <2>1, <2>2, Torn DEF Redeemed
  <2>3. CASE how = "taken"
    <3> DEFINE k == replace(b.kept, p, "behind")
    <3>1. k \in Pocket /\ \A q, w : WonIn(k, q, w) => WonIn(b.kept, q, w) \/ (q = p /\ w = "behind")
      BY <1>0, <2>1, Replace DEF Ways
    <3>2. build' = [c EXCEPT !.behind = p, !.kept = k]
      BY <1>5, <2>1, <2>3
    <3> HIDE DEF c, k
    <3>3. build' \in Build /\ build'.old = c.old /\ build'.was_held = c.was_held
          /\ build'.kept = k /\ build'.behind = p
          /\ build'.first = c.first /\ build'.wallet = c.wallet
      BY <2>1, <3>1, <3>2 DEF Build
    <3> QED BY <2>1, <2>3, <3>1, <3>3 DEF Redeemed
  <2> QED BY <2>2, <2>3
<1> QED BY <1>4, <1>5, Zenon DEF PrepareBehind, admit_behind

LEMMA StepSaveWallet ==
    ASSUME Typed, Locking, NEW r \in Reqs, SaveWallet(r)
    PROVE  /\ Typed' /\ Locking' /\ Redeemed("none") /\ build'.was_held = build.was_held
           /\ \/ Step(r, "finish") /\ build'.failed
              \/ Step(r, "route") /\ ~req[r].stop
           /\ wallet' \in {wallet, build.wallet}
           /\ UNCHANGED <<kept, spent, shown, ks>>
<1>0. build \in Build /\ state_lock = r /\ req[r].pc = "save"
  BY ABuild, Places DEF SaveWallet
<1>1. /\ UNCHANGED <<connecting, locks, active, ended, issued, token_sent, protect,
                    stopping, kept, spent, shown, ks>>
      /\ wallet' \in {wallet, build.wallet}
  BY DEF SaveWallet, service, machine, hist
<1>2. wallet' \subseteq Passes
  BY <1>0, <1>1 DEF Build, Typed
<1>3. /\ build' \in Build /\ build'.old = build.old /\ build'.was_held = build.was_held
      /\ Redeemed("none")
      /\ (Go(r, "finish") /\ build'.failed) \/ (Go(r, "route") /\ ~req[r].stop)
  BY <1>0, <1>1, Torn DEF SaveWallet, Tear, Redeemed
<1>4. ASSUME NEW pc \in {"finish", "route"}, Go(r, pc)
      PROVE  Typed' /\ Locking' /\ Step(r, pc)
  <2>1. Typed' /\ Locking' /\ Moved(r, pc)
    BY <1>0, <1>1, <1>2, <1>3, <1>4, ShapeStep, Places
  <2> QED BY <1>0, <1>1, <1>3, <2>1 DEF Step, locks
<1> QED BY <1>1, <1>3, <1>4

LEMMA StepRoute ==
    ASSUME Typed, Locking, NEW r \in Reqs, Route(r)
    PROVE  /\ Typed' /\ Locking' /\ Redeemed("none") /\ build'.was_held = build.was_held
           /\ \/ Step(r, "finish") /\ build'.failed
              \/ Step(r, "arm")
           /\ shown' \in {shown, shown \cup Direct(build)}
           /\ UNCHANGED <<wallet, kept, spent, ks>>
<1>0. build \in Build /\ state_lock = r /\ req[r].pc = "route"
  BY ABuild, Places DEF Route
<1>1. /\ UNCHANGED <<connecting, locks, active, ended, issued, token_sent, protect,
                    stopping, wallet, kept, spent, ks>>
      /\ shown' \in {shown, shown \cup Direct(build)}
  BY DEF Route, service, files
<1>3. /\ build' \in Build /\ build'.old = build.old /\ build'.was_held = build.was_held
      /\ Redeemed("none")
      /\ (Go(r, "finish") /\ build'.failed) \/ Go(r, "arm")
  BY <1>0, <1>1, Torn DEF Route, Tear, Redeemed
<1>4. ASSUME NEW pc \in {"finish", "arm"}, Go(r, pc)
      PROVE  Typed' /\ Locking' /\ Step(r, pc)
  <2>1. Typed' /\ Locking' /\ Moved(r, pc)
    BY <1>0, <1>1, <1>3, <1>4, ShapeStep, Places DEF Typed
  <2> QED BY <1>0, <1>1, <1>3, <2>1 DEF Step, locks
<1> QED BY <1>1, <1>3, <1>4

LEMMA StepArm ==
    ASSUME Typed, Locking, NEW r \in Reqs, Arm(r)
    PROVE  /\ Typed' /\ Locking' /\ Redeemed("none") /\ build'.was_held = build.was_held
           /\ Step(r, "finish")
           /\ \/ ks' = ks /\ build'.failed
              \/ ks' = "armed"
           /\ shown' \in {shown, shown \cup Direct(build) \cup Behind(build)}
           /\ UNCHANGED <<wallet, kept, spent>>
<1>0. build \in Build /\ state_lock = r /\ req[r].pc = "arm"
  BY ABuild, Places DEF Arm
<1>1. /\ UNCHANGED <<connecting, locks, active, ended, issued, token_sent, protect,
                    stopping, wallet, kept, spent>>
      /\ shown' \in {shown, shown \cup Direct(build) \cup Behind(build)}
      /\ Go(r, "finish")
  BY DEF Arm, service, files
<1>3. /\ build' \in Build /\ build'.old = build.old /\ build'.was_held = build.was_held
      /\ Redeemed("none")
      /\ (ks' = ks /\ build'.failed) \/ ks' = "armed"
  BY <1>0, <1>1, Torn DEF Arm, Tear, Redeemed
<1>4. Typed' /\ Locking' /\ Moved(r, "finish")
  BY <1>0, <1>1, <1>3, ShapeStep, Places DEF Typed
<1> QED BY <1>0, <1>1, <1>3, <1>4 DEF Step, locks

-----------------------------------------------------------------------------
(* The other steps.                                                        *)

\* The request ends, and the state is free when it was the holder.
Left(r) ==
  /\ Moved(r, "done")
  /\ connecting' = connecting \ {r}
  /\ state_lock' = IF state_lock = r THEN Free ELSE state_lock

LEMMA LeaveLeft ==
    ASSUME Typed, NEW r \in Reqs, Leave(r)
    PROVE  Left(r)
BY DoneMoves DEF Typed, Leave, Left, Released

LEMMA ShapeUntouched ==
    ASSUME Typed, Locking, NEW r \in Reqs, Untouched(r)
    PROVE  Typed' /\ Locking' /\ Left(r) /\ state_lock = r /\ build \in Build
<1>0. build \in Build /\ state_lock = r /\ req[r].pc = "hold"
  BY ABuild, Places DEF Untouched
<1>1. Left(r) /\ Locking'
  BY <1>0, LeaveLeft, LockingLeave DEF Untouched
<1>2. build.old \in Circuit \cup {NoCircuit}
  BY <1>0 DEF Build
<1>3. Typed'
  BY <1>1, <1>2 DEF Typed, Untouched, Left, Moved, files
<1> QED BY <1>0, <1>1, <1>3

\* A circuit that came up is the one asked for, or one like the one before.
LEMMA ACircuit ==
    ASSUME Typed, Locking, NEW r \in Reqs, state_lock = r
    PROVE  Rotated(r) \in Circuit /\ Rotated(r).by = r
<1>1. build \in Build /\ req[r] \in Request /\ (req[r].cmd = "rotate" => build.old \in Circuit)
  BY ClientAssumption DEF Typed, Locking
<1> DEFINE q == IF req[r].cmd = "rotate" THEN build.old ELSE req[r]
<1>2. q.owner \in Accounts /\ q.entries \in SUBSET Entries /\ q.pool \in SUBSET Exits
      /\ q.allow \in BOOLEAN
  BY <1>1 DEF Circuit, Request
<1> HIDE DEF q
<1>3. Rotated(r) = [owner |-> q.owner, entry |-> build.entry, exit |-> build.exit,
                    first |-> build.first, behind |-> build.behind, entries |-> q.entries,
                    pool |-> q.pool, allow |-> q.allow, by |-> r]
  BY DEF Rotated, q
<1> QED BY <1>1, <1>2, <1>3 DEF Circuit, Build

LEMMA ShapeFinish ==
    ASSUME Typed, Locking, NEW r \in Reqs, Finish(r)
    PROVE  /\ Typed' /\ Locking' /\ Left(r) /\ state_lock = r /\ build \in Build
           /\ req[r].pc = "finish"
           /\ \A p, w : WonIn(kept', p, w) => WonIn(kept, p, w) \/ WonIn(build.kept, p, w)
           /\ active' = IF build.failed THEN NoCircuit ELSE Rotated(r)
<1>0. build \in Build /\ state_lock = r /\ req[r].pc = "finish" /\ build.kept \in Pocket
  BY ABuild, Places DEF Finish, Build
<1>1. Left(r) /\ Locking'
  BY <1>0, LeaveLeft, LockingLeave DEF Finish
<1> DEFINE m == mark_used(build.kept, spec_passes(build))
<1>2. m \in Pocket /\ \A p, w : WonIn(m, p, w) => WonIn(build.kept, p, w)
  BY <1>0, MarkUsed
<1>3. kept' \in {kept, m, build.kept}
  BY DEF Finish
<1>4. active' = IF build.failed THEN NoCircuit ELSE Rotated(r)
  BY DEF Finish
<1>5. active' \in Circuit \cup {NoCircuit}
  BY <1>0, <1>4, ACircuit
<1> HIDE DEF m
<1>6. Typed'
  BY <1>0, <1>1, <1>2, <1>3, <1>5 DEF Typed, Finish, Left, Moved
<1> QED BY <1>0, <1>1, <1>2, <1>3, <1>4, <1>6

LEMMA ShapeStopConnecting ==
    ASSUME Typed, Locking, NEW r \in Reqs, StopConnecting(r)
    PROVE  /\ Typed' /\ Locking'
           /\ \A c \in Reqs \ {r} : req'[c].pc = req[c].pc /\ req'[c].stopped = req[c].stopped
                                    /\ (req[c].stop => req'[c].stop)
           /\ req[r].pc = "stop" /\ req'[r].pc = "down" /\ req'[r].stopped = Stoppable(req[r].who)
           /\ \A c \in Stoppable(req[r].who) : c # r /\ req'[c].stop /\ c \in connecting
<1> DEFINE s == Stoppable(req[r].who)
<1>0. /\ req[r].pc = "stop" /\ s \subseteq connecting /\ connecting \subseteq Reqs
      /\ UNCHANGED <<connecting, pocket_lock, file_lock, state_lock, active, build, wallet, kept>>
      /\ req \in [Reqs -> Request]
  BY DEF StopConnecting, Stoppable, Typed, locks, files
<1>1. req' = [c \in Reqs |->
          IF c = r THEN [req[r] EXCEPT !.pc = "down", !.stopped = s]
          ELSE IF c \in s THEN [req[c] EXCEPT !.stop = TRUE] ELSE req[c]]
  BY DEF StopConnecting
<1> HIDE DEF s
<1>2. req'[r] \in Request /\ req'[r].pc = "down" /\ req'[r].stopped = s /\ req'[r].cmd = req[r].cmd
  <2>1. req'[r] = [req[r] EXCEPT !.pc = "down", !.stopped = s]
    BY <1>1
  <2>2. "down" \in Pcs /\ s \in SUBSET Reqs /\ req[r] \in Request
    BY <1>0, Places
  <2> QED BY <2>1, <2>2 DEF Request
<1>3. ASSUME NEW c \in Reqs \ {r}
      PROVE  /\ req'[c] \in Request /\ req'[c].pc = req[c].pc /\ req'[c].cmd = req[c].cmd
             /\ req'[c].stopped = req[c].stopped /\ (req[c].stop => req'[c].stop)
             /\ (c \in s => req'[c].stop)
  <2>1. CASE c \in s
    <3>1. req'[c] = [req[c] EXCEPT !.stop = TRUE]
      BY <1>1, <2>1
    <3>2. req[c] \in Request
      BY <1>0
    <3> QED BY <3>1, <3>2 DEF Request
  <2>2. CASE c \notin s
    BY <1>0, <1>1, <2>2
  <2> QED BY <2>1, <2>2
<1>4. req' \in [Reqs -> Request]
  BY <1>1, <1>2, <1>3
<1>5. Typed'
  BY <1>0, <1>4 DEF Typed
<1>6. r \notin connecting
  BY <1>0 DEF Locking, Connects
<1>7. Locking'
  BY <1>0, <1>2, <1>3, <1>4, <1>6, Places, ClientAssumption DEF Locking
<1> QED BY <1>0, <1>2, <1>3, <1>5, <1>6, <1>7 DEF s

LEMMA ShapeDown ==
    ASSUME Typed, Locking, NEW r \in Reqs, Down(r)
    PROVE  /\ Typed' /\ Locking' /\ req[r].pc = "down" /\ state_lock = Free
           /\ \E pc \in {"done", "note"} : Moved(r, pc)
           /\ UNCHANGED <<connecting, state_lock, build>>
<1>0. /\ req[r].pc = "down" /\ state_lock = Free /\ req[r] \in Request
      /\ UNCHANGED <<connecting, locks, build, wallet, kept>>
      /\ active' \in {active, NoCircuit}
  BY DEF Down, Typed, files
<1>1. \E pc \in {"done", "note"} : Moved(r, pc)
  <2>1. CASE Done(r)
    BY <2>1, DoneMoves DEF Typed
  <2>2. CASE req' = [req EXCEPT ![r].pc = IF active = NoCircuit THEN "done" ELSE "note",
                                ![r].used = IF active = NoCircuit THEN {}
                                            ELSE spec_passes(active)]
    <3> DEFINE pc == IF active = NoCircuit THEN "done" ELSE "note"
               u == IF active = NoCircuit THEN {} ELSE spec_passes(active)
    <3>1. pc \in {"done", "note"} /\ u \subseteq Passes
      BY DEF Typed, Circuit, spec_passes
    <3>2. req'[r] = [req[r] EXCEPT !.pc = pc, !.used = u]
      BY <1>0, <2>2 DEF Typed
    <3> HIDE DEF pc, u
    <3>3. req'[r] \in Request /\ req'[r].pc = pc /\ req'[r].cmd = req[r].cmd
          /\ req'[r].stop = req[r].stop /\ req'[r].who = req[r].who
      <4>1. pc \in Pcs /\ u \in SUBSET Passes /\ req[r] \in Request
        BY <1>0, <3>1, Places
      <4> QED BY <3>2, <4>1 DEF Request
    <3>4. Moved(r, pc)
      BY <2>2, <3>3 DEF Typed, Moved
    <3> QED BY <3>1, <3>4
  <2> QED BY <2>1, <2>2 DEF Down
<1>2. PICK pc \in {"done", "note"} : Moved(r, pc)
  BY <1>1
<1>3. Typed'
  BY <1>0, <1>2 DEF Typed, Moved
<1>4. Locking'
  BY <1>0, <1>2, LockingMove, Places, ClientAssumption
<1> QED BY <1>0, <1>1, <1>3, <1>4 DEF locks

LEMMA ShapeNoteUsed ==
    ASSUME Typed, Locking, NEW r \in Reqs, NoteUsed(r)
    PROVE  /\ Typed' /\ Locking' /\ Moved(r, "done")
           /\ \A p, w : WonIn(kept', p, w) => WonIn(kept, p, w)
<1>0. Moved(r, "done") /\ UNCHANGED <<connecting, locks, active, build, wallet>>
      /\ req[r].pc = "note"
  BY DoneMoves DEF NoteUsed, Typed
<1>1. kept' \in Pocket /\ \A p, w : WonIn(kept', p, w) => WonIn(kept, p, w)
  BY MarkUsed DEF Typed, NoteUsed
<1>2. Locking'
  BY <1>0, LockingMove, Places DEF Locking
<1> QED BY <1>0, <1>1, <1>2 DEF Typed, Moved

\* The steps that ask for passes either let the request go or move it on.
LEMMA ShapePasses ==
    ASSUME Typed, Locking, NEW r \in Reqs, CheckHops(r) \/ RefillMay(r) \/ SendToken(r)
    PROVE  /\ Typed' /\ Locking' /\ req[r].pc \notin Building
           /\ Left(r) \/ \E pc \in {"ask", "answer", "pocket"} : Moved(r, pc) /\ UNCHANGED connecting
           /\ UNCHANGED <<state_lock, build>>
<1>0. /\ UNCHANGED <<active, build, wallet, kept>>
      /\ req[r].pc \in {"state", "may", "ask"} /\ state_lock # r
  BY Places, ClientAssumption DEF CheckHops, RefillMay, SendToken, files, Locking
<1>1. CASE Leave(r)
  <2>1. Left(r) /\ Locking'
    BY <1>0, <1>1, LeaveLeft, LockingLeave
  <2>2. Typed'
    BY <1>0, <2>1 DEF Typed, Left, Moved
  <2> QED BY <1>0, <2>1, <2>2, Places DEF Left
<1>2. ASSUME NEW pc \in {"ask", "answer", "pocket"}, Go(r, pc), UNCHANGED <<connecting, locks>>,
             pc \in HasFile <=> req[r].pc \in HasFile
      PROVE  /\ Typed' /\ Locking' /\ Moved(r, pc) /\ UNCHANGED connecting
             /\ UNCHANGED <<state_lock, build>>
  <2>1. Moved(r, pc)
    BY <1>2, GoMoves, Places DEF Typed
  <2>2. Locking'
    BY <1>0, <1>2, <2>1, LockingMove, Places
  <2> QED BY <1>0, <1>2, <2>1, <2>2 DEF Typed, Moved, locks
<1> QED BY <1>0, <1>1, <1>2, Places DEF CheckHops, RefillMay, SendToken

LEMMA ShapeGotPasses ==
    ASSUME Typed, Locking, NEW r \in Reqs, GotPasses(r)
    PROVE  /\ Typed' /\ Locking' /\ Left(r) /\ state_lock = Free /\ UNCHANGED <<state_lock, build>>
<1>0. UNCHANGED <<active, build, kept>> /\ req[r].pc = "answer" /\ state_lock = Free
  BY Places DEF GotPasses, Locking
<1>1. Left(r) /\ Locking'
  BY <1>0, LeaveLeft, LockingLeave, ClientAssumption DEF GotPasses
<1>2. wallet' \subseteq Passes
  BY DEF GotPasses, Typed
<1> QED BY <1>0, <1>1, <1>2, ClientAssumption DEF Typed, Left, Moved

LEMMA ShapeJoin ==
    ASSUME Typed, Locking, NEW r \in Reqs, Join(r)
    PROVE  /\ Typed' /\ Locking' /\ Left(r) /\ state_lock = Free /\ UNCHANGED <<state_lock, build>>
           /\ wallet \subseteq wallet' \cup spent' /\ spent \subseteq spent'
           /\ \A p, w : WonIn(kept', p, w) =>
                WonIn(kept, p, w) \/ (w = "direct" /\ p \in spent' \ spent)
<1>0. UNCHANGED <<active, build>> /\ req[r].pc = "ask" /\ state_lock = Free
      /\ wallet \subseteq Passes /\ kept \in Pocket
  BY Places DEF Join, Locking, Typed
<1>1. Left(r) /\ Locking'
  BY <1>0, LeaveLeft, LockingLeave, ClientAssumption DEF Join
<1> DEFINE Kept == /\ wallet' \subseteq Passes /\ kept' \in Pocket
                   /\ wallet \subseteq wallet' \cup spent' /\ spent \subseteq spent'
                   /\ \A p, w : WonIn(kept', p, w) =>
                        WonIn(kept, p, w) \/ (w = "direct" /\ p \in spent' \ spent)
<1>2. Kept
  <2>1. CASE UNCHANGED <<files, spent>>
    BY <1>0, <2>1 DEF files
  <2>2. ASSUME NEW p \in wallet, NEW how \in Outcomes(p, FALSE), Redeem(p, "direct", how),
               \/ /\ kept' = (IF how = "taken" THEN replace(kept, p, "direct") ELSE kept)
                  /\ wallet' = after(wallet, p, how)
               \/ UNCHANGED files
        PROVE  Kept
    <3>1. /\ after(wallet, p, how) \subseteq wallet
          /\ wallet \subseteq after(wallet, p, how) \cup spent' /\ spent \subseteq spent'
          /\ how = "taken" => p \in spent' \ spent
      BY <2>2 DEF after, Redeem, Outcomes
    <3>2. /\ replace(kept, p, "direct") \in Pocket
          /\ \A q, w : WonIn(replace(kept, p, "direct"), q, w) =>
               WonIn(kept, q, w) \/ (q = p /\ w = "direct")
      BY <1>0, Replace DEF Ways
    <3> QED BY <1>0, <2>2, <3>1, <3>2 DEF files
  <2> QED BY <2>1, <2>2 DEF Join
<1> QED BY <1>0, <1>1, <1>2, ClientAssumption DEF Typed, Left, Moved

LEMMA ShapeAge ==
    ASSUME Typed, Locking, NEW n \in Nodes, Age(n)
    PROVE  /\ Typed' /\ Locking'
           /\ \A p, w : WonIn(kept', p, w) => WonIn(kept, p, w)
<1>0. /\ kept[n] # NoPass /\ kept' = [kept EXCEPT ![n].old = TRUE] /\ kept \in Pocket
      /\ UNCHANGED <<req, connecting, pocket_lock, file_lock, state_lock, active, build, wallet>>
  BY DEF Age, Typed, locks
<1>1. kept[n] \in Binding
  BY <1>0 DEF Pocket
<1>2. kept'[n] = [kept[n] EXCEPT !.old = TRUE] /\ \A m \in Nodes \ {n} : kept'[m] = kept[m]
  BY <1>0 DEF Pocket
<1>3. kept'[n] \in Binding /\ kept'[n].pass = kept[n].pass /\ kept'[n].way = kept[n].way
  BY <1>1, <1>2 DEF Binding
<1>4. kept' \in Pocket
  BY <1>0, <1>2, <1>3 DEF Pocket
<1>5. \A p, w : WonIn(kept', p, w) => WonIn(kept, p, w)
  BY <1>0, <1>2, <1>3 DEF WonIn
<1> QED BY <1>0, <1>4, <1>5 DEF Typed, Locking

LEMMA ShapeGone ==
    ASSUME Typed, Locking, Gone, UNCHANGED files
    PROVE  /\ Typed' /\ Locking' /\ state_lock' = Free
           /\ \A r \in Reqs : \/ Mine(r) /\ req'[r].pc = "done"
                              \/ ~Mine(r) /\ req'[r] = req[r]
<1>1. req' = [r \in Reqs |-> IF Mine(r) THEN [Idle EXCEPT !.pc = "done"] ELSE req[r]]
      /\ connecting' = {} /\ active' = NoCircuit /\ build' = NoBuild
      /\ pocket_lock' = Free /\ state_lock' = Free
      /\ file_lock' = IF file_lock # Free /\ Mine(file_lock) THEN Free ELSE file_lock
  BY DEF Gone
<1>2. [Idle EXCEPT !.pc = "done"] \in Request /\ [Idle EXCEPT !.pc = "done"].pc = "done"
      /\ [Idle EXCEPT !.pc = "done"].cmd = "none"
  <2>1. Idle \in Request /\ "done" \in Pcs /\ Idle.cmd = "none"
    BY DEF Idle, Request, Pcs, Accounts
  <2>2. [Idle EXCEPT !.pc = "done"] \in Request
    BY <2>1 DEF Request
  <2> QED BY <2>1, <2>2 DEF Idle
<1>3. req' \in [Reqs -> Request]
  BY <1>1, <1>2 DEF Typed
<1>4. \A r \in Reqs : \/ Mine(r) /\ req'[r].pc = "done" /\ req'[r].cmd = "none"
                      \/ ~Mine(r) /\ req'[r] = req[r]
  BY <1>1, <1>2
<1>5. Typed'
  BY <1>1, <1>3 DEF Typed, files
<1>6. \A r \in Reqs : ~Mine(r) => req[r].pc \notin Building
  BY DEF Mine, Locking, Connects
<1>7. Locking'
  <2>1. \A r \in Reqs : req'[r].pc \in HasFile <=> file_lock' = r
    BY <1>1, <1>4, Places, ClientAssumption DEF Locking
  <2>2. \A r \in Reqs : req'[r].pc \notin Building
    BY <1>4, <1>6, Places
  <2>3. \A r \in Reqs : req'[r].pc # "stop"
    BY <1>4 DEF Mine, Locking
  <2> QED BY <1>1, <2>1, <2>2, <2>3, ClientAssumption DEF Locking
<1> QED BY <1>1, <1>4, <1>5, <1>7

\* Every step keeps the shape of the state and the locking.
LEMMA ShapeNext ==
    ASSUME Typed, Locking, [Next]_vars
    PROVE  Typed' /\ Locking'
<1>1. ASSUME NEW r \in Reqs, Work(r) PROVE Typed' /\ Locking'
  BY <1>1, ShapeConnectPlan, ShapeRotateAsk, ShapeLockPocket, ShapeLockFile, ShapeLockState,
     ShapeUntouched, StepHold, StepPrepareFirst, StepPrepareFails, StepPrepareBehind,
     StepSaveWallet, StepRoute, StepArm, ShapeFinish, ShapeStopConnecting, ShapeDown,
     ShapeNoteUsed, ShapePasses, ShapeGotPasses, ShapeJoin, Zenon DEF Work
<1>2. ASSUME NEW r \in Reqs, Exit(r) PROVE Typed' /\ Locking'
  BY <1>2, ShapeGone DEF Exit, files
<1>3. CASE Crash
  BY <1>3, ShapeGone DEF Crash, files
<1>4. CASE Start \/ UNCHANGED vars
  BY <1>4 DEF Start, vars, Typed, Locking, locks, files
<1> QED BY <1>1, <1>2, <1>3, <1>4, ShapeAsk, ShapeAge, Zenon DEF Next

-----------------------------------------------------------------------------
(* What a step may do to the passes.                                       *)

\* Nothing to a build or the wallet; an invite's use may be noted.
Aside ==
  /\ UNCHANGED <<issued, wallet, spent, shown, state_lock, build>>
  /\ \A p, w : WonIn(kept', p, w) => WonIn(kept, p, w)

\* A build is over, or none was under way and none is begun.
Over ==
  /\ UNCHANGED <<issued, wallet, spent, shown>> /\ state_lock' = Free
  /\ \A p, w : WonIn(kept', p, w) =>
       WonIn(kept, p, w) \/ (state_lock # Free /\ WonIn(build.kept, p, w))

\* A build begins, with the wallet and the pocket as they are.
Begun ==
  /\ UNCHANGED <<issued, wallet, spent, shown, kept>> /\ state_lock = Free
  /\ build'.wallet = wallet /\ build'.kept = kept
  /\ build'.first = NoPass /\ build'.behind = NoPass

\* A build goes on.
Stepped(way) ==
  /\ state_lock # Free /\ state_lock' = state_lock
  /\ Redeemed(way)
  /\ shown' \subseteq shown \cup Direct(build) \cup Behind(build)
  /\ wallet' \in {wallet, build.wallet} /\ UNCHANGED <<kept, issued>>

\* Passes are bought, or one redeemed, with no build under way.
Traded ==
  /\ state_lock = Free /\ UNCHANGED <<state_lock, shown>>
  /\ wallet \subseteq wallet' \cup spent' /\ spent \subseteq spent'
  /\ issued' \subseteq issued \cup wallet'
  /\ \A p, w : WonIn(kept', p, w) =>
       WonIn(kept, p, w) \/ (w = "direct" /\ p \in spent' \ spent)

LEMMA LockStateBegins ==
    ASSUME Typed, Locking, NEW r \in Reqs, LockState(r)
    PROVE  /\ state_lock = Free /\ UNCHANGED <<wallet, kept, hist, spent, ks>>
           /\ \/ /\ Leave(r) /\ UNCHANGED <<active, build>> /\ Left(r) /\ state_lock' = Free
              \/ /\ state_lock' = r /\ active' = NoCircuit /\ Moved(r, "hold")
                 /\ ~stopping /\ ~req[r].stop /\ not_someone_elses(req[r].who)
                 /\ build' \in Build /\ build'.old = active
                 /\ build'.wallet = wallet /\ build'.kept = kept
                 /\ build'.first = NoPass /\ build'.behind = NoPass /\ ~build'.failed
<1>0. state_lock = Free /\ UNCHANGED <<wallet, kept, hist, spent, ks>>
  BY DEF LockState, files, machine
<1>1. CASE Leave(r) /\ UNCHANGED <<active, build>>
  BY <1>0, <1>1, LeaveLeft, ClientAssumption DEF Left
<1>2. ASSUME NEW p, build' = Started(r, active, p.entry, p.exit),
             state_lock' = r, active' = NoCircuit, Go(r, "hold"),
             ~stopping, ~req[r].stop, not_someone_elses(req[r].who)
      PROVE  /\ Moved(r, "hold")
             /\ build' \in Build /\ build'.old = active
             /\ build'.wallet = wallet /\ build'.kept = kept
             /\ build'.first = NoPass /\ build'.behind = NoPass /\ ~build'.failed
  <2>1. Moved(r, "hold")
    BY <1>2, GoMoves, Places DEF Typed
  <2>2. build' \in Build
    BY <1>2, ShapeLockState, ClientAssumption DEF Locking
  <2> QED BY <1>2, <2>1, <2>2 DEF Started
<1> QED BY <1>0, <1>1, <1>2, Zenon DEF LockState

LEMMA StepKinds ==
    ASSUME Typed, Locking, [Next]_vars
    PROVE  Aside \/ Over \/ Begun \/ Traded \/ \E way : Stepped(way)
<1>1. ASSUME NEW r \in Reqs, Ask(r) \/ ConnectPlan(r) \/ RotateAsk(r) \/ LockPocket(r)
                             \/ LockFile(r) \/ StopConnecting(r)
      PROVE  Aside
  BY <1>1 DEF Ask, ConnectPlan, RotateAsk, LockPocket, LockFile, StopConnecting, Aside,
     locks, files, hist
<1>2. ASSUME NEW r \in Reqs, Down(r) PROVE Aside
  BY <1>2 DEF Down, Aside, locks, files
<1>3. ASSUME NEW r \in Reqs, NoteUsed(r) PROVE Aside
  BY <1>3, ShapeNoteUsed DEF NoteUsed, Aside, locks, hist
<1>4. ASSUME NEW r \in Reqs, CheckHops(r) \/ RefillMay(r) \/ SendToken(r) PROVE Aside
  <2>1. UNCHANGED <<state_lock, build>>
    BY <1>4, ShapePasses
  <2> QED BY <1>4, <2>1 DEF CheckHops, RefillMay, SendToken, Aside, files, hist
<1>5. ASSUME NEW r \in Reqs, LockState(r) PROVE Over \/ Begun
  BY <1>5, LockStateBegins DEF Over, Begun, hist
<1>6. ASSUME NEW r \in Reqs, Untouched(r) PROVE Over
  BY <1>6, ShapeUntouched DEF Untouched, Over, Left, files, hist
<1>7. ASSUME NEW r \in Reqs, Finish(r) PROVE Over
  BY <1>7, ShapeFinish, ClientAssumption DEF Finish, Over, Left
<1>8. ASSUME NEW r \in Reqs, Hold(r) \/ PrepareFails(r) \/ SaveWallet(r) \/ Route(r) \/ Arm(r)
      PROVE  Stepped("none")
  BY <1>8, StepHold, StepPrepareFails, StepSaveWallet, StepRoute, StepArm, ClientAssumption
     DEF Step, Stepped
<1>9. ASSUME NEW r \in Reqs, PrepareFirst(r) PROVE Stepped("direct")
  BY <1>9, StepPrepareFirst, ClientAssumption DEF Step, Stepped
<1>10. ASSUME NEW r \in Reqs, PrepareBehind(r) PROVE Stepped("behind")
  BY <1>10, StepPrepareBehind, ClientAssumption DEF Step, Stepped
<1>11. ASSUME NEW r \in Reqs, GotPasses(r) PROVE Traded
  BY <1>11, ShapeGotPasses DEF GotPasses, Traded
<1>12. ASSUME NEW r \in Reqs, Join(r) PROVE Traded
  BY <1>12, ShapeJoin DEF Join, Traded
<1>13. ASSUME NEW n \in Nodes, Age(n) PROVE Aside
  BY <1>13, ShapeAge DEF Age, Aside, locks, hist
<1>14. ASSUME NEW r \in Reqs, Exit(r) PROVE Over
  BY <1>14 DEF Exit, Gone, Over, files, hist
<1>15. CASE Crash
  BY <1>15 DEF Crash, Gone, Over, files, hist
<1>16. CASE Start \/ UNCHANGED vars
  BY <1>16 DEF Start, vars, Aside, locks, files, hist
<1> QED BY <1>1, <1>2, <1>3, <1>4, <1>5, <1>6, <1>7, <1>8, <1>9, <1>10, <1>11, <1>12, <1>13,
          <1>14, <1>15, <1>16, Zenon DEF Next, Work

LEMMA HandsNext ==
    ASSUME Typed, Locking, HandsCovered, [Next]_vars
    PROVE  HandsCovered'
<1>1. CASE Aside
  BY <1>1 DEF HandsCovered, NoPassLost, Aside
<1>2. CASE Over
  BY <1>2 DEF HandsCovered, NoPassLost, Over
<1>3. CASE Begun
  BY <1>3 DEF HandsCovered, NoPassLost, Begun
<1>4. CASE Traded
  BY <1>4 DEF HandsCovered, NoPassLost, Traded
<1>5. ASSUME NEW way, Stepped(way) PROVE HandsCovered'
  BY <1>5 DEF HandsCovered, NoPassLost, Stepped, Redeemed
<1> QED BY <1>1, <1>2, <1>3, <1>4, <1>5, StepKinds

LEMMA WonNext ==
    ASSUME Typed, Locking, WonOneWay, [Next]_vars
    PROVE  WonOneWay'
<1> DEFINE Grown(way) ==
      /\ spent \subseteq spent'
      /\ \A p \in Passes, w \in Ways : Tied(p, w)' => Tied(p, w) \/ (w = way /\ p \in spent' \ spent)
<1>1. ASSUME Aside PROVE Grown("none")
  BY <1>1 DEF Aside, Tied
<1>2. ASSUME Over PROVE Grown("none")
  BY <1>2 DEF Over, Tied
<1>3. ASSUME Begun PROVE Grown("none")
  BY <1>3 DEF Begun, Tied
<1>4. ASSUME Traded PROVE Grown("direct")
  BY <1>4, ClientAssumption DEF Traded, Tied
<1>5. ASSUME NEW way, Stepped(way) PROVE Grown(way)
  BY <1>5 DEF Stepped, Redeemed, Tied, Direct, Behind, Ways
<1> HIDE DEF Grown
<1>6. \E way : Grown(way)
  BY <1>1, <1>2, <1>3, <1>4, <1>5, StepKinds
<1>7. PICK way : Grown(way)
  BY <1>6
<1> QED BY <1>7 DEF Grown, WonOneWay, Ways

-----------------------------------------------------------------------------
(* The account token.                                                      *)

\* A circuit is up or not, and nobody new may ask for passes.
LEMMA AskedKept ==
    ASSUME AskedSafely, UNCHANGED token_sent, active' \in {active, NoCircuit},
           \A c \in Reqs : req'[c].pc = "ask" => req[c].pc = "ask"
    PROVE  AskedSafely'
BY DEF AskedSafely, TokenNotThroughTwoHops, HopsUp, hops

LEMMA AskedNext ==
    ASSUME Typed, Locking, AskedSafely, [Next]_vars
    PROVE  AskedSafely'
<1>1. ASSUME NEW r \in Reqs, Ask(r) PROVE AskedSafely'
  BY <1>1, ShapeAsk, AskedKept DEF Ask, hist
<1>2. ASSUME NEW r \in Reqs, ConnectPlan(r) \/ RotateAsk(r) PROVE AskedSafely'
  <2>1. UNCHANGED <<token_sent, active>>
    BY <1>2 DEF ConnectPlan, RotateAsk, hist
  <2>2. \E pc \in {"done", "pocket"} : Moved(r, pc)
    BY <1>2, ShapeConnectPlan, ShapeRotateAsk
  <2> QED BY <2>1, <2>2, AskedKept DEF Moved
<1>3. ASSUME NEW r \in Reqs, LockPocket(r) \/ LockFile(r) \/ NoteUsed(r) PROVE AskedSafely'
  <2>1. \E pc \in {"file", "state", "done"} : Moved(r, pc)
    BY <1>3, GoMoves, DoneMoves, Places DEF LockPocket, LockFile, NoteUsed, Typed
  <2> QED BY <1>3, <2>1, AskedKept DEF LockPocket, LockFile, NoteUsed, hist, Moved
<1>4. ASSUME NEW r \in Reqs, LockState(r) PROVE AskedSafely'
  BY <1>4, LockStateBegins, AskedKept DEF hist, Left, Moved
<1>5. ASSUME NEW r \in Reqs, Untouched(r) \/ Finish(r) PROVE AskedSafely'
  <2>1. Left(r) /\ state_lock = r /\ UNCHANGED token_sent
    BY <1>5, ShapeUntouched, ShapeFinish DEF Untouched, Finish, hist
  <2>2. \A c \in Reqs : req'[c].pc # "ask"
    BY <2>1, Places DEF Locking, Left, Moved
  <2> QED BY <2>1, <2>2 DEF AskedSafely, TokenNotThroughTwoHops
<1>6. ASSUME NEW r \in Reqs, \E pc \in Building : Step(r, pc) PROVE AskedSafely'
  BY <1>6, Places, AskedKept DEF Step, Moved
<1>7. ASSUME NEW r \in Reqs, StopConnecting(r) PROVE AskedSafely'
  BY <1>7, ShapeStopConnecting, AskedKept DEF StopConnecting, hist
<1>8. ASSUME NEW r \in Reqs, Down(r) PROVE AskedSafely'
  BY <1>8, ShapeDown, AskedKept DEF Down, Moved
<1>9. ASSUME NEW r \in Reqs, CheckHops(r) \/ RefillMay(r) PROVE AskedSafely'
  <2>1. UNCHANGED <<token_sent, active>>
    BY <1>9 DEF CheckHops, RefillMay, hist
  <2>2. CASE Leave(r)
    BY <2>1, <2>2, LeaveLeft, AskedKept DEF Left, Moved
  <2>3. CASE ~Leave(r)
    <3>1. HopsUp # 2
      BY <1>9, <2>3 DEF CheckHops, RefillMay, refill_may_go
    <3> QED BY <2>1, <3>1 DEF AskedSafely, TokenNotThroughTwoHops, HopsUp
  <2> QED BY <2>2, <2>3
<1>10. ASSUME NEW r \in Reqs, SendToken(r) PROVE AskedSafely'
  <2>1. UNCHANGED active /\ req[r].pc = "ask"
    BY <1>10 DEF SendToken
  <2>2. HopsUp # 2 /\ state_lock = Free /\ build = NoBuild
    BY <2>1, Places DEF AskedSafely, Locking
  <2>3. CASE Leave(r) /\ UNCHANGED token_sent
    BY <2>1, <2>3, LeaveLeft, AskedKept DEF Left, Moved
  <2>4. CASE Go(r, "answer") /\ ~(req[r].cmd = "refill" /\ ~refill_may_go)
    <3>1. Moved(r, "answer")
      BY <2>4, GoMoves, Places DEF Typed
    <3>2. token_sent' = token_sent \cup {<<req[r].cmd, HopsUp>>}
      BY <1>10, <2>2, <2>4 DEF SendToken
    <3>3. req[r].cmd = "refill" => HopsUp = 1
      BY <2>4 DEF refill_may_go
    <3>4. TokenNotThroughTwoHops'
      BY <2>2, <3>2, <3>3 DEF AskedSafely, TokenNotThroughTwoHops
    <3>5. (\A c \in Reqs : req[c].pc = "ask" => HopsUp # 2)'
      BY <2>1, <2>2 DEF HopsUp
    <3> QED BY <3>4, <3>5 DEF AskedSafely
  <2> QED BY <1>10, <2>3, <2>4 DEF SendToken
<1>11. ASSUME NEW r \in Reqs, GotPasses(r) \/ Join(r) PROVE AskedSafely'
  BY <1>11, ShapeGotPasses, ShapeJoin, AskedKept DEF GotPasses, Join, Left, Moved
<1>12. ASSUME Gone, UNCHANGED <<files, hist>> PROVE AskedSafely'
  BY <1>12, ShapeGone, AskedKept DEF Gone, hist
<1>13. ASSUME NEW r \in Reqs, Exit(r) PROVE AskedSafely'
  BY <1>12, <1>13 DEF Exit
<1>14. CASE Crash
  BY <1>12, <1>14 DEF Crash
<1>15. ASSUME UNCHANGED <<req, active, token_sent>> PROVE AskedSafely'
  BY <1>15, AskedKept
<1>16. ASSUME Start \/ UNCHANGED vars \/ \E n \in Nodes : Age(n) PROVE AskedSafely'
  BY <1>15, <1>16 DEF Start, Age, vars, hist
<1> QED BY <1>1, <1>2, <1>3, <1>4, <1>5, <1>6, <1>7, <1>8, <1>9, <1>10, <1>11, <1>13, <1>14,
          <1>16, StepHold, StepPrepareFirst, StepPrepareFails, StepPrepareBehind,
          StepSaveWallet, StepRoute, StepArm, Places DEF Next, Work

-----------------------------------------------------------------------------
(* The kill switch.                                                        *)

\* A step of a request that builds nothing, and leaves the kill switch alone.
LEMMA HeldAside ==
    ASSUME Typed, Locking, HeldThroughBuild, UNCHANGED <<protect, ks, state_lock, build>>,
           state_lock # Free => req'[state_lock].pc = req[state_lock].pc
    PROVE  HeldThroughBuild'
BY DEF HeldThroughBuild, ProtectedUntilDown

\* No build is under way afterwards.
LEMMA HeldFree ==
    ASSUME state_lock' = Free, protect' => ks' # "open"
    PROVE  HeldThroughBuild'
BY DEF HeldThroughBuild, ProtectedUntilDown

\* A step of a build that was past its hold.
LEMMA HeldStep ==
    ASSUME Typed, Locking, HeldThroughBuild, NEW r \in Reqs, NEW pc, Step(r, pc),
           req[r].pc # "hold", build'.was_held = build.was_held,
           ks' = "open" => ks = "open",
           pc = "finish" => build'.failed \/ ks' = "armed"
    PROVE  HeldThroughBuild'
BY DEF HeldThroughBuild, ProtectedUntilDown, Step, Moved

LEMMA HeldNext ==
    ASSUME Typed, Locking, HeldThroughBuild, [Next]_vars
    PROVE  HeldThroughBuild'
<1>0. \A r \in Reqs : req[r].pc \notin Building => state_lock # r
  BY DEF Locking
<1>1. ASSUME NEW r \in Reqs, NEW pc, Moved(r, pc), req[r].pc \notin Building,
             UNCHANGED <<protect, ks, state_lock, build>>
      PROVE  HeldThroughBuild'
  BY <1>0, <1>1, HeldAside DEF Moved, Locking
<1>2. ASSUME NEW r \in Reqs, Ask(r) PROVE HeldThroughBuild'
  <2>1. state_lock # r /\ UNCHANGED <<protect, ks, state_lock, build>>
    BY <1>0, <1>2, Places, ShapeAsk DEF Ask, hist, machine, locks
  <2> QED BY <1>2, <2>1, ShapeAsk, HeldAside DEF Locking
<1>3. ASSUME NEW r \in Reqs, ConnectPlan(r) \/ RotateAsk(r) \/ NoteUsed(r) PROVE HeldThroughBuild'
  <2>1. req[r].pc \notin Building /\ UNCHANGED <<protect, ks, state_lock, build>>
    BY <1>3, Places DEF ConnectPlan, RotateAsk, NoteUsed, hist, machine, locks
  <2> QED BY <1>1, <1>3, <2>1, ShapeConnectPlan, ShapeRotateAsk, ShapeNoteUsed
<1>4. ASSUME NEW r \in Reqs, LockPocket(r) \/ LockFile(r) PROVE HeldThroughBuild'
  <2>1. req[r].pc \notin Building /\ UNCHANGED <<protect, ks, state_lock, build>>
    BY <1>4, Places DEF LockPocket, LockFile, hist, machine
  <2>2. \E pc : Moved(r, pc)
    BY <1>4, GoMoves, Places DEF LockPocket, LockFile, Typed
  <2> QED BY <1>1, <2>1, <2>2
<1>5. ASSUME NEW r \in Reqs, LockState(r) PROVE HeldThroughBuild'
  <2>1. state_lock = Free /\ UNCHANGED <<protect, ks>>
    BY <1>5, LockStateBegins DEF hist
  <2>2. CASE state_lock' = Free
    BY <2>1, <2>2, HeldFree DEF HeldThroughBuild, ProtectedUntilDown
  <2>3. CASE state_lock' = r /\ Moved(r, "hold")
    BY <2>1, <2>3 DEF HeldThroughBuild, ProtectedUntilDown, Moved
  <2> QED BY <1>5, <2>2, <2>3, LockStateBegins
<1>6. ASSUME NEW r \in Reqs, Untouched(r) PROVE HeldThroughBuild'
  BY <1>6, ShapeUntouched, HeldFree DEF Untouched, Left, machine, hist, HeldThroughBuild,
     ProtectedUntilDown
<1>7. ASSUME NEW r \in Reqs, Hold(r) PROVE HeldThroughBuild'
  <2>1. Step(r, "first") /\ (build'.was_held \/ build.old # NoCircuit \/ ks = "open")
    BY <1>7, StepHold
  <2>2. ks' = "open" => ks = "open"
    BY <1>7 DEF Hold
  <2> QED BY <2>1, <2>2 DEF Step, Moved, HeldThroughBuild, ProtectedUntilDown
<1>8. ASSUME NEW r \in Reqs, PrepareFirst(r) \/ PrepareFails(r) \/ PrepareBehind(r)
      PROVE  HeldThroughBuild'
  <2>1. req[r].pc \in {"first", "behind"}
    BY <1>8 DEF PrepareFirst, PrepareFails, PrepareBehind
  <2>2. /\ build'.was_held = build.was_held /\ \E pc \in {"behind", "save"} : Step(r, pc)
        /\ ks' \in {ks, "hold"}
    BY <1>8, StepPrepareFirst, StepPrepareFails, StepPrepareBehind
  <2> QED BY <2>1, <2>2, HeldStep
<1>9. ASSUME NEW r \in Reqs, SaveWallet(r) \/ Route(r) \/ Arm(r) PROVE HeldThroughBuild'
  <2>1. req[r].pc \in {"save", "route", "arm"}
    BY <1>9 DEF SaveWallet, Route, Arm
  <2>2. /\ build'.was_held = build.was_held
        /\ \E pc \in {"route", "arm", "finish"} :
             Step(r, pc) /\ (pc = "finish" => build'.failed \/ ks' = "armed")
        /\ ks' \in {ks, "armed"}
    BY <1>9, StepSaveWallet, StepRoute, StepArm
  <2> QED BY <2>1, <2>2, HeldStep
<1>10. ASSUME NEW r \in Reqs, Finish(r) PROVE HeldThroughBuild'
  <2>1. /\ state_lock = r /\ state_lock' = Free /\ req[r].pc = "finish" /\ r # Free
        /\ build \in Build
    BY <1>10, ShapeFinish, ClientAssumption DEF Left
  <2>2. /\ ks' = ks \/ (build.failed /\ build.old = NoCircuit /\ ~build.was_held)
        /\ protect' = (protect \/ ~build.failed)
    BY <1>10 DEF Finish
  <2>3. build.failed \in BOOLEAN
    BY <2>1 DEF Build
  <2>4. protect' => ks' # "open"
    BY <2>1, <2>2, <2>3 DEF HeldThroughBuild, ProtectedUntilDown
  <2> QED BY <2>1, <2>4, HeldFree
<1>11. ASSUME NEW r \in Reqs, StopConnecting(r) PROVE HeldThroughBuild'
  <2>1. state_lock # r /\ UNCHANGED <<protect, ks, state_lock, build>>
    BY <1>0, <1>11, Places DEF StopConnecting, hist, machine, locks
  <2> QED BY <1>11, <2>1, ShapeStopConnecting, HeldAside DEF Locking
<1>12. ASSUME NEW r \in Reqs, Down(r) PROVE HeldThroughBuild'
  <2>1. state_lock' = Free
    BY <1>12, ShapeDown
  <2>2. protect' => ks' # "open"
    BY <1>12 DEF Down, machine, HeldThroughBuild, ProtectedUntilDown
  <2> QED BY <2>1, <2>2, HeldFree
<1>13. ASSUME NEW r \in Reqs, CheckHops(r) \/ RefillMay(r) \/ SendToken(r) PROVE HeldThroughBuild'
  <2>1. UNCHANGED <<protect, ks>>
    BY <1>13 DEF CheckHops, RefillMay, SendToken, hist, machine
  <2>2. /\ UNCHANGED <<state_lock, build>> /\ req[r].pc \notin Building
        /\ \E pc : Moved(r, pc)
    BY <1>13, ShapePasses DEF Left
  <2> QED BY <1>1, <2>1, <2>2
<1>14. ASSUME NEW r \in Reqs, GotPasses(r) \/ Join(r) PROVE HeldThroughBuild'
  <2>1. state_lock' = Free
    BY <1>14, ShapeGotPasses, ShapeJoin
  <2>2. protect' => ks' # "open"
    BY <1>14 DEF GotPasses, Join, machine, HeldThroughBuild, ProtectedUntilDown
  <2> QED BY <2>1, <2>2, HeldFree
<1>15. ASSUME Gone, UNCHANGED <<machine, hist>> PROVE HeldThroughBuild'
  BY <1>15, HeldFree DEF Gone, machine, hist, HeldThroughBuild, ProtectedUntilDown
<1>16. ASSUME NEW r \in Reqs, Exit(r) PROVE HeldThroughBuild'
  BY <1>15, <1>16 DEF Exit
<1>17. CASE Crash
  BY <1>15, <1>17 DEF Crash
<1>18. ASSUME Start \/ UNCHANGED vars \/ \E n \in Nodes : Age(n) PROVE HeldThroughBuild'
  <2>1. UNCHANGED <<protect, ks, state_lock, build, req>>
    BY <1>18 DEF Start, Age, vars, hist, machine, locks
  <2> QED BY <2>1, HeldAside
<1> QED BY <1>2, <1>3, <1>4, <1>5, <1>6, <1>7, <1>8, <1>9, <1>10, <1>11, <1>12, <1>13, <1>14,
          <1>16, <1>17, <1>18, Zenon DEF Next, Work

-----------------------------------------------------------------------------
(* A `down` is final.                                                      *)

\* A request that moves on, and was not told to stop before it builds.
LEMMA EndedMove ==
    ASSUME StaysEnded, NEW r \in Reqs, NEW pc, Moved(r, pc), UNCHANGED ended,
           req[r].pc # "done", pc \notin {"idle", "down"},
           pc \in Building => req[r].pc \in Building \/ ~req[r].stop,
           active' # NoCircuit => active'.by \notin ended,
           state_lock' # Free /\ build'.old # NoCircuit => build'.old.by \notin ended
    PROVE  StaysEnded'
<1>1. DownIsFinal' /\ ended' \subseteq Reqs
  BY DEF StaysEnded, DownIsFinal
<1>2. ASSUME NEW d \in Reqs, req'[d].pc = "down", NEW c \in req'[d].stopped
      PROVE  req'[c].pc = "done" \/ (req'[c].stop /\ req'[c].pc # "idle")
  <2>1. d # r /\ req'[d] = req[d]
    BY <1>2 DEF Moved
  <2>2. req[c].pc = "done" \/ (req[c].stop /\ req[c].pc # "idle")
    BY <1>2, <2>1 DEF StaysEnded
  <2>3. CASE c \in Reqs
    BY <2>2, <2>3 DEF Moved
  <2>4. CASE c \notin Reqs
    BY <1>2, <2>4 DEF Moved, Request
  <2> QED BY <2>3, <2>4
<1>3. ASSUME NEW c \in ended' \cap Reqs
      PROVE  req'[c].pc = "done" \/ (req'[c].stop /\ req'[c].pc \notin Building \cup {"idle"})
  BY <1>3 DEF StaysEnded, Moved
<1> QED BY <1>1, <1>2, <1>3 DEF StaysEnded

LEMMA EndedNext ==
    ASSUME Typed, Locking, StaysEnded, [Next]_vars
    PROVE  StaysEnded'
<1>0. /\ active # NoCircuit => active.by \notin ended
      /\ state_lock # Free /\ build.old # NoCircuit => build.old.by \notin ended
  BY DEF StaysEnded, DownIsFinal
<1>1. ASSUME NEW r \in Reqs, Ask(r) PROVE StaysEnded'
  <2>1. /\ UNCHANGED <<ended, active, state_lock, build>> /\ req[r].pc = "idle"
        /\ req'[r].pc \notin {"down", "done"} /\ \A d \in Reqs \ {r} : req'[d] = req[d]
    BY <1>1, ShapeAsk DEF Ask, hist, locks
  <2>2. ASSUME NEW d \in Reqs, req'[d].pc = "down", NEW c \in req'[d].stopped
        PROVE  req'[c].pc = "done" \/ (req'[c].stop /\ req'[c].pc # "idle")
    <3>1. d # r /\ req'[d] = req[d] /\ c \in Reqs
      BY <2>1, <2>2 DEF Typed, Request
    <3> QED BY <2>1, <2>2, <3>1 DEF StaysEnded
  <2>3. \A c \in ended \cap Reqs : req'[c] = req[c]
    BY <2>1 DEF StaysEnded
  <2> QED BY <1>0, <2>1, <2>2, <2>3 DEF StaysEnded, DownIsFinal
<1>2. ASSUME NEW r \in Reqs, NEW pc, Moved(r, pc), UNCHANGED <<ended, active, state_lock, build>>,
             req[r].pc # "done", pc \notin {"idle", "down"}, pc \notin Building
      PROVE  StaysEnded'
  BY <1>0, <1>2, EndedMove
<1>3. ASSUME NEW r \in Reqs, ConnectPlan(r) \/ RotateAsk(r) \/ NoteUsed(r) PROVE StaysEnded'
  <2>1. UNCHANGED <<ended, active, state_lock, build>> /\ req[r].pc # "done"
    BY <1>3 DEF ConnectPlan, RotateAsk, NoteUsed, hist, locks
  <2> QED BY <1>2, <1>3, <2>1, Places, ShapeConnectPlan, ShapeRotateAsk, ShapeNoteUsed
<1>4. ASSUME NEW r \in Reqs, LockPocket(r) \/ LockFile(r) PROVE StaysEnded'
  <2>1. UNCHANGED <<ended, active, state_lock, build>> /\ req[r].pc # "done"
    BY <1>4 DEF LockPocket, LockFile, hist
  <2>2. \E pc \in {"file", "state"} : Moved(r, pc)
    BY <1>4, GoMoves, Places DEF LockPocket, LockFile, Typed
  <2> QED BY <1>2, <2>1, <2>2, Places
<1>5. ASSUME NEW r \in Reqs, LockState(r) PROVE StaysEnded'
  <2>1. UNCHANGED ended /\ req[r].pc # "done" /\ "hold" \notin {"idle", "down"}
    BY <1>5 DEF LockState, hist
  <2>2. CASE Left(r) /\ UNCHANGED active /\ state_lock' = Free
    BY <1>0, <2>1, <2>2, EndedMove, Places DEF Left
  <2>3. CASE Moved(r, "hold") /\ ~req[r].stop /\ active' = NoCircuit /\ build'.old = active
    BY <1>0, <2>1, <2>3, EndedMove
  <2> QED BY <1>5, <2>2, <2>3, LockStateBegins
<1>6. ASSUME NEW r \in Reqs, Untouched(r) PROVE StaysEnded'
  <2>1. /\ Left(r) /\ state_lock = r /\ r # Free /\ state_lock' = Free /\ UNCHANGED ended
        /\ active' = build.old /\ req[r].pc # "done"
    BY <1>6, ShapeUntouched, ClientAssumption DEF Untouched, Left, hist
  <2> QED BY <1>0, <2>1, EndedMove, Places DEF Left
<1>7. ASSUME NEW r \in Reqs, NEW pc \in Building, Step(r, pc), req[r].pc \in Building
      PROVE  StaysEnded'
  <2>1. /\ UNCHANGED <<ended, active, state_lock>> /\ build'.old = build.old /\ Moved(r, pc)
        /\ req[r].pc # "done" /\ pc \notin {"idle", "down"}
    BY <1>7, Places DEF Step, Building
  <2> QED BY <1>0, <1>7, <2>1, EndedMove
<1>8. ASSUME NEW r \in Reqs, Hold(r) \/ PrepareFirst(r) \/ PrepareFails(r) \/ PrepareBehind(r)
                             \/ SaveWallet(r) \/ Route(r) \/ Arm(r)
      PROVE  StaysEnded'
  <2>1. req[r].pc \in Building
    BY <1>8, Places DEF Hold, PrepareFirst, PrepareFails, PrepareBehind, SaveWallet, Route, Arm
  <2>2. \E pc \in Building : Step(r, pc)
    BY <1>8, Places, StepHold, StepPrepareFirst, StepPrepareFails, StepPrepareBehind,
       StepSaveWallet, StepRoute, StepArm
  <2> QED BY <1>7, <2>1, <2>2
<1>9. ASSUME NEW r \in Reqs, Finish(r) PROVE StaysEnded'
  <2>1. /\ Left(r) /\ state_lock = r /\ r # Free /\ state_lock' = Free /\ UNCHANGED ended
        /\ req[r].pc = "finish"
        /\ active' = IF build.failed THEN NoCircuit ELSE Rotated(r)
    BY <1>9, ShapeFinish, ClientAssumption DEF Left, Finish
  <2>2. r \notin ended
    BY <2>1, Places DEF StaysEnded
  <2>3. active' # NoCircuit => active'.by \notin ended
    BY <2>1, <2>2, ACircuit
  <2> QED BY <2>1, <2>3, EndedMove, Places DEF Left
<1>10. ASSUME NEW r \in Reqs, StopConnecting(r) PROVE StaysEnded'
  <2> DEFINE s == Stoppable(req[r].who)
  <2>1. /\ \A c \in Reqs \ {r} : req'[c].pc = req[c].pc /\ req'[c].stopped = req[c].stopped
                                /\ (req[c].stop => req'[c].stop)
        /\ req[r].pc = "stop" /\ req'[r].pc = "down" /\ req'[r].stopped = s
        /\ \A c \in s : c # r /\ req'[c].stop /\ c \in connecting
        /\ UNCHANGED <<ended, active, state_lock, build>>
    BY <1>10, ShapeStopConnecting DEF StopConnecting, hist, locks
  <2>2. connecting \subseteq Reqs /\ \A c \in connecting : req[c].pc # "idle"
    BY DEF Typed, Locking
  <2> HIDE DEF s
  <2>3. req'[r].stop = req[r].stop
    <3>1. req'[r] = [req[r] EXCEPT !.pc = "down", !.stopped = s]
      BY <1>10 DEF StopConnecting, s
    <3>2. req[r] \in Request
      BY DEF Typed
    <3> QED BY <3>1, <3>2 DEF Request
  <2>4. \A d \in Reqs : req[d].stopped \subseteq Reqs
    BY DEF Typed, Request
  <2>5. ASSUME NEW d \in Reqs, req'[d].pc = "down", NEW c \in req'[d].stopped
        PROVE  req'[c].pc = "done" \/ (req'[c].stop /\ req'[c].pc # "idle")
    <3>1. CASE d = r
      BY <2>1, <2>2, <2>5, <3>1
    <3>2. CASE d # r
      <4>1. c \in Reqs /\ (req[c].pc = "done" \/ (req[c].stop /\ req[c].pc # "idle"))
        BY <2>1, <2>4, <2>5, <3>2 DEF StaysEnded
      <4> QED BY <2>1, <2>3, <4>1
    <3> QED BY <3>1, <3>2
  <2>6. ASSUME NEW c \in ended \cap Reqs
        PROVE  req'[c].pc = "done" \/ (req'[c].stop /\ req'[c].pc \notin Building \cup {"idle"})
    <3>1. req[c].pc = "done" \/ (req[c].stop /\ req[c].pc \notin Building \cup {"idle"})
      BY DEF StaysEnded
    <3> QED BY <2>1, <2>3, <3>1, Places
  <2> QED BY <1>0, <2>1, <2>5, <2>6 DEF StaysEnded, DownIsFinal
<1>11. ASSUME NEW r \in Reqs, Down(r) PROVE StaysEnded'
  <2>1. /\ req[r].pc = "down" /\ state_lock = Free /\ state_lock' = Free
        /\ \E pc \in {"done", "note"} : Moved(r, pc)
    BY <1>11, ShapeDown
  <2>2. CASE UNCHANGED <<active, ended>>
    BY <1>0, <2>1, <2>2, EndedMove, Places
  <2>3. CASE active' = NoCircuit /\ ended' = ended \cup req[r].stopped
    <3>1. PICK pc \in {"done", "note"} : Moved(r, pc)
      BY <2>1
    <3>2. req[r].stopped \subseteq Reqs /\ \A d \in Reqs : req[d].stopped \subseteq Reqs
      BY DEF Typed, Request
    <3>3. \A c \in Reqs : req[c].pc \notin Building
      BY <2>1, ClientAssumption DEF Locking
    <3>4. ASSUME NEW d \in Reqs, req'[d].pc = "down", NEW c \in req'[d].stopped
          PROVE  req'[c].pc = "done" \/ (req'[c].stop /\ req'[c].pc # "idle")
      <4>1. d # r /\ req'[d] = req[d] /\ c \in Reqs
        BY <3>1, <3>2, <3>4 DEF Moved
      <4>2. req[c].pc = "done" \/ (req[c].stop /\ req[c].pc # "idle")
        BY <3>4, <4>1 DEF StaysEnded
      <4> QED BY <2>1, <3>1, <4>1, <4>2 DEF Moved
    <3>5. ASSUME NEW c \in ended'
          PROVE  c \in Reqs /\
                 (req'[c].pc = "done" \/ (req'[c].stop /\ req'[c].pc \notin Building \cup {"idle"}))
      <4>1. c \in Reqs /\ (req[c].pc = "done" \/ (req[c].stop /\ req[c].pc \notin Building \cup {"idle"}))
        BY <2>1, <2>3, <3>2, <3>3, <3>5 DEF StaysEnded
      <4> QED BY <2>1, <3>1, <4>1, Places DEF Moved
    <3> QED BY <2>1, <2>3, <3>4, <3>5 DEF StaysEnded, DownIsFinal
  <2> QED BY <1>11, <2>2, <2>3 DEF Down
<1>12. ASSUME NEW r \in Reqs, CheckHops(r) \/ RefillMay(r) \/ SendToken(r) PROVE StaysEnded'
  <2>1. UNCHANGED <<ended, active>> /\ req[r].pc # "done"
    BY <1>12 DEF CheckHops, RefillMay, SendToken, hist
  <2>2. /\ UNCHANGED <<state_lock, build>>
        /\ \E pc \in {"done", "ask", "answer", "pocket"} : Moved(r, pc)
    BY <1>12, ShapePasses DEF Left
  <2> QED BY <1>2, <2>1, <2>2, Places
<1>13. ASSUME NEW r \in Reqs, GotPasses(r) \/ Join(r) PROVE StaysEnded'
  <2>1. UNCHANGED <<ended, active>> /\ req[r].pc # "done"
    BY <1>13 DEF GotPasses, Join
  <2>2. UNCHANGED <<state_lock, build>> /\ Moved(r, "done")
    BY <1>13, ShapeGotPasses, ShapeJoin DEF Left
  <2> QED BY <1>2, <2>1, <2>2, Places
<1>14. ASSUME Gone, UNCHANGED <<files, hist>> PROVE StaysEnded'
  <2>1. /\ active' = NoCircuit /\ state_lock' = Free /\ UNCHANGED ended
        /\ \A r \in Reqs : req'[r].pc = "done" \/ req'[r] = req[r]
    BY <1>14, ShapeGone DEF Gone, hist
  <2>2. \A d \in Reqs : req[d].stopped \subseteq Reqs
    BY DEF Typed, Request
  <2>3. ASSUME NEW d \in Reqs, req'[d].pc = "down", NEW c \in req'[d].stopped
        PROVE  req'[c].pc = "done" \/ (req'[c].stop /\ req'[c].pc # "idle")
    <3>1. req'[d] = req[d] /\ c \in Reqs
      BY <2>1, <2>2, <2>3
    <3> QED BY <2>1, <2>3, <3>1 DEF StaysEnded
  <2> QED BY <2>1, <2>3 DEF StaysEnded, DownIsFinal
<1>15. ASSUME NEW r \in Reqs, Exit(r) PROVE StaysEnded'
  BY <1>14, <1>15 DEF Exit
<1>16. CASE Crash
  BY <1>14, <1>16 DEF Crash
<1>17. ASSUME Start \/ UNCHANGED vars \/ \E n \in Nodes : Age(n) PROVE StaysEnded'
  <2>1. UNCHANGED <<ended, active, state_lock, build, req>>
    BY <1>17 DEF Start, Age, vars, hist, locks
  <2> QED BY <2>1 DEF StaysEnded, DownIsFinal
<1> QED BY <1>1, <1>3, <1>4, <1>5, <1>6, <1>8, <1>9, <1>10, <1>11, <1>12, <1>13,
          <1>15, <1>16, <1>17, Zenon DEF Next, Work

-----------------------------------------------------------------------------
(* The results.                                                            *)

LEMMA ClientInvInit == Init => ClientInv
<1> SUFFICES ASSUME Init PROVE ClientInv
  OBVIOUS
<1>1. \A r \in Reqs : req[r].pc = "idle"
  BY DEF Init, Idle
<1>2. HandsCovered
  BY DEF Init, HandsCovered, NoPassLost
<1>3. AskedSafely
  BY <1>1 DEF Init, AskedSafely, TokenNotThroughTwoHops
<1>4. WonOneWay
  BY DEF Init, WonOneWay, Tied, WonIn
<1>5. HeldThroughBuild
  BY DEF Init, HeldThroughBuild, ProtectedUntilDown
<1>6. StaysEnded
  BY <1>1 DEF Init, StaysEnded, DownIsFinal
<1> QED BY <1>2, <1>3, <1>4, <1>5, <1>6, ShapeInit DEF ClientInv

LEMMA ClientInvNext == ClientInv /\ [Next]_vars => ClientInv'
BY ShapeNext, HandsNext, AskedNext, WonNext, HeldNext, EndedNext DEF ClientInv

\* The requests' shape, the locks, and all that the results below rest on, hold
\* in every state of the service.
THEOREM ClientInvHolds == Spec => []ClientInv
BY ClientInvInit, ClientInvNext, PTL DEF Spec

\* From the moment a circuit came up until a `down` the machine is never open,
\* through rotations, failed builds, crashes and restarts, and a circuit that a
\* `down` had stopped is not up afterwards: for any number of requests,
\* accounts and failures (daemon.rs, build and down_for).
THEOREM StaysProtected == Spec => []ProtectedAsAsked
<1>1. ClientInv => ProtectedAsAsked
  BY DEF ClientInv, HeldThroughBuild, StaysEnded, ProtectedAsAsked
<1> QED BY <1>1, ClientInvHolds, PTL

\* The account token never leaves through two hops, and no tunnel shows one
\* key both from this address and behind an entry (daemon.rs: get_passes,
\* two_hops_up, refill_once and build).
THEOREM StaysUnlinked == Spec => []NothingLinked
<1>1. ASSUME ClientInv PROVE NothingLinked
  <2>1. TokenNotThroughTwoHops
    BY <1>1 DEF ClientInv, AskedSafely
  <2>2. TunnelKeysUnlinked
    BY <1>1 DEF ClientInv, WonOneWay, Tied, TunnelKeysUnlinked
  <2> QED BY <2>1, <2>2 DEF NothingLinked
<1> QED BY <1>1, ClientInvHolds, PTL

\* A pass that was written down stays in the wallet until its node has taken or
\* refused it, whatever build, failed write or crash comes between (daemon.rs,
\* build, with the wallet of passes.rs).
THEOREM NoPassIsLost == Spec => []NoPassLost
<1>1. ClientInv => NoPassLost
  BY DEF ClientInv, HandsCovered
<1> QED BY <1>1, ClientInvHolds, PTL

\* Of the requests not answered yet, some request waits for no lock: whoever
\* holds the last lock taken goes on (daemon.rs: up, get_passes, refill_once,
\* build and down_for).
THEOREM SomebodyGoesOn == Spec => []NobodyStuck
<1>1. ASSUME ClientInv PROVE NobodyStuck
  <2> SUFFICES ASSUME NEW b \in Reqs, req[b].pc \notin {"idle", "done"}
               PROVE  \E r \in Reqs : req[r].pc \notin {"idle", "done"} /\ ~Waits(r)
    BY DEF NobodyStuck
  <2>0. Locking
    BY <1>1 DEF ClientInv
  <2>1. CASE state_lock # Free
    <3>1. state_lock \in Reqs /\ req[state_lock].pc \in Building
      BY <2>0, <2>1 DEF Locking
    <3> QED BY <3>1 DEF Building, Waits
  <2>2. CASE state_lock = Free /\ file_lock # Free
    <3>1. file_lock \in Reqs /\ req[file_lock].pc \in HasFile
      BY <2>0, <2>2 DEF Locking
    <3> QED BY <2>2, <3>1 DEF HasFile, Building, Waits
  <2>3. CASE state_lock = Free /\ file_lock = Free /\ pocket_lock # Free
    <3>1. pocket_lock \in Reqs /\ req[pocket_lock].pc \in HasPocket
      BY <2>0, <2>3 DEF Locking
    <3> QED BY <2>3, <3>1 DEF HasPocket, HasFile, Building, Waits
  <2>4. CASE state_lock = Free /\ file_lock = Free /\ pocket_lock = Free
    BY <2>4 DEF Waits
  <2> QED BY <2>1, <2>2, <2>3, <2>4
<1> QED BY <1>1, ClientInvHolds, PTL

\* Only its owner or root ends or replaces a circuit, however many accounts ask
\* (daemon.rs: owned_by, not_someone_elses, build and down_for).
THEOREM OwnersCircuitIsKept == Spec => OwnersCircuitKept
<1>1. ASSUME Typed, Locking, Next, NEW r \in Reqs,
             active # NoCircuit, active # active', running',
             req[r].pc \in {"state", "down"}, req'[r].pc # req[r].pc
      PROVE  req[r].who \in {Root, active.owner}
  <2>1. ASSUME NEW q \in Reqs, LockState(q) PROVE req[r].who \in {Root, active.owner}
    BY <1>1, <2>1, LockStateBegins DEF not_someone_elses, Moved
  <2>2. ASSUME NEW q \in Reqs, Down(q) PROVE req[r].who \in {Root, active.owner}
    <3>1. r = q
      BY <1>1, <2>2, ShapeDown DEF Moved
    <3>2. not_someone_elses(req[q].who)
      BY <1>1, <2>2 DEF Down
    <3> QED BY <1>1, <3>1, <3>2 DEF not_someone_elses
  <2>3. ASSUME NEW q \in Reqs, Untouched(q) \/ Finish(q) PROVE FALSE
    <3>1. Left(q) /\ req[q].pc \in {"hold", "finish"}
      BY <1>1, <2>3, ShapeUntouched, ShapeFinish DEF Untouched, Finish
    <3> QED BY <1>1, <3>1 DEF Left, Moved
  <2>4. ASSUME NEW q \in Reqs,
               \/ Ask(q) \/ ConnectPlan(q) \/ RotateAsk(q) \/ LockPocket(q) \/ LockFile(q)
               \/ StopConnecting(q) \/ NoteUsed(q) \/ CheckHops(q) \/ RefillMay(q)
               \/ SendToken(q) \/ GotPasses(q) \/ Join(q)
        PROVE  FALSE
    BY <1>1, <2>4 DEF Ask, ConnectPlan, RotateAsk, LockPocket, LockFile, StopConnecting,
       NoteUsed, CheckHops, RefillMay, SendToken, GotPasses, Join
  <2>5. ASSUME NEW q \in Reqs,
               \/ Hold(q) \/ PrepareFirst(q) \/ PrepareFails(q) \/ PrepareBehind(q)
               \/ SaveWallet(q) \/ Route(q) \/ Arm(q)
        PROVE  FALSE
    BY <1>1, <2>5 DEF Hold, PrepareFirst, PrepareFails, PrepareBehind, SaveWallet, Route, Arm
  <2>6. ASSUME NEW q \in Reqs, Exit(q) PROVE FALSE
    BY <1>1, <2>6 DEF Exit, Gone
  <2>7. ASSUME Crash \/ Start \/ \E n \in Nodes : Age(n) PROVE FALSE
    BY <1>1, <2>7 DEF Crash, Gone, Start, Age
  <2> QED BY <1>1, <2>1, <2>2, <2>3, <2>4, <2>5, <2>6, <2>7, Zenon DEF Next, Work
<1>2. ClientInv /\ [Next]_vars =>
        [\A r \in Reqs :
           /\ active # NoCircuit /\ active # active' /\ running'
           /\ req[r].pc \in {"state", "down"} /\ req'[r].pc # req[r].pc
           => req[r].who \in {Root, active.owner}]_vars
  BY <1>1 DEF ClientInv
<1> QED BY <1>2, ClientInvHolds, PTL DEF Spec, OwnersCircuitKept

-----------------------------------------------------------------------------
(* RelayBroker.                                                              *)

LEMMA GreatestIs ==
  ASSUME NEW n \in Nat, NEW S, S \subseteq 1..n, NEW x \in S, \A i \in S : i <= x
  PROVE  Max(S) = x
<1>1. Max(S) \in S /\ \A i \in S : i <= Max(S)
  BY GreatestUpTo
<1>2. Max(S) <= x /\ x <= Max(S)
  BY <1>1
<1>3. Max(S) \in 1..n /\ x \in 1..n
  BY <1>1
<1> HIDE DEF Max
<1>4. \A a, b \in 1..n : a <= b /\ b <= a => a = b
  OBVIOUS
<1> QED BY <1>2, <1>3, <1>4

\* What a page has after two stretches of frames is what it has after the
\* second, coming from the first.
LEMMA AfterBoth ==
  ASSUME NEW F, NEW s \in Seq(F), NEW u \in Seq(F), NEW was, NEW t, NEW h
  PROVE  known_after(was, s \o u, t, h) = known_after(known_after(was, s, t, h), u, t, h)
<1> DEFINE m == Len(s)
           n == Len(u)
           w == s \o u
           S == telling(s, t, h)
           U == telling(u, t, h)
           W == telling(w, t, h)
<1>1. /\ m \in Nat /\ n \in Nat /\ DOMAIN s = 1..m /\ DOMAIN u = 1..n /\ DOMAIN w = 1..(m + n)
      /\ \A i \in 1..m : w[i] = s[i]
      /\ \A i \in 1..n : w[m + i] = u[i]
  <2>1. m \in Nat /\ n \in Nat /\ DOMAIN s = 1..m /\ DOMAIN u = 1..n
    BY LenProperties
  <2>2. w \in Seq(F) /\ Len(w) = m + n /\ \A i \in 1..(m + n) : w[i] = IF i <= m THEN s[i] ELSE u[i - m]
    BY ConcatProperties
  <2> HIDE DEF m, n, w
  <2>3. DOMAIN w = 1..(m + n)
    BY <2>2, LenProperties
  <2>4. \A i \in 1..m : w[i] = s[i]
    BY <2>1, <2>2
  <2>5. ASSUME NEW i \in 1..n PROVE w[m + i] = u[i]
    <3>1. m + i \in 1..(m + n) /\ ~(m + i <= m) /\ (m + i) - m = i
      BY <2>1
    <3> QED BY <2>2, <3>1
  <2> QED BY <2>1, <2>3, <2>4, <2>5
<1> HIDE DEF m, n, w
<1>2. S \subseteq 1..m /\ U \subseteq 1..n /\ W \subseteq 1..(m + n)
  BY <1>1 DEF telling
<1>3. \A i \in 1..m : i \in W <=> i \in S
  BY <1>1 DEF telling
<1>4. \A i \in 1..n : m + i \in W <=> i \in U
  BY <1>1 DEF telling
<1>5. \A i \in W : i \in S \/ \E j \in U : i = m + j
  <2> SUFFICES ASSUME NEW i \in W, ~(i \in 1..m) PROVE \E j \in U : i = m + j
    BY <1>3
  <2>1. i - m \in 1..n /\ i = m + (i - m)
    BY <1>1, <1>2
  <2> QED BY <1>4, <2>1
<1>6. /\ known_after(was, w, t, h) = IF W = {} THEN was ELSE told(w[Max(W)], h)
      /\ known_after(was, s, t, h) = IF S = {} THEN was ELSE told(s[Max(S)], h)
      /\ \A x : known_after(x, u, t, h) = IF U = {} THEN x ELSE told(u[Max(U)], h)
  BY DEF known_after
<1> HIDE DEF S, U, W
<1>7. CASE U # {}
  <2>1. Max(U) \in U /\ \A i \in U : i <= Max(U)
    BY <1>1, <1>2, <1>7, GreatestUpTo
  <2>2. Max(U) \in 1..n /\ m + Max(U) \in W
    BY <1>2, <1>4, <2>1
  <2>3. \A i \in W : i <= m + Max(U)
    <3> SUFFICES ASSUME NEW i \in W PROVE i <= m + Max(U)
      OBVIOUS
    <3>1. CASE i \in S
      BY <1>1, <1>2, <2>2, <3>1
    <3>2. CASE \E j \in U : i = m + j
      BY <1>1, <1>2, <2>1, <2>2, <3>2
    <3> QED BY <1>5, <3>1, <3>2
  <2>4. Max(W) = m + Max(U)
    <3>1. m + n \in Nat
      BY <1>1
    <3> QED BY <1>2, <2>2, <2>3, <3>1, GreatestIs
  <2>5. w[Max(W)] = u[Max(U)]
    BY <1>1, <2>2, <2>4
  <2> QED BY <1>6, <1>7, <2>2, <2>5 DEF w
<1>8. CASE U = {}
  <2>1. W = S
    BY <1>2, <1>3, <1>5, <1>8, <1>1
  <2>2. S # {} => Max(S) \in 1..m
    BY <1>1, <1>2, GreatestUpTo
  <2>3. S # {} => w[Max(W)] = s[Max(S)]
    BY <1>1, <2>1, <2>2
  <2> QED BY <1>6, <1>8, <2>1, <2>3 DEF w
<1> QED BY <1>7, <1>8

LEMMA AfterNothing ==
  \A was, t, h : known_after(was, <<>>, t, h) = was
<1> SUFFICES ASSUME NEW was, NEW t, NEW h PROVE known_after(was, <<>>, t, h) = was
  OBVIOUS
<1>1. telling(<<>>, t, h) = {}
  BY DEF telling
<1> QED BY <1>1 DEF known_after

\* Frames that do not tell of a topic leave what is known of it.
LEMMA AfterSilence ==
  ASSUME NEW s, NEW was, NEW t, NEW h, \A i \in DOMAIN s : ~tells(s[i], t, h)
  PROVE  known_after(was, s, t, h) = was
<1>1. telling(s, t, h) = {}
  BY DEF telling
<1> QED BY <1>1 DEF known_after

\* What is known last is what some frame that tells says, if one does.
LEMMA AfterSome ==
  ASSUME NEW F, NEW s \in Seq(F), NEW was, NEW t, NEW h
  PROVE  /\ telling(s, t, h) = {} => known_after(was, s, t, h) = was
         /\ telling(s, t, h) # {} => \E i \in telling(s, t, h) : known_after(was, s, t, h) = told(s[i], h)
<1> DEFINE S == telling(s, t, h)
<1>1. Len(s) \in Nat /\ DOMAIN s = 1..Len(s)
  BY LenProperties
<1>2. S \subseteq 1..Len(s)
  BY <1>1 DEF telling
<1>3. known_after(was, s, t, h) = IF S = {} THEN was ELSE told(s[Max(S)], h)
  BY DEF known_after
<1> HIDE DEF S
<1>4. S # {} => Max(S) \in S
  BY <1>1, <1>2, GreatestUpTo
<1> QED BY <1>3, <1>4 DEF S

LEMMA AfterOne ==
  ASSUME NEW f, NEW was, NEW t, NEW h
  PROVE  known_after(was, <<f>>, t, h) = IF tells(f, t, h) THEN told(f, h) ELSE was
<1> DEFINE u == <<f>>
           S == telling(u, t, h)
<1>1. DOMAIN u = 1..1 /\ u[1] = f
  OBVIOUS
<1> HIDE DEF u
<1>2. S \subseteq 1..1 /\ (1 \in S <=> tells(f, t, h))
  BY <1>1 DEF telling
<1>3. known_after(was, u, t, h) = IF S = {} THEN was ELSE told(u[Max(S)], h)
  BY DEF known_after
<1> HIDE DEF S
<1>4. CASE tells(f, t, h)
  <2>1. 1 \in S /\ S # {} /\ \A i \in S : i = 1
    BY <1>2, <1>4
  <2>2. Max(S) \in S
    BY <1>2, <2>1, GreatestUpTo
  <2>3. Max(S) = 1
    BY <2>1, <2>2
  <2> QED BY <1>1, <1>3, <1>4, <2>1, <2>3 DEF u
<1>5. CASE ~tells(f, t, h)
  <2>1. S = {}
    BY <1>2, <1>5
  <2> QED BY <1>3, <1>5, <2>1 DEF u
<1> QED BY <1>4, <1>5

LEMMA AfterLast ==
  ASSUME NEW F, NEW s \in Seq(F), NEW f \in F, NEW was, NEW t, NEW h
  PROVE  known_after(was, Append(s, f), t, h) = IF tells(f, t, h) THEN told(f, h) ELSE known_after(was, s, t, h)
<1>1. Append(s, f) = s \o <<f>> /\ <<f>> \in Seq(F)
  BY AppendIsConcat
<1>2. known_after(was, s \o <<f>>, t, h) = known_after(known_after(was, s, t, h), <<f>>, t, h)
  <2> DEFINE u == <<f>>
  <2>1. u \in Seq(F)
    BY <1>1
  <2> HIDE DEF u
  <2>2. known_after(was, s \o u, t, h) = known_after(known_after(was, s, t, h), u, t, h)
    BY <2>1, AfterBoth
  <2> QED BY <2>2 DEF u
<1> QED BY <1>1, <1>2, AfterOne

LEMMA AfterFirst ==
  ASSUME NEW F, NEW s \in Seq(F), s # <<>>, NEW was, NEW t, NEW h
  PROVE  known_after(was, s, t, h) = known_after(IF tells(Head(s), t, h) THEN told(Head(s), h) ELSE was, Tail(s), t, h)
<1>1. s = <<Head(s)>> \o Tail(s) /\ <<Head(s)>> \in Seq(F) /\ Tail(s) \in Seq(F)
  <2>1. Head(s) \in F /\ Tail(s) \in Seq(F)
    BY HeadTailProperties
  <2>2. s = <<Head(s)>> \o Tail(s)
    OBVIOUS
  <2> QED BY <2>1, <2>2
<1>2. known_after(was, <<Head(s)>> \o Tail(s), t, h) = known_after(known_after(was, <<Head(s)>>, t, h), Tail(s), t, h)
  <2> DEFINE u == <<Head(s)>>
             w == Tail(s)
  <2>1. u \in Seq(F) /\ w \in Seq(F)
    BY <1>1
  <2> HIDE DEF u, w
  <2>2. known_after(was, u \o w, t, h) = known_after(known_after(was, u, t, h), w, t, h)
    BY <2>1, AfterBoth
  <2> QED BY <2>2 DEF u, w
<1>3. known_after(was, <<Head(s)>>, t, h) = IF tells(Head(s), t, h) THEN told(Head(s), h) ELSE was
  BY AfterOne
<1> QED BY <1>1, <1>2, <1>3
\* An element of two sequences joined is one of the first or of the second.
LEMMA PartOfBoth ==
  ASSUME NEW F, NEW s \in Seq(F), NEW u \in Seq(F)
  PROVE  \A i \in DOMAIN (s \o u) :
            (\E j \in DOMAIN s : (s \o u)[i] = s[j]) \/ (\E j \in DOMAIN u : (s \o u)[i] = u[j])
<1> DEFINE w == s \o u
<1>1. /\ Len(s) \in Nat /\ Len(u) \in Nat /\ DOMAIN s = 1..Len(s) /\ DOMAIN u = 1..Len(u)
  BY LenProperties
<1>2. /\ w \in Seq(F) /\ Len(w) = Len(s) + Len(u)
      /\ \A i \in 1..(Len(s) + Len(u)) : w[i] = IF i <= Len(s) THEN s[i] ELSE u[i - Len(s)]
  BY ConcatProperties
<1> HIDE DEF w
<1>3. DOMAIN w = 1..(Len(s) + Len(u))
  BY <1>2, LenProperties
<1>4. ASSUME NEW i \in 1..(Len(s) + Len(u))
      PROVE  (\E j \in DOMAIN s : w[i] = s[j]) \/ (\E j \in DOMAIN u : w[i] = u[j])
  <2>1. CASE i <= Len(s)
    <3>1. i \in DOMAIN s
      BY <1>1, <2>1
    <3> QED BY <1>2, <2>1, <3>1
  <2>2. CASE ~(i <= Len(s))
    <3>1. i - Len(s) \in DOMAIN u
      BY <1>1, <2>2
    <3> QED BY <1>2, <2>2, <3>1
  <2> QED BY <2>1, <2>2
<1> QED BY <1>3, <1>4 DEF w

-----------------------------------------------------------------------------
Plain == [topic : Topics \cup {""}, kept : {FALSE}, payload : 0..Live]
Lookups == {Retained(t) : t \in Topics}
Frames == Plain \cup Lookups
Writes == [topic : Topics, kept : {FALSE}, payload : 0..MaxPublishes]

Asked(c, t) == \E f \in filters[c] : matches(f, t)
Silent(s, t) == \A i \in DOMAIN s : s[i].topic # t
\* Nothing of a topic the page did not ask for is on its way to it.
Quiet(c, t) ==
  /\ view[c][t] = Nothing /\ t \notin owed[c]
  /\ Silent(outbox[c], t) /\ Silent(pending[c], t) /\ Silent(deferred[c], t)

LineTyped(c) ==
  /\ conn[c] \in {"out", "new", "loop", "reply"}
  /\ filters[c] \subseteq Filters /\ owed[c] \subseteq Topics
  /\ outbox[c] \in Seq(Plain) /\ Len(outbox[c]) <= OUTBOUND_QUEUE
  /\ pending[c] \in Seq(Frames) /\ deferred[c] \in Seq(Plain)
  /\ view[c] \in [Topics -> 0..MaxPublishes]

\* Where a connection is in its life says what may wait for it.
LineShape(c) ==
  /\ conn[c] \in {"out", "new"} =>
        /\ c \notin entry /\ c \notin filling /\ c \notin left /\ view[c] = NoneKept /\ owed[c] = {}
        /\ outbox[c] = <<>> /\ pending[c] = <<>> /\ deferred[c] = <<>>
  /\ c \notin entry => filters[c] = {} /\ c \notin fill
  /\ owed[c] # {} => conn[c] = "reply"
  /\ c \in entry => (c \in fill <=> c \in filling)
  /\ c \in entry /\ c \notin fill => pending[c] = <<>> /\ owed[c] = {} /\ deferred[c] = <<>>

\* A page that asked for a topic will hold what the relay keeps of it; of the
\* others it has nothing.
LineTold(c) ==
  c \in entry /\ c \notin left =>
    \A t \in Topics : IF Asked(c, t) THEN t \notin swept => comes(c, t) = retained[t] ELSE Quiet(c, t)

LineSound(c) == LineTyped(c) /\ LineShape(c) /\ LineTold(c)

RbTyped ==
  /\ DOMAIN conn = RbClients /\ DOMAIN filters = RbClients /\ DOMAIN deferred = RbClients
  /\ DOMAIN pending = RbClients /\ DOMAIN owed = RbClients /\ DOMAIN outbox = RbClients
  /\ DOMAIN view = RbClients /\ DOMAIN by_filter = Filters /\ entry \subseteq RbClients
  /\ retained \in [Topics -> 0..MaxPublishes] /\ onDisk \in [Topics -> 0..MaxPublishes]
  /\ writes \in Seq(Writes) /\ batch \in Seq(Writes) /\ store \in {"open", "broken", "taken"} /\ pubs \in Nat

RbSound == RbTyped /\ DiskFollows /\ RegistersAgree /\ \A c \in RbClients : LineSound(c)

\* Nothing of a connection changed.
SameLine(c) ==
  /\ conn'[c] = conn[c] /\ (c \in entry' <=> c \in entry) /\ filters'[c] = filters[c]
  /\ (c \in fill' <=> c \in fill) /\ (c \in filling' <=> c \in filling) /\ (c \in left' <=> c \in left)
  /\ deferred'[c] = deferred[c] /\ pending'[c] = pending[c] /\ owed'[c] = owed[c]
  /\ outbox'[c] = outbox[c] /\ view'[c] = view[c]

LEMMA LineStays ==
  ASSUME NEW c, LineSound(c), SameLine(c), UNCHANGED <<retained, swept>>
  PROVE  LineSound(c)'
<1>1. LineTyped(c)'
  BY DEF LineSound, LineTyped, SameLine
<1>2. LineShape(c)'
  BY DEF LineSound, LineShape, SameLine
<1>3. LineTold(c)'
  <2> SUFFICES ASSUME c \in entry', c \notin left', NEW t \in Topics
               PROVE (IF Asked(c, t) THEN t \notin swept => comes(c, t) = retained[t] ELSE Quiet(c, t))'
    BY DEF LineTold
  <2>1. IF Asked(c, t) THEN t \notin swept => comes(c, t) = retained[t] ELSE Quiet(c, t)
    BY DEF LineSound, LineTold, SameLine
  <2>2. Asked(c, t)' <=> Asked(c, t)
    BY DEF Asked, SameLine
  <2>3. comes(c, t)' = comes(c, t) /\ retained'[t] = retained[t] /\ (t \in swept' <=> t \in swept)
    BY DEF comes, SameLine
  <2>4. Quiet(c, t)' <=> Quiet(c, t)
    BY DEF Quiet, SameLine
  <2> QED BY <2>1, <2>2, <2>3, <2>4
<1> QED BY <1>1, <1>2, <1>3 DEF LineSound

\* One connection's step leaves the lines of the others.
LEMMA OneLine ==
  ASSUME RbSound, NEW c \in RbClients, \A d \in RbClients : d # c => SameLine(d),
         UNCHANGED <<retained, swept>>, LineSound(c)'
  PROVE  \A d \in RbClients : LineSound(d)'
<1> SUFFICES ASSUME NEW d \in RbClients PROVE LineSound(d)'
  OBVIOUS
<1>1. CASE d = c
  BY <1>1
<1>2. CASE d # c
  BY <1>2, LineStays DEF RbSound
<1> QED BY <1>1, <1>2

LEMMA FrameTyped ==
  /\ \A t \in Topics : \A p \in 0..Live : Frame(t, p) \in Plain
  /\ \A t \in Topics : \A p \in 0..MaxPublishes : Frame(t, p) \in Writes /\ Frame(t, p) \in Plain
  /\ Control \in Plain
  /\ \A f \in Frames : f \in Plain \/ f.kept
  /\ \A f \in Plain : f.kept = FALSE
  /\ Plain \subseteq Frames /\ MaxPublishes \in Nat /\ Live = MaxPublishes + 1
  /\ 0..MaxPublishes \subseteq 0..Live /\ Live \notin 0..MaxPublishes /\ Nothing \in 0..MaxPublishes
<1>1. MaxPublishes \in Nat /\ Live = MaxPublishes + 1 /\ Nothing = 0
  BY RelayConstants DEF Live, Nothing
<1>2. 0..MaxPublishes \subseteq 0..Live /\ Live \notin 0..MaxPublishes /\ Nothing \in 0..MaxPublishes
  BY <1>1
<1>3. \A t \in Topics \cup {""} : \A p \in 0..Live : Frame(t, p) \in Plain
  BY DEF Frame, Plain
<1>4. \A t \in Topics : \A p \in 0..MaxPublishes : Frame(t, p) \in Writes
  BY DEF Frame, Writes
<1>5. Control \in Plain
  BY <1>2, <1>3 DEF Control
<1>6. \A f \in Frames : f \in Plain \/ f.kept
  BY DEF Frames, Lookups, Retained
<1>7. \A f \in Plain : f.kept = FALSE
  BY DEF Plain
<1>8. Plain \subseteq Frames
  BY DEF Frames
<1> QED BY <1>1, <1>2, <1>3, <1>4, <1>5, <1>6, <1>7, <1>8

\* What a frame tells, by its kind.
LEMMA Telling ==
  /\ \A t, h : ~tells(Control, t, h) \/ t \notin Topics
  /\ \A u, p, t, h : tells(Frame(u, p), t, h) <=> (u = t /\ p # Live)
  /\ \A u, p, h : told(Frame(u, p), h) = p
  /\ \A u, t, h : tells(Retained(u), t, h) <=> (u = t /\ h # Nothing)
  /\ \A u, h : told(Retained(u), h) = h
  /\ \A s, t, was, h : Silent(s, t) => known_after(was, s, t, h) = was
<1>1. "" \notin Topics /\ Nothing # Live
  BY RelayConstants, FrameTyped
<1>2. \A t, h : ~tells(Control, t, h) \/ t \notin Topics
  BY <1>1 DEF tells, Control, Frame
<1>3. \A u, p, t, h : tells(Frame(u, p), t, h) <=> (u = t /\ p # Live)
  BY DEF tells, Frame
<1>4. \A u, p, h : told(Frame(u, p), h) = p
  BY DEF told, Frame
<1>5. \A u, t, h : tells(Retained(u), t, h) <=> (u = t /\ h # Nothing)
  BY <1>1 DEF tells, Retained
<1>6. \A u, h : told(Retained(u), h) = h
  BY DEF told, Retained
<1>7. ASSUME NEW s, NEW t, NEW was, NEW h, Silent(s, t) PROVE known_after(was, s, t, h) = was
  <2>1. \A i \in DOMAIN s : ~tells(s[i], t, h)
    BY <1>7 DEF Silent, tells
  <2> QED BY <2>1, AfterSilence
<1> QED BY <1>2, <1>3, <1>4, <1>5, <1>6, <1>7
-----------------------------------------------------------------------------
\* What may follow a step that leaves one topic's line as long as it was.
LEMMA WrittenBoth ==
  ASSUME NEW d, NEW b \in Seq(Writes), NEW w \in Seq(Writes)
  PROVE  written(written(d, b), w) = written(d, b \o w)
<1>1. ASSUME NEW t \in Topics
      PROVE  known_after(known_after(d[t], b, t, Nothing), w, t, Nothing) = known_after(d[t], b \o w, t, Nothing)
  <2> DEFINE x == d[t]
  <2> HIDE DEF x
  <2>1. known_after(x, b \o w, t, Nothing) = known_after(known_after(x, b, t, Nothing), w, t, Nothing)
    BY AfterBoth
  <2> QED BY <2>1 DEF x
<1>2. \A t \in Topics : written(d, b)[t] = known_after(d[t], b, t, Nothing)
  BY DEF written
<1>3. written(written(d, b), w) = [t \in Topics |-> known_after(written(d, b)[t], w, t, Nothing)]
  BY DEF written
<1>4. written(d, b \o w) = [t \in Topics |-> known_after(d[t], b \o w, t, Nothing)]
  BY DEF written
<1> QED BY <1>1, <1>2, <1>3, <1>4

LEMMA WrittenOne ==
  ASSUME NEW d, NEW ops \in Seq(Writes), NEW u \in Topics, NEW p \in 0..MaxPublishes
  PROVE  written(d, Append(ops, Frame(u, p))) = [written(d, ops) EXCEPT ![u] = p]
<1> DEFINE f == Frame(u, p)
<1>1. f \in Writes
  BY FrameTyped
<1>2. \A t, h : tells(f, t, h) <=> u = t
  <2>1. p # Live
    BY FrameTyped
  <2> QED BY <2>1, Telling
<1>3. \A h : told(f, h) = p
  BY Telling
<1> HIDE DEF f
<1>4. ASSUME NEW t \in Topics
      PROVE  known_after(d[t], Append(ops, f), t, Nothing) = IF t = u THEN p ELSE known_after(d[t], ops, t, Nothing)
  <2> DEFINE x == d[t]
  <2> HIDE DEF x
  <2>1. known_after(x, Append(ops, f), t, Nothing) = IF tells(f, t, Nothing) THEN told(f, Nothing) ELSE known_after(x, ops, t, Nothing)
    BY <1>1, AfterLast
  <2> QED BY <1>2, <1>3, <2>1 DEF x
<1>5. written(d, Append(ops, f)) = [t \in Topics |-> known_after(d[t], Append(ops, f), t, Nothing)]
  BY DEF written
<1>6. written(d, ops) = [t \in Topics |-> known_after(d[t], ops, t, Nothing)]
  BY DEF written
<1>7. [written(d, ops) EXCEPT ![u] = p] = [t \in Topics |-> IF t = u THEN p ELSE known_after(d[t], ops, t, Nothing)]
  BY <1>6
<1>8. written(d, Append(ops, f)) = [t \in Topics |-> IF t = u THEN p ELSE known_after(d[t], ops, t, Nothing)]
  BY <1>4, <1>5
<1> QED BY <1>7, <1>8 DEF f

LEMMA WrittenNone ==
  ASSUME NEW d \in [Topics -> 0..MaxPublishes]
  PROVE  written(d, <<>>) = d
<1>1. \A t \in Topics : known_after(d[t], <<>>, t, Nothing) = d[t]
  BY AfterNothing
<1> QED BY <1>1 DEF written

LEMMA WrittenTyped ==
  ASSUME NEW d \in [Topics -> 0..MaxPublishes], NEW ops \in Seq(Writes)
  PROVE  written(d, ops) \in [Topics -> 0..MaxPublishes]
<1>1. ASSUME NEW t \in Topics PROVE known_after(d[t], ops, t, Nothing) \in 0..MaxPublishes
  <2> DEFINE S == telling(ops, t, Nothing)
  <2>1. Len(ops) \in Nat /\ DOMAIN ops = 1..Len(ops) /\ \A i \in 1..Len(ops) : ops[i] \in Writes
    BY LenProperties, ElementOfSeq
  <2>2. S \subseteq 1..Len(ops)
    BY <2>1 DEF telling
  <2>3. known_after(d[t], ops, t, Nothing) = IF S = {} THEN d[t] ELSE told(ops[Max(S)], Nothing)
    BY DEF known_after
  <2> HIDE DEF S
  <2>4. S # {} => ops[Max(S)] \in Writes
    BY <2>1, <2>2, GreatestUpTo
  <2>5. \A f \in Writes : told(f, Nothing) \in 0..MaxPublishes
    BY DEF told, Writes
  <2> QED BY <2>3, <2>4, <2>5
<1> QED BY <1>1 DEF written

\* The parts of the invariant that are about no single connection.
Registers == /\ DOMAIN filters = RbClients /\ DOMAIN by_filter = Filters /\ entry \subseteq RbClients
             /\ RegistersAgree

LEMMA InitSound == RbInit => RbSound
<1> SUFFICES ASSUME RbInit PROVE RbSound
  OBVIOUS
<1>1. NoneKept \in [Topics -> 0..MaxPublishes] /\ <<>> \in Seq(Writes) /\ <<>> \in Seq(Plain) /\ <<>> \in Seq(Frames)
  BY FrameTyped DEF NoneKept
<1>2. RbTyped
  BY <1>1 DEF RbInit, RbTyped
<1>3. DiskFollows
  <2>1. batch \o writes = <<>>
    BY DEF RbInit
  <2> QED BY <1>1, <2>1, WrittenNone DEF RbInit, DiskFollows
<1>4. RegistersAgree
  BY DEF RbInit, RegistersAgree
<1>5. ASSUME NEW c \in RbClients PROVE LineSound(c)
  <2>1. Len(<<>>) = 0 /\ OUTBOUND_QUEUE \in Nat
    BY RelayConstants
  <2>2. LineTyped(c)
    BY <1>1, <2>1 DEF RbInit, LineTyped
  <2>3. LineShape(c)
    BY DEF RbInit, LineShape
  <2> QED BY <2>2, <2>3 DEF RbInit, LineTold, LineSound
<1> QED BY <1>2, <1>3, <1>4, <1>5 DEF RbSound

\* A step of a connection that touches neither what is kept nor the registers.
LEMMA StepOfOne ==
  ASSUME RbSound, NEW c \in RbClients, \A d \in RbClients : d # c => SameLine(d),
         UNCHANGED <<retained, swept, onDisk, writes, batch, store, pubs>>, LineSound(c)',
         DOMAIN conn' = RbClients, DOMAIN deferred' = RbClients, DOMAIN pending' = RbClients,
         DOMAIN owed' = RbClients, DOMAIN outbox' = RbClients, DOMAIN view' = RbClients, Registers'
  PROVE  RbSound'
<1>1. RbTyped'
  BY DEF RbSound, RbTyped, Registers
<1>2. DiskFollows'
  BY DEF RbSound, DiskFollows
<1>3. \A d \in RbClients : LineSound(d)'
  BY OneLine
<1> QED BY <1>1, <1>2, <1>3 DEF RbSound, Registers

LEMMA AcceptSound ==
  ASSUME RbSound, NEW c \in RbClients, AcceptClient(c)
  PROVE  RbSound'
<1> USE DEF AcceptClient, entryVars, lineVars, diskVars
<1>1. \A d \in RbClients : d # c => SameLine(d)
  BY DEF RbSound, RbTyped, SameLine
<1>2. LineSound(c)
  BY DEF RbSound
<1>3. LineTyped(c)'
  BY <1>2 DEF RbSound, RbTyped, LineSound, LineTyped
<1>4. LineShape(c)'
  BY <1>2 DEF RbSound, RbTyped, LineSound, LineShape
<1>5. LineTold(c)'
  BY <1>2 DEF LineTold, LineSound, LineShape
<1>6. Registers'
  BY DEF RbSound, RbTyped, Registers, RegistersAgree
<1> QED BY <1>1, <1>3, <1>4, <1>5, <1>6, StepOfOne DEF LineSound, RbSound, RbTyped

LEMMA ConnectSound ==
  ASSUME RbSound, NEW c \in RbClients, ConnectPacket(c)
  PROVE  RbSound'
<1> USE DEF ConnectPacket, goes_reply, entryVars, lineVars, diskVars
<1>1. \A d \in RbClients : d # c => SameLine(d)
  BY DEF RbSound, RbTyped, SameLine
<1>2. LineSound(c) /\ DOMAIN conn = RbClients
  BY DEF RbSound, RbTyped
<1>3. LineTyped(c)'
  BY <1>2 DEF LineSound, LineTyped
<1>4. LineShape(c)'
  BY <1>2 DEF LineSound, LineShape
<1>5. LineTold(c)'
  <2>1. filters'[c] = {} /\ view'[c] = NoneKept /\ owed'[c] = {} /\ outbox'[c] = <<>> /\ pending'[c] = <<>> /\ deferred'[c] = <<>>
    BY <1>2 DEF LineSound, LineShape
  <2> QED BY <2>1 DEF LineTold, Asked, Quiet, Silent, NoneKept
<1>6. Registers'
  <2>1. filters[c] = {} /\ c \notin entry
    BY <1>2 DEF LineSound, LineShape
  <2> QED BY <2>1 DEF RbSound, RbTyped, Registers, RegistersAgree
<1> QED BY <1>1, <1>3, <1>4, <1>5, <1>6, StepOfOne DEF LineSound, RbSound, RbTyped

LEMMA PingSound ==
  ASSUME RbSound, NEW c \in RbClients, PingReq(c)
  PROVE  RbSound'
<1> USE DEF PingReq, goes_reply, entryVars, lineVars, diskVars
<1>1. \A d \in RbClients : d # c => SameLine(d)
  BY DEF RbSound, RbTyped, SameLine
<1>2. LineSound(c) /\ DOMAIN conn = RbClients
  BY DEF RbSound, RbTyped
<1>3. LineTyped(c)'
  BY <1>2 DEF LineSound, LineTyped
<1>4. LineShape(c)'
  BY <1>2 DEF LineSound, LineShape
<1>5. LineTold(c)'
  <2> SUFFICES ASSUME c \in entry', c \notin left', NEW t \in Topics
               PROVE (IF Asked(c, t) THEN t \notin swept => comes(c, t) = retained[t] ELSE Quiet(c, t))'
    BY DEF LineTold
  <2>1. IF Asked(c, t) THEN t \notin swept => comes(c, t) = retained[t] ELSE Quiet(c, t)
    BY <1>2 DEF LineSound, LineTold
  <2> QED BY <2>1 DEF Asked, Quiet, comes
<1>6. Registers'
  BY DEF RbSound, RbTyped, Registers, RegistersAgree
<1> QED BY <1>1, <1>3, <1>4, <1>5, <1>6, StepOfOne DEF LineSound, RbSound, RbTyped

LEMMA UnsubscribeSound ==
  ASSUME RbSound, NEW c \in RbClients, NEW f \in Filters, Unsubscribe(c, f)
  PROVE  RbSound'
<1> USE DEF Unsubscribe, goes_reply, entryVars, lineVars, diskVars
<1>1. \A d \in RbClients : d # c => SameLine(d)
  BY DEF RbSound, RbTyped, SameLine
<1>2. LineSound(c) /\ DOMAIN conn = RbClients /\ DOMAIN filters = RbClients
  BY DEF RbSound, RbTyped
<1>3. LineTyped(c)'
  BY <1>2 DEF LineSound, LineTyped
<1>4. LineShape(c)'
  BY <1>2 DEF LineSound, LineShape
<1>5. LineTold(c)'
  BY DEF LineTold
<1>6. Registers'
  BY DEF RbSound, RbTyped, Registers, RegistersAgree
<1> QED BY <1>1, <1>3, <1>4, <1>5, <1>6, StepOfOne DEF LineSound, RbSound, RbTyped
LEMMA SubscribeSound ==
  ASSUME RbSound, NEW c \in RbClients, NEW f \in Filters, Subscribe(c, f)
  PROVE  RbSound'
<1> USE DEF Subscribe, goes_reply, entryVars, lineVars, diskVars
<1> DEFINE newly == IF f \in filters[c] THEN {} ELSE topics_matching(f, filters[c])
<1>1. \A d \in RbClients : d # c => SameLine(d)
  BY DEF RbSound, RbTyped, SameLine
<1>2. LineSound(c) /\ DOMAIN conn = RbClients /\ DOMAIN filters = RbClients /\ DOMAIN owed = RbClients
  BY DEF RbSound, RbTyped
<1>3. /\ conn'[c] = "reply" /\ conn[c] = "loop" /\ c \in entry /\ c \in entry'
      /\ filters'[c] = filters[c] \cup {f} /\ owed'[c] = newly /\ newly \subseteq Topics
      /\ owed[c] = {}
  BY <1>2 DEF topics_matching, LineSound, LineShape
<1>4. LineTyped(c)'
  BY <1>2, <1>3 DEF LineSound, LineTyped
<1>5. LineShape(c)'
  BY <1>2, <1>3 DEF LineSound, LineShape
<1>6. LineTold(c)'
  <2> SUFFICES ASSUME c \notin left, NEW t \in Topics
               PROVE (IF Asked(c, t) THEN t \notin swept => comes(c, t) = retained[t] ELSE Quiet(c, t))'
    BY DEF LineTold
  <2> DEFINE learnt == known_after(view[c][t], outbox[c] \o pending[c], t, retained[t])
             asks == known_after(learnt, <<Retained(t)>>, t, retained[t])
  <2>1. IF Asked(c, t) THEN t \notin swept => comes(c, t) = retained[t] ELSE Quiet(c, t)
    BY <1>2, <1>3 DEF LineSound, LineTold
  <2>2. Asked(c, t)' <=> (Asked(c, t) \/ matches(f, t))
    BY <1>3 DEF Asked
  <2>3. t \in newly <=> (f \notin filters[c] /\ retained[t] # Nothing /\ matches(f, t) /\ ~Asked(c, t))
    BY DEF topics_matching, Asked
  <2>4. comes(c, t)' = known_after(IF t \in newly THEN asks ELSE learnt, deferred[c], t, retained[t])
    BY <1>3 DEF comes
  <2>5. comes(c, t) = known_after(learnt, deferred[c], t, retained[t])
    BY <1>3 DEF comes
  <2>6. CASE Asked(c, t)
    BY <2>1, <2>2, <2>3, <2>4, <2>5, <2>6
  <2>7. CASE ~Asked(c, t) /\ ~matches(f, t)
    <3>1. t \notin owed'[c]
      BY <1>3, <2>3, <2>7
    <3> QED BY <2>1, <2>2, <2>7, <3>1 DEF Quiet
  <2>8. CASE ~Asked(c, t) /\ matches(f, t)
    <3>1. Quiet(c, t)
      BY <2>1, <2>8
    <3>2. f \notin filters[c]
      BY <2>8 DEF Asked
    <3>3. outbox[c] \in Seq(Frames) /\ pending[c] \in Seq(Frames) /\ deferred[c] \in Seq(Frames)
      BY <1>2, FrameTyped DEF LineSound, LineTyped
    <3>4. learnt = Nothing
      <4> DEFINE x == view[c][t]
                 h == retained[t]
                 o == outbox[c]
                 p == pending[c]
      <4>1. Silent(o, t) /\ Silent(p, t) /\ x = Nothing /\ o \in Seq(Frames) /\ p \in Seq(Frames)
        BY <3>1, <3>3 DEF Quiet
      <4> HIDE DEF x, h, o, p
      <4>2. known_after(x, o \o p, t, h) = known_after(known_after(x, o, t, h), p, t, h)
        BY <4>1, AfterBoth
      <4>3. known_after(x, o, t, h) = x /\ known_after(x, p, t, h) = x
        BY <4>1, Telling
      <4> QED BY <4>1, <4>2, <4>3 DEF x, h, o, p
    <3>5. asks = IF retained[t] # Nothing THEN retained[t] ELSE learnt
      BY AfterOne, Telling
    <3> HIDE DEF learnt, asks
    <3>6. (IF t \in newly THEN asks ELSE learnt) = retained[t]
      BY <2>3, <2>8, <3>2, <3>4, <3>5
    <3>7. known_after(retained[t], deferred[c], t, retained[t]) = retained[t]
      BY <3>1, Telling DEF Quiet
    <3> QED BY <2>2, <2>4, <2>8, <3>6, <3>7
  <2> QED BY <2>6, <2>7, <2>8
<1>7. Registers'
  BY DEF RbSound, RbTyped, Registers, RegistersAgree
<1> QED BY <1>1, <1>4, <1>5, <1>6, <1>7, StepOfOne DEF LineSound, RbSound, RbTyped

\* Every order of a finite set names all of it.
LEMMA OrderNamesAll ==
  ASSUME NEW S, IsFiniteSet(S), NEW order \in SetToSeqs(S)
  PROVE  /\ order \in Seq(S) /\ \A x : x \in S <=> \E i \in DOMAIN order : order[i] = x
<1> DEFINE n == Cardinality(S)
<1>1. n \in Nat /\ order \in [1..n -> S] /\ IsInjective(order)
  <2>1. order \in [1..n -> S] /\ \A i, j \in 1..n : i # j => order[i] # order[j]
    BY DEF SetToSeqs
  <2>2. n \in Nat
    BY FS_CardinalityType
  <2> HIDE DEF n
  <2>3. IsInjective(order)
    BY <2>1 DEF IsInjective
  <2> QED BY <2>1, <2>2, <2>3
<1>2. order \in Injection(1..n, S)
  BY <1>1 DEF Injection, IsInjective
<1>3. IsFiniteSet(1..n) /\ Cardinality(1..n) = n
  <2>1. \A k \in Nat : IsFiniteSet(1..k) /\ Cardinality(1..k) = IF 1 > k THEN 0 ELSE k - 1 + 1
    BY FS_Interval
  <2> HIDE DEF n
  <2> QED BY <1>1, <2>1
<1>4. order \in Surjection(1..n, S)
  BY <1>2, <1>3, FS_Injection
<1>5. \A x \in S : \E i \in 1..n : order[i] = x
  BY <1>4 DEF Surjection
<1>6. order \in Seq(S) /\ DOMAIN order = 1..n
  BY <1>1, SeqDef
<1> QED BY <1>1, <1>5, <1>6

LEMMA ReplySound ==
  ASSUME RbSound, NEW c \in RbClients, Reply(c)
  PROVE  RbSound'
<1> USE DEF Reply, entryVars, lineVars, diskVars
<1>1. \A d \in RbClients : d # c => SameLine(d)
  BY DEF RbSound, RbTyped, SameLine
<1>2. LineSound(c) /\ DOMAIN conn = RbClients /\ DOMAIN pending = RbClients /\ DOMAIN owed = RbClients /\ DOMAIN outbox = RbClients
  BY DEF RbSound, RbTyped
<1>3. PICK order \in SetToSeqs(owed[c]) :
         pending' = [pending EXCEPT ![c] = @ \o [i \in DOMAIN order |-> Retained(order[i])]]
  OBVIOUS
<1> DEFINE asks == [i \in DOMAIN order |-> Retained(order[i])]
           o == outbox[c]
           p == pending[c]
<1>4. IsFiniteSet(owed[c])
  BY <1>2, RelayConstants, FS_Subset DEF LineSound, LineTyped
<1>5. order \in Seq(owed[c]) /\ \A x : x \in owed[c] <=> \E i \in DOMAIN order : order[i] = x
  BY <1>4, OrderNamesAll
<1>6. asks \in Seq(Frames) /\ DOMAIN asks = DOMAIN order
  <2>1. DOMAIN order = 1..Len(order) /\ Len(order) \in Nat
    BY <1>5, LenProperties
  <2>2. \A i \in 1..Len(order) : Retained(order[i]) \in Frames
    BY <1>2, <1>5, <2>1 DEF LineSound, LineTyped, Frames, Lookups
  <2> QED BY <2>1, <2>2, SeqDef
<1>7. o \in Seq(Plain) /\ o \in Seq(Frames) /\ p \in Seq(Frames) /\ Control \in Plain /\ Len(o) < OUTBOUND_QUEUE
  BY <1>2, FrameTyped DEF LineSound, LineTyped
<1>8. outbox'[c] = Append(o, Control) /\ pending'[c] = p \o asks /\ owed'[c] = {} /\ conn'[c] = "loop"
  BY <1>2, <1>3
<1>9. owed[c] = {} => asks = <<>>
  BY <1>5, <1>6
<1> HIDE DEF asks
<1>10. Append(o, Control) \in Seq(Plain) /\ Len(Append(o, Control)) = Len(o) + 1 /\ Len(o) + 1 <= OUTBOUND_QUEUE
  <2>1. Append(o, Control) \in Seq(Plain) /\ Len(Append(o, Control)) = Len(o) + 1 /\ Len(o) \in Nat
    BY <1>7, AppendProperties, LenProperties
  <2>2. OUTBOUND_QUEUE \in Nat
    BY RelayConstants
  <2> HIDE DEF o
  <2> QED BY <1>7, <2>1, <2>2
<1>11. p \o asks \in Seq(Frames)
  BY <1>6, <1>7, ConcatProperties
<1>12. p \o <<>> = p
  BY <1>7, ConcatEmptySeq
<1>13. LineTyped(c)'
  BY <1>2, <1>8, <1>10, <1>11 DEF LineSound, LineTyped
<1>14. LineShape(c)'
  BY <1>2, <1>8, <1>9, <1>12 DEF LineSound, LineShape
<1>15. ASSUME NEW t, t \notin owed[c] PROVE Silent(asks, t)
  BY <1>5, <1>6, <1>15 DEF asks, Silent, Retained
<1>16. LineTold(c)'
  <2> SUFFICES ASSUME c \in entry, c \notin left, NEW t \in Topics
               PROVE (IF Asked(c, t) THEN t \notin swept => comes(c, t) = retained[t] ELSE Quiet(c, t))'
    BY DEF LineTold
  <2>1. IF Asked(c, t) THEN t \notin swept => comes(c, t) = retained[t] ELSE Quiet(c, t)
    BY <1>2 DEF LineSound, LineTold
  <2>2. Asked(c, t)' <=> Asked(c, t)
    BY DEF Asked
  <2> DEFINE x == view[c][t]
             h == retained[t]
             learnt == known_after(x, o \o p, t, h)
             learnt2 == known_after(x, Append(o, Control) \o (p \o asks), t, h)
  <2>3. learnt2 = IF t \in owed[c] THEN known_after(learnt, <<Retained(t)>>, t, h) ELSE learnt
    <3> DEFINE q == Append(o, Control)
    <3>1. q \in Seq(Frames)
      BY <1>7, FrameTyped, AppendProperties
    <3>2. known_after(x, q, t, h) = known_after(x, o, t, h)
      <4>1. ~tells(Control, t, h)
        BY Telling
      <4> HIDE DEF x, h, o
      <4> QED BY <1>7, <4>1, AfterLast
    <3> HIDE DEF x, h, o, p, q
    <3>3. known_after(x, q \o (p \o asks), t, h) = known_after(known_after(x, q, t, h), p \o asks, t, h)
      <4> DEFINE r == p \o asks
      <4>1. r \in Seq(Frames)
        BY <1>11 DEF p
      <4> HIDE DEF r
      <4>2. known_after(x, q \o r, t, h) = known_after(known_after(x, q, t, h), r, t, h)
        BY <3>1, <4>1, AfterBoth
      <4> QED BY <4>2 DEF r
    <3>4. \A y : known_after(y, p \o asks, t, h) = known_after(known_after(y, p, t, h), asks, t, h)
      BY <1>6, <1>7, AfterBoth
    <3>5. known_after(x, o \o p, t, h) = known_after(known_after(x, o, t, h), p, t, h)
      BY <1>7, AfterBoth
    <3>6. learnt2 = known_after(learnt, asks, t, h)
      BY <3>2, <3>3, <3>4, <3>5 DEF q
    <3> HIDE DEF learnt, learnt2
    <3>7. CASE t \notin owed[c]
      <4>1. Silent(asks, t)
        BY <1>15, <3>7
      <4> QED BY <3>6, <3>7, <4>1, Telling
    <3>8. CASE t \in owed[c]
      <4>1. \A i \in DOMAIN asks : asks[i] = Retained(order[i])
        BY <1>6 DEF asks
      <4>2. \A i \in DOMAIN asks : tells(asks[i], t, h) => told(asks[i], h) = h
        BY <4>1, Telling
      <4>3. known_after(learnt, asks, t, h) = IF telling(asks, t, h) = {} THEN learnt ELSE h
        <5>1. asks \in Seq(Frames)
          BY <1>6
        <5>2. \A i \in telling(asks, t, h) : told(asks[i], h) = h
          BY <4>2 DEF telling
        <5> QED BY <5>1, <5>2, AfterSome
      <4>4. telling(asks, t, h) # {} <=> h # Nothing
        <5>1. PICK i \in DOMAIN order : order[i] = t
          BY <1>5, <3>8
        <5>2. h # Nothing => i \in telling(asks, t, h)
          BY <1>6, <4>1, <5>1, Telling DEF telling
        <5>3. \A j \in telling(asks, t, h) : h # Nothing
          BY <4>1, Telling DEF telling
        <5> QED BY <5>2, <5>3
      <4>5. known_after(learnt, <<Retained(t)>>, t, h) = IF h # Nothing THEN h ELSE learnt
        BY AfterOne, Telling
      <4> QED BY <3>6, <3>8, <4>3, <4>4, <4>5
    <3> QED BY <3>7, <3>8
  <2>4. comes(c, t)' = known_after(learnt2, deferred[c], t, h)
    BY <1>8 DEF comes
  <2>5. comes(c, t) = known_after(IF t \in owed[c] THEN known_after(learnt, <<Retained(t)>>, t, h) ELSE learnt, deferred[c], t, h)
    BY DEF comes
  <2>6. comes(c, t)' = comes(c, t)
    BY <2>3, <2>4, <2>5
  <2>7. ASSUME Quiet(c, t) PROVE Quiet(c, t)'
    <3>1. Silent(Append(o, Control), t)
      <4>1. Control.topic # t
        BY RelayConstants DEF Control, Frame
      <4>2. Silent(o, t)
        BY <2>7 DEF Quiet
      <4> HIDE DEF o
      <4>3. /\ DOMAIN Append(o, Control) = 1..(Len(o) + 1) /\ DOMAIN o = 1..Len(o) /\ Len(o) \in Nat
            /\ \A i \in 1..Len(o) : Append(o, Control)[i] = o[i]
            /\ Append(o, Control)[Len(o) + 1] = Control
        BY <1>7, AppendProperties, LenProperties
      <4>4. \A i \in 1..(Len(o) + 1) : i \in 1..Len(o) \/ i = Len(o) + 1
        BY <4>3
      <4> QED BY <4>1, <4>2, <4>3, <4>4 DEF Silent
    <3>2. Silent(p \o asks, t)
      <4>1. Silent(p, t) /\ Silent(asks, t)
        BY <1>15, <2>7 DEF Quiet
      <4> HIDE DEF p
      <4>2. \A i \in DOMAIN (p \o asks) : (\E j \in DOMAIN p : (p \o asks)[i] = p[j]) \/ (\E j \in DOMAIN asks : (p \o asks)[i] = asks[j])
        BY <1>6, <1>7, PartOfBoth
      <4> QED BY <4>1, <4>2 DEF Silent
    <3> QED BY <1>8, <2>7, <3>1, <3>2 DEF Quiet
  <2> QED BY <2>1, <2>2, <2>6, <2>7
<1>17. Registers'
  BY DEF RbSound, RbTyped, Registers, RegistersAgree
<1> QED BY <1>1, <1>13, <1>14, <1>16, <1>17, StepOfOne DEF LineSound, RbSound, RbTyped
\* A step that moves frames along one connection's line, and keeps what will
\* come of every topic.
LEMMA MovedAlong ==
  ASSUME NEW c, LineTold(c), UNCHANGED <<retained, swept, filters[c], owed[c], entry, left>>,
         \A t \in Topics : Asked(c, t) => comes(c, t)' = comes(c, t),
         \A t \in Topics : Silent(outbox[c], t) /\ Silent(pending[c], t) /\ Silent(deferred[c], t) =>
            /\ view'[c][t] = view[c][t]
            /\ Silent(outbox'[c], t) /\ Silent(pending'[c], t) /\ Silent(deferred'[c], t)
  PROVE  LineTold(c)'
<1> SUFFICES ASSUME c \in entry, c \notin left, NEW t \in Topics
             PROVE (IF Asked(c, t) THEN t \notin swept => comes(c, t) = retained[t] ELSE Quiet(c, t))'
  BY DEF LineTold
<1>1. IF Asked(c, t) THEN t \notin swept => comes(c, t) = retained[t] ELSE Quiet(c, t)
  BY DEF LineTold
<1>2. Asked(c, t)' <=> Asked(c, t)
  BY DEF Asked
<1>3. CASE Asked(c, t)
  BY <1>1, <1>2, <1>3
<1>4. CASE ~Asked(c, t)
  BY <1>1, <1>2, <1>4 DEF Quiet
<1> QED BY <1>3, <1>4

\* The elements of what is left of a sequence are elements of it.
LEMMA SilentParts ==
  ASSUME NEW F, NEW s \in Seq(F), NEW t, Silent(s, t)
  PROVE  /\ s # <<>> => Head(s).topic # t /\ Silent(Tail(s), t)
         /\ \A u \in Seq(F) : Silent(u, t) => Silent(s \o u, t)
         /\ \A f \in F : f.topic # t => Silent(Append(s, f), t)
         /\ \A m, n \in Int : 1 <= m /\ n <= Len(s) => Silent(SubSeq(s, m, n), t)
<1>1. Len(s) \in Nat /\ DOMAIN s = 1..Len(s) /\ \A i \in 1..Len(s) : s[i].topic # t
  BY LenProperties DEF Silent
<1>2. ASSUME s # <<>> PROVE Head(s).topic # t /\ Silent(Tail(s), t)
  <2>1. Head(s) = s[1] /\ Len(s) > 0
    BY <1>1, <1>2, EmptySeq
  <2>2. Tail(s) \in Seq(F) /\ Len(Tail(s)) = Len(s) - 1 /\ \A i \in 1..Len(Tail(s)) : Tail(s)[i] = s[i + 1]
    BY <1>2, HeadTailProperties
  <2>3. DOMAIN Tail(s) = 1..(Len(s) - 1)
    BY <2>2, LenProperties
  <2>4. \A i \in 1..(Len(s) - 1) : i + 1 \in 1..Len(s)
    BY <1>1
  <2> QED BY <1>1, <2>1, <2>2, <2>3, <2>4 DEF Silent
<1>3. ASSUME NEW u \in Seq(F), Silent(u, t) PROVE Silent(s \o u, t)
  <2>1. \A i \in DOMAIN (s \o u) : (\E j \in DOMAIN s : (s \o u)[i] = s[j]) \/ (\E j \in DOMAIN u : (s \o u)[i] = u[j])
    BY PartOfBoth
  <2> QED BY <1>3, <2>1 DEF Silent
<1>4. ASSUME NEW f \in F, f.topic # t PROVE Silent(Append(s, f), t)
  <2>1. Append(s, f) \in Seq(F) /\ Len(Append(s, f)) = Len(s) + 1 /\ DOMAIN Append(s, f) = 1..(Len(s) + 1)
    BY AppendProperties, LenProperties
  <2>2. \A i \in 1..(Len(s) + 1) : Append(s, f)[i] = IF i <= Len(s) THEN s[i] ELSE f
    BY AppendProperties
  <2>3. \A i \in 1..(Len(s) + 1) : i <= Len(s) => i \in 1..Len(s)
    BY <1>1
  <2> QED BY <1>1, <1>4, <2>1, <2>2, <2>3 DEF Silent
<1>5. ASSUME NEW m \in Int, NEW n \in Int, 1 <= m, n <= Len(s) PROVE Silent(SubSeq(s, m, n), t)
  <2>1. DOMAIN SubSeq(s, m, n) = 1..(IF m <= n THEN n - m + 1 ELSE 0)
    BY <1>1, <1>5
  <2>2. \A i \in 1..(IF m <= n THEN n - m + 1 ELSE 0) : SubSeq(s, m, n)[i] = s[m + i - 1] /\ m + i - 1 \in 1..Len(s)
    BY <1>1, <1>5
  <2> QED BY <1>1, <2>1, <2>2 DEF Silent
<1> QED BY <1>2, <1>3, <1>4, <1>5

LEMMA SendHeadSound ==
  ASSUME RbSound, NEW c \in RbClients, SendHead(c)
  PROVE  RbSound'
<1> USE DEF SendHead, entryVars, lineVars, diskVars
<1>1. \A d \in RbClients : d # c => SameLine(d)
  BY DEF RbSound, RbTyped, SameLine
<1>2. LineSound(c) /\ DOMAIN pending = RbClients /\ DOMAIN outbox = RbClients
  BY DEF RbSound, RbTyped
<1> DEFINE o == outbox[c]
           p == pending[c]
<1>3. /\ o \in Seq(Plain) /\ o \in Seq(Frames) /\ p \in Seq(Frames) /\ p # <<>> /\ Len(o) < OUTBOUND_QUEUE
      /\ Head(p) \in Frames /\ ~Head(p).kept
  <2>1. o \in Seq(Plain) /\ p \in Seq(Frames) /\ p # <<>> /\ Len(o) < OUTBOUND_QUEUE /\ ~Head(p).kept
    BY <1>2 DEF LineSound, LineTyped
  <2>2. o \in Seq(Frames)
    BY <2>1, FrameTyped
  <2>3. Head(p) \in Frames
    BY <2>1, HeadTailProperties
  <2> QED BY <2>1, <2>2, <2>3
<1>4. outbox'[c] = Append(o, Head(p)) /\ pending'[c] = Tail(p)
  BY <1>2
<1>5. Head(p) \in Plain /\ Tail(p) \in Seq(Frames)
  BY <1>3, FrameTyped, HeadTailProperties
<1> HIDE DEF o, p
<1>6. Append(o, Head(p)) \in Seq(Plain) /\ Len(Append(o, Head(p))) <= OUTBOUND_QUEUE
  <2>1. Append(o, Head(p)) \in Seq(Plain) /\ Len(Append(o, Head(p))) = Len(o) + 1 /\ Len(o) \in Nat
    BY <1>3, <1>5, AppendProperties, LenProperties
  <2>2. OUTBOUND_QUEUE \in Nat
    BY RelayConstants
  <2>3. Len(o) + 1 <= OUTBOUND_QUEUE
    BY <1>3, <2>1, <2>2
  <2> QED BY <2>1, <2>3
<1>7. LineTyped(c)'
  BY <1>2, <1>4, <1>5, <1>6 DEF LineSound, LineTyped
<1>8. LineShape(c)'
  BY <1>2, <1>3, <1>4 DEF LineSound, LineShape, p
<1>9. ASSUME NEW t \in Topics PROVE comes(c, t)' = comes(c, t)
  <2> DEFINE x == view[c][t]
             h == retained[t]
  <2>1. known_after(x, Append(o, Head(p)) \o Tail(p), t, h) = known_after(x, o \o p, t, h)
    <3> DEFINE q == Append(o, Head(p))
               r == Tail(p)
               f == Head(p)
    <3>1. q \in Seq(Frames) /\ r \in Seq(Frames) /\ f \in Frames
      BY <1>3, <1>5, <1>6, FrameTyped
    <3>2. \A y : known_after(y, q, t, h) = IF tells(f, t, h) THEN told(f, h) ELSE known_after(y, o, t, h)
      BY <1>3, AfterLast
    <3>3. \A y : known_after(y, p, t, h) = known_after(IF tells(f, t, h) THEN told(f, h) ELSE y, r, t, h)
      BY <1>3, AfterFirst
    <3> HIDE DEF q, r, f, x, h
    <3>4. known_after(x, q \o r, t, h) = known_after(known_after(x, q, t, h), r, t, h)
      BY <3>1, AfterBoth
    <3>5. known_after(x, o \o p, t, h) = known_after(known_after(x, o, t, h), p, t, h)
      BY <1>3, AfterBoth
    <3>6. known_after(x, q \o r, t, h) = known_after(x, o \o p, t, h)
      BY <3>2, <3>3, <3>4, <3>5
    <3> QED BY <3>6 DEF q, r
  <2> QED BY <1>4, <2>1 DEF comes, o, p
<1>10. ASSUME NEW t \in Topics, Silent(o, t), Silent(p, t) PROVE Silent(outbox'[c], t) /\ Silent(pending'[c], t)
  <2>1. Head(p).topic # t /\ Silent(Tail(p), t)
    BY <1>3, <1>10, SilentParts
  <2>2. Silent(Append(o, Head(p)), t)
    BY <1>3, <1>10, <2>1, SilentParts
  <2> QED BY <1>4, <2>1, <2>2
<1>11. LineTold(c)'
  BY <1>2, <1>9, <1>10, MovedAlong DEF LineSound, o, p
<1>12. Registers'
  BY DEF RbSound, RbTyped, Registers, RegistersAgree
<1> QED BY <1>1, <1>7, <1>8, <1>11, <1>12, StepOfOne DEF LineSound, RbSound, RbTyped

LEMMA LookUpSound ==
  ASSUME RbSound, NEW c \in RbClients, LookUp(c)
  PROVE  RbSound'
<1> USE DEF LookUp, entryVars, lineVars, diskVars
<1>1. \A d \in RbClients : d # c => SameLine(d)
  BY DEF RbSound, RbTyped, SameLine
<1>2. LineSound(c) /\ DOMAIN pending = RbClients /\ retained \in [Topics -> 0..MaxPublishes]
  BY DEF RbSound, RbTyped
<1> DEFINE o == outbox[c]
           p == pending[c]
           u == Head(p).topic
           found == IF retained[u] = Nothing THEN <<>> ELSE <<Frame(u, retained[u])>>
<1>3. o \in Seq(Frames) /\ p \in Seq(Frames) /\ p # <<>> /\ Head(p).kept
  BY <1>2, FrameTyped DEF LineSound, LineTyped
<1>4. Head(p) \in Frames /\ Tail(p) \in Seq(Frames)
  BY <1>3, HeadTailProperties
<1>5. u \in Topics /\ Head(p) = Retained(u)
  <2>1. Head(p) \in Lookups
    BY <1>3, <1>4, FrameTyped DEF Frames
  <2>2. PICK w \in Topics : Head(p) = Retained(w)
    BY <2>1 DEF Lookups
  <2>3. u = w
    BY <2>2 DEF Retained
  <2> QED BY <2>2, <2>3
<1>6. pending'[c] = found \o Tail(p)
  BY <1>2
<1>7. retained[u] \in 0..MaxPublishes /\ Frame(u, retained[u]) \in Frames
  BY <1>2, <1>5, FrameTyped
<1>8. found \in Seq(Frames)
  BY <1>7
<1>9. found \o Tail(p) \in Seq(Frames)
  BY <1>4, <1>8, ConcatProperties
<1> HIDE DEF o, p, found, u
<1>10. LineTyped(c)'
  BY <1>2, <1>6, <1>9 DEF LineSound, LineTyped
<1>11. LineShape(c)'
  BY <1>2, <1>3 DEF LineSound, LineShape, p
<1>12. ASSUME NEW t \in Topics PROVE comes(c, t)' = comes(c, t)
  <2> DEFINE x == view[c][t]
             h == retained[t]
             r == Tail(p)
             f == Head(p)
  <2>1. \A y : known_after(y, p, t, h) = known_after(IF tells(f, t, h) THEN told(f, h) ELSE y, r, t, h)
    BY <1>3, AfterFirst
  <2>2. \A y : known_after(y, found \o r, t, h) = known_after(known_after(y, found, t, h), r, t, h)
    <3> r \in Seq(Frames)
      BY <1>4
    <3> HIDE DEF r, x, h, f
    <3> QED BY <1>8, AfterBoth
  <2>3. \A y : known_after(y, found, t, h) = IF tells(f, t, h) THEN told(f, h) ELSE y
    <3>1. tells(f, t, h) <=> (u = t /\ h # Nothing)
      BY <1>5, Telling
    <3>2. told(f, h) = h
      BY <1>5, Telling
    <3>3. CASE retained[u] = Nothing
      <4>1. found = <<>>
        BY <3>3 DEF found
      <4> QED BY <3>1, <3>3, <4>1, AfterNothing
    <3>4. CASE retained[u] # Nothing
      <4> DEFINE g == Frame(u, retained[u])
      <4>1. found = <<g>>
        BY <3>4 DEF found
      <4>2. retained[u] # Live
        BY <1>7, FrameTyped
      <4>3. (tells(g, t, h) <=> u = t) /\ told(g, h) = retained[u]
        BY <4>2, Telling
      <4> HIDE DEF g
      <4>4. \A y : known_after(y, <<g>>, t, h) = IF tells(g, t, h) THEN told(g, h) ELSE y
        BY AfterOne
      <4> QED BY <3>1, <3>2, <3>4, <4>1, <4>3, <4>4
    <3> QED BY <3>3, <3>4
  <2> HIDE DEF x, h, r, f
  <2>4. found \o r \in Seq(Frames)
    BY <1>9 DEF r
  <2>5. known_after(x, o \o (found \o r), t, h) = known_after(known_after(x, o, t, h), found \o r, t, h)
    <3> DEFINE w == found \o r
    <3>1. w \in Seq(Frames)
      BY <2>4
    <3> HIDE DEF w
    <3>2. known_after(x, o \o w, t, h) = known_after(known_after(x, o, t, h), w, t, h)
      BY <1>3, <3>1, AfterBoth
    <3> QED BY <3>2 DEF w
  <2>6. known_after(x, o \o p, t, h) = known_after(known_after(x, o, t, h), p, t, h)
    BY <1>3, AfterBoth
  <2>7. known_after(x, o \o (found \o r), t, h) = known_after(x, o \o p, t, h)
    BY <2>1, <2>2, <2>3, <2>5, <2>6
  <2>8. pending'[c] = found \o r /\ UNCHANGED <<outbox, view, owed, deferred, retained>>
    BY <1>6 DEF r
  <2>9. /\ known_after(view[c][t], outbox[c] \o (found \o r), t, retained[t]) = known_after(view[c][t], outbox[c] \o pending[c], t, retained[t])
    BY <2>7 DEF o, p, x, h
  <2> DEFINE learnt == known_after(view[c][t], outbox[c] \o pending[c], t, retained[t])
  <2> HIDE DEF LookUp, found, r, o, p, u, x, h, f
  <2>10. learnt' = learnt
    BY <2>8, <2>9
  <2> HIDE DEF learnt
  <2>11. comes(c, t) = known_after(IF t \in owed[c] THEN known_after(learnt, <<Retained(t)>>, t, retained[t]) ELSE learnt, deferred[c], t, retained[t])
    BY DEF comes, learnt
  <2>12. comes(c, t)' = known_after(IF t \in owed'[c] THEN known_after(learnt', <<Retained(t)>>, t, retained'[t]) ELSE learnt', deferred'[c], t, retained'[t])
    BY DEF comes, learnt
  <2> QED BY <2>8, <2>10, <2>11, <2>12
<1>13. ASSUME NEW t \in Topics, Silent(p, t) PROVE Silent(pending'[c], t)
  <2>1. Head(p).topic # t /\ Silent(Tail(p), t)
    BY <1>3, <1>13, SilentParts
  <2>2. Silent(found, t)
    <3>1. u # t
      BY <2>1 DEF u
    <3> QED BY <3>1 DEF found, Silent, Frame
  <2>3. Silent(found \o Tail(p), t)
    BY <1>4, <1>8, <2>1, <2>2, SilentParts
  <2> QED BY <1>6, <2>3
<1>14. LineTold(c)'
  BY <1>2, <1>12, <1>13, MovedAlong DEF LineSound, p
<1>15. Registers'
  BY DEF RbSound, RbTyped, Registers, RegistersAgree
<1> QED BY <1>1, <1>10, <1>11, <1>14, <1>15, StepOfOne DEF LineSound, RbSound, RbTyped
\* A sequence cut in two is its parts joined.
LEMMA CutInTwo ==
  ASSUME NEW F, NEW s \in Seq(F), NEW n \in Nat, n <= Len(s)
  PROVE  /\ SubSeq(s, 1, n) \in Seq(F) /\ Len(SubSeq(s, 1, n)) = n
         /\ SubSeq(s, n + 1, Len(s)) \in Seq(F) /\ Len(SubSeq(s, n + 1, Len(s))) = Len(s) - n
         /\ SubSeq(s, 1, n) \o SubSeq(s, n + 1, Len(s)) = s
<1> DEFINE a == SubSeq(s, 1, n)
           b == SubSeq(s, n + 1, Len(s))
           l == Len(s)
<1>1. l \in Nat /\ DOMAIN s = 1..l /\ \A i \in 1..l : s[i] \in F
  BY LenProperties, ElementOfSeq
<1>2. a \in Seq(F) /\ Len(a) = n /\ \A i \in 1..n : a[i] = s[i]
  <2>1. \A i \in 1..n : s[i] \in F /\ i \in 1..l
    BY <1>1
  <2>2. a \in Seq(F) /\ Len(a) = (IF 1 <= n THEN n - 1 + 1 ELSE 0) /\ \A i \in 1..(n - 1 + 1) : a[i] = s[1 + i - 1]
    BY <1>1, <2>1, SubSeqProperties
  <2>3. (IF 1 <= n THEN n - 1 + 1 ELSE 0) = n /\ n - 1 + 1 = n /\ \A i \in 1..n : 1 + i - 1 = i
    OBVIOUS
  <2> QED BY <2>2, <2>3
<1>3. b \in Seq(F) /\ Len(b) = l - n /\ \A i \in 1..(l - n) : b[i] = s[n + i]
  <2>1. \A i \in (n + 1)..l : s[i] \in F /\ i \in 1..l
    BY <1>1
  <2>2. /\ b \in Seq(F) /\ Len(b) = (IF n + 1 <= l THEN l - (n + 1) + 1 ELSE 0)
        /\ \A i \in 1..(l - (n + 1) + 1) : b[i] = s[(n + 1) + i - 1]
    BY <1>1, <2>1, SubSeqProperties
  <2>3. /\ (IF n + 1 <= l THEN l - (n + 1) + 1 ELSE 0) = l - n /\ l - (n + 1) + 1 = l - n
        /\ \A i \in 1..(l - n) : (n + 1) + i - 1 = n + i
    <3>1. l \in Nat /\ n <= l
      BY <1>1
    <3> HIDE DEF l
    <3> QED BY <3>1
  <2> QED BY <2>2, <2>3
<1> HIDE DEF a, b, l
<1>4. a \o b \in Seq(F) /\ Len(a \o b) = n + (l - n) /\ \A i \in 1..(n + (l - n)) : (a \o b)[i] = IF i <= n THEN a[i] ELSE b[i - n]
  <2>1. a \o b \in Seq(F) /\ Len(a \o b) = Len(a) + Len(b) /\ \A i \in 1..(Len(a) + Len(b)) : (a \o b)[i] = IF i <= Len(a) THEN a[i] ELSE b[i - Len(a)]
    BY <1>2, <1>3, ConcatProperties
  <2> QED BY <1>2, <1>3, <2>1
<1>5. n + (l - n) = l
  BY <1>1
<1>6. ASSUME NEW i \in 1..l PROVE (a \o b)[i] = s[i]
  <2>1. CASE i <= n
    <3>1. i \in 1..n
      BY <1>1, <2>1
    <3> QED BY <1>2, <1>4, <1>5, <2>1, <3>1
  <2>2. CASE ~(i <= n)
    <3>1. i - n \in 1..(l - n) /\ n + (i - n) = i
      BY <1>1, <2>2
    <3> QED BY <1>3, <1>4, <1>5, <2>2, <3>1
  <2> QED BY <2>1, <2>2
<1>7. a \o b = s
  <2>1. Len(a \o b) = Len(s)
    BY <1>4, <1>5 DEF l
  <2> QED BY <1>4, <1>5, <1>6, <2>1, SeqEqual DEF l
<1> QED BY <1>2, <1>3, <1>7 DEF a, b, l

LEMMA ReleaseSound ==
  ASSUME RbSound, NEW c \in RbClients, ReleaseDeferred(c)
  PROVE  RbSound'
<1> DEFINE o == outbox[c]
           d == deferred[c]
           space == OUTBOUND_QUEUE - Len(o)
           n == IF Len(d) < space THEN Len(d) ELSE space
           first == SubSeq(d, 1, n)
           rest == SubSeq(d, n + 1, Len(d))
<1>1. /\ conn[c] = "loop" /\ pending[c] = <<>> /\ c \in filling /\ c \in entry
      /\ outbox' = [outbox EXCEPT ![c] = o \o first] /\ pending' = [pending EXCEPT ![c] = rest]
      /\ deferred' = [deferred EXCEPT ![c] = <<>>]
      /\ filling' = (IF rest = <<>> THEN filling \ {c} ELSE filling)
      /\ fill' = (IF rest = <<>> THEN fill \ {c} ELSE fill)
      /\ UNCHANGED <<retained, onDisk, writes, batch, attempts, store, conn, entry, filters, by_filter, owed, view, subscribes, left, swept, pubs, starts>>
  BY DEF ReleaseDeferred, diskVars
<1>2. LineSound(c) /\ DOMAIN pending = RbClients /\ DOMAIN outbox = RbClients /\ DOMAIN deferred = RbClients /\ DOMAIN conn = RbClients /\ DOMAIN owed = RbClients /\ DOMAIN view = RbClients
  BY DEF RbSound, RbTyped
<1>3. o \in Seq(Plain) /\ d \in Seq(Plain) /\ Len(o) <= OUTBOUND_QUEUE /\ owed[c] = {}
  BY <1>1, <1>2 DEF LineSound, LineTyped, LineShape
<1>4. n \in Nat /\ n <= Len(d) /\ Len(o) \in Nat /\ Len(o) + n <= OUTBOUND_QUEUE
  <2>1. Len(o) \in Nat /\ Len(d) \in Nat /\ OUTBOUND_QUEUE \in Nat
    BY <1>3, LenProperties, RelayConstants
  <2>2. \A a, b, q \in Nat : a <= q => LET m == IF b < q - a THEN b ELSE q - a IN m \in Nat /\ m <= b /\ a + m <= q
    OBVIOUS
  <2>3. Len(o) <= OUTBOUND_QUEUE
    BY <1>3
  <2> HIDE DEF o, d
  <2> QED BY <2>1, <2>2, <2>3
<1> HIDE DEF n
<1>5. first \in Seq(Plain) /\ Len(first) = n /\ rest \in Seq(Plain) /\ first \o rest = d
  <2> HIDE DEF d
  <2> QED BY <1>3, <1>4, CutInTwo
<1> HIDE DEF o, d, first, rest
<1>6. o \o first \in Seq(Plain) /\ Len(o \o first) <= OUTBOUND_QUEUE /\ rest \in Seq(Frames)
  <2>1. o \o first \in Seq(Plain) /\ Len(o \o first) = Len(o) + Len(first)
    BY <1>3, <1>5, ConcatProperties
  <2>2. rest \in Seq(Frames)
    BY <1>5, FrameTyped
  <2> QED BY <1>4, <1>5, <2>1, <2>2
<1>7. outbox'[c] = o \o first /\ pending'[c] = rest /\ deferred'[c] = <<>> /\ <<>> \in Seq(Plain)
  BY <1>1, <1>2
<1>8. \A e \in RbClients : e # c => SameLine(e)
  BY <1>1, <1>2 DEF SameLine
<1>9. LineTyped(c)'
  BY <1>1, <1>2, <1>6, <1>7 DEF LineSound, LineTyped
<1>10. LineShape(c)'
  BY <1>1, <1>2, <1>3, <1>7 DEF LineSound, LineShape
<1>11. ASSUME NEW t \in Topics PROVE comes(c, t)' = comes(c, t)
  <2> DEFINE x == view[c][t]
             h == retained[t]
  <2>1. /\ comes(c, t) = known_after(known_after(view[c][t], outbox[c] \o pending[c], t, retained[t]), deferred[c], t, retained[t])
        /\ comes(c, t)' = known_after(known_after(view'[c][t], outbox'[c] \o pending'[c], t, retained'[t]), deferred'[c], t, retained'[t])
    BY <1>1, <1>3 DEF comes
  <2>2. /\ comes(c, t) = known_after(known_after(x, o \o <<>>, t, h), d, t, h)
        /\ comes(c, t)' = known_after(known_after(x, (o \o first) \o rest, t, h), <<>>, t, h)
    BY <1>1, <1>7, <2>1 DEF o, d
  <2>3. o \o <<>> = o
    BY <1>3, ConcatEmptySeq
  <2> HIDE DEF x, h
  <2>4. known_after(x, (o \o first) \o rest, t, h) = known_after(known_after(x, o, t, h), d, t, h)
    <3> DEFINE q == o \o first
    <3>1. q \in Seq(Plain)
      BY <1>6
    <3>2. \A y : known_after(y, q, t, h) = known_after(known_after(y, o, t, h), first, t, h)
      BY <1>3, <1>5, AfterBoth
    <3>3. \A y : known_after(y, d, t, h) = known_after(known_after(y, first, t, h), rest, t, h)
      <4>1. \A y : known_after(y, first \o rest, t, h) = known_after(known_after(y, first, t, h), rest, t, h)
        <5>1. first \in Seq(Plain) /\ rest \in Seq(Plain)
          BY <1>5
        <5> QED BY <5>1, AfterBoth
      <4> QED BY <1>5, <4>1
    <3> HIDE DEF q
    <3>4. known_after(x, q \o rest, t, h) = known_after(known_after(x, q, t, h), rest, t, h)
      BY <1>5, <3>1, AfterBoth
    <3>5. known_after(x, q \o rest, t, h) = known_after(known_after(x, o, t, h), d, t, h)
      BY <3>2, <3>3, <3>4
    <3> QED BY <3>5 DEF q
  <2> QED BY <2>2, <2>3, <2>4, AfterNothing
<1>12. ASSUME NEW t \in Topics, Silent(o, t), Silent(d, t)
       PROVE  Silent(outbox'[c], t) /\ Silent(pending'[c], t) /\ Silent(deferred'[c], t)
  <2>1. Len(d) \in Nat
    BY <1>3, LenProperties
  <2>2. Silent(first, t)
    <3>1. \A m, k \in Int : 1 <= m /\ k <= Len(d) => Silent(SubSeq(d, m, k), t)
      BY <1>3, <1>12, SilentParts
    <3>2. n \in Int /\ 1 \in Int /\ 1 <= 1
      BY <1>4
    <3> QED BY <1>4, <3>1, <3>2 DEF first
  <2>3. Silent(rest, t)
    <3>1. \A m, k \in Int : 1 <= m /\ k <= Len(d) => Silent(SubSeq(d, m, k), t)
      BY <1>3, <1>12, SilentParts
    <3>2. n + 1 \in Int /\ Len(d) \in Int /\ 1 <= n + 1 /\ Len(d) <= Len(d)
      BY <1>4, <2>1
    <3> QED BY <3>1, <3>2 DEF rest
  <2>4. Silent(o \o first, t)
    BY <1>3, <1>5, <1>12, <2>2, SilentParts
  <2>5. Silent(<<>>, t)
    BY DEF Silent
  <2> QED BY <1>7, <2>3, <2>4, <2>5
<1>13. LineTold(c)'
  BY <1>1, <1>2, <1>11, <1>12, MovedAlong DEF LineSound, o, d
<1>14. Registers'
  BY <1>1 DEF RbSound, RbTyped, Registers, RegistersAgree
<1> QED BY <1>1, <1>2, <1>8, <1>9, <1>10, <1>13, <1>14, StepOfOne DEF LineSound

LEMMA WriterSound ==
  ASSUME RbSound, NEW c \in RbClients, WriterSends(c)
  PROVE  RbSound'
<1> DEFINE o == outbox[c]
           f == Head(o)
<1>1. /\ o # <<>> /\ outbox' = [outbox EXCEPT ![c] = Tail(o)]
      /\ view' = IF f.topic \in Topics /\ f.payload # Live THEN [view EXCEPT ![c][f.topic] = f.payload] ELSE view
      /\ UNCHANGED <<retained, onDisk, writes, batch, attempts, store, conn, entry, filters, by_filter, fill, deferred, filling, pending, owed, subscribes, left, swept, pubs, starts>>
  BY DEF WriterSends, diskVars, entryVars
<1>2. LineSound(c) /\ DOMAIN outbox = RbClients /\ DOMAIN view = RbClients
  BY DEF RbSound, RbTyped
<1>3. o \in Seq(Plain) /\ Len(o) <= OUTBOUND_QUEUE /\ view[c] \in [Topics -> 0..MaxPublishes] /\ pending[c] \in Seq(Frames)
  BY <1>2 DEF LineSound, LineTyped
<1>4. f \in Plain /\ Tail(o) \in Seq(Plain) /\ Len(Tail(o)) = Len(o) - 1 /\ Len(o) \in Nat
  BY <1>1, <1>3, HeadTailProperties, LenProperties
<1>5. f.kept = FALSE /\ (f.payload # Live => f.payload \in 0..MaxPublishes)
  <2>1. f.payload \in 0..Live /\ f.kept = FALSE
    BY <1>4 DEF Plain
  <2> HIDE DEF f
  <2>2. \A p \in 0..Live : p # Live => p \in 0..MaxPublishes
    BY FrameTyped
  <2> QED BY <2>1, <2>2
<1> HIDE DEF o, f
<1>6. outbox'[c] = Tail(o)
  BY <1>1, <1>2
<1>7. /\ view'[c] \in [Topics -> 0..MaxPublishes]
      /\ \A t \in Topics : view'[c][t] = IF f.topic = t /\ f.payload # Live THEN f.payload ELSE view[c][t]
      /\ \A e \in RbClients : e # c => view'[e] = view[e]
      /\ DOMAIN view' = RbClients
  <2>1. CASE f.topic \in Topics /\ f.payload # Live
    <3>1. view' = [view EXCEPT ![c] = [view[c] EXCEPT ![f.topic] = f.payload]]
      BY <1>1, <2>1
    <3>2. view'[c] = [view[c] EXCEPT ![f.topic] = f.payload] /\ DOMAIN view' = RbClients /\ \A e \in RbClients : e # c => view'[e] = view[e]
      BY <1>2, <3>1
    <3> QED BY <1>3, <1>5, <2>1, <3>2
  <2>2. CASE ~(f.topic \in Topics /\ f.payload # Live)
    <3>1. view' = view
      BY <1>1, <2>2
    <3> QED BY <1>2, <1>3, <2>2, <3>1
  <2> QED BY <2>1, <2>2
<1>8. \A e \in RbClients : e # c => SameLine(e)
  BY <1>1, <1>2, <1>7 DEF SameLine
<1>9. LineTyped(c)'
  <2>1. Len(Tail(o)) <= OUTBOUND_QUEUE
    <3>1. OUTBOUND_QUEUE \in Nat
      BY RelayConstants
    <3> QED BY <1>3, <1>4, <3>1
  <2> QED BY <1>1, <1>2, <1>4, <1>6, <1>7, <2>1 DEF LineSound, LineTyped
<1>10. LineShape(c)'
  <2>1. conn[c] \notin {"out", "new"}
    BY <1>1, <1>2 DEF LineSound, LineShape, o
  <2> QED BY <1>1, <1>2, <2>1 DEF LineSound, LineShape
<1>11. ASSUME NEW t \in Topics PROVE comes(c, t)' = comes(c, t)
  <2> DEFINE x == view[c][t]
             x2 == view'[c][t]
             h == retained[t]
             p == pending[c]
             r == Tail(o)
             learnt == known_after(view[c][t], outbox[c] \o pending[c], t, retained[t])
  <2>1. x2 = IF tells(f, t, h) THEN told(f, h) ELSE x
    BY <1>5, <1>7 DEF tells, told
  <2>2. p \in Seq(Frames) /\ o \in Seq(Frames) /\ r \in Seq(Frames)
    BY <1>3, <1>4, FrameTyped
  <2> HIDE DEF x, x2, h, p
  <2>3. known_after(x, o, t, h) = known_after(IF tells(f, t, h) THEN told(f, h) ELSE x, r, t, h)
    BY <1>1, <2>2, AfterFirst DEF f
  <2> HIDE DEF r
  <2>4. known_after(x, o \o p, t, h) = known_after(known_after(x, o, t, h), p, t, h) /\ known_after(x2, r \o p, t, h) = known_after(known_after(x2, r, t, h), p, t, h)
    BY <2>2, AfterBoth
  <2>5. known_after(x2, r \o p, t, h) = known_after(x, o \o p, t, h)
    BY <2>1, <2>3, <2>4
  <2>6. learnt' = learnt
    BY <1>1, <1>6, <2>5 DEF x, x2, h, p, r, o
  <2> HIDE DEF learnt
  <2>7. comes(c, t) = known_after(IF t \in owed[c] THEN known_after(learnt, <<Retained(t)>>, t, retained[t]) ELSE learnt, deferred[c], t, retained[t])
    BY DEF comes, learnt
  <2>8. comes(c, t)' = known_after(IF t \in owed'[c] THEN known_after(learnt', <<Retained(t)>>, t, retained'[t]) ELSE learnt', deferred'[c], t, retained'[t])
    BY DEF comes, learnt
  <2> QED BY <1>1, <2>6, <2>7, <2>8
<1>12. ASSUME NEW t \in Topics, Silent(o, t) PROVE view'[c][t] = view[c][t] /\ Silent(outbox'[c], t)
  <2>1. Head(o).topic # t /\ Silent(Tail(o), t)
    BY <1>1, <1>3, <1>12, SilentParts
  <2> QED BY <1>6, <1>7, <2>1 DEF f
<1>13. LineTold(c)'
  BY <1>1, <1>2, <1>11, <1>12, MovedAlong DEF LineSound, o
<1>14. Registers'
  BY <1>1 DEF RbSound, RbTyped, Registers, RegistersAgree
<1> QED BY <1>1, <1>2, <1>7, <1>8, <1>9, <1>10, <1>13, <1>14, StepOfOne DEF LineSound, RbSound, RbTyped
LEMMA NothingYet ==
  NoneKept \in [Topics -> 0..MaxPublishes] /\ Len(<<>>) = 0 /\ 0 <= OUTBOUND_QUEUE
<1>1. NoneKept \in [Topics -> 0..MaxPublishes]
  BY FrameTyped DEF NoneKept
<1>2. \A q \in Nat : Len(<<>>) = 0 /\ 0 <= q
  OBVIOUS
<1>3. OUTBOUND_QUEUE \in Nat
  BY RelayConstants
<1> QED BY <1>1, <1>2, <1>3

LEMMA EndSound ==
  ASSUME RbSound, NEW c \in RbClients, EndConn(c)
  PROVE  RbSound'
<1> USE DEF EndConn, out_of, diskVars
<1>1. /\ DOMAIN conn = RbClients /\ DOMAIN filters = RbClients /\ DOMAIN deferred = RbClients /\ DOMAIN pending = RbClients
      /\ DOMAIN owed = RbClients /\ DOMAIN outbox = RbClients /\ DOMAIN view = RbClients /\ DOMAIN by_filter = Filters
  BY DEF RbSound, RbTyped
<1>2. \A e \in RbClients : e # c => SameLine(e)
  BY <1>1 DEF SameLine
<1>3. /\ conn'[c] = "out" /\ c \notin entry' /\ c \notin fill' /\ c \notin filling' /\ c \notin left' /\ filters'[c] = {}
      /\ deferred'[c] = <<>> /\ pending'[c] = <<>> /\ owed'[c] = {} /\ outbox'[c] = <<>> /\ view'[c] = NoneKept
  BY <1>1
<1>4. LineTyped(c)'
  <2>1. NoneKept \in [Topics -> 0..MaxPublishes] /\ Len(<<>>) = 0 /\ 0 <= OUTBOUND_QUEUE
    BY NothingYet
  <2>2. <<>> \in Seq(Plain) /\ <<>> \in Seq(Frames)
    OBVIOUS
  <2> QED BY <1>3, <2>1, <2>2 DEF LineTyped
<1>5. LineShape(c)'
  BY <1>3 DEF LineShape
<1>6. LineTold(c)'
  BY <1>3 DEF LineTold
<1>7. Registers'
  BY <1>1 DEF RbSound, RbTyped, Registers, RegistersAgree
<1>8. /\ DOMAIN conn' = RbClients /\ DOMAIN deferred' = RbClients /\ DOMAIN pending' = RbClients
      /\ DOMAIN owed' = RbClients /\ DOMAIN outbox' = RbClients /\ DOMAIN view' = RbClients
      /\ UNCHANGED <<retained, swept, onDisk, writes, batch, store, pubs>>
  BY <1>1
<1> QED BY <1>2, <1>4, <1>5, <1>6, <1>7, <1>8, StepOfOne DEF LineSound

-----------------------------------------------------------------------------
\* A write queued, or not, keeps memory and disk together.
LEMMA QueuedSound ==
  ASSUME RbSound, NEW t \in Topics, NEW p \in 0..MaxPublishes, queued(t, p),
         retained' = [retained EXCEPT ![t] = p], UNCHANGED <<onDisk, batch, store>>
  PROVE  /\ retained' \in [Topics -> 0..MaxPublishes] /\ writes' \in Seq(Writes) /\ DiskFollows'
<1>1. /\ writes \in Seq(Writes) /\ batch \in Seq(Writes) /\ retained \in [Topics -> 0..MaxPublishes]
      /\ Frame(t, p) \in Writes /\ store \in {"open", "broken", "taken"}
  BY FrameTyped DEF RbSound, RbTyped
<1>2. writes' = Append(writes, Frame(t, p)) \/ (store # "open" /\ writes' = writes)
  BY <1>1 DEF queued
<1>3. Append(writes, Frame(t, p)) \in Seq(Writes)
  BY <1>1, AppendProperties
<1>4. DiskFollows'
  <2> SUFFICES ASSUME store = "open" PROVE retained' = written(onDisk, batch \o writes')
    BY DEF DiskFollows, written
  <2>1. writes' = Append(writes, Frame(t, p))
    BY <1>2
  <2> DEFINE f == Frame(t, p)
             w == batch \o writes
  <2>2. batch \o Append(writes, f) = Append(w, f)
    <3> HIDE DEF f
    <3> QED BY <1>1, AppendIsConcat, ConcatAssociative, ConcatProperties
  <2>3. w \in Seq(Writes)
    BY <1>1, ConcatProperties
  <2>4. retained = written(onDisk, w)
    BY DEF RbSound, DiskFollows
  <2> HIDE DEF w
  <2>5. written(onDisk, Append(w, f)) = [written(onDisk, w) EXCEPT ![t] = p]
    BY <2>3, WrittenOne
  <2> QED BY <2>1, <2>2, <2>4, <2>5
<1> QED BY <1>1, <1>2, <1>3, <1>4

LEMMA SweepSound ==
  ASSUME RbSound, NEW u \in Topics, Sweep(u)
  PROVE  RbSound'
<1>1. /\ queued(u, Nothing) /\ retained' = [retained EXCEPT ![u] = Nothing] /\ swept' = swept \cup {u}
      /\ UNCHANGED <<onDisk, batch, store, conn, entry, filters, by_filter, fill, deferred, filling, pending, owed, outbox, view, left, pubs>>
  BY DEF Sweep, entryVars, lineVars
<1>2. retained' \in [Topics -> 0..MaxPublishes] /\ writes' \in Seq(Writes) /\ DiskFollows'
  BY <1>1, FrameTyped, QueuedSound
<1>3. RbTyped'
  BY <1>1, <1>2 DEF RbSound, RbTyped
<1>4. RegistersAgree'
  BY <1>1 DEF RbSound, RegistersAgree
<1>5. ASSUME NEW c \in RbClients PROVE LineSound(c)'
  <2>1. LineSound(c)
    BY DEF RbSound
  <2>2. LineTyped(c)' /\ LineShape(c)'
    BY <1>1, <2>1 DEF LineSound, LineTyped, LineShape
  <2>3. LineTold(c)'
    <3> SUFFICES ASSUME c \in entry, c \notin left, NEW t \in Topics
                 PROVE (IF Asked(c, t) THEN t \notin swept => comes(c, t) = retained[t] ELSE Quiet(c, t))'
      BY <1>1 DEF LineTold
    <3>1. IF Asked(c, t) THEN t \notin swept => comes(c, t) = retained[t] ELSE Quiet(c, t)
      BY <2>1 DEF LineSound, LineTold
    <3>2. (Asked(c, t)' <=> Asked(c, t)) /\ (Quiet(c, t)' <=> Quiet(c, t))
      BY <1>1 DEF Asked, Quiet
    <3>3. CASE t = u
      BY <1>1, <3>1, <3>2, <3>3
    <3>4. CASE t # u
      <4>1. retained'[t] = retained[t]
        BY <1>1, <3>4 DEF RbSound, RbTyped
      <4>2. comes(c, t)' = comes(c, t)
        BY <1>1, <4>1 DEF comes
      <4> QED BY <1>1, <3>1, <3>2, <4>1, <4>2
    <3> QED BY <3>3, <3>4
  <2> QED BY <2>2, <2>3 DEF LineSound
<1> QED BY <1>2, <1>3, <1>4, <1>5 DEF RbSound

\* A step of the store alone.
LEMMA StoreStep ==
  ASSUME RbSound, UNCHANGED <<retained, swept, conn, entryVars, lineVars, pubs>>, DiskFollows',
         onDisk' \in [Topics -> 0..MaxPublishes], writes' \in Seq(Writes), batch' \in Seq(Writes),
         store' \in {"open", "broken", "taken"}
  PROVE  RbSound'
<1> USE DEF entryVars, lineVars
<1>1. RbTyped'
  BY DEF RbSound, RbTyped
<1>2. RegistersAgree'
  BY DEF RbSound, RegistersAgree
<1>3. ASSUME NEW c \in RbClients PROVE LineSound(c)'
  <2>1. SameLine(c)
    BY DEF SameLine
  <2> QED BY <2>1, LineStays DEF RbSound
<1> QED BY <1>1, <1>2, <1>3 DEF RbSound

LEMMA TakeSound ==
  ASSUME RbSound, TakeBatch
  PROVE  RbSound'
<1>1. PICK n \in 1..Len(writes) : /\ n <= STORE_BATCH /\ batch' = SubSeq(writes, 1, n)
                                  /\ writes' = SubSeq(writes, n + 1, Len(writes))
  BY DEF TakeBatch
<1>2. writes \in Seq(Writes) /\ n \in Nat /\ n <= Len(writes)
  <2>1. writes \in Seq(Writes)
    BY DEF RbSound, RbTyped
  <2>2. Len(writes) \in Nat
    BY <2>1, LenProperties
  <2> QED BY <2>1, <2>2
<1>3. batch' \in Seq(Writes) /\ writes' \in Seq(Writes) /\ batch' \o writes' = writes
  BY <1>1, <1>2, CutInTwo
<1>4. batch \o writes = writes
  <2>1. batch = <<>>
    BY DEF TakeBatch
  <2> QED BY <1>2, <2>1, ConcatEmptySeq
<1>5. DiskFollows'
  BY <1>3, <1>4 DEF RbSound, DiskFollows, TakeBatch, written
<1> QED BY <1>3, <1>5, StoreStep DEF TakeBatch, RbSound, RbTyped

LEMMA WriteSound ==
  ASSUME RbSound, WriteBatch
  PROVE  RbSound'
<1>1. /\ writes \in Seq(Writes) /\ batch \in Seq(Writes) /\ <<>> \in Seq(Writes) /\ onDisk \in [Topics -> 0..MaxPublishes]
      /\ retained \in [Topics -> 0..MaxPublishes] /\ store \in {"open", "broken", "taken"}
  BY DEF RbSound, RbTyped
<1>2. UNCHANGED <<retained, swept, conn, entryVars, lineVars, pubs>>
  BY DEF WriteBatch
<1>3. CASE onDisk' = written(onDisk, batch) /\ batch' = <<>> /\ UNCHANGED <<writes, store>>
  <2>1. written(onDisk, batch) \in [Topics -> 0..MaxPublishes]
    BY <1>1, WrittenTyped
  <2>2. <<>> \o writes = writes
    BY <1>1, ConcatEmptySeq
  <2>3. written(written(onDisk, batch), writes) = written(onDisk, batch \o writes)
    BY <1>1, WrittenBoth
  <2>4. written(onDisk', batch' \o writes') = written(onDisk, batch \o writes)
    BY <1>3, <2>2, <2>3
  <2>5. DiskFollows'
    <3> SUFFICES ASSUME store' = "open" PROVE retained' = written(onDisk', batch' \o writes')
      BY DEF DiskFollows, written
    <3> QED BY <1>2, <1>3, <2>4 DEF RbSound, DiskFollows
  <2> QED BY <1>1, <1>2, <1>3, <2>1, <2>5, StoreStep
<1>4. CASE UNCHANGED <<onDisk, writes, batch, store>>
  <2>1. DiskFollows'
    BY <1>2, <1>4 DEF RbSound, DiskFollows, written
  <2> QED BY <1>1, <1>2, <1>4, <2>1, StoreStep
<1>5. CASE batch' = <<>> /\ writes' = <<>> /\ store' = (IF store = "taken" THEN "taken" ELSE "broken") /\ UNCHANGED onDisk
  <2>1. DiskFollows' /\ store' \in {"broken", "taken"}
    BY <1>5 DEF DiskFollows
  <2> QED BY <1>1, <1>2, <1>5, <2>1, StoreStep
<1> QED BY <1>3, <1>4, <1>5 DEF WriteBatch

LEMMA SigTermSound ==
  ASSUME RbSound, SigTerm
  PROVE  RbSound'
<1>1. DiskFollows'
  BY DEF DiskFollows, SigTerm
<1> QED BY <1>1, StoreStep DEF SigTerm, RbSound, RbTyped

LEMMA StartSound ==
  ASSUME RbSound, NEW k, StartAgain(k)
  PROVE  RbSound'
<1> USE DEF StartAgain, out_of
<1>1. NoneKept \in [Topics -> 0..MaxPublishes] /\ Len(<<>>) = 0 /\ 0 <= OUTBOUND_QUEUE
  BY NothingYet
<1>2. <<>> \in Seq(Plain) /\ <<>> \in Seq(Frames) /\ <<>> \in Seq(Writes)
  OBVIOUS
<1>3. onDisk \in [Topics -> 0..MaxPublishes] /\ entry \subseteq RbClients /\ pubs \in Nat
  BY DEF RbSound, RbTyped
<1>4. RbTyped'
  BY <1>2, <1>3 DEF RbTyped
<1>5. DiskFollows'
  <2>1. <<>> \o <<>> = <<>>
    OBVIOUS
  <2>2. written(onDisk, <<>>) = onDisk
    BY <1>3, WrittenNone
  <2>3. written(onDisk', batch' \o writes') = retained'
    BY <2>1, <2>2
  <2> QED BY <2>3 DEF DiskFollows
<1>6. entry' = {} /\ \A f \in Filters : by_filter'[f] \cap RbClients = {}
  BY <1>3
<1>7. RegistersAgree'
  BY <1>6 DEF RegistersAgree
<1>8. ASSUME NEW c \in RbClients PROVE LineSound(c)'
  <2>1. /\ conn'[c] = "out" /\ c \notin entry' /\ c \notin fill' /\ c \notin filling' /\ c \notin left' /\ filters'[c] = {}
        /\ deferred'[c] = <<>> /\ pending'[c] = <<>> /\ owed'[c] = {} /\ outbox'[c] = <<>> /\ view'[c] = NoneKept
    BY <1>6
  <2>2. LineTyped(c)'
    BY <1>1, <1>2, <2>1 DEF LineTyped
  <2>3. LineShape(c)'
    BY <2>1 DEF LineShape
  <2>4. LineTold(c)'
    BY <2>1 DEF LineTold
  <2> QED BY <2>2, <2>3, <2>4 DEF LineSound
<1> QED BY <1>4, <1>5, <1>7, <1>8 DEF RbSound
LEMMA PublishSound ==
  ASSUME RbSound, NEW u \in Topics, NEW retain \in BOOLEAN, NEW empty \in BOOLEAN, Publish(u, retain, empty)
  PROVE  RbSound'
<1> DEFINE p == IF ~retain THEN Live ELSE IF empty THEN Nothing ELSE pubs + 1
           to == recipients(u)
           slow == {c \in to : no_room(c)}
           f == Frame(u, p)
<1>1. /\ pubs < MaxPublishes /\ pubs' = pubs + 1
      /\ IF retain THEN queued(u, p) /\ retained' = [retained EXCEPT ![u] = p] ELSE UNCHANGED <<writes, retained>>
      /\ swept' = (IF retain THEN swept \ {u} ELSE swept)
      /\ deferred' = [c \in RbClients |-> IF c \in slow THEN <<>>
                         ELSE IF c \in to /\ held_for(c) THEN Append(deferred[c], f) ELSE deferred[c]]
      /\ outbox' = [c \in RbClients |-> IF c \in to \ slow /\ ~held_for(c) THEN Append(outbox[c], f) ELSE outbox[c]]
      /\ entry' = entry \ slow /\ fill' = fill \ slow
      /\ filters' = [c \in RbClients |-> IF c \in slow THEN {} ELSE filters[c]]
      /\ by_filter' = [g \in Filters |-> by_filter[g] \ slow]
      /\ UNCHANGED <<onDisk, batch, attempts, store, conn, filling, pending, owed, view, subscribes, left, starts>>
  BY DEF Publish, fan_out, out_of
<1>2. p \in 0..Live /\ (p = Live \/ p \in 0..MaxPublishes) /\ (retain <=> p # Live) /\ (retain => p \in 0..MaxPublishes)
  <2>1. pubs \in Nat
    BY DEF RbSound, RbTyped
  <2>2. pubs + 1 \in 0..MaxPublishes
    BY <1>1, <2>1, FrameTyped
  <2>3. Live \in 0..Live
    BY FrameTyped
  <2> QED BY <2>2, <2>3, FrameTyped
<1>3. f \in Plain /\ f \in Frames
  BY <1>2, FrameTyped
<1>4. /\ \A t, h : tells(f, t, h) <=> (t = u /\ p # Live)
      /\ \A h : told(f, h) = p
      /\ f.topic = u
  <2>1. f.topic = u
    BY DEF Frame
  <2> QED BY <2>1, Telling
<1> HIDE DEF p, f, slow, to
<1>5. \A c \in RbClients : c \in to <=> (c \in entry /\ Asked(c, u))
  <2> SUFFICES ASSUME NEW c \in RbClients PROVE c \in to <=> (c \in entry /\ Asked(c, u))
    OBVIOUS
  <2>1. filters[c] \subseteq Filters
    BY DEF RbSound, LineSound, LineTyped
  <2>2. \A g \in Filters : c \in by_filter[g] <=> (c \in entry /\ g \in filters[c])
    BY DEF RbSound, RegistersAgree
  <2> QED BY <2>1, <2>2 DEF to, recipients, Asked
<1>6. slow \subseteq to /\ \A c \in to : c \notin slow => ~no_room(c)
  BY DEF slow
<1>7. RbTyped' /\ DiskFollows'
  <2>1. CASE retain
    <3>1. retained' \in [Topics -> 0..MaxPublishes] /\ writes' \in Seq(Writes) /\ DiskFollows'
      BY <1>1, <1>2, <2>1, QueuedSound
    <3> QED BY <1>1, <3>1 DEF RbSound, RbTyped
  <2>2. CASE ~retain
    <3>1. DiskFollows'
      BY <1>1, <2>2 DEF RbSound, DiskFollows, written
    <3> QED BY <1>1, <2>2, <3>1 DEF RbSound, RbTyped
  <2> QED BY <2>1, <2>2
<1>8. RegistersAgree'
  BY <1>1 DEF RbSound, RbTyped, RegistersAgree
<1>9. \A t \in Topics : t # u => retained'[t] = retained[t]
  BY <1>1 DEF RbSound, RbTyped
<1>10. retain => retained'[u] = p
  BY <1>1 DEF RbSound, RbTyped
<1>11. ~retain => retained' = retained /\ swept' = swept
  BY <1>1
<1>12. \A t \in Topics : t \notin swept' => t \notin swept \/ (t = u /\ retain)
  BY <1>1
<1>13. ASSUME NEW c \in RbClients PROVE LineSound(c)'
  <2> DEFINE o == outbox[c]
             d == deferred[c]
  <2>1. LineSound(c)
    BY DEF RbSound
  <2>2. o \in Seq(Plain) /\ d \in Seq(Plain) /\ Len(o) <= OUTBOUND_QUEUE /\ Len(o) \in Nat /\ o \in Seq(Frames)
    <3>1. o \in Seq(Plain) /\ d \in Seq(Plain) /\ Len(o) <= OUTBOUND_QUEUE
      BY <2>1 DEF LineSound, LineTyped
    <3> HIDE DEF o, d
    <3> QED BY <3>1, LenProperties, FrameTyped
  <2>3. UNCHANGED <<conn[c], filling, pending[c], owed[c], view[c], left>>
    BY <1>1
  <2>4. CASE c \in slow
    <3>1. deferred'[c] = <<>> /\ outbox'[c] = o /\ c \notin entry' /\ c \notin fill' /\ filters'[c] = {} /\ c \in entry
      BY <1>1, <1>5, <1>6, <2>4
    <3>2. <<>> \in Seq(Plain)
      OBVIOUS
    <3>3. LineTyped(c)'
      BY <2>1, <2>3, <3>1, <3>2 DEF LineSound, LineTyped
    <3>4. LineShape(c)'
      BY <2>1, <2>3, <3>1 DEF LineSound, LineShape
    <3> QED BY <3>1, <3>3, <3>4 DEF LineSound, LineTold
  <2>5. CASE c \notin slow
    <3>1. /\ (c \in entry' <=> c \in entry) /\ (c \in fill' <=> c \in fill) /\ filters'[c] = filters[c]
          /\ (Asked(c, u) /\ c \in entry => ~no_room(c))
          /\ deferred'[c] = (IF c \in entry /\ Asked(c, u) /\ c \in fill THEN Append(d, f) ELSE d)
          /\ outbox'[c] = (IF c \in entry /\ Asked(c, u) /\ c \notin fill THEN Append(o, f) ELSE o)
      BY <1>1, <1>5, <1>6, <2>5 DEF held_for
    <3>2. Append(d, f) \in Seq(Plain) /\ Append(o, f) \in Seq(Plain) /\ Len(Append(o, f)) = Len(o) + 1
      BY <1>3, <2>2, AppendProperties
    <3>3. c \in entry /\ Asked(c, u) /\ c \notin fill => Len(o) + 1 <= OUTBOUND_QUEUE
      <4>1. c \in entry /\ Asked(c, u) /\ c \notin fill => ~(Len(o) >= OUTBOUND_QUEUE)
        BY <3>1 DEF no_room, held_for
      <4>2. OUTBOUND_QUEUE \in Nat
        BY RelayConstants
      <4> HIDE DEF o
      <4> QED BY <2>2, <4>1, <4>2
    <3>4. LineTyped(c)'
      <4>1. deferred'[c] \in Seq(Plain) /\ outbox'[c] \in Seq(Plain) /\ Len(outbox'[c]) <= OUTBOUND_QUEUE
        <5> HIDE DEF o, d
        <5> QED BY <2>2, <3>1, <3>2, <3>3
      <4> QED BY <2>1, <2>3, <3>1, <4>1 DEF LineSound, LineTyped
    <3>5. LineShape(c)'
      BY <2>1, <2>3, <3>1 DEF LineSound, LineShape
    <3>6. LineTold(c)'
      <4> SUFFICES ASSUME c \in entry, c \notin left, NEW t \in Topics
                   PROVE (IF Asked(c, t) THEN t \notin swept => comes(c, t) = retained[t] ELSE Quiet(c, t))'
        BY <2>3, <3>1 DEF LineTold
      <4> DEFINE x == view[c][t]
                 h == retained[t]
                 h2 == retained'[t]
                 q == pending[c]
      <4>1. IF Asked(c, t) THEN t \notin swept => comes(c, t) = retained[t] ELSE Quiet(c, t)
        BY <2>1 DEF LineSound, LineTold
      <4>2. (Asked(c, t)' <=> Asked(c, t)) /\ view'[c][t] = view[c][t] /\ owed'[c] = owed[c] /\ pending'[c] = q
        BY <2>3, <3>1 DEF Asked
      <4>3. q \in Seq(Frames)
        BY <2>1 DEF LineSound, LineTyped
      <4>4. CASE ~Asked(c, t)
        <5>1. CASE t = u
          BY <3>1, <4>1, <4>2, <4>4, <5>1 DEF Quiet
        <5>2. CASE t # u
          <6>1. Silent(o, t) /\ Silent(d, t)
            BY <4>1, <4>4 DEF Quiet
          <6>2. f.topic # t
            BY <1>4, <5>2
          <6> HIDE DEF o, d
          <6>3. Silent(Append(o, f), t) /\ Silent(Append(d, f), t)
            BY <1>3, <2>2, <6>1, <6>2, SilentParts
          <6>4. Silent(outbox'[c], t) /\ Silent(deferred'[c], t)
            BY <3>1, <6>1, <6>3
          <6> QED BY <4>1, <4>2, <4>4, <6>4 DEF Quiet
        <5> QED BY <5>1, <5>2
      <4>5. CASE Asked(c, t)
        <5>1. CASE c \in fill
          <6> DEFINE learnt(v) == known_after(x, o \o q, t, v)
                     base(v) == IF t \in owed[c] THEN known_after(learnt(v), <<Retained(t)>>, t, v) ELSE learnt(v)
          <6>1. comes(c, t) = known_after(base(h), d, t, h)
            BY DEF comes
          <6>2. comes(c, t)' = known_after(base(h2), deferred'[c], t, h2)
            <7>1. outbox'[c] = o
              BY <3>1, <5>1
            <7> QED BY <4>2, <7>1 DEF comes
          <6> HIDE DEF base, d, h, h2
          <6>3. \A y, v : known_after(y, Append(d, f), t, v) = IF tells(f, t, v) THEN told(f, v) ELSE known_after(y, d, t, v)
            BY <1>3, <2>2, AfterLast
          <6>4. CASE t = u /\ retain
            <7>1. deferred'[c] = Append(d, f)
              BY <3>1, <4>5, <5>1, <6>4
            <7>2. comes(c, t)' = p
              BY <1>2, <1>4, <6>2, <6>3, <6>4, <7>1
            <7>3. h2 = p
              BY <1>10, <6>4 DEF h2
            <7> QED BY <4>2, <4>5, <7>2, <7>3 DEF h2
          <6>5. CASE ~(t = u /\ retain)
            <7>1. h2 = h
              BY <1>9, <1>11, <6>5 DEF h, h2
            <7>2. known_after(base(h2), deferred'[c], t, h2) = known_after(base(h), d, t, h)
              BY <1>2, <1>4, <3>1, <6>3, <6>5, <7>1
            <7>3. t \notin swept' => t \notin swept
              BY <1>12, <6>5
            <7> QED BY <4>1, <4>2, <4>5, <6>1, <6>2, <7>1, <7>2, <7>3 DEF h, h2
          <6> QED BY <6>4, <6>5
        <5>2. CASE c \notin fill
          <6>1. q = <<>> /\ owed[c] = {} /\ d = <<>>
            BY <2>1, <5>2 DEF LineSound, LineShape
          <6>2. outbox'[c] \in Seq(Frames)
            <7> HIDE DEF o
            <7> QED BY <2>2, <3>1, <3>2, FrameTyped
          <6>3. comes(c, t) = known_after(x, o, t, h)
            <7>1. o \o <<>> = o
              BY <2>2, ConcatEmptySeq
            <7>2. comes(c, t) = known_after(known_after(x, o \o <<>>, t, h), <<>>, t, h)
              BY <6>1 DEF comes
            <7> QED BY <7>1, <7>2, AfterNothing
          <6>4. comes(c, t)' = known_after(x, outbox'[c], t, h2)
            <7>1. outbox'[c] \o <<>> = outbox'[c]
              BY <6>2, ConcatEmptySeq
            <7>2. pending'[c] = <<>> /\ owed'[c] = {} /\ deferred'[c] = <<>> /\ view'[c][t] = x
              BY <3>1, <4>2, <5>2, <6>1
            <7>3. comes(c, t)' = known_after(known_after(x, outbox'[c] \o <<>>, t, h2), <<>>, t, h2)
              BY <7>2 DEF comes
            <7> QED BY <7>1, <7>3, AfterNothing
          <6> HIDE DEF o, h, h2, x
          <6>5. \A v : known_after(x, Append(o, f), t, v) = IF tells(f, t, v) THEN told(f, v) ELSE known_after(x, o, t, v)
            BY <1>3, <2>2, AfterLast
          <6>6. CASE t = u /\ retain
            <7>1. outbox'[c] = Append(o, f)
              BY <3>1, <4>5, <5>2, <6>6
            <7>2. comes(c, t)' = p
              BY <1>2, <1>4, <6>4, <6>5, <6>6, <7>1
            <7>3. h2 = p
              BY <1>10, <6>6 DEF h2
            <7> QED BY <4>2, <4>5, <7>2, <7>3 DEF h2
          <6>7. CASE ~(t = u /\ retain)
            <7>1. h2 = h
              BY <1>9, <1>11, <6>7 DEF h, h2
            <7>2. known_after(x, outbox'[c], t, h2) = known_after(x, o, t, h)
              BY <1>2, <1>4, <3>1, <6>5, <6>7, <7>1
            <7>3. t \notin swept' => t \notin swept
              BY <1>12, <6>7
            <7> QED BY <4>1, <4>2, <4>5, <6>3, <6>4, <7>1, <7>2, <7>3 DEF h, h2
          <6> QED BY <6>6, <6>7
        <5> QED BY <5>1, <5>2
      <4> QED BY <4>4, <4>5
    <3> QED BY <3>4, <3>5, <3>6 DEF LineSound
  <2> QED BY <2>4, <2>5
<1> QED BY <1>7, <1>8, <1>13 DEF RbSound

-----------------------------------------------------------------------------
LEMMA RbSoundStays == RbSound /\ [RbNext]_rbVars => RbSound'
<1> SUFFICES ASSUME RbSound, [RbNext]_rbVars PROVE RbSound'
  OBVIOUS
<1>1. ASSUME NEW c \in RbClients,
             \/ AcceptClient(c) \/ ConnectPacket(c) \/ PingReq(c) \/ Reply(c)
             \/ LookUp(c) \/ SendHead(c) \/ ReleaseDeferred(c) \/ WriterSends(c) \/ EndConn(c)
             \/ \E f \in Filters : Subscribe(c, f) \/ Unsubscribe(c, f)
      PROVE  RbSound'
  BY <1>1, AcceptSound, ConnectSound, PingSound, ReplySound, LookUpSound, SendHeadSound, ReleaseSound, WriterSound,
     EndSound, SubscribeSound, UnsubscribeSound
<1>2. ASSUME NEW t \in Topics, Sweep(t) \/ \E r, e \in BOOLEAN : Publish(t, r, e)
      PROVE  RbSound'
  BY <1>2, SweepSound, PublishSound
<1>3. CASE TakeBatch \/ WriteBatch \/ SigTerm \/ \E k \in BOOLEAN : StartAgain(k)
  BY <1>3, TakeSound, WriteSound, SigTermSound, StartSound
<1>4. CASE UNCHANGED rbVars
  <2>1. DiskFollows'
    BY <1>4 DEF rbVars, diskVars, RbSound, DiskFollows, written
  <2> QED BY <1>4, <2>1, StoreStep DEF rbVars, diskVars, RbSound, RbTyped
<1> QED BY <1>1, <1>2, <1>3, <1>4 DEF RbNext

\* RelaySound: a page that is subscribed ends with what the relay keeps of
\* every topic it asked for, whoever publishes while it loads; memory is what
\* the disk will hold; and the two registers of filters agree (Hub::subscribe,
\* publish, release_deferred and the writer thread of hidrarelay.rs).
THEOREM RelayIsSound == RbSpec => []RelaySound
<1>1. RbSound => RelaySound
  BY DEF RbSound, RbTyped, LineSound, LineTold, Asked, RelaySound, PagesCatchUp
<1>2. RbInit => RbSound
  BY InitSound
<1>3. RbSound /\ [RbNext]_rbVars => RbSound'
  BY RbSoundStays
<1> QED BY <1>1, <1>2, <1>3, PTL DEF RbSpec
=============================================================================
