---------------------------- MODULE ClientDaemon ----------------------------
(* The client's service: the requests on its control channel, the locks they *)
(* take, the one circuit, the kill switch, the network plan, and the passes   *)
(* a circuit spends.                                                         *)
(*                                                                           *)
(* A request is a task of its own.  It waits for the pocket's lock, then for *)
(* the lock file beside the pocket (which the command line takes too), then  *)
(* for the circuit's state; whoever builds a circuit holds all three, so     *)
(* there is one build at a time, in `build`.  What a build does between two   *)
(* awaits is one action; a crash or a `down` can come between two actions.   *)
EXTENDS Naturals, FiniteSets

CONSTANTS
  Reqs,            \* requests on the control channel
  Users, Root,     \* the accounts that may ask, and the one that is root
  Entries, Exits,  \* nodes of the pocket by slot
  HandNodes,       \* nodes an operator admitted this machine to by hand
  PassNodes,       \* nodes that admit with a pass (the others admit sessions)
  Operator,        \* who runs each node
  Passes, PassNode,\* passes, and the node each is for
  Signed,          \* the passes in the wallet to begin with
  Commands,        \* what each request may ask for in this instance
  Free, NoNode, NoPass, NoCircuit, NoBuild,
  MaxFaults

Nodes == Entries \cup Exits
Accounts == Users \cup {Root}
Connects == {"rapido", "privado", "rotate"}
Cmds == Connects \cup {"down", "shutdown", "get", "join", "refill", "cliget"}

ASSUME ClientAssumption ==
  /\ Root \notin Users
  /\ HandNodes \subseteq Nodes /\ PassNodes \subseteq Nodes
  /\ HandNodes \cap PassNodes = {}
  /\ PassNode \in [Passes -> PassNodes] /\ Signed \subseteq Passes
  /\ Commands \in [Reqs -> SUBSET Cmds]
  /\ MaxFaults \in Nat
  /\ Free \notin Reqs

VARIABLES
  running, stopping,   \* the service; `shutdown` has begun
  req,                 \* each request: where it is, what it asks, for whom
  connecting,          \* circuits asked for and not built yet, by request
  pocket_lock, file_lock, state_lock,
  active,              \* the circuit that is up
  build,               \* the circuit being built, by the holder of state_lock
  ks,                  \* the kill switch: "open", "hold" or "armed"
  plan,                \* hops of the network plan in place, 0 for none
  wallet,              \* passes.json
  kept,                \* pocket: the pass each node's invite was won with
  spent,               \* passes their nodes took or refused (at the nodes)
  sent,                \* history: <<pass, way>> sent to its node
  shown,               \* history: <<pass, way>> shown by a tunnel
  token_sent,          \* history: <<command, hops>> of each token request
  protect,             \* history: a circuit was up and nobody ended it
  ended,               \* history: requests a finished `down` had stopped
  issued,              \* history: passes signed and written down
  faults

service == <<running, stopping>>
locks   == <<pocket_lock, file_lock, state_lock>>
machine == <<ks, plan>>
files   == <<wallet, kept>>
hist    == <<sent, shown, token_sent, protect, ended, issued>>
vars == <<running, stopping, req, connecting, pocket_lock, file_lock,
          state_lock, active, build, ks, plan, wallet, kept, spent, sent,
          shown, token_sent, protect, ended, issued, faults>>

Ways == {"direct", "behind"}
Binding == [pass : Passes, way : Ways, used : BOOLEAN, old : BOOLEAN]

\* A failure of the operating system or of a file, or a crash of the service,
\* of a bounded number.
Fault == faults < MaxFaults /\ faults' = faults + 1
NoFault == faults' = faults
-----------------------------------------------------------------------------
(* Which nodes, from the pocket and the wallet.                              *)

count_for(w, n) == Cardinality({p \in w : PassNode[p] = n})

MutDirectPass(k, n) == k[n] # NoPass

direct_pass(k, n) == k[n] # NoPass /\ k[n].way = "direct"

\* A key redeemed from this address and never used, not long ago.
fresh(k, n) == direct_pass(k, n) /\ ~k[n].used /\ ~k[n].old

lease_likely_alive(k, n) == direct_pass(k, n) /\ ~k[n].old

usable(k, w, n) ==
  \/ n \notin PassNodes
  \/ count_for(w, n) > 0
  \/ lease_likely_alive(k, n)

usable_behind(w, n) == n \notin PassNodes \/ count_for(w, n) > 0

pair_allowed(e, x, allow) == allow \/ Operator[e] # Operator[x]

Pair == [entry : Entries \cup {NoNode}, exit : Exits]
hops(c) == IF c.entry = NoNode THEN 1 ELSE 2

\* pick_rapido and pick_privado on the nodes `without_dead` leaves.
Picks(es, xs, privado, allow) ==
  IF privado
  THEN {p \in Pair : /\ p.entry \in es /\ p.exit \in xs /\ p.entry # p.exit
                     /\ pair_allowed(p.entry, p.exit, allow)}
  ELSE {p \in Pair : p.entry = NoNode /\ p.exit \in xs}

\* The pocket without the nodes there is no pass for.
without_dead(privado) ==
  [entries |-> {n \in Entries : usable(kept, wallet, n)},
   exits |-> {n \in Exits : IF privado THEN usable_behind(wallet, n)
                                       ELSE usable(kept, wallet, n)}]

\* They are left out while others will do.
plan_connect(privado, allow) ==
  LET live == without_dead(privado)
      picks(es, xs) == Picks(es, xs, privado, allow)
  IN  IF picks(live.entries, live.exits) # {}
      THEN [picks |-> picks(live.entries, live.exits),
            entries |-> live.entries, pool |-> live.exits]
      ELSE [picks |-> picks(Entries, Exits), entries |-> Entries, pool |-> Exits]

preferring(s, ok) == IF s \cap ok # {} THEN s \cap ok ELSE s

\* The pairs `new_identity` may rotate to; none when no entry may go with the
\* exit chosen.
choose_rotation(a) ==
  LET others == a.pool \ {a.exit}
      ok(e, x) == e # x /\ pair_allowed(e, x, a.allow)
      exits == preferring({x \in others : \E e \in a.entries : ok(e, x)},
                          {x \in Exits : usable_behind(wallet, x)})
      next == IF exits = {} THEN {a.exit} ELSE exits
      with(x) == {e \in a.entries : ok(e, x)}
      entries(x) == LET o == preferring(with(x) \ {a.entry},
                                        {e \in Entries : usable(kept, wallet, e)})
                    IN  IF o = {} THEN with(x) \cap {a.entry} ELSE o
      only == preferring(others, {x \in Exits : usable(kept, wallet, x)})
  IN  IF a.entry = NoNode
      THEN {[entry |-> NoNode, exit |-> x] : x \in IF only = {} THEN {a.exit} ELSE only}
      ELSE UNION {{[entry |-> e, exit |-> x] : e \in entries(x)} : x \in next}
-----------------------------------------------------------------------------
Idle == [pc |-> "idle", cmd |-> "none", who |-> Root, owner |-> Root, entry |-> NoNode,
         exit |-> NoNode, entries |-> {}, pool |-> {}, allow |-> FALSE,
         stop |-> FALSE, stopped |-> {}, used |-> {}]

Init ==
  /\ running = TRUE /\ stopping = FALSE
  /\ req = [r \in Reqs |-> Idle]
  /\ connecting = {}
  /\ pocket_lock = Free /\ file_lock = Free /\ state_lock = Free
  /\ active = NoCircuit /\ build = NoBuild
  /\ ks = "open" /\ plan = 0
  /\ wallet = Signed /\ kept = [n \in Nodes |-> NoPass] /\ spent = {}
  /\ sent = {} /\ shown = {} /\ token_sent = {} /\ protect = FALSE
  /\ ended = {} /\ issued = Signed
  /\ faults = 0

Go(r, pc) == req' = [req EXCEPT ![r].pc = pc]
Done(r) == req' = [req EXCEPT ![r].pc = "done"]

\* A request ends: its guards go, and its entry in `connecting` with them.
Released(l, r) == IF l = r THEN Free ELSE l
MutLeave(r) ==
  /\ Done(r)
  /\ connecting' = connecting \ {r}
  /\ pocket_lock' = Released(pocket_lock, r)
  /\ state_lock' = Released(state_lock, r)
  /\ UNCHANGED file_lock

Leave(r) ==
  /\ Done(r)
  /\ connecting' = connecting \ {r}
  /\ pocket_lock' = Released(pocket_lock, r)
  /\ file_lock' = Released(file_lock, r)
  /\ state_lock' = Released(state_lock, r)

not_someone_elses(who) ==
  active # NoCircuit => who \in {Root, active.owner}

\* What each command does first.
Begins(c) ==
  CASE c \in Connects -> "owned"
    [] c \in {"down", "shutdown"} -> "stop"
    [] c = "refill" -> "may"
    [] c = "cliget" -> "file"
    [] OTHER -> "pocket"

\* A command arrives, and is not refused for want of rights.  Who asks for
\* passes, and whether a single hop may have one operator, is never read.
Ask(r) ==
  /\ running /\ req[r].pc = "idle"
  /\ \E c \in Commands[r], u \in Accounts, al \in BOOLEAN :
       /\ req' = [req EXCEPT ![r] = [Idle EXCEPT !.cmd = c, !.who = u, !.owner = u, !.allow = al,
                                             !.pc = Begins(c)]]
       /\ c \in {"shutdown", "get", "join", "refill", "cliget"} => u = Root
       /\ al => c = "privado"
  /\ UNCHANGED <<service, connecting, locks, active, build, machine, files,
                 spent, hist, faults>>

\* `connect`: whose circuit is up is looked at, the nodes are picked without a
\* lock, and from here on the circuit is asked for.
ConnectPlan(r) ==
  LET privado == req[r].cmd = "privado"
      plans == plan_connect(privado, req[r].allow)
  IN
  /\ req[r].pc = "owned" /\ req[r].cmd \in {"rapido", "privado"}
  /\ req[r].who = Root \/ state_lock = Free
  /\ \/ /\ not_someone_elses(req[r].who)
        /\ \E p \in plans.picks :
             req' = [req EXCEPT ![r].pc = "pocket", ![r].entry = p.entry,
                       ![r].exit = p.exit, ![r].pool = plans.pool,
                       ![r].entries = IF privado THEN plans.entries ELSE {}]
        /\ connecting' = connecting \cup {r}
     \/ /\ ~not_someone_elses(req[r].who) \/ plans.picks = {}
        /\ Done(r) /\ UNCHANGED connecting
  /\ UNCHANGED <<service, locks, active, build, machine, files, spent, hist,
                 faults>>

\* `new_identity`: nothing up, nothing to rotate; otherwise asked for, in the
\* name of the circuit's owner.
RotateAsk(r) ==
  /\ req[r].pc = "owned" /\ req[r].cmd = "rotate"
  /\ state_lock = Free
  /\ IF active = NoCircuit
     THEN Done(r) /\ UNCHANGED connecting
     ELSE /\ req' = [req EXCEPT ![r].pc = "pocket", ![r].owner = active.owner]
          /\ connecting' = connecting \cup {r}
  /\ UNCHANGED <<service, locks, active, build, machine, files, spent, hist,
                 faults>>

LockPocket(r) ==
  /\ req[r].pc = "pocket" /\ pocket_lock = Free
  /\ pocket_lock' = r /\ Go(r, "file")
  /\ UNCHANGED <<service, connecting, file_lock, state_lock, active, build,
                 machine, files, spent, hist, faults>>

LockFile(r) ==
  /\ req[r].pc = "file" /\ file_lock = Free
  /\ file_lock' = r /\ Go(r, "state")
  /\ UNCHANGED <<service, connecting, pocket_lock, state_lock, active, build,
                 machine, files, spent, hist, faults>>
-----------------------------------------------------------------------------
(* Building a circuit.                                                       *)

\* What is known of the build: the circuit it replaces, whether the machine
\* was blocked already, the wallet and the invites it works on, the pass each
\* hop's tunnel will show, and whether it failed.
Started(r, old, e, x) ==
  [old |-> old, was_held |-> FALSE, entry |-> e, exit |-> x,
   wallet |-> wallet, kept |-> kept, first |-> NoPass, behind |-> NoPass,
   failed |-> FALSE]

Tear == [build EXCEPT !.failed = TRUE]

MutLockState(r) ==
  LET q == req[r]
      picks == IF q.cmd # "rotate" THEN {[entry |-> q.entry, exit |-> q.exit]}
               ELSE IF active = NoCircuit THEN {} ELSE choose_rotation(active)
  IN
  /\ q.pc = "state" /\ q.cmd \in {"rapido", "privado", "rotate"}
  /\ state_lock = Free
  /\ \/ /\ ~stopping /\ ~q.stop
        /\ \E p \in picks : build' = Started(r, active, p.entry, p.exit)
        /\ state_lock' = r /\ active' = NoCircuit /\ Go(r, "hold")
        /\ UNCHANGED <<connecting, pocket_lock, file_lock>>
     \/ /\ stopping \/ q.stop \/ picks = {}
        /\ Leave(r) /\ UNCHANGED <<active, build>>
  /\ UNCHANGED <<service, machine, files, spent, hist, faults>>

\* Under all three locks: not while the service stops, not when stopped by
\* `down`, not over another account's circuit.
LockState(r) ==
  LET q == req[r]
      picks == IF q.cmd # "rotate" THEN {[entry |-> q.entry, exit |-> q.exit]}
               ELSE IF active = NoCircuit THEN {} ELSE choose_rotation(active)
  IN
  /\ q.pc = "state" /\ q.cmd \in {"rapido", "privado", "rotate"}
  /\ state_lock = Free
  /\ \/ /\ ~stopping /\ ~q.stop /\ not_someone_elses(q.who)
        /\ \E p \in picks : build' = Started(r, active, p.entry, p.exit)
        /\ state_lock' = r /\ active' = NoCircuit /\ Go(r, "hold")
        /\ UNCHANGED <<connecting, pocket_lock, file_lock>>
     \/ /\ stopping \/ q.stop \/ ~not_someone_elses(q.who) \/ picks = {}
        /\ Leave(r) /\ UNCHANGED <<active, build>>
  /\ UNCHANGED <<service, machine, files, spent, hist, faults>>

\* The key, the pocket or the wallet cannot be read, or the hold is refused:
\* the old circuit is still up, as it was.
Untouched(r) ==
  /\ req[r].pc = "hold" /\ Fault
  /\ active' = build.old /\ build' = NoBuild /\ Leave(r)
  /\ UNCHANGED <<service, machine, files, spent, hist>>

mark_used(k, used) ==
  [n \in Nodes |-> IF k[n] # NoPass /\ k[n].pass \in used
                   THEN [k[n] EXCEPT !.used = TRUE, !.old = FALSE] ELSE k[n]]

spec_passes(c) == {c.first, c.behind} \ {NoPass}

MutHold(r) ==
  /\ req[r].pc = "hold"
  /\ IF build.old # NoCircuit
     THEN /\ ks' = "hold" /\ plan' = 0
          /\ build' = [build EXCEPT !.kept = mark_used(@, spec_passes(build.old))]
     ELSE ks' = (IF ks = "open" THEN "open" ELSE "hold") /\ UNCHANGED <<build, plan>>
  /\ Go(r, "first") /\ NoFault
  /\ UNCHANGED <<service, connecting, locks, active, files, spent, hist>>

\* The machine is held from before the old circuit comes down; a machine that
\* was blocked already is held the same way; an open one is left open.
Hold(r) ==
  /\ req[r].pc = "hold"
  /\ IF build.old # NoCircuit
     THEN /\ ks' = "hold" /\ plan' = 0
          /\ build' = [build EXCEPT !.kept = mark_used(@, spec_passes(build.old))]
     ELSE /\ ks' = IF ks = "open" THEN "open" ELSE "hold"
          /\ build' = [build EXCEPT !.was_held = ks # "open"]
          /\ UNCHANGED plan
  /\ Go(r, "first") /\ NoFault
  /\ UNCHANGED <<service, connecting, locks, active, files, spent, hist>>

\* What can come of redeeming a pass at its node: nothing arrives; the node
\* is asked and answers 5xx, or its answer is lost or not waited for, having
\* taken the pass or not; it refuses it (one it has already, say); it takes
\* it and says so.
Outcomes(p, stopped) ==
  {"unsent", "unanswered"}
  \cup (IF p \in spent THEN {} ELSE {"unheard"})
  \cup (IF stopped THEN {} ELSE {"refused"})
  \cup (IF stopped \/ p \in spent THEN {} ELSE {"taken"})

Redeem(p, way, how) ==
  /\ sent' = IF how = "unsent" THEN sent ELSE sent \cup {<<p, way>>}
  /\ spent' = IF how \in {"taken", "unheard", "refused"} THEN spent \cup {p} ELSE spent

\* A pass that was refused, or won an invite, is gone from the wallet; any
\* other failure puts it back.
MutAfter(w, p, how) == IF how \in {"unsent"} THEN w ELSE w \ {p}

after(w, p, how) == IF how \in {"taken", "refused"} THEN w \ {p} ELSE w

\* pocket.replace: an invite won behind an entry never takes the place of one
\* won from this address.
replace(k, p, way) ==
  LET n == PassNode[p]
  IN  IF way = "behind" /\ direct_pass(k, n) THEN k
      ELSE [k EXCEPT ![n] = [pass |-> p, way |-> way, used |-> FALSE, old |-> FALSE]]

\* A first hop that admits with a pass: the key of the last one when it was
\* not used yet, or when there is no pass or the next is not taken; a key won
\* behind an entry never.
first_hop_pass(r, first) ==
  LET b == build
      last == direct_pass(b.kept, first)
      mine == {p \in b.wallet : PassNode[p] = first}
      Last(c) == /\ Go(r, "behind")
                 /\ build' = [c EXCEPT !.first = b.kept[first].pass]
      Fails(c) == Go(r, "save") /\ build' = [c EXCEPT !.failed = TRUE]
  IN
  \/ /\ fresh(b.kept, first)
     /\ Last(b) /\ UNCHANGED <<sent, spent>>
  \/ /\ ~fresh(b.kept, first) /\ mine = {}
     /\ IF last THEN Last(b) ELSE Fails(b)
     /\ UNCHANGED <<sent, spent>>
  \/ /\ ~fresh(b.kept, first)
     /\ \E p \in mine : \E how \in Outcomes(p, req[r].stop) :
          LET c == [b EXCEPT !.wallet = after(@, p, how)] IN
          /\ Redeem(p, "direct", how)
          /\ IF how = "taken"
             THEN /\ Go(r, "behind")
                  /\ build' = [c EXCEPT !.first = p, !.kept = replace(@, p, "direct")]
             ELSE IF last /\ ~req[r].stop THEN Last(c) ELSE Fails(c)

\* The first hop is asked from this address: a session, or a pass; one
\* admitted by hand is not asked.  Before anything is asked, what the exit of
\* two hops needs is looked at.
PrepareFirst(r) ==
  LET b == build
      first == IF b.entry = NoNode THEN b.exit ELSE b.entry
      ready == \/ b.entry = NoNode
               \/ b.exit \notin PassNodes \/ count_for(b.wallet, b.exit) > 0
      Fails == Go(r, "save") /\ build' = Tear
      Ready == Go(r, "behind") /\ UNCHANGED build
  IN
  /\ req[r].pc = "first"
  /\ \/ ~ready /\ Fails /\ UNCHANGED <<sent, spent>>
     \/ ready /\ first \in HandNodes /\ Ready /\ UNCHANGED <<sent, spent>>
     \/ /\ ready /\ first \notin HandNodes \cup PassNodes
        /\ Fails \/ (~req[r].stop /\ Ready)
        /\ UNCHANGED <<sent, spent>>
     \/ ready /\ first \in PassNodes /\ first_hop_pass(r, first)
  /\ UNCHANGED <<service, connecting, locks, active, machine, files, shown,
                 token_sent, protect, ended, issued, faults>>

\* The hold for the requests, or the tunnel to ask through, fails.
PrepareFails(r) ==
  /\ req[r].pc \in {"first", "behind"} /\ Fault
  /\ build' = Tear /\ Go(r, "save")
  /\ UNCHANGED <<service, connecting, locks, active, machine, files, spent,
                 hist>>

Direct(c) == {<<p, "direct">> : p \in {c.first} \ {NoPass}}
Behind(c) == {<<p, "behind">> : p \in {c.behind} \ {NoPass}}

\* The exit is asked through the entry's tunnel, with the machine held to
\* just that, even one that was open.
admit_behind(r) ==
  LET b == build
      Fails(c) == build' = [c EXCEPT !.failed = TRUE]
  IN
  /\ ks' = "hold" /\ shown' = shown \cup Direct(b) /\ Go(r, "save")
  /\ \/ /\ b.exit \notin PassNodes
        /\ Fails(b) \/ (~req[r].stop /\ UNCHANGED build)
        /\ UNCHANGED <<sent, spent>>
     \/ \E p \in {q \in b.wallet : PassNode[q] = b.exit} :
        \E how \in Outcomes(p, req[r].stop) :
          LET c == [b EXCEPT !.wallet = after(@, p, how)] IN
          /\ Redeem(p, "behind", how)
          /\ IF how = "taken"
             THEN build' = [c EXCEPT !.behind = p, !.kept = replace(@, p, "behind")]
             ELSE Fails(c)

\* An only hop has been asked already; an exit admitted by hand is not asked.
PrepareBehind(r) ==
  /\ req[r].pc = "behind"
  /\ IF build.entry # NoNode /\ build.exit \notin HandNodes
     THEN admit_behind(r)
     ELSE Go(r, "save") /\ UNCHANGED <<build, ks, sent, spent, shown>>
  /\ UNCHANGED <<service, connecting, locks, active, plan, files, token_sent,
                 protect, ended, issued, faults>>

\* Written whatever happened; one that cannot be written is only noted.  A
\* circuit stopped by now is not brought up.
SaveWallet(r) ==
  /\ req[r].pc = "save"
  /\ (wallet' = build.wallet /\ NoFault) \/ (UNCHANGED wallet /\ Fault)
  /\ IF build.failed \/ req[r].stop
     THEN build' = Tear /\ Go(r, "finish")
     ELSE UNCHANGED build /\ Go(r, "route")
  /\ UNCHANGED <<service, connecting, locks, active, machine, kept, spent,
                 hist>>

\* Circuit::up, as far as the routes: what an earlier connection left is
\* reverted, the outer tunnel runs, the plan is applied.
Route(r) ==
  /\ req[r].pc = "route"
  /\ \/ /\ plan' = hops(build) /\ Go(r, "arm") /\ UNCHANGED build /\ NoFault
     \/ plan' = 0 /\ Go(r, "finish") /\ build' = Tear /\ Fault
  /\ shown' = IF hops(build) = 2 THEN shown \cup Direct(build) ELSE shown
  /\ UNCHANGED <<service, connecting, locks, active, ks, files, spent, sent,
                 token_sent, protect, ended, issued>>

\* ... the kill switch in place of whatever is armed, and only then the inner
\* tunnel.  One that will not arm undoes the circuit.
Arm(r) ==
  /\ req[r].pc = "arm"
  /\ \/ /\ ks' = "armed" /\ UNCHANGED <<plan, build>> /\ NoFault
        /\ shown' = shown \cup Direct(build) \cup Behind(build)
     \/ /\ plan' = 0 /\ build' = Tear /\ Fault
        /\ UNCHANGED <<ks, shown>>
  /\ Go(r, "finish")
  /\ UNCHANGED <<service, connecting, locks, active, files, spent, sent,
                 token_sent, protect, ended, issued>>

\* What the circuit is made of from now on: as it was asked for, or as the one
\* it replaces, for the same owner.
Rotated(r) ==
  LET q == IF req[r].cmd = "rotate" THEN build.old ELSE req[r] IN
  [owner |-> q.owner, entry |-> build.entry, exit |-> build.exit,
   first |-> build.first, behind |-> build.behind, entries |-> q.entries,
   pool |-> q.pool, allow |-> q.allow, by |-> r]

\* The pocket is written; a first connection that failed leaves the machine
\* as it found it, a replacement leaves it held.
Finish(r) ==
  LET b == build
      opens == b.failed /\ b.old = NoCircuit /\ ~b.was_held
      won == IF b.failed THEN b.kept ELSE mark_used(b.kept, spec_passes(b))
  IN
  /\ req[r].pc = "finish"
  /\ \/ kept' = won /\ ks' = (IF opens THEN "open" ELSE ks) /\ NoFault
     \/ kept' = kept /\ ks' = (IF opens THEN "open" ELSE ks) /\ Fault
     \/ opens /\ kept' = won /\ ks' = ks /\ Fault
  /\ active' = IF b.failed THEN NoCircuit ELSE Rotated(r)
  /\ protect' = (protect \/ ~b.failed)
  /\ build' = NoBuild /\ Leave(r)
  /\ UNCHANGED <<service, plan, wallet, spent, sent, shown, token_sent, ended,
                 issued>>
-----------------------------------------------------------------------------
(* Disconnecting.                                                            *)

\* Circuits asked for and not built yet are stopped first, the caller's own
\* or, for root, all.
Stoppable(who) == {c \in connecting : who = Root \/ req[c].owner = who}

MutStopConnecting(r) ==
  LET s == Stoppable(req[r].who) IN
  /\ req[r].pc = "stop"
  /\ stopping' = (stopping \/ req[r].cmd = "shutdown")
  /\ req' = [c \in Reqs |->
       IF c = r THEN [req[r] EXCEPT !.pc = "down", !.stopped = s]
       ELSE IF c \in s /\ c = state_lock THEN [req[c] EXCEPT !.stop = TRUE] ELSE req[c]]
  /\ UNCHANGED <<running, connecting, locks, active, build, machine, files,
                 spent, hist, faults>>

StopConnecting(r) ==
  LET s == Stoppable(req[r].who) IN
  /\ req[r].pc = "stop"
  /\ stopping' = (stopping \/ req[r].cmd = "shutdown")
  /\ req' = [c \in Reqs |->
       IF c = r THEN [req[r] EXCEPT !.pc = "down", !.stopped = s]
       ELSE IF c \in s THEN [req[c] EXCEPT !.stop = TRUE] ELSE req[c]]
  /\ UNCHANGED <<running, connecting, locks, active, build, machine, files,
                 spent, hist, faults>>

\* Then, when nobody is building, the circuit is taken down: the kill switch,
\* the routes, the tunnels.  With none up, nothing is left armed either.
Down(r) ==
  /\ req[r].pc = "down" /\ state_lock = Free
  /\ \/ /\ ~not_someone_elses(req[r].who)
        /\ Done(r) /\ NoFault /\ UNCHANGED <<active, machine, protect, ended>>
     \/ /\ not_someone_elses(req[r].who)
        /\ (ks' = "open" /\ NoFault) \/ (ks' = ks /\ Fault)
        /\ plan' = 0 /\ active' = NoCircuit /\ protect' = FALSE
        /\ ended' = ended \cup req[r].stopped
        /\ req' = [req EXCEPT ![r].pc = IF active = NoCircuit THEN "done" ELSE "note",
                              ![r].used = IF active = NoCircuit THEN {}
                                          ELSE spec_passes(active)]
  /\ UNCHANGED <<service, connecting, locks, build, files, spent, sent, shown,
                 token_sent, issued>>

\* The use of a pass's key is noted with the state free, and not at all when
\* the lock file is not free within a second.
NoteUsed(r) ==
  /\ req[r].pc = "note"
  /\ \/ file_lock = Free /\ kept' = mark_used(kept, req[r].used)
     \/ UNCHANGED kept
  /\ Done(r)
  /\ UNCHANGED <<service, connecting, locks, active, build, machine, wallet,
                 spent, hist, faults>>
-----------------------------------------------------------------------------
(* Passes: asked of the issuer with the account token, redeemed by `join`.   *)

HopsUp == IF active = NoCircuit THEN 0 ELSE hops(active)

MutCheckHops(r) ==
  /\ req[r].pc = "state" /\ req[r].cmd \in {"get", "join", "cliget"}
  /\ state_lock = Free
  /\ IF req[r].cmd = "cliget" /\ plan = 2
     THEN Leave(r)
     ELSE Go(r, "ask") /\ UNCHANGED <<connecting, locks>>
  /\ UNCHANGED <<service, active, build, machine, files, spent, hist, faults>>

\* Under the pocket's locks: no token request and no joining through two
\* hops.  The command line has the lock file only, and looks at the network
\* plan too.
CheckHops(r) ==
  /\ req[r].pc = "state" /\ req[r].cmd \in {"get", "join", "cliget"}
  /\ state_lock = Free
  /\ IF HopsUp = 2 \/ (req[r].cmd = "cliget" /\ plan = 2)
     THEN Leave(r)
     ELSE Go(r, "ask") /\ UNCHANGED <<connecting, locks>>
  /\ UNCHANGED <<service, active, build, machine, files, spent, hist, faults>>

\* A top-up may go out: a one-hop circuit is up, and none is being changed.
refill_may_go == state_lock = Free /\ HopsUp = 1

\* Asked when it begins, and again once the locks are held.
RefillMay(r) ==
  /\ req[r].cmd = "refill" /\ req[r].pc \in {"may", "state"}
  /\ IF refill_may_go
     THEN /\ Go(r, IF req[r].pc = "may" THEN "pocket" ELSE "ask")
          /\ UNCHANGED <<connecting, locks>>
     ELSE Leave(r)
  /\ UNCHANGED <<service, active, build, machine, files, spent, hist, faults>>

\* The token leaves the machine; a top-up looks once more before it does.
SendToken(r) ==
  /\ req[r].pc = "ask" /\ req[r].cmd \in {"get", "cliget", "refill"}
  /\ IF req[r].cmd = "refill" /\ ~refill_may_go
     THEN Leave(r) /\ UNCHANGED token_sent
     ELSE /\ Go(r, "answer") /\ UNCHANGED <<connecting, locks>>
          /\ token_sent' = token_sent \cup
               {<<req[r].cmd, IF build # NoBuild THEN hops(build) ELSE HopsUp>>}
  /\ UNCHANGED <<service, active, build, machine, files, spent, sent, shown,
                 protect, ended, issued, faults>>

\* Some of the passes asked for come, or none, and are written down; when
\* that fails they are lost.
GotPasses(r) ==
  /\ req[r].pc = "answer"
  /\ \/ /\ \E new \in SUBSET (Passes \ issued) :
             wallet' = wallet \cup new /\ issued' = issued \cup new
        /\ NoFault
     \/ UNCHANGED <<wallet, issued>> /\ Fault
  /\ Leave(r)
  /\ UNCHANGED <<service, active, build, machine, kept, spent, sent, shown,
                 token_sent, protect, ended>>

\* `join` redeems a pass from this address.  The invite is written first: when
\* that fails, the wallet is not written either.
Join(r) ==
  /\ req[r].pc = "ask" /\ req[r].cmd = "join"
  /\ \/ /\ wallet = {} /\ NoFault /\ UNCHANGED <<files, sent, spent>>
     \/ \E p \in wallet : \E how \in Outcomes(p, FALSE) :
          /\ Redeem(p, "direct", how)
          /\ \/ /\ kept' = (IF how = "taken" THEN replace(kept, p, "direct") ELSE kept)
                /\ wallet' = after(wallet, p, how) /\ NoFault
             \/ UNCHANGED files /\ Fault
  /\ Leave(r)
  /\ UNCHANGED <<service, active, build, machine, shown, token_sent, protect,
                 ended, issued>>

\* The lease of a key not used for a while is not counted on any more.
Age(n) ==
  /\ kept[n] # NoPass /\ ~kept[n].old
  /\ file_lock = Free
  /\ kept' = [kept EXCEPT ![n].old = TRUE]
  /\ UNCHANGED <<service, req, connecting, locks, active, build, machine,
                 wallet, spent, hist, faults>>
-----------------------------------------------------------------------------
(* The service ends, by a crash or after `shutdown`, and starts again: the   *)
(* kill switch, the plan and the files are as they were, the rest is gone.   *)

Mine(r) == req[r].cmd # "cliget" /\ req[r].pc # "idle"

Gone ==
  /\ running' = FALSE
  /\ req' = [r \in Reqs |-> IF Mine(r) THEN [Idle EXCEPT !.pc = "done"] ELSE req[r]]
  /\ connecting' = {} /\ active' = NoCircuit /\ build' = NoBuild
  /\ pocket_lock' = Free /\ state_lock' = Free
  /\ file_lock' = IF file_lock # Free /\ Mine(file_lock) THEN Free ELSE file_lock

Crash ==
  /\ running /\ Fault
  /\ Gone /\ stopping' = FALSE
  /\ UNCHANGED <<machine, files, spent, hist>>

Exit(r) ==
  /\ running /\ req[r].cmd = "shutdown" /\ req[r].pc = "done"
  /\ Gone /\ UNCHANGED <<stopping, machine, files, spent, hist, faults>>

Start ==
  /\ ~running /\ running' = TRUE /\ stopping' = FALSE
  /\ UNCHANGED <<req, connecting, locks, active, build, machine, files, spent,
                 hist, faults>>

Work(r) ==
  \/ ConnectPlan(r) \/ RotateAsk(r) \/ LockPocket(r) \/ LockFile(r)
  \/ LockState(r) \/ Untouched(r) \/ Hold(r) \/ PrepareFirst(r)
  \/ PrepareFails(r) \/ PrepareBehind(r) \/ SaveWallet(r) \/ Route(r)
  \/ Arm(r) \/ Finish(r) \/ StopConnecting(r) \/ Down(r) \/ NoteUsed(r)
  \/ CheckHops(r) \/ RefillMay(r) \/ SendToken(r) \/ GotPasses(r) \/ Join(r)

Next ==
  \/ \E r \in Reqs : Ask(r) \/ Work(r) \/ Exit(r)
  \/ \E n \in Nodes : Age(n)
  \/ Crash \/ Start

Spec == Init /\ [][Next]_vars
-----------------------------------------------------------------------------
TypeOK ==
  /\ running \in BOOLEAN /\ stopping \in BOOLEAN
  /\ connecting \subseteq Reqs
  /\ {pocket_lock, file_lock, state_lock} \subseteq Reqs \cup {Free}
  /\ build # NoBuild <=> state_lock # Free
  /\ ks \in {"open", "hold", "armed"} /\ plan \in 0..2
  /\ wallet \subseteq Passes /\ kept \in [Nodes -> Binding \cup {NoPass}]

\* Between a circuit that came up and a `down`, whatever fails on the way and
\* whoever asks, the machine is never open: a rotation, a reconnect, a failed
\* build and a crash leave the kill switch armed or held.
ProtectedUntilDown == protect => ks # "open"

\* A circuit asked for before a `down` that may stop it is not up once that
\* `down` is answered.
DownIsFinal == active # NoCircuit => active.by \notin ended

\* Another account than the owner, not being root, never ends or replaces a
\* circuit; a crash of the service may.
OwnersCircuitKept ==
  [][\A r \in Reqs :
       /\ active # NoCircuit /\ active # active' /\ running'
       /\ req[r].pc \in {"state", "down"} /\ req'[r].pc # req[r].pc
       => req[r].who \in {Root, active.owner}]_vars

\* No request with the account token leaves through two hops, or while they
\* are being built; a top-up leaves through one hop only.
TokenNotThroughTwoHops ==
  \A t \in token_sent : t[2] # 2 /\ (t[1] = "refill" => t[2] = 1)

\* A tunnel shows a pass's key only the way the pass was redeemed: a key a
\* node saw arrive through an entry is never shown from this address, nor one
\* redeemed from here behind an entry.
TunnelKeysUnlinked ==
  \A p \in Passes : ~({<<p, "direct">>, <<p, "behind">>} \subseteq shown)

\* A pass that was written down is in the wallet, in the hands of the build
\* that took it, or its node has taken or refused it.
NoPassLost ==
  \A p \in issued : p \in wallet \cup spent

\* "never a key it could have seen from the client's own address": a pass
\* sent to its node from this address is never sent to it behind an entry.
NeverSentBothWays ==
  \A p \in Passes : ~({<<p, "direct">>, <<p, "behind">>} \subseteq sent)

\* The lock a request waits for, if it is not free.
Waits(r) ==
  CASE req[r].pc = "pocket" -> pocket_lock # Free
    [] req[r].pc = "file" -> file_lock # Free
    [] req[r].pc \in {"state", "down"} -> state_lock # Free
    [] req[r].pc = "owned" ->
         state_lock # Free /\ (req[r].cmd = "rotate" \/ req[r].who # Root)
    [] OTHER -> FALSE

\* Of the requests that are not answered yet, one can always go on: no two
\* wait for each other's locks, and no refusal or failure keeps one.
NobodyStuck ==
  LET busy == {r \in Reqs : req[r].pc \notin {"idle", "done"}}
  IN  busy # {} => \E r \in busy : ~Waits(r)

\* The machine stays as protected as it was asked to be: see each part.
ProtectedAsAsked == ProtectedUntilDown /\ DownIsFinal

\* Nothing this machine sends ties its two hops, or its account, together.
NothingLinked == TokenNotThroughTwoHops /\ TunnelKeysUnlinked
-----------------------------------------------------------------------------
(* What the properties rest on, and every step keeps.                        *)

\* Where a request is from when it holds the state, the lock file, the pocket.
Building  == {"hold", "first", "behind", "save", "route", "arm", "finish"}
HasFile   == Building \cup {"state", "ask", "answer"}
HasPocket == HasFile \cup {"file"}
Pcs == HasPocket \cup {"idle", "owned", "stop", "may", "pocket", "down", "note", "done"}

Request ==
  [pc : Pcs, cmd : Cmds \cup {"none"}, who : Accounts, owner : Accounts,
   entry : Entries \cup {NoNode}, exit : Exits \cup {NoNode},
   entries : SUBSET Entries, pool : SUBSET Exits, allow : BOOLEAN,
   stop : BOOLEAN, stopped : SUBSET Reqs, used : SUBSET Passes]
Circuit ==
  [owner : Accounts, entry : Entries \cup {NoNode}, exit : Exits \cup {NoNode},
   first : Passes \cup {NoPass}, behind : Passes \cup {NoPass},
   entries : SUBSET Entries, pool : SUBSET Exits, allow : BOOLEAN, by : Reqs]
Pocket == [Nodes -> Binding \cup {NoPass}]
Build ==
  [old : Circuit \cup {NoCircuit}, was_held : BOOLEAN,
   entry : Entries \cup {NoNode}, exit : Exits \cup {NoNode},
   wallet : SUBSET Passes, kept : Pocket, first : Passes \cup {NoPass},
   behind : Passes \cup {NoPass}, failed : BOOLEAN]

Typed ==
  /\ req \in [Reqs -> Request] /\ connecting \subseteq Reqs
  /\ active \in Circuit \cup {NoCircuit} /\ build \in Build \cup {NoBuild}
  /\ wallet \subseteq Passes /\ kept \in Pocket

\* The locks are held exactly where the request's place says, a build is the
\* state holder's, and only requests for a circuit build or can be stopped.
Locking ==
  /\ {pocket_lock, file_lock, state_lock} \subseteq Reqs \cup {Free}
  /\ \A r \in Reqs : req[r].pc \in Building <=> state_lock = r
  /\ \A r \in Reqs : req[r].pc \in HasFile <=> file_lock = r
  /\ \A r \in Reqs : pocket_lock = r => req[r].pc \in HasPocket
  /\ \A r \in Reqs : r \in connecting \/ req[r].pc \in Building =>
                       req[r].cmd \in Connects /\ req[r].pc # "idle"
  /\ \A r \in Reqs : req[r].pc = "stop" => req[r].cmd \in {"down", "shutdown"}
  /\ state_lock = Free => build = NoBuild
  /\ state_lock # Free => /\ build \in Build
                          /\ req[state_lock].cmd = "rotate" => build.old \in Circuit

\* The wallet a build works on holds every pass that is not used up.
HandsCovered ==
  /\ NoPassLost
  /\ state_lock # Free => issued \subseteq build.wallet \cup spent

\* Whoever may send the token holds the lock file, since a moment at which no
\* two hops were up.
AskedSafely ==
  /\ TokenNotThroughTwoHops
  /\ \A r \in Reqs : req[r].pc = "ask" => HopsUp # 2

\* The ways a pass was won or has been shown, and whether a build may show it.
WonIn(k, p, way) == \E n \in Nodes : k[n] # NoPass /\ k[n].pass = p /\ k[n].way = way
Tied(p, way) ==
  \/ <<p, way>> \in shown
  \/ WonIn(kept, p, way)
  \/ state_lock # Free /\ WonIn(build.kept, p, way)
  \/ state_lock # Free /\ p # NoPass /\ p = (IF way = "direct" THEN build.first ELSE build.behind)
\* A pass is won once, so one way only.
WonOneWay ==
  \A p \in Passes : /\ \A w \in Ways : Tied(p, w) => p \in spent
                    /\ ~(Tied(p, "direct") /\ Tied(p, "behind"))

\* A build that would leave the machine open if it failed found it open; one
\* that did not fail has armed the kill switch.
HeldThroughBuild ==
  /\ ProtectedUntilDown
  /\ state_lock # Free /\ protect /\ req[state_lock].pc # "hold" =>
       build.was_held \/ build.old # NoCircuit
  /\ state_lock # Free /\ req[state_lock].pc = "finish" /\ ~build.failed => ks = "armed"

\* What a `down` stopped, or is about to have stopped, is done or will not
\* be built, and no build can bring it back.
StaysEnded ==
  /\ DownIsFinal
  /\ state_lock # Free /\ build.old # NoCircuit => build.old.by \notin ended
  /\ \A r \in Reqs : req[r].pc = "down" =>
       \A c \in req[r].stopped : req[c].pc = "done" \/ (req[c].stop /\ req[c].pc # "idle")
  /\ \A c \in ended \cap Reqs :
       req[c].pc = "done" \/ (req[c].stop /\ req[c].pc \notin Building \cup {"idle"})
  /\ ended \subseteq Reqs

ClientInv ==
  /\ Typed /\ Locking /\ HandsCovered /\ AskedSafely /\ WonOneWay
  /\ HeldThroughBuild /\ StaysEnded
=============================================================================
