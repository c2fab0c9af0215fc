----------------------------- MODULE DhtLookup -----------------------------
(* A lookup over disjoint paths: the nodes known are dealt out to the paths, *)
(* each path walks toward the target on its own, and a node that answered    *)
(* one is not asked by another; a node one path cannot reach at the address  *)
(* it was given comes back to the paths that may know it at its real one.    *)
(* A node is named by its distance to the target.                            *)
EXTENDS Integers, Sequences, FiniteSets, FiniteSetsExt

CONSTANTS Peers,            \* other nodes: their distances to the target
          Paths, WIDTH, ALPHA, PER_PATH,   \* DISJOINT_PATHS, the window, requests at once, K
          Net               \* the network of a node's address

ASSUME LookupConstants == Peers \subseteq Nat /\ ALPHA \in Nat \ {0}

VARIABLES world,      \* the nodes each node names in its answer
          seeds,      \* what this node's table holds: node -> whether at its real address
          seen,       \* path -> node -> whether the path has it at its real address
          tried, dead, responded, asking,   \* per path
          phase,      \* path -> "pick", "wait", "done"
          claimed, answered,                \* Walk, shared by the paths
          late,       \* LOOKUP_BUDGET is over
          found       \* what the lookup returned

lkVars == <<world, seeds, seen, tried, dead, responded, asking, phase, claimed, answered, late, found>>
fixed == <<world, seeds>>
NotYet == {-1}

closest(set, n) == {x \in set : Cardinality({y \in set : y < x}) < n}
place(x, set) == Cardinality({y \in set : y < x})

(* lookup_paths: the closest node of each network first, then the closest of *)
(* the rest, dealt out in turn.                                              *)
first_of_net == {x \in DOMAIN seeds : \A y \in DOMAIN seeds : Net[y] = Net[x] => x <= y}
dealt(x) == IF x \in first_of_net THEN place(x, first_of_net)
            ELSE Cardinality(first_of_net) + place(x, DOMAIN seeds \ first_of_net)
group(p) == {x \in DOMAIN seeds : dealt(x) % Min({Cardinality(Paths), Cardinality(DOMAIN seeds)}) = p}

(* The table may hold a node at an address it has left. *)
LkInit ==
    /\ world \in [Peers -> {S \in SUBSET Peers : Cardinality(S) <= 1}]
    /\ seeds \in UNION {[D -> BOOLEAN] : D \in {S \in SUBSET Peers : Cardinality(S) \in 2..3}}
    /\ seen = [p \in Paths |-> [x \in group(p) |-> seeds[x]]]
    /\ tried = [p \in Paths |-> {}] /\ dead = [p \in Paths |-> {}] /\ responded = [p \in Paths |-> {}]
    /\ asking = [p \in Paths |-> {}] /\ phase = [p \in Paths |-> "pick"]
    /\ claimed = {} /\ answered = {} /\ late = FALSE /\ found = NotYet

----------------------------------------------------------------------------
(* The window: the WIDTH closest the path has seen, leaving out those it could not reach. *)
window_of(p) == closest(DOMAIN seen[p] \ dead[p], WIDTH)
picks(p) == closest({x \in window_of(p) : x \notin tried[p] \cup claimed \cup answered}, ALPHA)
elsewhere(p) == \E x \in window_of(p) : x \notin tried[p] /\ x \in claimed /\ x \notin answered

AskNext(p) ==
    /\ phase[p] = "pick" /\ ~late /\ picks(p) # {}
    /\ claimed' = claimed \cup picks(p)
    /\ tried' = [tried EXCEPT ![p] = @ \cup picks(p)]
    /\ asking' = [asking EXCEPT ![p] = picks(p)]
    /\ phase' = [phase EXCEPT ![p] = "wait"]
    /\ UNCHANGED <<fixed, seen, dead, responded, answered, late, found>>

(* Nothing to ask: the path sleeps while another asks a node of its window, else it ends. *)
EndPath(p) ==
    /\ phase[p] = "pick" /\ (late \/ (picks(p) = {} /\ ~elsewhere(p)))
    /\ phase' = [phase EXCEPT ![p] = "done"]
    /\ UNCHANGED <<fixed, seen, tried, dead, responded, asking, claimed, answered, late, found>>

named_by(ok) == UNION {world[x] : x \in ok}
also_named(had, ok, right) == [x \in DOMAIN had \cup named_by(ok) |-> IF x \in DOMAIN had THEN had[x] ELSE right]

(* A bug: a claim is for good, whether the node was reached or not. *)
MutReleased(p, ok) == claimed

(* What stays claimed once this path's requests are over. *)
released(p, ok) == claimed \ (asking[p] \ ok)

(* The requests of a round are all over: `ok` answered, the rest did not or  *)
(* were not at that address. A node named in an answer is seen at its real   *)
(* address or, if the answerer's copy is old, not; our own ID is left out.   *)
AnswersIn(p, ok, right) ==
    /\ phase[p] = "wait" /\ ok \subseteq {x \in asking[p] : seen[p][x]}
    /\ right \in BOOLEAN
    /\ dead' = [dead EXCEPT ![p] = @ \cup (asking[p] \ ok)]
    /\ claimed' = released(p, ok)
    /\ answered' = answered \cup ok
    /\ responded' = [responded EXCEPT ![p] = @ \cup ok]
    /\ seen' = [seen EXCEPT ![p] = also_named(@, ok, right)]
    /\ asking' = [asking EXCEPT ![p] = {}]
    /\ phase' = [phase EXCEPT ![p] = "pick"]
    /\ UNCHANGED <<fixed, tried, late, found>>

BudgetEnds == ~late /\ late' = TRUE /\ found = NotYet
              /\ UNCHANGED <<fixed, seen, tried, dead, responded, asking, phase, claimed, answered, found>>

(* lookup_wide: every path's own PER_PATH closest, and the WIDTH closest of all. *)
lookup_wide == UNION {closest(responded[p], PER_PATH) : p \in Paths}
               \cup closest(UNION {responded[p] : p \in Paths}, WIDTH)

LookupDone == /\ \A p \in Paths : phase[p] = "done"
              /\ found = NotYet /\ found' = lookup_wide
              /\ UNCHANGED <<fixed, seen, tried, dead, responded, asking, phase, claimed, answered, late>>

LkNext ==
    \/ \E p \in Paths : AskNext(p) \/ EndPath(p)
    \/ \E p \in Paths : \E ok \in SUBSET asking[p], right \in BOOLEAN : AnswersIn(p, ok, right)
    \/ BudgetEnds \/ LookupDone

LkSpec == LkInit /\ [][LkNext]_lkVars

----------------------------------------------------------------------------
(* No node is asked by two paths at once, and one that answered a path is    *)
(* never another's (lookup_paths: the paths share no node).                  *)
PathsDisjoint ==
    \A p, q \in Paths : p # q => (responded[p] \cup asking[p]) \cap (responded[q] \cup asking[q]) = {}

(* A path sleeps only for a node that is being asked: what is claimed has    *)
(* answered or has a request out (lookup_path's claims).                     *)
SleepsForSomeone == claimed \ answered \subseteq UNION {asking[p] : p \in Paths}

(* A lookup that was not cut short leaves out no node some path had at its   *)
(* real address, near enough, and did not try: it answered another path.     *)
NothingSkipped ==
    found # NotYet /\ ~late => \A p \in Paths : \A x \in window_of(p) : x \in tried[p] \/ x \in answered

(* The three together: disjoint paths, no sleep without end, nothing near left unasked. *)
LookupSound == PathsDisjoint /\ SleepsForSomeone /\ NothingSkipped

----------------------------------------------------------------------------
(* What it rests on: what is being asked is claimed, what answered a path is *)
(* answered, and a path ended in time only when its window held nothing more.*)
LookupTyped ==
    /\ world \in [Peers -> SUBSET Peers] /\ DOMAIN seen = Paths /\ \A p \in Paths : DOMAIN seen[p] \subseteq Peers
    /\ tried \in [Paths -> SUBSET Peers] /\ dead \in [Paths -> SUBSET Peers]
    /\ responded \in [Paths -> SUBSET Peers] /\ asking \in [Paths -> SUBSET Peers]
    /\ phase \in [Paths -> {"pick", "wait", "done"}]
ClaimsHeld ==
    \A p \in Paths : /\ asking[p] \subseteq claimed /\ responded[p] \subseteq answered
                     /\ phase[p] # "wait" => asking[p] = {}
WindowDone(p) == \A x \in window_of(p) : x \in tried[p] \/ x \in answered
EndedRightly ==
    /\ found # NotYet => \A p \in Paths : phase[p] = "done"
    /\ ~late => \A p \in Paths : phase[p] = "done" => WindowDone(p)
LookupInv == LookupTyped /\ ClaimsHeld /\ EndedRightly /\ PathsDisjoint /\ SleepsForSomeone
============================================================================
