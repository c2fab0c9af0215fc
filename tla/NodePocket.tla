----------------------------- MODULE NodePocket -----------------------------
(* The pocket: the nodes this machine is admitted on, as entries and as      *)
(* exits, and the ones it only knows from the signed list.  Lists are        *)
(* imported, nodes joined, added by hand and removed by name; meanwhile a    *)
(* circuit goes on with the invites it was asked for with, and what it wins  *)
(* with a pass is put back in the pocket.                                    *)
(*                                                                           *)
(* A list is taken as one whose signature holds: `import_signed` reads       *)
(* nothing of any other.                                                     *)
EXTENDS Naturals, SequencesExt

CONSTANTS
  NodeKeys, NodeNames,
  Lists,          \* the lists ever published: [sequence, removed, nodes, current]
  HandInvites,    \* invites operators gave out by hand
  NoInvite,
  MaxPlans        \* circuits asked for

VARIABLES
  pocket,         \* [entry, exit, known, sequence, issuer]
  pool,           \* the invites of the circuit asked for last, by key
  plans,
  withdrawn       \* history: keys the newest word on which is `removed`

pocketVars == <<pocket, pool, plans, withdrawn>>

Slots == {"entry", "exit"}
slots_for_role(role) ==
  IF role \in Slots THEN {role} ELSE Slots

\* A node as a list names it; an invite keeps whether a pass won it.
ListRecord == [key : NodeKeys, name : NodeNames, role : {"entry", "exit", "both", "none"},
           admission : {"open", "pass", "manual"}, facts : Nat]
Invites == [name : NodeNames, role : {"entry", "exit", "both", "none"},
            admission : {"open", "pass", "manual"}, facts : Nat, pass : BOOLEAN]
ASSUME PocketConstants ==
  /\ NoInvite \notin Invites /\ HandInvites \subseteq ListRecord
  /\ \A l \in Lists : l.nodes \in Seq(ListRecord) /\ l.sequence \in Nat

as_invite(r, pass) ==
  [name |-> r.name, role |-> r.role, admission |-> r.admission,
   facts |-> r.facts, pass |-> pass]

admitted(p) == {k \in NodeKeys : \E s \in Slots : p[s][k] # NoInvite}
known_keys(p) == {k \in NodeKeys : p.known[k] # NoInvite}
named(p, name) ==
  {k \in NodeKeys : \E s \in Slots : p[s][k] # NoInvite /\ p[s][k].name = name}

PocketInit ==
  /\ pocket = [entry |-> [k \in NodeKeys |-> NoInvite],
               exit |-> [k \in NodeKeys |-> NoInvite],
               known |-> [k \in NodeKeys |-> NoInvite],
               sequence |-> 0, issuer |-> 0]
  /\ pool = [k \in NodeKeys |-> NoInvite] /\ plans = 0
  /\ withdrawn = {}
-----------------------------------------------------------------------------
\* Refused, the pocket as it was, when another node has the name or the slot
\* has the node.
can_add(p, slot, k, inv) == named(p, inv.name) \subseteq {k} /\ p[slot][k] = NoInvite
MutAdd(p, slot, k, inv) ==
  IF can_add(p, slot, k, inv) THEN [p EXCEPT ![slot][k] = inv] ELSE p

add(p, slot, k, inv) ==
  IF can_add(p, slot, k, inv)
  THEN [p EXCEPT ![slot][k] = inv, !.known[k] = NoInvite] ELSE p

add_all(p, k, inv) ==
  LET a == IF "entry" \in slots_for_role(inv.role) THEN add(p, "entry", k, inv) ELSE p
  IN  IF "exit" \in slots_for_role(inv.role) THEN add(a, "exit", k, inv) ELSE a

remove_by_key(p, ks) ==
  [p EXCEPT !.entry = [k \in NodeKeys |-> IF k \in ks THEN NoInvite ELSE @[k]],
            !.exit = [k \in NodeKeys |-> IF k \in ks THEN NoInvite ELSE @[k]],
            !.known = [k \in NodeKeys |-> IF k \in ks THEN NoInvite ELSE @[k]]]

MutRefresh(p, r) ==
  LET k == r.key
      name(inv) == IF named(p, r.name) \subseteq {k} THEN r.name ELSE inv.name
      newer(inv) == [inv EXCEPT !.facts = r.facts, !.role = r.role,
                                !.admission = r.admission, !.name = name(inv)]
      slot(s) == IF p[s][k] # NoInvite /\ (r.role = "none" \/ s \in slots_for_role(r.role))
                 THEN newer(p[s][k]) ELSE NoInvite
  IN  IF p.known[k] # NoInvite THEN [p EXCEPT !.known[k] = as_invite(r, FALSE)]
      ELSE [p EXCEPT !.entry[k] = slot("entry"), !.exit[k] = slot("exit")]

\* A known record is replaced; an invite takes the list's facts, the name
\* unless another node has it, and the slots follow the role if there is one.
refresh(p, r) ==
  LET k == r.key
      name(inv) == IF named(p, r.name) \subseteq {k} THEN r.name ELSE inv.name
      newer(inv) == [inv EXCEPT !.facts = r.facts, !.role = r.role,
                                !.admission = r.admission, !.name = name(inv)]
      copy == newer(IF p.entry[k] # NoInvite THEN p.entry[k] ELSE p.exit[k])
      slot(s) == IF r.role = "none"
                 THEN IF p[s][k] = NoInvite THEN NoInvite ELSE newer(p[s][k])
                 ELSE IF s \notin slots_for_role(r.role) THEN NoInvite
                 ELSE IF p[s][k] = NoInvite THEN copy ELSE newer(p[s][k])
  IN  IF p.known[k] # NoInvite THEN [p EXCEPT !.known[k] = as_invite(r, FALSE)]
      ELSE [p EXCEPT !.entry[k] = slot("entry"), !.exit[k] = slot("exit")]

\* Written down as known, unless admitted or known already.
learn(p, r) == [p EXCEPT !.known[r.key] = as_invite(r, FALSE)]
can_learn(p, r) == r.key \notin admitted(p) \cup known_keys(p)

\* An expired list, or one older than the newest imported, is refused.
check_current(l, p) == l.current /\ l.sequence >= p.sequence

merge_record(l, newer, q, r) ==
  IF r.key \in l.removed THEN q
  ELSE IF can_learn(q, r) THEN learn(q, r)
  ELSE IF newer THEN refresh(q, r) ELSE q

merge_into(l, p) ==
  LET merge(q, r) == merge_record(l, l.sequence > p.sequence, q, r)
      merged == FoldLeft(merge, remove_by_key(p, l.removed), l.nodes)
  IN  [merged EXCEPT !.sequence = l.sequence, !.issuer = l.sequence]

\* An invite a pass won takes the place of the old one in every list it was
\* in, or goes where its role says; one that cannot is left out.
replace_invite(p, k, inv) ==
  LET q == IF k \in admitted(p)
           THEN [p EXCEPT !.entry[k] = IF @ = NoInvite THEN @ ELSE inv,
                          !.exit[k] = IF @ = NoInvite THEN @ ELSE inv]
           ELSE add_all(p, k, inv)
  IN  IF k \in admitted(q) THEN [q EXCEPT !.known[k] = NoInvite] ELSE q

joinable(p) ==
  {k \in known_keys(p) : p.known[k].admission \in {"open", "pass"}}

\* With no name, an entry that admits openly is not asked: it gives no lasting
\* lease.
join_targets(p) ==
  {k \in joinable(p) :
     ~(p.known[k].admission = "open" /\ slots_for_role(p.known[k].role) = {"entry"})}
-----------------------------------------------------------------------------
(* Each under the pocket's lock, from the file and back to it.               *)

ImportNodes(l) ==
  /\ check_current(l, pocket)
  /\ pocket' = merge_into(l, pocket)
  /\ withdrawn' = (withdrawn \ {l.nodes[i].key : i \in DOMAIN l.nodes}) \cup l.removed
  /\ UNCHANGED <<pool, plans>>

\* `nodes add`: the person's own word, whatever a list said.
AddByHand(slot, h) ==
  /\ can_add(pocket, slot, h.key, as_invite(h, FALSE))
  /\ pocket' = add(pocket, slot, h.key, as_invite(h, FALSE))
  /\ withdrawn' = withdrawn \ {h.key}
  /\ UNCHANGED <<pool, plans>>

RemoveNamed(name) ==
  LET gone == named(pocket, name)
              \cup {k \in known_keys(pocket) : pocket.known[k].name = name}
  IN
  /\ gone # {} /\ pocket' = remove_by_key(pocket, gone)
  /\ UNCHANGED <<pool, plans, withdrawn>>

\* A node of the list is asked and admits.
JoinNode(k) ==
  LET inv == [pocket.known[k] EXCEPT !.pass = @ \/ pocket.known[k].admission = "pass"]
  IN
  /\ k \in join_targets(pocket)
  /\ pocket' = IF inv.pass THEN replace_invite(pocket, k, inv) ELSE add_all(pocket, k, inv)
  /\ UNCHANGED <<pool, plans, withdrawn>>

\* The nodes a slot may be filled from: the invites of the slot, and stand-ins
\* for the known nodes that can be asked.
candidates(p, slot) ==
  [k \in NodeKeys |->
     IF p[slot][k] # NoInvite THEN p[slot][k]
     ELSE IF k \in joinable(p) /\ slot \in slots_for_role(p.known[k].role)
     THEN p.known[k] ELSE NoInvite]

\* A circuit is asked for, with no lock: it keeps these invites for as long as
\* it is up, to rotate among them.
PlanCircuit ==
  /\ plans < MaxPlans /\ plans' = plans + 1
  /\ pool' = candidates(pocket, "exit")
  /\ UNCHANGED <<pocket, withdrawn>>

as_kept(p, k, inv) ==
  LET kept == {p[s][k] : s \in {t \in Slots : p[t][k] # NoInvite /\ p[t][k].pass}}
  IN  IF inv.pass /\ kept # {} THEN (IF p.entry[k] \in kept THEN p.entry[k] ELSE p.exit[k])
      ELSE inv

\* Later it is built, or rebuilt, through one of them: a pass wins an invite,
\* which the pocket keeps.
WinInvite(k) ==
  /\ pool[k] # NoInvite /\ pool[k].admission = "pass"
  /\ pocket' = replace_invite(pocket, k, [as_kept(pocket, k, pool[k]) EXCEPT !.pass = TRUE])
  /\ UNCHANGED <<pool, plans, withdrawn>>

PocketNext ==
  \/ \E l \in Lists : ImportNodes(l)
  \/ \E s \in Slots, h \in HandInvites : AddByHand(s, h)
  \/ \E n \in NodeNames : RemoveNamed(n)
  \/ \E k \in NodeKeys : JoinNode(k) \/ WinInvite(k)
  \/ PlanCircuit

PocketSpec == PocketInit /\ [][PocketNext]_pocketVars
-----------------------------------------------------------------------------
\* What the person added by hand, or joined, stays through any import: a list
\* takes away only what it names as removed, whatever roles and names change.
ImportKeepsTheRest ==
  [][pocket' # pocket => \A l \in Lists :
       ImportNodes(l) => admitted(pocket) \ l.removed \subseteq admitted(pocket')]_pocketVars

\* No node is both admitted and merely known, whichever of the list, `join`,
\* `add` and a circuit came first.
KnownOrAdmitted == known_keys(pocket) \cap admitted(pocket) = {}

\* A node withdrawn by the newest list that speaks of it is not in the pocket,
\* unless it was added by hand since.
WithdrawnStaysOut ==
  withdrawn \cap (admitted(pocket) \cup known_keys(pocket)) = {}

\* The pocket through imports, joins, additions by hand and circuits in flight:
\* nothing of the person's is lost, and no node is kept twice over.
PocketSound == ImportKeepsTheRest /\ []KnownOrAdmitted
=============================================================================
